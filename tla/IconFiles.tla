------------------------------- MODULE IconFiles -------------------------------
(***************************************************************************)
(* Uploaded icons on the server: the icon column of a subscription and of  *)
(* a payment method (service/subscription_icon.go, subscription_crud.go,   *)
(* payment_method.go) and the files of the asset directory it names.  A    *)
(* request reads its row, writes or removes files and writes the row, each *)
(* a step of its own; the file system takes no part in a transaction.      *)
(***************************************************************************)
EXTENDS Naturals, FiniteSets

CONSTANTS
    MaxIconCalls,    \* bound on the requests, and on the files: each upload has a name of its own
    MaxIconFaults    \* bound on the statements that fail and on the stops of the server

IconOwners == {"subscription", "method"}

VARIABLES
    iconOwners,   \* the rows that exist
    iconOf,       \* their icon: 0 an emoji, a brand, an address or none; n the file of upload n
    assets,       \* the files of the asset directory
    iconCalls,    \* requests under way
    \* history
    iconCallsMade, iconFaults,
    iconsBlamed,  \* rows whose requests overlapped or were cut short between two steps
    iconsReplaced \* files that an edit of a subscription replaced

iconVars == <<iconOwners, iconOf, assets, iconCalls, iconCallsMade, iconFaults, iconsBlamed, iconsReplaced>>

\* The name holds the row and the time.
IconFile(o, n) == [owner |-> o, n |-> n]

IconsInit ==
    /\ iconOwners = IconOwners
    /\ iconOf = [o \in IconOwners |-> 0]
    /\ assets = {} /\ iconCalls = {} /\ iconCallsMade = 0 /\ iconFaults = 0
    /\ iconsBlamed = {} /\ iconsReplaced = {}

\* A request; one that edits was composed in a form, which holds the icon of the time it was opened.
\* A "rename" leaves the icon out: only payment methods are edited a field at a time.
AskIcon(o, op, icon) ==
    /\ iconCallsMade < MaxIconCalls /\ o \in iconOwners
    /\ op = "rename" => o = "method"
    /\ iconCallsMade' = iconCallsMade + 1
    /\ iconCalls' = iconCalls \cup {[n |-> iconCallsMade + 1, owner |-> o, op |-> op, icon |-> icon,
                                     at |-> "sent", seen |-> 0]}
    /\ iconsBlamed' = iconsBlamed \cup {c.owner : c \in {d \in iconCalls : d.owner = o}}
    /\ UNCHANGED <<iconOwners, iconOf, assets, iconFaults, iconsReplaced>>

IconGoes(c, at) == iconCalls' = (iconCalls \ {c}) \cup {[c EXCEPT !.at = at]}
IconEnds(c) == iconCalls' = iconCalls \ {c}

\* GetByID: a row that is gone ends the request.
ReadIconRow(c) ==
    /\ c.at = "sent"
    /\ IF c.owner \in iconOwners
       THEN iconCalls' = (iconCalls \ {c}) \cup {[c EXCEPT !.at = "read", !.seen = iconOf[c.owner]]}
       ELSE IconEnds(c)
    /\ UNCHANGED <<iconOwners, iconOf, assets, iconCallsMade, iconFaults, iconsBlamed, iconsReplaced>>

\* os.WriteFile, before the row.
WriteAsset(c) ==
    /\ c.at = "read" /\ c.op = "upload"
    /\ assets' = assets \cup {IconFile(c.owner, c.n)}
    /\ IconGoes(c, "written")
    /\ UNCHANGED <<iconOwners, iconOf, iconCallsMade, iconFaults, iconsBlamed, iconsReplaced>>

\* A subscription's upload removes the file it read before it writes the row.
ClearsFirst(c) == c.at = "written" /\ c.owner = "subscription"

\* The others remove it last: an upload, a deletion, and an edit that gave the method another icon.
Bug_Supersedes(c) == c.op \in {"upload", "delete"} \/ (c.op = "edit" /\ c.owner = "method" /\ c.seen # 0)

Supersedes(c) ==
    \/ c.op = "upload" /\ c.owner = "method"
    \/ c.op = "delete"
    \/ c.op = "edit" /\ c.owner = "method" /\ c.seen # 0 /\ c.seen # c.icon

\* removeManagedIconFile: only an icon that names a file removes one.
RemoveAsset(c) ==
    /\ ClearsFirst(c) \/ c.at = "stale"
    /\ assets' = assets \ {IconFile(c.owner, c.seen)}
    /\ IF c.at = "stale" THEN IconEnds(c) ELSE IconGoes(c, "cleared")
    /\ UNCHANGED <<iconOwners, iconOf, iconCallsMade, iconFaults, iconsBlamed, iconsReplaced>>

\* The statement that writes the row is next.
AtIconRow(c) == (c.at = "read" /\ c.op # "upload") \/ (c.at = "written" /\ ~ClearsFirst(c)) \/ c.at = "cleared"

IconAfter(c) ==
    CASE c.op = "upload" -> c.n
      [] c.op = "edit"   -> c.icon
      [] c.op = "rename" -> c.seen     \* Save writes every column as it was read

\* An UPDATE of a row that is gone changes nothing; Save inserts the row again.
WriteIconRow(c) ==
    /\ AtIconRow(c) /\ c.op # "delete"
    /\ iconOwners' = iconOwners \cup (IF c.owner = "method" /\ c.op # "upload" THEN {c.owner} ELSE {})
    /\ iconOf' = IF c.owner \in iconOwners' THEN [iconOf EXCEPT ![c.owner] = IconAfter(c)] ELSE iconOf
    /\ IF Supersedes(c) THEN IconGoes(c, "stale") ELSE IconEnds(c)
    /\ iconsReplaced' = iconsReplaced
         \cup {f \in assets : f = IconFile(c.owner, iconOf[c.owner]) /\ c.owner = "subscription" /\ c.op = "edit"}
    /\ UNCHANGED <<assets, iconCallsMade, iconFaults, iconsBlamed>>

DeleteIconRow(c) ==
    /\ AtIconRow(c) /\ c.op = "delete"
    /\ iconOwners' = iconOwners \ {c.owner}
    /\ IF Supersedes(c) THEN IconGoes(c, "stale") ELSE IconEnds(c)
    /\ UNCHANGED <<iconOf, assets, iconCallsMade, iconFaults, iconsBlamed, iconsReplaced>>

\* The statement fails: an upload takes its new file back.
IconRowFails(c) ==
    /\ AtIconRow(c) /\ iconFaults < MaxIconFaults
    /\ iconFaults' = iconFaults + 1
    /\ assets' = assets \ {f \in assets : c.op = "upload" /\ f = IconFile(c.owner, c.n)}
    /\ iconsBlamed' = IF c.at = "cleared" THEN iconsBlamed \cup {c.owner} ELSE iconsBlamed
    /\ IconEnds(c)
    /\ UNCHANGED <<iconOwners, iconOf, iconCallsMade, iconsReplaced>>

StopIconServer ==
    /\ iconFaults < MaxIconFaults /\ iconCalls # {}
    /\ iconFaults' = iconFaults + 1
    /\ iconsBlamed' = iconsBlamed \cup {c.owner : c \in {d \in iconCalls : d.at \notin {"sent", "read"}}}
    /\ iconCalls' = {}
    /\ UNCHANGED <<iconOwners, iconOf, assets, iconCallsMade, iconsReplaced>>

IconsNext ==
    \/ \E o \in IconOwners, op \in {"upload", "delete", "rename"} : AskIcon(o, op, 0)
    \/ \E o \in IconOwners : \E icon \in {0, iconOf[o]} : AskIcon(o, "edit", icon)
    \/ \E c \in iconCalls : ReadIconRow(c) \/ WriteAsset(c) \/ RemoveAsset(c) \/ WriteIconRow(c)
                            \/ DeleteIconRow(c) \/ IconRowFails(c)
    \/ StopIconServer

-----------------------------------------------------------------------------
\* subscription_icon.go:61, payment_method.go:96,108,214: the file that a row names is
\* there, whatever its owner uploads, edits, renames or deletes, one request at a time
\* and whichever statement fails: only requests of one row that overlap, a stop between
\* two steps, and an upload for a subscription whose UPDATE fails after the old file was
\* removed leave a row with a file that is gone.  Between those two steps of an upload
\* every reader of the subscription sees that too.
NamedIconExists ==
    \A o \in iconOwners \ iconsBlamed :
        \/ iconOf[o] = 0 \/ IconFile(o, iconOf[o]) \in assets
        \/ \E c \in iconCalls : c.owner = o /\ c.at = "cleared"

\* Uploads do not fill the directory: with no request of the row under way, a file
\* belongs to the icon of its row, with three exceptions: overlapping requests, a stop,
\* and an edit of a subscription (subscription_crud.go:191 writes the new icon and
\* leaves the file of the old one).
NoIconLeftBehind ==
    \A f \in assets :
        \/ f.owner \in iconsBlamed \/ f \in iconsReplaced
        \/ \E c \in iconCalls : c.owner = f.owner
        \/ f.owner \in iconOwners /\ iconOf[f.owner] = f.n

\* Rows and files agree in both directions.
IconsFollowRows ==
    NamedIconExists /\ NoIconLeftBehind
=============================================================================
