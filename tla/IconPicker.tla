------------------------------ MODULE IconPicker ------------------------------
(***************************************************************************)
(* The icon picker (features/subscriptions/icon-picker.tsx) in the form of *)
(* a subscription (use-subscription-form-state.ts), and what the form      *)
(* saves from the dashboard (dashboard-page.tsx).  A chosen file is read   *)
(* before it is accepted; an edited subscription's file is uploaded before *)
(* the PUT and a new one's after the POST and the refetch of the list,     *)
(* when the form is closed already and another may be open.  Every opening *)
(* is a form of its own: what a closed one goes on with reaches the server *)
(* and the page, and no later form's fields.                               *)
(***************************************************************************)
EXTENDS Naturals, Sequences, Screens

CONSTANTS
    MaxForms,      \* bound on the openings of the form
    MaxPicks,      \* bound on the files that are chosen, at most Len(Pictures)
    MaxSubmits     \* bound on the submissions

IconRows == {"r0", "r1", "r2"}    \* one subscription to edit, and places for new ones
Pictures == <<"f1", "f2">>        \* files the user chooses, one after the other
Icons == {"", "glyph", "url"} \cup {Pictures[i] : i \in 1..Len(Pictures)}

ASSUME PickerAssumption ==
    /\ MaxForms \in Nat /\ MaxPicks \in 0..Len(Pictures)
    /\ None \notin Icons \cup IconRows \cup {"new"}

VARIABLES
    pickFor,                  \* the subscription whose form is open, "new", or None
    iconValue, pickedFile,    \* the form: values.icon, iconFile
    formBusy,                 \* loading
    filePreview,              \* the picker: its popover and tabs only lead to the choices
    checking,                 \* files that the open form's picker is reading
    closings,                 \* timers that close the form
    iconSaves,                \* submissions under way
    storedIcon,               \* the server's rows
    listedIcon,               \* the rows as the page lists them
    \* history
    formNo, pickCount, submits,
    chosen,                   \* the last choice made in the form
    muddled,                  \* it was made while a file was being read
    settled,                  \* what the last save of a row is to leave in it
    madeBy,                   \* rows that each opening of the form created
    unheard                   \* those of them whose POST was served and its answer lost

formState == <<pickFor, iconValue, pickedFile>>
iconHistory == <<formNo, pickCount, submits, settled, madeBy, unheard>>
iconLists == <<storedIcon, listedIcon>>
pickerVars == <<formState, formBusy, filePreview, checking, closings, iconSaves, iconLists,
                iconHistory, chosen, muddled>>

PickerInit ==
    /\ pickFor = None /\ iconValue = "" /\ pickedFile = "" /\ formBusy = FALSE
    /\ filePreview = "" /\ checking = {} /\ closings = 0 /\ iconSaves = {}
    /\ storedIcon = [r \in IconRows |-> IF r = "r0" THEN "url" ELSE None]
    /\ listedIcon = storedIcon
    /\ formNo = 0 /\ pickCount = 0 /\ submits = 0 /\ chosen = "" /\ muddled = FALSE
    /\ settled = [r \in IconRows |-> None]
    /\ madeBy = [n \in 1..MaxForms |-> 0] /\ unheard = [n \in 1..MaxForms |-> 0]

\* The page mounts a form for a row of its list, and the effect of the opening sets the fields.
OpenIconForm(r) ==
    /\ pickFor = None /\ formNo < MaxForms
    /\ formNo' = formNo + 1
    /\ pickFor' = r
    /\ iconValue' = IF r = "new" THEN "" ELSE listedIcon[r]
    /\ chosen' = iconValue' /\ muddled' = FALSE
    /\ UNCHANGED <<pickedFile, formBusy, filePreview, checking, closings, iconSaves, iconLists,
                   pickCount, submits, settled, madeBy, unheard>>

\* The user, a step of a save or a timer closes whichever form is open: it is unmounted, and
\* what it was reading or waiting for finds no form.
Closed ==
    /\ pickFor' = None /\ iconValue' = "" /\ pickedFile' = "" /\ formBusy' = FALSE
    /\ filePreview' = "" /\ checking' = {}

CloseIconForm ==
    /\ pickFor # None /\ Closed
    /\ UNCHANGED <<closings, iconSaves, iconLists, iconHistory, chosen, muddled>>

TimerCloses ==
    /\ closings > 0 /\ closings' = closings - 1 /\ Closed
    /\ UNCHANGED <<iconSaves, iconLists, iconHistory, chosen, muddled>>

-----------------------------------------------------------------------------
Rest == UNCHANGED <<formBusy, checking, closings, iconSaves, iconLists, iconHistory>>

\* handleIconChange, handleIconFileSelected: a value clears the file and a file the value.
Bug_ChangeIcon(value) ==
    /\ iconValue' = value /\ pickedFile' = pickedFile
    /\ chosen' = value /\ muddled' = (muddled \/ checking # {})
    /\ UNCHANGED pickFor

ChangeIcon(value) ==
    /\ iconValue' = value /\ pickedFile' = ""
    /\ chosen' = value /\ muddled' = (muddled \/ checking # {})
    /\ UNCHANGED pickFor

\* An emoji, or a brand of the catalogue; the preview of a file stays.
PickGlyph ==
    /\ pickFor # None
    /\ ChangeIcon("glyph")
    /\ UNCHANGED filePreview /\ Rest

\* The cross beside an emoji.
ClearEmoji ==
    /\ pickFor # None /\ iconValue = "glyph"
    /\ ChangeIcon("")
    /\ UNCHANGED filePreview /\ Rest

\* An address that was typed, on Enter or when the field loses the focus, or a suggestion.
ApplyImageUrl ==
    /\ pickFor # None
    /\ ChangeIcon("url")
    /\ filePreview' = "" /\ Rest

RemoveFile ==
    /\ pickFor # None /\ filePreview # ""
    /\ ChangeIcon("")
    /\ filePreview' = "" /\ Rest

\* A file with an extension and within the size: its first bytes are read.
PickFile ==
    /\ pickFor # None /\ filePreview = "" /\ pickCount < MaxPicks
    /\ pickCount' = pickCount + 1
    /\ checking' = checking \cup {Pictures[pickCount + 1]}
    /\ muddled' = (muddled \/ checking # {})
    /\ UNCHANGED <<formState, formBusy, filePreview, closings, iconSaves, iconLists, formNo,
                   submits, settled, madeBy, unheard, chosen>>

\* The bytes are of another format, and the picker shows the error.
FileRefused(k) ==
    /\ checking' = checking \ {k}
    /\ UNCHANGED <<formState, formBusy, filePreview, closings, iconSaves, iconLists, iconHistory,
                   chosen, muddled>>

FileSelected(k) ==
    /\ checking' = checking \ {k}
    /\ pickedFile' = k /\ iconValue' = "" /\ filePreview' = k /\ chosen' = k
    /\ UNCHANGED <<pickFor, formBusy, closings, iconSaves, iconLists, iconHistory, muddled>>

-----------------------------------------------------------------------------
\* The button is disabled while the form is busy.
MaySubmit == pickFor # None /\ ~formBusy

\* A save that has nothing left to write waits for the list alone.
Writes(s) == s.at # "refetch" \/ s.file # ""

\* handleSubmit captures the fields.
Submit ==
    /\ MaySubmit /\ submits < MaxSubmits
    /\ submits' = submits + 1
    /\ formBusy' = TRUE
    /\ iconSaves' = iconSaves \cup
          {[n |-> submits + 1, form |-> formNo, row |-> pickFor, file |-> pickedFile, value |-> iconValue,
            at |-> IF pickedFile # "" /\ pickFor # "new" THEN "upload" ELSE "write",
            want |-> IF muddled \/ \E s \in iconSaves : s.row = pickFor /\ Writes(s) THEN None ELSE chosen]}
    /\ settled' = [r \in IconRows |-> IF r = pickFor THEN None ELSE settled[r]]
    /\ UNCHANGED <<formState, filePreview, checking, closings, iconLists, formNo, pickCount,
                   madeBy, unheard, chosen, muddled>>

SaveGoes(s, t) == iconSaves' = (iconSaves \ {s}) \cup {t}

\* What a request of the save leaves in the row when it is served: an upload the file, the
\* PUT or POST the value, and none while a new subscription's file is still to come.
IconOf(s) == IF s.at # "write" THEN s.file ELSE IF s.file # "" THEN "" ELSE s.value

\* The row that it writes: a POST adds one.
RowOf(s, r) == IF s.row = "new" THEN storedIcon[r] = None ELSE r = s.row

Served(s, r) == RowOf(s, r) /\ storedIcon' = [storedIcon EXCEPT ![r] = IconOf(s)]

\* What the row's icon is to be once the save has written all, if no other one crossed it.
Settles(s, r) ==
    settled' = [settled EXCEPT ![r] =
                   IF \E t \in iconSaves \ {s} : t.row = r /\ Writes(t) THEN None ELSE s.want]

\* The upload of an edited subscription's file writes the row at once, and the PUT repeats it.
UploadFirst(s) ==
    /\ s.at = "upload" /\ Served(s, s.row)
    /\ SaveGoes(s, [s EXCEPT !.at = "write", !.value = s.file, !.file = ""])
    /\ UNCHANGED <<formState, formBusy, filePreview, checking, closings, listedIcon, iconHistory,
                   chosen, muddled>>

\* handleFormSubmit: the PUT or the POST is answered, and the form that is open is closed.
RowIsMade(s) ==
    /\ s.at = "write"
    /\ \E r \in IconRows :
         /\ Served(s, r)
         /\ SaveGoes(s, [s EXCEPT !.at = "refetch", !.row = r])
         /\ IF s.file = "" THEN Settles(s, r) ELSE UNCHANGED settled
    /\ madeBy' = IF s.row = "new" THEN [madeBy EXCEPT ![s.form] = @ + 1] ELSE madeBy
    /\ Closed
    /\ UNCHANGED <<closings, listedIcon, formNo, pickCount, submits, unheard, chosen, muddled>>

\* The list is fetched again, or that fails unseen; a new subscription's file goes on,
\* and a save that is done closes the form again.
ListRefetched(s) ==
    /\ s.at = "refetch"
    /\ listedIcon' \in {listedIcon, storedIcon}
    /\ \/ s.file # "" /\ SaveGoes(s, [s EXCEPT !.at = "late"])
          /\ UNCHANGED <<formState, formBusy, filePreview, checking>>
       \/ s.file = "" /\ iconSaves' = iconSaves \ {s} /\ Closed
    /\ UNCHANGED <<closings, storedIcon, iconHistory, chosen, muddled>>

LateUpload(s) ==
    /\ s.at = "late" /\ Served(s, s.row) /\ Settles(s, s.row)
    /\ iconSaves' = iconSaves \ {s} /\ Closed
    /\ UNCHANGED <<closings, listedIcon, formNo, pickCount, submits, madeBy, unheard, chosen,
                   muddled>>

\* A request fails, or is served and its answer is lost: the save's own form, if it is open,
\* shows why and can be submitted again.  After the POST no form is its own any more, and
\* a timer closes the one that is open a second and a half later.
IconSaveFails(s) ==
    /\ s.at # "refetch"
    /\ \/ UNCHANGED <<storedIcon, madeBy, unheard>>
       \/ /\ \E r \in IconRows : Served(s, r)
          /\ IF s.row = "new"
             THEN /\ madeBy' = [madeBy EXCEPT ![s.form] = @ + 1]
                  /\ unheard' = [unheard EXCEPT ![s.form] = @ + 1]
             ELSE UNCHANGED <<madeBy, unheard>>
    /\ iconSaves' = iconSaves \ {s}
    /\ formBusy' = (formBusy /\ s.form # formNo)
    /\ closings' = IF s.at = "late" THEN closings + 1 ELSE closings
    /\ UNCHANGED <<formState, filePreview, checking, listedIcon, formNo, pickCount, submits,
                   settled, chosen, muddled>>

PickerNext ==
    \/ \E r \in {"new"} \cup {row \in IconRows : listedIcon[row] # None} : OpenIconForm(r)
    \/ CloseIconForm \/ TimerCloses
    \/ PickGlyph \/ ClearEmoji \/ ApplyImageUrl \/ RemoveFile \/ PickFile
    \/ \E k \in checking : FileRefused(k) \/ FileSelected(k)
    \/ Submit
    \/ \E s \in iconSaves :
          UploadFirst(s) \/ RowIsMade(s) \/ ListRefetched(s) \/ LateUpload(s) \/ IconSaveFails(s)

-----------------------------------------------------------------------------
\* What the picker's button shows, and what the form would save.
Trigger == IF filePreview # "" THEN filePreview ELSE iconValue
ToSave == IF pickedFile # "" THEN pickedFile ELSE iconValue

\* icon-picker.tsx, use-subscription-form-state.ts:198-206,287-363: a subscription gets
\* the icon that was chosen last, value or file, through the one or two requests of a save
\* that succeeded, unless the choice crossed the reading of a file (its end overrides what
\* was chosen meanwhile) or the writes of two saves of one row crossed.
SavesTheLastChoice == \A r \in IconRows : settled[r] # None => storedIcon[r] = settled[r]

\* icon-picker.tsx:308-320: the button shows what will be saved; a preview outlives its
\* file only once an emoji or a brand was picked over it (neither clears it).
TriggerAgrees ==
    pickFor # None /\ ~muddled =>
        \/ Trigger = ToSave
        \/ filePreview # "" /\ pickedFile = "" /\ chosen \in {"glyph", ""}

\* use-subscription-form-state.ts:282-371, dashboard-page.tsx:473-485: however often one form
\* is submitted it adds one subscription, and one more for each POST that was served and
\* whose answer was lost (the form stays open then, and its next submission adds another).
OneRowPerForm == \A n \in 1..MaxForms : madeBy[n] <= 1 + unheard[n]

\* The icon that is chosen last is shown, saved, and saved once.
ChosenIconIsSaved ==
    SavesTheLastChoice /\ TriggerAgrees /\ OneRowPerForm
=============================================================================
