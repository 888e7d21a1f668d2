------------------------------- MODULE McpWrites -------------------------------
(***************************************************************************)
(* The write tools of the MCP endpoint (api/mcp_tools.go) and the runner   *)
(* that executes each idempotency key once (api/mcp_idempotency.go).  An   *)
(* agent that times out calls again with the same key, while the first     *)
(* call may still run; two processes may serve it at once during a         *)
(* deployment, each with its one database connection, and either may stop. *)
(* One subscription with an uploaded icon is renewed and deleted.          *)
(***************************************************************************)
EXTENDS Naturals, FiniteSets

CONSTANTS
    Servers,      \* the processes on the one database
    McpKeys,      \* idempotency keys of the agent
    MaxCalls,     \* bound on the calls
    MaxMcpStops   \* bound on the processes that stop

McpTools == {"mark_subscription_renewed", "delete_subscription"}

VARIABLES
    subExists, renewals,   \* the subscription: its row, the periods it was renewed by
    iconFile,              \* its icon is in the asset directory
    records,               \* mcp_idempotency_keys: key, tool, response
    auditTrail,            \* audit_events: key, tool
    commits,               \* counts the transactions that wrote
    mcpCalls,              \* calls in flight
    \* history
    callsMade, mcpStops,
    mcpAnswers,            \* successful results the agent received: key, tool, response
    iconLeft               \* a process stopped between a deletion and its clean-up

mcpVars == <<subExists, renewals, iconFile, records, auditTrail, commits, mcpCalls, callsMade, mcpStops,
             mcpAnswers, iconLeft>>

mcpStored == <<subExists, renewals, records, auditTrail, commits>>

Replace(c, d) == mcpCalls' = (mcpCalls \ {c}) \cup {d}

McpInit ==
    /\ subExists = TRUE /\ iconFile = TRUE /\ renewals = 0
    /\ records = {} /\ auditTrail = {} /\ commits = 0
    /\ mcpCalls = {} /\ callsMade = 0 /\ mcpStops = 0 /\ mcpAnswers = {} /\ iconLeft = FALSE

\* The agent calls, or calls again: with its key and, should it err, with other arguments.
CallTool(s, k, tool) ==
    /\ callsMade < MaxCalls
    /\ callsMade' = callsMade + 1
    /\ mcpCalls' = mcpCalls \cup {[n |-> callsMade + 1, server |-> s, key |-> k, tool |-> tool, at |-> "sent",
                                   seen |-> 0, response |-> 0]}
    /\ UNCHANGED <<mcpStored, iconFile, mcpStops, mcpAnswers, iconLeft>>

\* The process has one connection: one of its calls is inside the transaction at a time.
Connected(c) == ~\E d \in mcpCalls : d.server = c.server /\ d.at = "open"

\* The transaction begins with the lookup of the key, which fixes what it sees.
Stored(k) == {r \in records : r.key = k}

Bug_LookupKey(c) ==
    /\ c.at = "sent" /\ Connected(c)
    /\ IF \E r \in Stored(c.key) : TRUE
       THEN \E r \in Stored(c.key) : Replace(c, [c EXCEPT !.at = "answer", !.response = r.response])
       ELSE Replace(c, [c EXCEPT !.at = "open", !.seen = commits])
    /\ UNCHANGED <<mcpStored, iconFile, callsMade, mcpStops, mcpAnswers, iconLeft>>

LookupKey(c) ==
    /\ c.at = "sent" /\ Connected(c)
    /\ IF \E r \in Stored(c.key) : r.tool = c.tool
       THEN \E r \in Stored(c.key) : Replace(c, [c EXCEPT !.at = "answer", !.response = r.response])
       ELSE IF Stored(c.key) # {}
       THEN Replace(c, [c EXCEPT !.at = "failed"])                 \* errIdempotencyMismatch
       ELSE Replace(c, [c EXCEPT !.at = "open", !.seen = commits])
    /\ UNCHANGED <<mcpStored, iconFile, callsMade, mcpStops, mcpAnswers, iconLeft>>

\* The mutation, the audit event and the record commit together.  SQLite refuses the
\* first write of a transaction whose snapshot another process has written over.
Current(c) == c.seen = commits

Mutate(c) ==
    /\ subExists
    /\ subExists' = (c.tool # "delete_subscription")
    /\ renewals' = IF c.tool = "mark_subscription_renewed" THEN renewals + 1 ELSE renewals

CommitWrite(c) ==
    /\ c.at = "open" /\ Current(c)
    /\ Mutate(c)
    /\ records' = records \cup {[key |-> c.key, tool |-> c.tool, response |-> renewals']}
    /\ auditTrail' = auditTrail \cup {[key |-> c.key, tool |-> c.tool]}
    /\ commits' = commits + 1
    /\ Replace(c, [c EXCEPT !.at = IF c.tool = "delete_subscription" THEN "cleanup" ELSE "answer",
                            !.response = renewals'])
    /\ UNCHANGED <<iconFile, callsMade, mcpStops, mcpAnswers, iconLeft>>

\* The mutation, or a statement after it, fails: the transaction is rolled back,
\* and neither the event nor the record stays.
RollBack(c) ==
    /\ c.at = "open"
    /\ Replace(c, [c EXCEPT !.at = "failed"])
    /\ UNCHANGED <<mcpStored, iconFile, callsMade, mcpStops, mcpAnswers, iconLeft>>

\* postCommit: the icon file of a deleted subscription is removed.
CleanUp(c) ==
    /\ c.at = "cleanup"
    /\ iconFile' = FALSE
    /\ Replace(c, [c EXCEPT !.at = "answer"])
    /\ UNCHANGED <<mcpStored, callsMade, mcpStops, mcpAnswers, iconLeft>>

\* The answer reaches the agent, or is lost.
AnswerCall(c) ==
    /\ c.at \in {"answer", "failed"}
    /\ mcpCalls' = mcpCalls \ {c}
    /\ mcpAnswers' \in {mcpAnswers, mcpAnswers \cup {[key |-> d.key, tool |-> d.tool, response |-> d.response] :
                                                     d \in {e \in {c} : e.at = "answer"}}}
    /\ UNCHANGED <<mcpStored, iconFile, callsMade, mcpStops, iconLeft>>

StopServer(s) ==
    /\ mcpStops < MaxMcpStops
    /\ mcpStops' = mcpStops + 1
    /\ mcpCalls' = {c \in mcpCalls : c.server # s}
    /\ iconLeft' = (iconLeft \/ \E c \in mcpCalls : c.server = s /\ c.at = "cleanup")
    /\ UNCHANGED <<mcpStored, iconFile, callsMade, mcpAnswers>>

McpNext ==
    \/ \E s \in Servers, k \in McpKeys, tool \in McpTools : CallTool(s, k, tool)
    \/ \E c \in mcpCalls : LookupKey(c) \/ CommitWrite(c) \/ RollBack(c) \/ CleanUp(c) \/ AnswerCall(c)
    \/ \E s \in Servers : StopServer(s)

-----------------------------------------------------------------------------
\* README.md:145: an agent can safely retry.  Each key is executed at most once: every
\* period the subscription was renewed by has its own record and audit event, and
\* every result that the agent gets for a key is the one of that execution, never the
\* result of a call with other arguments (runIdempotentWrite), whatever calls overlap,
\* in whichever process, and whenever one stops.
RetriesAreSafe ==
    /\ renewals = Cardinality({r \in records : r.tool = "mark_subscription_renewed"})
    /\ auditTrail = {[key |-> r.key, tool |-> r.tool] : r \in records}
    /\ mcpAnswers \subseteq records

\* The icon file is removed by the call that deleted the row and only once the row is
\* gone for good; it is left behind only by a process that stopped in between.
IconFollowsRow ==
    /\ subExists => iconFile
    /\ ~subExists /\ iconFile => iconLeft \/ \E c \in mcpCalls : c.at = "cleanup"

\* A call that is repeated adds nothing, neither to the tables nor to what follows the commit.
RetriesAddNothing ==
    RetriesAreSafe /\ IconFollowsRow
=============================================================================
