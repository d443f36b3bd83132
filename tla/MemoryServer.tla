---------------------------- MODULE MemoryServer ----------------------------
(***************************************************************************)
(* cask-api in its in-memory mode: the handlers of ApiHandlers over        *)
(* MemoryStore.  Its mutex makes each of its operations one step; between  *)
(* two operations of a handler other handlers may act.  There is no        *)
(* controller and no clock: a session is ready from its creation to its    *)
(* deletion.                                                               *)
(***************************************************************************)
EXTENDS ApiHandlers

CONSTANTS
    Sessions,          \* names of sessions
    NoName

ASSUME NoNameAssumption == NoName \notin Sessions

VARIABLES
    store,             \* the owner of each session in the map, or NoUser
    drawn              \* names that have been given out, with their owners

memoryVars == <<calls, step, store, drawn>>

MemoryTypeOK ==
    /\ calls \in [Requests -> ApiCall(Sessions, NoName)]
    /\ step \in [Requests -> Steps]
    /\ store \in [Sessions -> Users \cup {NoUser}]
    /\ drawn \in [Sessions -> Users \cup {NoUser}]

MemoryInit ==
    /\ HandlersInit
    /\ calls = [r \in Requests |-> NoCall(NoName)]
    /\ store = [s \in Sessions |-> NoUser]
    /\ drawn = [s \in Sessions |-> NoUser]

-----------------------------------------------------------------------------

Stored(s) == store[s] # NoUser

ReceiveCall(r) ==
    /\ \E u \in Users :
        \/ \E method \in {"create", "list"} : Receive(r, u, method, NoName)
        \/ \E method \in {"get", "delete"}, s \in Sessions :
                Receive(r, u, method, s)
    /\ UNCHANGED <<store, drawn>>

RefuseCall(r) == Refuse(r) /\ UNCHANGED <<store, drawn>>

\* Mistake: names are numbers given out by how many sessions there are, so
\* that a name can come a second time.  Create overwrites what carries it.
Fresh_Reused_Mutant(s) == ~Stored(s)

\* generateSessionID draws a name that was not drawn before.  Create would
\* replace a session of that name: it does not look for one.
Fresh(s) == drawn[s] = NoUser

Create(r) ==
    /\ step[r] = "create"
    /\ \E s \in Sessions :
        /\ Fresh(s)
        /\ store' = [store EXCEPT ![s] = calls[r].user]
        /\ drawn' = [drawn EXCEPT ![s] = calls[r].user]
        /\ AnswerCreated(r, s)

Get(r) ==
    LET s == calls[r].session IN
    /\ step[r] = "get"
    /\ AfterGet(r, Stored(s), store[s])
    /\ UNCHANGED <<store, drawn>>

List(r) ==
    /\ step[r] = "list"
    /\ AnswerListed(r, {s \in Sessions : store[s] = calls[r].user})
    /\ UNCHANGED <<store, drawn>>

\* A second deletion finds nothing, although its handler did: 500.
Delete(r) ==
    LET s == calls[r].session IN
    /\ step[r] = "delete"
    /\ Answer(r, IF Stored(s) THEN "deleted" ELSE "error")
    /\ store' = [store EXCEPT ![s] = NoUser]
    /\ UNCHANGED drawn

MemoryNext ==
    \E r \in Requests :
        ReceiveCall(r) \/ RefuseCall(r) \/ Create(r) \/ Get(r) \/ List(r)
            \/ Delete(r)

MemorySpec == MemoryInit /\ [][MemoryNext]_memoryVars

-----------------------------------------------------------------------------

Api == INSTANCE SessionApi WITH
    life  <- [s \in Sessions |->
                IF drawn[s] = NoUser THEN "absent"
                ELSE IF Stored(s) THEN "open" ELSE "gone"],
    owner <- drawn,
    Unreliable <- FALSE,
    Reusable <- FALSE

\* Handlers whose Get and Delete are separate critical sections keep the
\* promises of SessionApi, and no request fails unless the user's own deletion
\* of the same session came first.
ImplementsApi == Api!Spec
=============================================================================
