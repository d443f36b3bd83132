----------------------------- MODULE ApiHandlers -----------------------------
(***************************************************************************)
(* The handlers of cask-api (internal/api/server.go) over any Store.  Each *)
(* call of the Store is one action of the module that knows the Store;     *)
(* here is what a handler does before, between and after.                  *)
(***************************************************************************)
EXTENDS ApiCalls

VARIABLE step          \* the call of the Store each handler makes next

Steps == {"none", "create", "get", "list", "delete"}

HandlersInit == step = [r \in Requests |-> "none"]

\* sessions and sessionByID choose the handler, and the handler the first call.
FirstStep(method) == IF method = "delete" THEN "get" ELSE method

Receive(r, u, method, s) ==
    /\ Ask(r, u, method, s)
    /\ step' = [step EXCEPT ![r] = FirstStep(method)]

Finish(r) == step' = [step EXCEPT ![r] = "none"]

Answer(r, answer) == Reply(r, answer) /\ Finish(r)

\* createSession decodes and validates before it calls the Store.
Refuse(r) == step[r] = "create" /\ Answer(r, "refused")

\* Mistake: deleteSession does not compare the owner.
AfterGet_AnyUser_Mutant(r, exists, who) ==
    \/ ~exists /\ Answer(r, "missing")
    \/ exists /\ calls[r].method = "delete"
        /\ step' = [step EXCEPT ![r] = "delete"] /\ UNCHANGED calls
    \/ exists /\ calls[r].method = "get" /\ who = calls[r].user
        /\ Answer(r, "found")
    \/ exists /\ calls[r].method = "get" /\ who # calls[r].user
        /\ Answer(r, "forbidden")

\* getSession and deleteSession look at the copy that Get returned.
AfterGet(r, exists, who) ==
    \/ ~exists /\ Answer(r, "missing")
    \/ exists /\ who # calls[r].user /\ Answer(r, "forbidden")
    \/ exists /\ who = calls[r].user /\ calls[r].method = "get"
        /\ Answer(r, "found")
    \/ exists /\ who = calls[r].user /\ calls[r].method = "delete"
        /\ step' = [step EXCEPT ![r] = "delete"] /\ UNCHANGED calls

AnswerCreated(r, s) == ReplyCreated(r, s) /\ Finish(r)

AnswerListed(r, found) == ReplyListed(r, found) /\ Finish(r)
=============================================================================
