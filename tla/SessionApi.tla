----------------------------- MODULE SessionApi -----------------------------
(***************************************************************************)
(* What cask-api promises its users, without saying how: every request     *)
(* takes effect at one instant between its call and its answer, only the   *)
(* owner of a session sees it or ends it, and a session that nobody        *)
(* deleted stays.                                                          *)
(***************************************************************************)
EXTENDS ApiCalls

CONSTANTS
    Sessions,
    NoName,
    Unreliable,        \* may a request fail for no reason of its own?
    Reusable           \* may the name of a session that has gone come again?

VARIABLES
    life,              \* "absent", "open", "closing" (deleted) or "gone"
    owner

apiContractVars == <<calls, life, owner>>

Init ==
    /\ calls = [r \in Requests |-> NoCall(NoName)]
    /\ life = [s \in Sessions |-> "absent"]
    /\ owner = [s \in Sessions |-> NoUser]

Kept(s) == life[s] \in {"open", "closing"}

Free(s) == life[s] = "absent" \/ (Reusable /\ life[s] = "gone")

Owns(r, s) == owner[s] = calls[r].user

Call(r) ==
    /\ \E u \in Users, method \in Methods, s \in Sessions \cup {NoName} :
            Ask(r, u, method, s)
    /\ UNCHANGED <<life, owner>>

\* The request was malformed: nothing happens.
Refuse(r) ==
    /\ calls[r].method = "create"
    /\ Reply(r, "refused")
    /\ UNCHANGED <<life, owner>>

\* A request that fails may have taken effect or not.
Fail(r) ==
    /\ Unreliable
    /\ Reply(r, "error") \/ Reply(r, "missing")
    /\ UNCHANGED <<life, owner>>

Create(r) ==
    /\ calls[r].method = "create"
    /\ \E s \in Sessions :
        /\ Free(s)
        /\ life' = [life EXCEPT ![s] = "open"]
        /\ owner' = [owner EXCEPT ![s] = calls[r].user]
        /\ ReplyCreated(r, s) \/ (Unreliable /\ Reply(r, "error"))

Get(r) ==
    /\ calls[r].method = "get"
    /\ Kept(calls[r].session)
    /\ Owns(r, calls[r].session)
    /\ Reply(r, "found")
    /\ UNCHANGED <<life, owner>>

Deny(r) ==
    /\ calls[r].method \in {"get", "delete"}
    /\ \/ ~Kept(calls[r].session) /\ Reply(r, "missing")
       \/ /\ Kept(calls[r].session)
          /\ ~Owns(r, calls[r].session)
          /\ Reply(r, "forbidden")
    /\ UNCHANGED <<life, owner>>

List(r) ==
    /\ calls[r].method = "list"
    /\ ReplyListed(r, {s \in Sessions : Kept(s) /\ Owns(r, s)})
    /\ UNCHANGED <<life, owner>>

\* A session deleted a second time stays deleted.
Delete(r) ==
    LET s == calls[r].session IN
    /\ calls[r].method = "delete"
    /\ Kept(s)
    /\ Owns(r, s)
    /\ \/ life' = [life EXCEPT ![s] = "closing"]
       \/ life[s] = "open" /\ life' = [life EXCEPT ![s] = "gone"]
    /\ Reply(r, "deleted") \/ (Unreliable /\ Reply(r, "error"))
    /\ UNCHANGED owner

\* Somebody else's deletion of the session, by the same user, came first.
DeleteTooLate(r) ==
    /\ calls[r].method = "delete"
    /\ life[calls[r].session] = "gone"
    /\ Owns(r, calls[r].session)
    /\ Reply(r, "error")
    /\ UNCHANGED <<life, owner>>

\* What was deleted goes, in its own time.
Remove(s) ==
    /\ life[s] = "closing"
    /\ life' = [life EXCEPT ![s] = "gone"]
    /\ UNCHANGED <<calls, owner>>

Serve(r) ==
    /\ Pending(r)
    /\ Refuse(r) \/ Fail(r) \/ Create(r) \/ Get(r) \/ Deny(r) \/ List(r)
          \/ Delete(r) \/ DeleteTooLate(r)

Next ==
    \/ \E r \in Requests : Call(r) \/ Serve(r)
    \/ \E s \in Sessions : Remove(s)

Spec == Init /\ [][Next]_apiContractVars
=============================================================================
