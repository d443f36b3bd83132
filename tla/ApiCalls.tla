------------------------------ MODULE ApiCalls ------------------------------
(***************************************************************************)
(* Requests to cask-api as its users see them: what was asked, and what    *)
(* was answered.  Shared by the abstract SessionApi and by the servers.    *)
(***************************************************************************)
CONSTANTS
    Users,
    NoUser,            \* owner of a session that never was
    Requests           \* requests that may be under way at once

ASSUME NoUserAssumption == NoUser \notin Users

VARIABLE calls         \* the request each of them is, or was last

Methods == {"create", "get", "list", "delete"}

\* "pending" is no answer yet; "error" stands for every answer in 5xx and for
\* a connection that breaks before an answer comes.
Answers == {"none", "pending", "refused", "created", "found", "listed",
            "deleted", "forbidden", "missing", "error"}

\* session: the one asked for, or created.  items: the sessions listed.
ApiCall(ids, noId) ==
    [user : Users \cup {NoUser}, method : Methods \cup {"none"},
     session : ids \cup {noId}, answer : Answers, items : SUBSET ids]

NoCall(noId) == [user |-> NoUser, method |-> "none", session |-> noId,
                 answer |-> "none", items |-> {}]

Pending(r) == calls[r].answer = "pending"

Ask(r, u, method, s) ==
    /\ ~Pending(r)
    /\ calls' = [calls EXCEPT ![r] =
            [user |-> u, method |-> method, session |-> s,
             answer |-> "pending", items |-> {}]]

Reply(r, answer) ==
    calls' = [calls EXCEPT ![r].answer = answer]

ReplyCreated(r, s) ==
    calls' = [calls EXCEPT ![r].answer = "created", ![r].session = s]

ReplyListed(r, found) ==
    calls' = [calls EXCEPT ![r].answer = "listed", ![r].items = found]
=============================================================================
