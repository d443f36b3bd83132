-------------------------- MODULE ApiHandlersProofs --------------------------
(***************************************************************************)
(* What a step of a handler of cask-api leaves true, whatever its Store    *)
(* is: each handler is where the request it serves has brought it.         *)
(***************************************************************************)
EXTENDS ApiHandlers, TLAPS

\* A request is pending as long as its handler has a call to make, and the
\* call is one that the request's method leads to.
StepOK(r, ids) ==
    /\ Pending(r) <=> step[r] # "none"
    /\ Pending(r) => calls[r].user \in Users
    /\ step[r] \in {"create", "list"} => calls[r].method = step[r]
    /\ step[r] = "get" => calls[r].method \in {"get", "delete"}
    /\ step[r] = "delete" => calls[r].method = "delete"
    /\ step[r] \in {"get", "delete"} => calls[r].session \in ids

HandlersInv(ids, noId) ==
    /\ calls \in [Requests -> ApiCall(ids, noId)]
    /\ step \in [Requests -> Steps]
    /\ \A r \in Requests : StepOK(r, ids)

\* No other request is touched.
OnlyServes(r) ==
    \A q \in Requests \ {r} : calls'[q] = calls[q] /\ step'[q] = step[q]

\* A step that leaves every other handler where it is, and this one in order,
\* keeps the invariant.
LEMMA OneHandler ==
    ASSUME NEW ids, NEW noId, HandlersInv(ids, noId), NEW r \in Requests,
           NEW call \in ApiCall(ids, noId), NEW next \in Steps,
           calls' = [calls EXCEPT ![r] = call],
           step' = [step EXCEPT ![r] = next],
           call.answer = "pending" <=> next # "none",
           call.answer = "pending" => call.user \in Users,
           next \in {"create", "list"} => call.method = next,
           next = "get" => call.method \in {"get", "delete"},
           next = "delete" => call.method = "delete",
           next \in {"get", "delete"} => call.session \in ids
    PROVE  HandlersInv(ids, noId)' /\ OnlyServes(r)
<1>1. /\ calls' \in [Requests -> ApiCall(ids, noId)]
      /\ step' \in [Requests -> Steps]
      /\ calls'[r] = call /\ step'[r] = next
      /\ OnlyServes(r)
  BY DEF HandlersInv, OnlyServes
<1>2. StepOK(r, ids)'
  BY <1>1 DEF StepOK, Pending
<1>3. ASSUME NEW q \in Requests \ {r} PROVE StepOK(q, ids)'
  BY <1>1, <1>3 DEF HandlersInv, OnlyServes, StepOK, Pending
<1>4. QED
  BY <1>1, <1>2, <1>3 DEF HandlersInv

\* A request that arrives is the user's, and its handler begins.
LEMMA ReceiveEffect ==
    ASSUME NEW ids, NEW noId, HandlersInv(ids, noId), NEW r \in Requests,
           NEW u \in Users, NEW method \in Methods, NEW s \in ids \cup {noId},
           method \in {"get", "delete"} => s \in ids,
           Receive(r, u, method, s)
    PROVE  HandlersInv(ids, noId)' /\ OnlyServes(r)
<1> DEFINE call == [user |-> u, method |-> method, session |-> s,
                    answer |-> "pending", items |-> {}]
<1>1. call \in ApiCall(ids, noId) /\ FirstStep(method) \in Steps
  BY DEF ApiCall, Answers, Methods, FirstStep, Steps
<1>2. FirstStep(method) # "none" /\ FirstStep(method) # "delete"
  BY DEF Methods, FirstStep
<1>3. /\ calls' = [calls EXCEPT ![r] = call]
      /\ step' = [step EXCEPT ![r] = FirstStep(method)]
  BY DEF Receive, Ask
<1>4. /\ FirstStep(method) \in {"create", "list"} => method = FirstStep(method)
      /\ FirstStep(method) = "get" => method \in {"get", "delete"}
  BY DEF FirstStep, Methods
<1>5. call.answer = "pending" /\ call.user = u /\ call.method = method
        /\ call.session = s
  OBVIOUS
<1>6. QED
  BY <1>1, <1>2, <1>3, <1>4, <1>5, OneHandler

\* An answer ends the handler.
LEMMA AnswerEffect ==
    ASSUME NEW ids, NEW noId, HandlersInv(ids, noId), NEW r \in Requests,
           NEW answer \in Answers \ {"pending"}, Answer(r, answer)
    PROVE  HandlersInv(ids, noId)' /\ OnlyServes(r)
<1> DEFINE call == [calls[r] EXCEPT !.answer = answer]
<1>1. call \in ApiCall(ids, noId) /\ call.answer = answer
  BY DEF HandlersInv, ApiCall
<1>2. /\ calls' = [calls EXCEPT ![r] = call]
      /\ step' = [step EXCEPT ![r] = "none"]
  BY DEF Answer, Reply, Finish
<1>3. QED
  BY <1>1, <1>2, OneHandler DEF Steps

\* So does the answer to a creation.
LEMMA AnswerCreatedEffect ==
    ASSUME NEW ids, NEW noId, HandlersInv(ids, noId), NEW r \in Requests,
           NEW s \in ids, AnswerCreated(r, s)
    PROVE  HandlersInv(ids, noId)' /\ OnlyServes(r)
<1> DEFINE call == [calls[r] EXCEPT !.answer = "created", !.session = s]
<1>1. call \in ApiCall(ids, noId) /\ call.answer = "created"
  BY DEF HandlersInv, ApiCall, Answers
<1>2. /\ calls' = [calls EXCEPT ![r] = call]
      /\ step' = [step EXCEPT ![r] = "none"]
  BY DEF AnswerCreated, ReplyCreated, Finish
<1>3. QED
  BY <1>1, <1>2, OneHandler DEF Steps

\* So does the answer to a listing.
LEMMA AnswerListedEffect ==
    ASSUME NEW ids, NEW noId, HandlersInv(ids, noId), NEW r \in Requests,
           NEW found \in SUBSET ids, AnswerListed(r, found)
    PROVE  HandlersInv(ids, noId)' /\ OnlyServes(r)
<1> DEFINE call == [calls[r] EXCEPT !.answer = "listed", !.items = found]
<1>1. call \in ApiCall(ids, noId) /\ call.answer = "listed"
  BY DEF HandlersInv, ApiCall, Answers
<1>2. /\ calls' = [calls EXCEPT ![r] = call]
      /\ step' = [step EXCEPT ![r] = "none"]
  BY DEF AnswerListed, ReplyListed, Finish
<1>3. QED
  BY <1>1, <1>2, OneHandler DEF Steps

\* After Get a handler answers, or goes on to Delete for the owner.
LEMMA AfterGetEffect ==
    ASSUME NEW ids, NEW noId, HandlersInv(ids, noId), NEW r \in Requests,
           step[r] = "get", NEW exists \in BOOLEAN, NEW who,
           AfterGet(r, exists, who)
    PROVE  HandlersInv(ids, noId)' /\ OnlyServes(r)
<1>1. CASE \E answer \in {"missing", "forbidden", "found"} : Answer(r, answer)
  BY <1>1, AnswerEffect DEF Answers
<1>2. CASE /\ calls[r].method = "delete"
           /\ step' = [step EXCEPT ![r] = "delete"]
           /\ UNCHANGED calls
  <2>1. StepOK(r, ids) /\ calls[r] \in ApiCall(ids, noId)
    BY DEF HandlersInv
  <2>2. calls' = [calls EXCEPT ![r] = calls[r]]
    BY <1>2 DEF HandlersInv
  <2>3. /\ calls[r].answer = "pending" /\ calls[r].user \in Users
        /\ calls[r].session \in ids
    BY <2>1 DEF StepOK, Pending
  <2>4. QED
    BY <1>2, <2>1, <2>2, <2>3, OneHandler DEF Steps
<1>3. QED
  BY <1>1, <1>2 DEF AfterGet
=============================================================================
