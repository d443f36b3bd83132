--------------------------- MODULE ApiServerProofs ---------------------------
(***************************************************************************)
(* cask-api beside the controller, for any number of users, requests,      *)
(* controllers, failures and crashes: the expiry a user is told is kept    *)
(* to, and the handlers implement SessionApi, unless a name is given out   *)
(* again under the eyes of a deletion of the session that had it before.   *)
(***************************************************************************)
EXTENDS ApiServer, SessionControllerProofs, ApiHandlersProofs

\* generateSessionID never draws a name that was drawn before.
NamesUsedOnce == MaxIncarnations = 1

\* No name is drawn between the Get and the Delete of a handler that is about
\* to delete a session of that name.  Were it drawn there, the two calls would
\* be of different sessions, perhaps of different owners.
LeftAlone ==
    \A s \in Sessions :
        incarnations'[s] # incarnations[s]
            => ~\E r \in Requests : step[r] = "delete" /\ calls[r].session = s

NamesLeftAlone == [][LeftAlone]_apiVars

RequestStep(r) == ReceiveCall(r) \/ ApiStep(r) \/ BreakOff(r)

ServerTypeInv ==
    /\ HandlersInv(Sessions, NoName)
    /\ owner \in [Sessions -> Users \cup {NoUser}]
    /\ readAt \in [Requests -> Nat]
    /\ promised \in [Sessions -> Nat]
    /\ storeFaults \in Nat

-----------------------------------------------------------------------------
(* What a step of a handler does. *)

\* It answers or goes on; only the owner's deletion goes on after Get.
LEMMA RequestEffect ==
    ASSUME ServerTypeInv, TypeOK, NEW r \in Requests, RequestStep(r)
    PROVE  /\ HandlersInv(Sessions, NoName)'
           /\ OnlyServes(r)
           /\ step'[r] = "delete" =>
                /\ step[r] = "get"
                /\ Exists(calls[r].session)
                /\ owner[calls[r].session] = calls[r].user
                /\ UNCHANGED <<vars, calls, owner>>
<1>0. HandlersInv(Sessions, NoName) /\ StepOK(r, Sessions)
  BY DEF ServerTypeInv, HandlersInv
<1>1. ASSUME NEW answer \in Answers \ {"pending"}, Answer(r, answer)
      PROVE  /\ HandlersInv(Sessions, NoName)' /\ OnlyServes(r)
             /\ step'[r] # "delete"
  BY <1>0, <1>1, AnswerEffect DEF Answer, Finish, HandlersInv
<1>2. CASE ReceiveCall(r)
  <2>1. PICK u \in Users, method \in Methods, s \in Sessions \cup {NoName} :
            /\ Receive(r, u, method, s)
            /\ method \in {"get", "delete"} => s \in Sessions
    BY <1>2 DEF ReceiveCall, Methods
  <2>2. HandlersInv(Sessions, NoName)' /\ OnlyServes(r)
    BY <1>0, <2>1, ReceiveEffect
  <2>3. step'[r] # "delete"
    BY <1>0, <2>1 DEF Receive, FirstStep, HandlersInv, Methods
  <2>4. QED
    BY <2>2, <2>3
<1>3. CASE RefuseCall(r) \/ BreakOff(r) \/ StoreDelete(r)
  BY <1>1, <1>3 DEF RefuseCall, Refuse, BreakOff, StoreDelete, Answers
<1>4. CASE StoreCreate(r)
  <2>1. CASE Answer(r, "error")
    BY <1>1, <2>1 DEF Answers
  <2>2. CASE \E s \in Sessions : AnswerCreated(r, s)
    BY <1>0, <2>2, AnswerCreatedEffect DEF AnswerCreated, Finish, HandlersInv
  <2>3. QED
    BY <1>4, <2>1, <2>2 DEF StoreCreate
<1>5. CASE StoreGet(r)
  <2>1. CASE \E answer \in {"missing", "forbidden", "found"} : Answer(r, answer)
    BY <1>1, <2>1 DEF Answers
  <2>2. CASE ~\E answer \in {"missing", "forbidden", "found"} : Answer(r, answer)
    <3>1. /\ AfterGet(r, Exists(calls[r].session), owner[calls[r].session])
          /\ step[r] = "get" /\ UNCHANGED <<vars, owner>>
      BY <1>5, <2>2 DEF StoreGet
    <3>2. /\ Exists(calls[r].session)
          /\ owner[calls[r].session] = calls[r].user
          /\ UNCHANGED calls
      BY <2>2, <3>1 DEF AfterGet
    <3>3. Exists(calls[r].session) \in BOOLEAN
      BY DEF Exists
    <3>4. HandlersInv(Sessions, NoName)' /\ OnlyServes(r)
      BY <1>0, <3>1, <3>3, AfterGetEffect
    <3>5. QED
      BY <3>1, <3>2, <3>4
  <2>3. QED
    BY <2>1, <2>2
<1>6. CASE StoreList(r)
  <2>1. CASE Answer(r, "error")
    BY <1>1, <2>1 DEF Answers
  <2>2. CASE AnswerListed(r, {s \in Sessions :
                                Exists(s) /\ owner[s] = calls[r].user})
    BY <1>0, <2>2, AnswerListedEffect DEF AnswerListed, Finish, HandlersInv
  <2>3. QED
    BY <1>6, <2>1, <2>2 DEF StoreList
<1>7. QED
  BY <1>2, <1>3, <1>4, <1>5, <1>6 DEF RequestStep, ApiStep

\* It does nothing to the cluster, or creates, or deletes, one session.
LEMMA RequestOnCluster ==
    ASSUME ServerTypeInv, NEW r \in Requests, RequestStep(r)
    PROVE  /\ \/ UNCHANGED <<vars, owner, promised>>
              \/ \E s \in Sessions, profile \in Profiles, ttl \in TTLs :
                    /\ step[r] = "create"
                    /\ CreateSession(s, profile, ttl)
                    /\ owner' = [owner EXCEPT ![s] = calls[r].user]
                    /\ \/ UNCHANGED promised
                       \/ promised' = [promised EXCEPT ![s] = readAt[r] + ttl]
              \/ /\ step[r] = "delete"
                 /\ DeleteSession(calls[r].session)
                 /\ UNCHANGED <<owner, promised>>
           /\ \/ UNCHANGED readAt
              \/ readAt' = [readAt EXCEPT ![r] = 0]
              \/ readAt' = [readAt EXCEPT ![r] = now]
           /\ storeFaults' \in {storeFaults, storeFaults + 1}
<1>1. CASE ReceiveCall(r)
  BY <1>1 DEF ReceiveCall
<1>2. CASE RefuseCall(r) \/ BreakOff(r)
  BY <1>2 DEF RefuseCall, BreakOff, ForgetClock, StoreFault
<1>3. CASE StoreCreate(r)
  <2>1. readAt' = [readAt EXCEPT ![r] = 0]
    BY <1>3 DEF StoreCreate, ForgetClock
  <2>2. storeFaults' \in {storeFaults, storeFaults + 1}
    BY <1>3 DEF StoreCreate, StoreFault
  <2>3. QED
    BY <1>3, <2>1, <2>2 DEF StoreCreate, Promise
<1>4. CASE StoreGet(r) \/ StoreList(r)
  BY <1>4 DEF StoreGet, StoreList, StoreFault
<1>5. CASE StoreDelete(r)
  BY <1>5 DEF StoreDelete, StoreFault
<1>6. QED
  BY <1>1, <1>2, <1>3, <1>4, <1>5 DEF RequestStep, ApiStep

\* For the controller it is a step of a user, or nothing.
LEMMA RequestIsUserStep ==
    ASSUME ServerTypeInv, NEW r \in Requests, RequestStep(r)
    PROVE  UserStep \/ UNCHANGED vars
<1>1. step[r] = "delete" => calls[r].session \in Sessions
  BY DEF ServerTypeInv, HandlersInv, StepOK
<1>2. QED
  BY <1>1, RequestOnCluster DEF UserStep

\* So the composition is either the cluster's step or one request's.
LEMMA ApiStepKinds ==
    ASSUME [ApiNext]_apiVars
    PROVE  \/ /\ [ClusterStep]_vars
              /\ UNCHANGED <<calls, step, owner, readAt, promised, storeFaults>>
           \/ \E r \in Requests : RequestStep(r)
BY DEF ApiNext, RequestStep, apiVars, apiLocal

-----------------------------------------------------------------------------
(* Types. *)

LEMMA ApiInitTypes == ApiInit => TypeInv /\ ServerTypeInv
<1> SUFFICES ASSUME ApiInit PROVE TypeInv /\ ServerTypeInv
  OBVIOUS
<1>1. NoCall(NoName) \in ApiCall(Sessions, NoName)
  BY DEF NoCall, ApiCall, Answers
<1>2. HandlersInv(Sessions, NoName)
  BY <1>1 DEF ApiInit, HandlersInit, HandlersInv, Steps, StepOK, Pending, NoCall
<1>3. QED
  BY <1>2, InitTypeInv DEF ApiInit, ServerTypeInv, NoTime

\* What the composition does to the controller's variables is a step of it.
LEMMA ApiStepIsStep ==
    ASSUME ServerTypeInv, [ApiNext]_apiVars
    PROVE  [Next]_vars
BY ApiStepKinds, RequestIsUserStep DEF Next

LEMMA ApiNextTypes ==
    ASSUME TypeInv, ServerTypeInv, [ApiNext]_apiVars
    PROVE  TypeInv' /\ ServerTypeInv'
<1>1. TypeInv'
  BY ApiStepIsStep, NextTypeInv
<1>2. CASE UNCHANGED <<calls, step, owner, readAt, promised, storeFaults>>
  BY <1>1, <1>2 DEF ServerTypeInv, HandlersInv, StepOK, Pending
<1>3. ASSUME NEW r \in Requests, RequestStep(r) PROVE ServerTypeInv'
  <2>1. HandlersInv(Sessions, NoName)'
    BY <1>3, RequestEffect DEF TypeInv
  <2>2. calls[r].user \in Users \cup {NoUser}
    BY DEF ServerTypeInv, HandlersInv, ApiCall
  <2>3. owner' \in [Sessions -> Users \cup {NoUser}]
    BY <1>3, <2>2, RequestOnCluster DEF ServerTypeInv
  <2>4. /\ readAt' \in [Requests -> Nat]
        /\ promised' \in [Sessions -> Nat]
        /\ storeFaults' \in Nat
    BY <1>3, RequestOnCluster, TTLAssumption DEF ServerTypeInv, TypeInv, TypeOK
  <2>5. QED
    BY <2>1, <2>3, <2>4 DEF ServerTypeInv
<1>4. QED
  BY <1>1, <1>2, <1>3, ApiStepKinds

LEMMA ApiTypesCorrect == ApiSpec => [](TypeInv /\ ServerTypeInv)
BY ApiInitTypes, ApiNextTypes, PTL DEF ApiSpec

\* The composition does to the cluster only what the controller's own
\* specification allows, so every theorem about Spec holds beside cask-api.
THEOREM ApiLeavesController == ApiSpec => Spec
<1>1. ApiInit => Init
  BY DEF ApiInit
<1>2. ServerTypeInv /\ [ApiNext]_apiVars => [Next]_vars
  BY ApiStepIsStep
<1>3. QED
  BY <1>1, <1>2, ApiTypesCorrect, PTL DEF ApiSpec, Spec

\* The requests, their handlers and what they remember keep their types.
THEOREM ApiTyped == ApiSpec => []ApiTypeOK
<1>1. TypeInv /\ ServerTypeInv => ApiTypeOK
  BY DEF TypeInv, ServerTypeInv, HandlersInv, ApiTypeOK
<1>2. QED
  BY <1>1, ApiTypesCorrect, PTL

-----------------------------------------------------------------------------
(* The promise made to the creator of a session. *)

\* A controller has found the session that it works on to be past its TTL.
Expiring(c) == \/ pc[c] = "expirePod"
               \/ pc[c] = "patchStatus" /\ out[c].phase = "Expired"

\* What is reported Expired, or is about to be, is past its TTL.
PastInv ==
    /\ \A s \in Sessions :
        UsedOnce(s) /\ Exists(s) /\ sessions[s].status.phase = "Expired"
            => now > sessions[s].created + sessions[s].ttl
    /\ \A c \in Controllers :
        Expiring(c) /\ UsedOnce(cur[c]) => now > obj[c].created + obj[c].ttl

\* A handler read the clock before the session was created, so the expiry it
\* tells is not later than the session's.
PromiseInv ==
    /\ \A r \in Requests : readAt[r] <= now
    /\ \A s \in Sessions :
        /\ UsedOnce(s) /\ Exists(s) =>
                promised[s] <= sessions[s].created + sessions[s].ttl
        /\ incarnations[s] = 0 => promised[s] = 0

\* Only CheckExpiry, which looks at the clock, leads to the report Expired.
LEMMA ControllerDecisions ==
    ASSUME TypeInv, NEW c \in Controllers, ControllerStep(c)
    PROVE  /\ pc'[c] = "expirePod" =>
                pc[c] = "checkExpiry" /\ Expired(obj[c], now)
           /\ pc'[c] = "patchStatus" /\ out'[c].phase = "Expired" =>
                pc[c] = "expirePod"
<1>0. pc[c] # "idle" => obj[c] \in Session
  BY DEF TypeInv, LocalsOK
<1>1. pc[c] # "idle" =>
        /\ \A why \in Reasons : FailStatus(obj[c], why).phase = "Failed"
        /\ \A pod : ObservedStatus(obj[c], pod).phase # "Expired"
        /\ ProvisioningStatus(obj[c]).phase = "Provisioning"
  BY <1>0, StatusFields DEF ObservedStatus, Reasons
<1> USE DEF TypeInv, TypeOK, Goto
<1>2. CASE ListSessions(c)
  BY <1>2 DEF ListSessions
<1>3. CASE GetSession(c)
  BY <1>3 DEF GetSession, FirstCall
<1>4. CASE AddFinalizer(c)
  BY <1>4 DEF AddFinalizer, Continue, Return
<1>5. CASE CheckExpiry(c)
  BY <1>1, <1>5 DEF CheckExpiry, Continue, Report, Fail, Reasons
<1>6. CASE CheckRuntimeClass(c)
  BY <1>1, <1>6 DEF CheckRuntimeClass, Continue, Report, Fail, Reasons
<1>7. CASE GetPod(c)
  BY <1>1, <1>7 DEF GetPod, Continue, Return, Report
<1>8. CASE CreatePod(c)
  BY <1>1, <1>8 DEF CreatePod, Report, Fail, Reasons
<1>9. CASE ExpirePod(c)
  BY <1>9 DEF ExpirePod, Report
<1>10. CASE WriteStatus(c)
  BY <1>10 DEF WriteStatus, Return
<1>11. CASE CleanupPod(c)
  BY <1>11 DEF CleanupPod, Continue
<1>12. CASE RemoveFinalizer(c)
  BY <1>12 DEF RemoveFinalizer, Return
<1>13. QED
  BY <1>2, <1>3, <1>4, <1>5, <1>6, <1>7, <1>8, <1>9, <1>10, <1>11, <1>12
     DEF ControllerStep

LEMMA ControllerPastInv ==
    ASSUME TimesInv, PastInv, NEW c \in Controllers, ControllerStep(c)
    PROVE  PastInv'
<1>0. TypeInv /\ TypeOK /\ now' = now /\ incarnations' = incarnations
  BY ControllerEffects DEF TimesInv, TypeInv
<1>1. pc[c] # "idle" => cur[c] \in Sessions /\ obj[c] \in Session
  BY DEF TimesInv, TypeInv, LocalsOK
<1>2. pc[c] # "idle" /\ UsedOnce(cur[c]) =>
        /\ ExpiryTime(obj[c]) = obj[c].created + obj[c].ttl
        /\ Exists(cur[c]) => /\ obj[c].created = sessions[cur[c]].created
                             /\ obj[c].ttl = sessions[cur[c]].ttl
  BY <1>1 DEF TimesInv, ExpiryInv, ExpiryKnown, ExpiryTime
<1>3. ASSUME NEW s \in Sessions, UsedOnce(s), Exists(s)',
             sessions'[s].status.phase = "Expired"
      PROVE  now' > sessions'[s].created + sessions'[s].ttl
  <2>1. CASE UNCHANGED sessions
    BY <1>0, <1>3, <2>1 DEF PastInv, Exists
  <2>2. CASE pc[c] # "idle" /\ \E present \in BOOLEAN :
                                    PatchFinalizers(cur[c], present)
    <3>1. /\ Exists(s)
          /\ sessions'[s].created = sessions[s].created
          /\ sessions'[s].ttl = sessions[s].ttl
          /\ sessions'[s].status = sessions[s].status
      BY <1>0, <1>1, <1>3, <2>2, PatchFinalizersEffect
    <3>2. QED
      BY <1>0, <1>3, <3>1 DEF PastInv
  <2>3. CASE pc[c] = "patchStatus" /\ PatchStatus(cur[c], out[c])
    <3>1. out[c] \in Status
      BY <1>0 DEF TypeOK
    <3>2. /\ Exists(s)
          /\ sessions'[s].created = sessions[s].created
          /\ sessions'[s].ttl = sessions[s].ttl
          /\ sessions'[s].status = IF s = cur[c] THEN out[c]
                                                 ELSE sessions[s].status
      BY <1>0, <1>1, <1>3, <2>3, <3>1, PatchStatusEffect
    <3>3. CASE s = cur[c]
      BY <1>0, <1>2, <1>3, <2>3, <3>2, <3>3 DEF PastInv, Expiring
    <3>4. CASE s # cur[c]
      BY <1>0, <1>3, <3>2, <3>4 DEF PastInv
    <3>5. QED
      BY <3>3, <3>4
  <2>4. QED
    BY <1>0, <2>1, <2>2, <2>3, ControllerEffects
<1>4. ASSUME NEW d \in Controllers \ {c}
      PROVE  /\ pc'[d] = pc[d] /\ out'[d] = out[d] /\ obj'[d] = obj[d]
             /\ cur'[d] = cur[d]
  BY <1>0, <1>4, ControllerEffects DEF TypeOK
<1>5. ASSUME Expiring(c)', UsedOnce(cur'[c])
      PROVE  now' > obj'[c].created + obj'[c].ttl
  <2>1. pc'[c] # "idle" /\ pc[c] # "idle" => UNCHANGED <<cur, obj>>
    BY <1>0, ControllerEffects
  <2>2. CASE pc'[c] = "expirePod"
    BY <1>0, <1>2, <1>5, <2>1, <2>2, ControllerDecisions DEF Expired
  <2>3. CASE pc'[c] = "patchStatus" /\ out'[c].phase = "Expired"
    BY <1>0, <1>5, <2>1, <2>3, ControllerDecisions DEF PastInv, Expiring
  <2>4. QED
    BY <1>5, <2>2, <2>3 DEF Expiring
<1>6. QED
  BY <1>0, <1>3, <1>4, <1>5 DEF PastInv, Expiring, UsedOnce

LEMMA NextPastInv ==
    ASSUME TimesInv, PastInv, [Next]_vars
    PROVE  PastInv'
<1>0. TypeOK /\ LocalsOK
  BY DEF TimesInv, TypeInv
<1>1. ASSUME NEW c \in Controllers, ControllerStep(c) PROVE PastInv'
  BY <1>1, ControllerPastInv
<1> USE DEF PastInv, Expiring, Exists, UsedOnce, cluster, local
<1>2. ASSUME NEW c \in Controllers, Crash(c) PROVE PastInv'
  BY <1>0, <1>2 DEF Crash, Goto, TypeOK
<1>3. ASSUME NEW s \in Sessions, NEW profile \in Profiles, NEW ttl \in TTLs,
             CreateSession(s, profile, ttl)
      PROVE  PastInv'
  <2>1. /\ sessions'[s].status.phase = ""
        /\ incarnations'[s] = incarnations[s] + 1 /\ incarnations[s] \in Nat
        /\ \A t \in Sessions \ {s} : /\ sessions'[t] = sessions[t]
                                    /\ incarnations'[t] = incarnations[t]
        /\ UNCHANGED <<now, local>>
    BY <1>0, <1>3 DEF CreateSession, NewSession, EmptyStatus, TypeOK
  <2>2. incarnations'[s] <= 1 => incarnations[s] <= 1
    <3>1. \A n \in Nat : n + 1 <= 1 => n <= 1
      OBVIOUS
    <3>2. QED
      BY <2>1, <3>1
  <2>3. QED
    BY <1>0, <2>1, <2>2 DEF LocalsOK
<1>4. ASSUME NEW s \in Sessions, DeleteSession(s) PROVE PastInv'
  BY <1>0, <1>4 DEF DeleteSession, TypeOK, Session
<1>5. ASSUME UNCHANGED <<sessions, incarnations, local>>, now' \in {now, now + 1}
      PROVE  PastInv'
  <2>1. /\ now \in Nat
        /\ \A s \in Sessions : sessions[s] # NoSession =>
                sessions[s].created + sessions[s].ttl \in Nat
        /\ \A c \in Controllers : pc[c] # "idle" =>
                obj[c].created + obj[c].ttl \in Nat
    <3>1. ASSUME NEW session \in Session
          PROVE  session.created + session.ttl \in Nat
      <4>1. session.created \in Nat /\ session.ttl \in Nat
        BY TTLAssumption DEF Session
      <4>2. QED
        BY <4>1
    <3>2. /\ now \in Nat
          /\ \A s \in Sessions : sessions[s] # NoSession => sessions[s] \in Session
          /\ \A c \in Controllers : pc[c] # "idle" => obj[c] \in Session
      BY <1>0 DEF TypeOK, LocalsOK
    <3>3. QED
      BY <3>1, <3>2
  <2>2. /\ \A n \in Nat : now > n => now' > n
        /\ \A c \in Controllers : Expiring(c)' => Expiring(c) /\ pc[c] # "idle"
    BY <1>5, <2>1
  <2>3. QED
    BY <1>5, <2>1, <2>2
<1>6. ASSUME NEW s \in Sessions,
             \/ StartPod(s) \/ StopPod(s) \/ EvictPod(s)
             \/ ReapPod(s) \/ GarbageCollect(s)
      PROVE  UNCHANGED <<sessions, incarnations, now, local>>
  BY <1>6 DEF StartPod, StopPod, EvictPod, ReapPod, GarbageCollect, UpdatePod
<1>7. ASSUME \/ \E profile \in RuntimeClassProfiles : ChangeRuntimeClass(profile)
             \/ Tick \/ UNCHANGED vars
      PROVE  UNCHANGED <<sessions, incarnations, local>> /\ now' \in {now, now + 1}
  BY <1>7 DEF ChangeRuntimeClass, Tick, vars
<1>8. QED
  BY <1>1, <1>2, <1>3, <1>4, <1>5, <1>6, <1>7 DEF Next, UserStep, ClusterStep

\* Other steps make no promise and move no session's expiry.
LEMMA ClusterKeepsTimes ==
    ASSUME TimesInv, [ClusterStep]_vars
    PROVE  /\ now' >= now
           /\ incarnations' = incarnations
           /\ \A s \in Sessions : Exists(s)' =>
                /\ Exists(s)
                /\ sessions'[s].created = sessions[s].created
                /\ sessions'[s].ttl = sessions[s].ttl
<1>0. TypeInv /\ TypeOK /\ LocalsOK
  BY DEF TimesInv, TypeInv
<1>1. ASSUME NEW c \in Controllers, ControllerStep(c)
      PROVE  /\ UNCHANGED <<now, incarnations>>
             /\ \A s \in Sessions : Exists(s)' =>
                  /\ Exists(s)
                  /\ sessions'[s].created = sessions[s].created
                  /\ sessions'[s].ttl = sessions[s].ttl
  <2>1. UNCHANGED <<now, incarnations>>
    BY <1>0, <1>1, ControllerEffects
  <2>2. pc[c] # "idle" => cur[c] \in Sessions
    BY <1>0 DEF LocalsOK
  <2>3. out[c] \in Status
    BY <1>0 DEF TypeOK
  <2>4. SUFFICES ASSUME NEW s \in Sessions, Exists(s)'
                 PROVE  /\ Exists(s)
                        /\ sessions'[s].created = sessions[s].created
                        /\ sessions'[s].ttl = sessions[s].ttl
    BY <2>1
  <2>5. CASE UNCHANGED sessions
    BY <2>4, <2>5 DEF Exists
  <2>6. CASE pc[c] # "idle" /\ \E present \in BOOLEAN :
                                    PatchFinalizers(cur[c], present)
    BY <1>0, <2>2, <2>4, <2>6, PatchFinalizersEffect
  <2>7. CASE pc[c] = "patchStatus" /\ PatchStatus(cur[c], out[c])
    BY <1>0, <2>2, <2>3, <2>4, <2>7, PatchStatusEffect
  <2>8. QED
    BY <1>0, <1>1, <2>5, <2>6, <2>7, ControllerEffects
<1>2. ASSUME NEW s \in Sessions,
             \/ StartPod(s) \/ StopPod(s) \/ EvictPod(s)
             \/ ReapPod(s) \/ GarbageCollect(s)
      PROVE  UNCHANGED <<sessions, now, incarnations>>
  BY <1>2 DEF StartPod, StopPod, EvictPod, ReapPod, GarbageCollect, UpdatePod
<1>3. ASSUME \/ \E profile \in RuntimeClassProfiles : ChangeRuntimeClass(profile)
             \/ Tick \/ UNCHANGED vars \/ \E c \in Controllers : Crash(c)
      PROVE  UNCHANGED <<sessions, incarnations>> /\ now' \in {now, now + 1}
  BY <1>3 DEF ChangeRuntimeClass, Tick, vars, Crash, cluster
<1>4. now \in Nat
  BY <1>0 DEF TypeOK
<1>5. CASE UNCHANGED <<sessions, incarnations>> /\ now' \in {now, now + 1}
  BY <1>4, <1>5 DEF Exists
<1>6. CASE \E c \in Controllers : ControllerStep(c)
  BY <1>1, <1>4, <1>6
<1>7. QED
  BY <1>2, <1>3, <1>5, <1>6 DEF ClusterStep

\* A step of a handler promises no more than the session it creates will get.
LEMMA RequestKeepsPromise ==
    ASSUME TimesInv, ServerTypeInv, PromiseInv, NEW r \in Requests, RequestStep(r)
    PROVE  PromiseInv'
<1>0. /\ TypeOK /\ now \in Nat /\ incarnations \in [Sessions -> Nat]
      /\ readAt \in [Requests -> Nat] /\ promised \in [Sessions -> Nat]
      /\ readAt[r] <= now
  BY DEF TimesInv, TypeInv, TypeOK, ServerTypeInv, PromiseInv
<1>1. now' = now
  BY <1>0, RequestOnCluster DEF vars, CreateSession, DeleteSession
<1>2. ASSUME NEW q \in Requests PROVE readAt'[q] <= now'
  BY <1>0, <1>1, RequestOnCluster DEF PromiseInv
<1>3. CASE UNCHANGED <<vars, owner, promised>>
  BY <1>2, <1>3 DEF PromiseInv, vars, Exists, UsedOnce
<1>4. ASSUME NEW s \in Sessions, NEW profile \in Profiles, NEW ttl \in TTLs,
             CreateSession(s, profile, ttl),
             \/ UNCHANGED promised
             \/ promised' = [promised EXCEPT ![s] = readAt[r] + ttl]
      PROVE  PromiseInv'
  <2>1. /\ ttl \in Nat
        /\ incarnations[s] \in Nat /\ incarnations'[s] = incarnations[s] + 1
        /\ sessions'[s].created = now /\ sessions'[s].ttl = ttl
        /\ \A t \in Sessions \ {s} :
                sessions'[t] = sessions[t] /\ incarnations'[t] = incarnations[t]
    BY <1>0, <1>4, TTLAssumption
       DEF CreateSession, NewSession, TypeOK
  <2>2. UsedOnce(s)' => promised'[s] <= now + ttl
    <3>1. UsedOnce(s)' => promised[s] = 0
      BY <2>1 DEF UsedOnce, PromiseInv
    <3>2. QED
      BY <1>0, <1>4, <2>1, <3>1
  <2>3. \A t \in Sessions \ {s} : promised'[t] = promised[t]
    BY <1>0, <1>4
  <2>4. QED
    BY <1>2, <2>1, <2>2, <2>3 DEF PromiseInv, Exists, UsedOnce
<1>5. ASSUME NEW s \in Sessions, DeleteSession(s), UNCHANGED promised
      PROVE  PromiseInv'
  <2>1. /\ incarnations' = incarnations
        /\ \A t \in Sessions : Exists(t)' =>
             /\ Exists(t)
             /\ sessions'[t].created = sessions[t].created
             /\ sessions'[t].ttl = sessions[t].ttl
    BY <1>0, <1>5 DEF DeleteSession, Exists, TypeOK, Session
  <2>2. QED
    BY <1>2, <1>5, <2>1 DEF PromiseInv, UsedOnce
<1>6. step[r] = "delete" => calls[r].session \in Sessions
  BY DEF ServerTypeInv, HandlersInv, StepOK
<1>7. QED
  BY <1>3, <1>4, <1>5, <1>6, RequestOnCluster

LEMMA ApiNextPromise ==
    ASSUME TimesInv, ServerTypeInv, PromiseInv, [ApiNext]_apiVars
    PROVE  PromiseInv'
<1>1. CASE [ClusterStep]_vars /\ UNCHANGED <<readAt, promised>>
  <2>1. /\ now \in Nat /\ now' \in Nat
        /\ readAt \in [Requests -> Nat]
    BY <1>1, NextTypeInv
       DEF TimesInv, TypeInv, TypeOK, ServerTypeInv, Next
  <2>2. \A r \in Requests : readAt'[r] <= now'
    BY <1>1, <2>1, ClusterKeepsTimes DEF PromiseInv
  <2>3. QED
    BY <1>1, <2>2, ClusterKeepsTimes DEF PromiseInv, UsedOnce
<1>2. CASE \E r \in Requests : RequestStep(r)
  BY <1>2, RequestKeepsPromise
<1>3. QED
  BY <1>1, <1>2, ApiStepKinds

\* The expiry a user is told is kept to: the session is not reported Expired
\* before it, and its Pod's token lasts at least until then, for any number of
\* users, controllers, failures and crashes, unless its name is used again.
THEOREM PromisesAreKept == ApiSpec => []PromiseKept
<1>1. ApiSpec => []TimesInv
  BY ApiLeavesController, TimesCorrect, PTL
<1>2. ApiInit => PastInv /\ PromiseInv
  BY DEF ApiInit, Init, PastInv, Expiring, PromiseInv, Exists, NoTime
<1>3. TimesInv /\ ServerTypeInv /\ PastInv /\ PromiseInv /\ [ApiNext]_apiVars
        => PastInv' /\ PromiseInv'
  BY ApiStepIsStep, NextPastInv, ApiNextPromise
<1>4. TimesInv /\ ServerTypeInv /\ PastInv /\ PromiseInv => PromiseKept
  <2> SUFFICES ASSUME TimesInv, ServerTypeInv, PastInv, PromiseInv
               PROVE  PromiseKept
    OBVIOUS
  <2>1. ASSUME NEW s \in Sessions, UsedOnce(s), Exists(s)
        PROVE  /\ promised[s] <= sessions[s].created + sessions[s].ttl
               /\ promised[s] \in Nat /\ now \in Nat
               /\ sessions[s].created + sessions[s].ttl \in Nat
    <3>1. sessions[s].created \in Nat /\ sessions[s].ttl \in Nat
      BY <2>1, TTLAssumption DEF TimesInv, TypeInv, TypeOK, Exists, Session
    <3>2. QED
      BY <2>1, <3>1
         DEF PromiseInv, ServerTypeInv, TimesInv, TypeInv, TypeOK
  <2>2. ASSUME NEW s \in Sessions, UsedOnce(s), Exists(s),
               sessions[s].status.phase = "Expired"
        PROVE  now > promised[s]
    BY <2>1, <2>2 DEF PastInv
  <2>3. ASSUME NEW s \in Sessions, UsedOnce(s), pods[s] # NoPod, ~Orphan(s)
        PROVE  pods[s].tokenExpiry >= promised[s]
    <3>1. pods[s].tokenExpiry = sessions[s].created + sessions[s].ttl
      BY <2>3 DEF TimesInv, ExpiryInv, TokenMatchesExpiry
    <3>2. Exists(s)
      BY <2>3 DEF TimesInv, TypeInv, TypeOK, Pod, Orphan, Exists, NoSession
    <3>3. QED
      BY <2>1, <2>3, <3>1, <3>2
  <2>4. QED
    BY <2>2, <2>3 DEF PromiseKept
<1>5. QED
  BY <1>1, <1>2, <1>3, <1>4, ApiTypesCorrect, PTL DEF ApiSpec

-----------------------------------------------------------------------------
(* The handlers implement SessionApi. *)

\* A handler that goes on to Delete serves the owner of a session that was.
OwnersInv ==
    \A r \in Requests : step[r] = "delete" =>
        /\ owner[calls[r].session] = calls[r].user
        /\ incarnations[calls[r].session] # 0

\* An object about to be deleted keeps its owner, because its name is left
\* alone.
LEMMA ApiNextOwners ==
    ASSUME TimesInv, ServerTypeInv, OwnersInv, [ApiNext]_apiVars,
           [LeftAlone]_apiVars
    PROVE  OwnersInv'
<1>0. TypeOK
  BY DEF TimesInv, TypeInv
<1>1. CASE [ClusterStep]_vars /\ UNCHANGED <<calls, step, owner>>
  BY <1>1, ClusterKeepsTimes DEF OwnersInv
<1>2. ASSUME NEW r \in Requests, RequestStep(r) PROVE OwnersInv'
  <2>1. ASSUME NEW q \in Requests, step'[q] = "delete"
        PROVE  /\ owner[calls'[q].session] = calls'[q].user
               /\ incarnations[calls'[q].session] # 0
    <3>1. CASE q = r
      <4>1. StepOK(r, Sessions)
        BY DEF ServerTypeInv, HandlersInv
      <4>2. /\ calls'[r] = calls[r] /\ step[r] = "get"
            /\ Exists(calls[r].session)
            /\ owner[calls[r].session] = calls[r].user
        BY <1>0, <1>2, <2>1, <3>1, RequestEffect
      <4>3. QED
        BY <1>0, <3>1, <4>1, <4>2, ExistingUsed DEF StepOK, TimesInv
    <3>2. CASE q # r
      BY <1>0, <1>2, <2>1, <3>2, RequestEffect DEF OnlyServes, OwnersInv
    <3>3. QED
      BY <3>1, <3>2
  <2>2. ASSUME NEW q \in Requests, step'[q] = "delete"
        PROVE  /\ owner'[calls'[q].session] = owner[calls'[q].session]
               /\ incarnations'[calls'[q].session] = incarnations[calls'[q].session]
    <3>2. CASE UNCHANGED <<incarnations, owner>>
      BY <3>2
    <3>3. ASSUME NEW s \in Sessions, NEW profile \in Profiles, NEW ttl \in TTLs,
                 CreateSession(s, profile, ttl),
                 owner' = [owner EXCEPT ![s] = calls[r].user]
          PROVE  /\ owner'[calls'[q].session] = owner[calls'[q].session]
                 /\ incarnations'[calls'[q].session]
                        = incarnations[calls'[q].session]
      <4>1. incarnations'[s] # incarnations[s] /\ ~Exists(s)
        BY <1>0, <3>3 DEF CreateSession, TypeOK
      <4>2. calls'[q].session # s
        <5>1. CASE q = r
          BY <1>0, <1>2, <2>2, <4>1, <5>1, RequestEffect
        <5>2. CASE q # r
          <6>1. step[q] = "delete" /\ calls'[q] = calls[q]
            BY <1>0, <1>2, <2>2, <5>2, RequestEffect DEF OnlyServes
          <6>2. LeftAlone
            BY <1>0, <4>1 DEF LeftAlone, apiVars, vars, cluster
          <6>3. QED
            BY <4>1, <6>1, <6>2 DEF LeftAlone
        <5>3. QED
          BY <5>1, <5>2
      <4>3. QED
        BY <1>0, <3>3, <4>2 DEF CreateSession, TypeOK, ServerTypeInv
    <3>4. QED
      BY <1>2, <3>2, <3>3, RequestOnCluster DEF vars, DeleteSession
  <2>3. QED
    BY <2>1, <2>2 DEF OwnersInv
<1>3. QED
  BY <1>1, <1>2, ApiStepKinds

\* A deleted object is kept by its finalizer only.
KeptInv == \A s \in Sessions :
            Exists(s) /\ sessions[s].deleting => sessions[s].finalizer

LEMMA NextKeptInv ==
    ASSUME TypeInv, KeptInv, [Next]_vars
    PROVE  KeptInv'
<1>0. TypeOK /\ LocalsOK
  BY DEF TypeInv
<1> USE DEF KeptInv
<1>1. ASSUME NEW c \in Controllers, ControllerStep(c) PROVE KeptInv'
  <2>1. pc[c] # "idle" => cur[c] \in Sessions
    BY <1>0 DEF LocalsOK
  <2>2. CASE UNCHANGED sessions
    BY <2>2 DEF Exists
  <2>3. ASSUME pc[c] # "idle", NEW present \in BOOLEAN,
               PatchFinalizers(cur[c], present)
        PROVE  KeptInv'
    BY <1>0, <2>1, <2>3 DEF PatchFinalizers, Exists, TypeOK, Session
  <2>4. CASE pc[c] = "patchStatus" /\ PatchStatus(cur[c], out[c])
    <3>1. out[c] \in Status
      BY <1>0 DEF TypeOK
    <3>2. QED
      BY <1>0, <2>1, <2>4, <3>1, PatchStatusEffect
  <2>5. QED
    BY <1>1, <2>2, <2>3, <2>4, ControllerEffects
<1>2. ASSUME NEW s \in Sessions, NEW profile \in Profiles, NEW ttl \in TTLs,
             CreateSession(s, profile, ttl)
      PROVE  KeptInv'
  BY <1>0, <1>2 DEF CreateSession, NewSession, Exists, TypeOK
<1>3. ASSUME NEW s \in Sessions, DeleteSession(s) PROVE KeptInv'
  BY <1>0, <1>3 DEF DeleteSession, Exists, TypeOK, Session
<1>4. ASSUME NEW s \in Sessions,
             \/ StartPod(s) \/ StopPod(s) \/ EvictPod(s)
             \/ ReapPod(s) \/ GarbageCollect(s)
      PROVE  UNCHANGED sessions
  BY <1>4 DEF StartPod, StopPod, EvictPod, ReapPod, GarbageCollect, UpdatePod
<1>5. ASSUME \/ \E profile \in RuntimeClassProfiles : ChangeRuntimeClass(profile)
             \/ Tick \/ UNCHANGED vars \/ \E c \in Controllers : Crash(c)
      PROVE  UNCHANGED sessions
  BY <1>5 DEF ChangeRuntimeClass, Tick, vars, Crash, cluster
<1>6. CASE UNCHANGED sessions
  BY <1>6 DEF Exists
<1>7. QED
  BY <1>1, <1>2, <1>3, <1>4, <1>5, <1>6 DEF Next, UserStep, ClusterStep

-----------------------------------------------------------------------------

\* What the cluster does by itself is invisible to SessionApi, but for the
\* removal of a session that was deleted.
LEMMA ClusterSimulated ==
    ASSUME TimesInv, [ClusterStep]_vars, UNCHANGED <<calls, owner>>
    PROVE  [Api!Next]_(Api!apiContractVars)
<1> DEFINE life == [s \in Sessions |-> Life(s)]
<1>0. TypeInv /\ TypeOK /\ LocalsOK
  BY DEF TimesInv, TypeInv
<1>1. ASSUME NEW s \in Sessions, Life(s) = "closing", Life(s)' = "gone",
             \A t \in Sessions \ {s} : Life(t)' = Life(t)
      PROVE  [Api!Next]_(Api!apiContractVars)
  <2>1. life[s] = "closing" /\ life' = [life EXCEPT ![s] = "gone"]
    BY <1>1
  <2>2. Api!Remove(s)
    BY <2>1 DEF Api!Remove
  <2>3. QED
    BY <2>2 DEF Api!Next
<1>2. ASSUME \A s \in Sessions : Life(s)' = Life(s)
      PROVE  [Api!Next]_(Api!apiContractVars)
  <2>1. life' = life
    BY <1>2
  <2>2. QED
    BY <2>1 DEF Api!apiContractVars
<1>3. ASSUME NEW c \in Controllers, ControllerStep(c)
      PROVE  [Api!Next]_(Api!apiContractVars)
  <2>1. UNCHANGED incarnations
    BY <1>0, <1>3, ControllerEffects
  <2>2. pc[c] # "idle" => cur[c] \in Sessions
    BY <1>0 DEF LocalsOK
  <2>3. CASE UNCHANGED sessions
    BY <1>2, <2>1, <2>3 DEF Life, Exists
  <2>4. CASE pc[c] = "patchStatus" /\ PatchStatus(cur[c], out[c])
    <3>1. out[c] \in Status
      BY <1>0 DEF TypeOK
    <3>2. QED
      BY <1>0, <1>2, <2>1, <2>2, <2>4, <3>1, PatchStatusEffect DEF Life
  <2>5. ASSUME pc[c] # "idle", NEW present \in BOOLEAN,
               PatchFinalizers(cur[c], present)
        PROVE  [Api!Next]_(Api!apiContractVars)
    <3>0. PICK s \in Sessions : s = cur[c]
      BY <2>2, <2>5
    <3>1. /\ \A t \in Sessions : Exists(t)' =>
                Exists(t) /\ sessions'[t].deleting = sessions[t].deleting
          /\ \A t \in Sessions \ {s} : sessions'[t] = sessions[t]
          /\ Exists(s) /\ (present \/ ~sessions[s].deleting) => Exists(s)'
      BY <1>0, <2>5, <3>0, PatchFinalizersEffect
    <3>2. \A t \in Sessions \ {s} : Life(t)' = Life(t)
      BY <2>1, <3>1 DEF Life, Exists
    <3>3. CASE Exists(s) <=> Exists(s)'
      <4>1. Life(s)' = Life(s)
        BY <2>1, <3>1, <3>3 DEF Life
      <4>2. QED
        BY <1>2, <3>2, <4>1
    <3>4. CASE Exists(s) /\ ~Exists(s)'
      <4>1. Life(s) = "closing"
        BY <3>1, <3>4 DEF Life
      <4>2. Life(s)' = "gone"
        BY <1>0, <2>1, <3>4, ExistingUsed DEF Life, TimesInv
      <4>3. QED
        BY <1>1, <3>2, <4>1, <4>2
    <3>5. QED
      BY <3>1, <3>3, <3>4
  <2>6. QED
    BY <1>0, <1>3, <2>3, <2>4, <2>5, ControllerEffects
<1>4. ASSUME NEW s \in Sessions,
             \/ StartPod(s) \/ StopPod(s) \/ EvictPod(s)
             \/ ReapPod(s) \/ GarbageCollect(s)
      PROVE  UNCHANGED <<sessions, incarnations>>
  BY <1>4 DEF StartPod, StopPod, EvictPod, ReapPod, GarbageCollect, UpdatePod
<1>5. ASSUME \/ \E profile \in RuntimeClassProfiles : ChangeRuntimeClass(profile)
             \/ Tick \/ UNCHANGED vars \/ \E c \in Controllers : Crash(c)
      PROVE  UNCHANGED <<sessions, incarnations>>
  BY <1>5 DEF ChangeRuntimeClass, Tick, vars, Crash, cluster
<1>6. CASE UNCHANGED <<sessions, incarnations>>
  BY <1>2, <1>6 DEF Life, Exists
<1>7. QED
  BY <1>3, <1>4, <1>5, <1>6 DEF ClusterStep

\* A request that fails without touching a session.
LEMMA FailSimulated ==
    ASSUME ServerTypeInv, NEW r \in Requests, step[r] # "none",
           UNCHANGED <<sessions, incarnations, owner>>,
           Answer(r, "error") \/ Answer(r, "missing")
    PROVE  [Api!Next]_(Api!apiContractVars)
<1> DEFINE life == [s \in Sessions |-> Life(s)]
<1>1. Api!Pending(r)
  BY DEF ServerTypeInv, HandlersInv, StepOK, Pending, Api!Pending
<1>2. life' = life
  BY DEF Life, Exists
<1>3. Api!Reply(r, "error") \/ Api!Reply(r, "missing")
  BY DEF Answer, Reply, Api!Reply
<1>4. Api!Fail(r)
  BY <1>2, <1>3 DEF Api!Fail
<1>5. QED
  BY <1>1, <1>4 DEF Api!Serve, Api!Next

\* A creation is an instant of SessionApi, or fails.
LEMMA CreateSimulated ==
    ASSUME TimesInv, ServerTypeInv, NEW r \in Requests, StoreCreate(r)
    PROVE  [Api!Next]_(Api!apiContractVars)
<1> DEFINE life == [s \in Sessions |-> Life(s)]
<1>1. /\ Api!Pending(r) /\ calls[r].method = "create" /\ step[r] = "create"
      /\ TypeOK
  BY DEF StoreCreate, ServerTypeInv, HandlersInv, StepOK, Pending, Api!Pending,
         TimesInv, TypeInv
<1>2. ASSUME NEW s \in Sessions, NEW profile \in Profiles, NEW ttl \in TTLs,
             CreateSession(s, profile, ttl),
             owner' = [owner EXCEPT ![s] = calls[r].user],
             AnswerCreated(r, s) \/ Answer(r, "error")
      PROVE  [Api!Next]_(Api!apiContractVars)
  <2>1. /\ Life(s) = "absent" \/ (Life(s) = "gone" /\ MaxIncarnations # 1)
        /\ \A t \in Sessions \ {s} : Life(t)' = Life(t)
    <3>1. ~Exists(s) /\ (incarnations[s] = 0 \/ MaxIncarnations # 1)
      BY <1>1, <1>2 DEF CreateSession, TypeOK
    <3>2. QED
      BY <1>1, <1>2, <3>1 DEF CreateSession, Life, Exists, TypeOK
  <2>2. Life(s)' = "open"
    BY <1>1, <1>2 DEF CreateSession, NewSession, Life, Exists, TypeOK, NoSession
  <2>3. Api!Free(s) /\ life' = [life EXCEPT ![s] = "open"]
    BY <2>1, <2>2 DEF Api!Free
  <2>4. Api!ReplyCreated(r, s) \/ Api!Reply(r, "error")
    BY <1>2 DEF AnswerCreated, ReplyCreated, Answer, Reply,
                Api!ReplyCreated, Api!Reply
  <2>5. Api!Create(r)
    BY <1>1, <1>2, <2>3, <2>4 DEF Api!Create
  <2>6. QED
    BY <1>1, <2>5 DEF Api!Serve, Api!Next
<1>3. CASE Answer(r, "error") /\ UNCHANGED <<vars, owner>>
  BY <1>1, <1>3, FailSimulated DEF vars
<1>4. QED
  BY <1>2, <1>3 DEF StoreCreate

\* So is a deletion, which may come after another one of the same session.
LEMMA DeleteSimulated ==
    ASSUME TimesInv, ServerTypeInv, OwnersInv, KeptInv, NEW r \in Requests,
           StoreDelete(r)
    PROVE  [Api!Next]_(Api!apiContractVars)
<1> DEFINE life == [s \in Sessions |-> Life(s)]
<1>1. PICK s \in Sessions : s = calls[r].session
  BY DEF StoreDelete, ServerTypeInv, HandlersInv, StepOK
<1>2. /\ Api!Pending(r) /\ calls[r].method = "delete" /\ step[r] = "delete"
      /\ owner[s] = calls[r].user /\ incarnations[s] # 0
      /\ UNCHANGED owner /\ TypeOK
  BY <1>1 DEF StoreDelete, ServerTypeInv, HandlersInv, StepOK, Pending,
              Api!Pending, OwnersInv, TimesInv, TypeInv
<1>3. ASSUME DeleteSession(s), Answer(r, "deleted") \/ Answer(r, "error")
      PROVE  [Api!Next]_(Api!apiContractVars)
  <2>1. /\ Life(s) \in {"open", "closing"}
        /\ \A t \in Sessions \ {s} : Life(t)' = Life(t)
    BY <1>2, <1>3 DEF DeleteSession, Life, Exists, TypeOK
  <2>2. Life(s)' = "closing" \/ (Life(s)' = "gone" /\ Life(s) = "open")
    <3>1. sessions[s] \in Session /\ UNCHANGED incarnations
      BY <1>2, <1>3 DEF DeleteSession, Exists, TypeOK
    <3>2. CASE sessions[s].finalizer
      <4>1. sessions'[s] = [sessions[s] EXCEPT !.deleting = TRUE]
        BY <1>2, <1>3, <3>2 DEF DeleteSession, TypeOK
      <4>2. sessions'[s] \in Session /\ sessions'[s].deleting
        BY <3>1, <4>1 DEF Session
      <4>3. QED
        BY <4>2, Sentinels DEF Life, Exists
    <3>3. CASE ~sessions[s].finalizer /\ ~sessions[s].deleting
      BY <1>2, <1>3, <3>1, <3>3 DEF DeleteSession, Life, Exists, TypeOK
    <3>4. CASE ~sessions[s].finalizer /\ sessions[s].deleting
      BY <3>1, <3>4, Sentinels DEF KeptInv, Exists
    <3>5. QED
      BY <3>2, <3>3, <3>4
  <2>3. \/ life' = [life EXCEPT ![s] = "closing"]
        \/ life[s] = "open" /\ life' = [life EXCEPT ![s] = "gone"]
    BY <2>1, <2>2
  <2>4. Api!Kept(s) /\ Api!Owns(r, s)
    BY <1>2, <2>1 DEF Api!Kept, Api!Owns
  <2>5. Api!Reply(r, "deleted") \/ Api!Reply(r, "error")
    BY <1>3 DEF Answer, Reply, Api!Reply
  <2>6. Api!Delete(r)
    BY <1>1, <1>2, <2>3, <2>4, <2>5 DEF Api!Delete
  <2>7. QED
    BY <1>2, <2>6 DEF Api!Serve, Api!Next
<1>4. CASE Answer(r, "error") /\ UNCHANGED vars
  BY <1>2, <1>4, FailSimulated DEF vars
<1>5. QED
  BY <1>1, <1>2, <1>3, <1>4 DEF StoreDelete

\* Every operation of a handler is an instant of SessionApi, or invisible.
LEMMA RequestSimulated ==
    ASSUME TimesInv, ServerTypeInv, OwnersInv, KeptInv, NEW r \in Requests,
           RequestStep(r)
    PROVE  [Api!Next]_(Api!apiContractVars)
<1> DEFINE life == [s \in Sessions |-> Life(s)]
<1>1. StepOK(r, Sessions) /\ calls[r] \in ApiCall(Sessions, NoName)
  BY DEF ServerTypeInv, HandlersInv
<1>2. ASSUME UNCHANGED vars PROVE life' = life
  BY <1>2 DEF Life, Exists, vars
<1>3. step[r] # "none" => Api!Pending(r)
  BY <1>1 DEF StepOK, Pending, Api!Pending
<1>4. ASSUME NEW s \in Sessions
      PROVE  /\ Api!Kept(s) <=> Exists(s)
             /\ Api!Owns(r, s) <=> owner[s] = calls[r].user
  BY <1>4 DEF Api!Kept, Api!Owns, Life
<1>5. CASE ReceiveCall(r)
  <2>1. PICK u \in Users, method \in Methods, s \in Sessions \cup {NoName} :
            Receive(r, u, method, s)
    BY <1>5 DEF ReceiveCall, Methods
  <2>2. Api!Ask(r, u, method, s) /\ method \in Api!Methods
    BY <2>1 DEF Receive, Ask, Pending, Api!Ask, Api!Pending, Methods, Api!Methods
  <2>3. UNCHANGED vars /\ UNCHANGED owner
    BY <1>5 DEF ReceiveCall
  <2>4. Api!Call(r)
    BY <1>2, <2>2, <2>3 DEF Api!Call
  <2>5. QED
    BY <2>4 DEF Api!Next
<1>6. CASE RefuseCall(r)
  <2>1. UNCHANGED vars /\ UNCHANGED owner /\ step[r] = "create"
        /\ Answer(r, "refused")
    BY <1>6 DEF RefuseCall, Refuse
  <2>2. Api!Reply(r, "refused")
    BY <2>1 DEF Answer, Reply, Api!Reply
  <2>3. Api!Refuse(r)
    BY <1>1, <1>2, <2>1, <2>2 DEF StepOK, Api!Refuse
  <2>4. QED
    BY <1>3, <2>1, <2>3 DEF Api!Serve, Api!Next
<1>7. CASE StoreCreate(r)
  BY <1>7, CreateSimulated
<1>8. CASE StoreGet(r)
  <2>1. PICK s \in Sessions : s = calls[r].session
    BY <1>1, <1>8 DEF StoreGet, StepOK
  <2>2. /\ step[r] = "get" /\ calls[r].method \in {"get", "delete"}
        /\ UNCHANGED <<vars, owner>>
    BY <1>1, <1>8 DEF StoreGet, StepOK
  <2>3. CASE Answer(r, "missing")
    BY <2>2, <2>3, FailSimulated DEF vars
  <2>4. CASE Exists(s) /\ owner[s] # calls[r].user /\ Answer(r, "forbidden")
    <3>1. Api!Reply(r, "forbidden")
      BY <2>4 DEF Answer, Reply, Api!Reply
    <3>2. Api!Deny(r)
      BY <1>2, <1>4, <2>1, <2>2, <2>4, <3>1 DEF Api!Deny
    <3>3. QED
      BY <1>3, <2>2, <3>2 DEF Api!Serve, Api!Next
  <2>5. CASE /\ Exists(s) /\ owner[s] = calls[r].user
             /\ calls[r].method = "get" /\ Answer(r, "found")
    <3>1. Api!Reply(r, "found")
      BY <2>5 DEF Answer, Reply, Api!Reply
    <3>2. Api!Get(r)
      BY <1>2, <1>4, <2>1, <2>2, <2>5, <3>1 DEF Api!Get
    <3>3. QED
      BY <1>3, <2>2, <3>2 DEF Api!Serve, Api!Next
  <2>6. CASE UNCHANGED calls
    BY <1>2, <2>2, <2>6 DEF Api!apiContractVars
  <2>7. QED
    BY <1>8, <2>1, <2>3, <2>4, <2>5, <2>6 DEF StoreGet, AfterGet
<1>9. CASE StoreList(r)
  <2>1. /\ step[r] = "list" /\ calls[r].method = "list"
        /\ UNCHANGED <<vars, owner>>
    BY <1>1, <1>9 DEF StoreList, StepOK
  <2>2. CASE Answer(r, "error")
    BY <2>1, <2>2, FailSimulated DEF vars
  <2>3. CASE AnswerListed(r, {s \in Sessions :
                                Exists(s) /\ owner[s] = calls[r].user})
    <3>1. {s \in Sessions : Exists(s) /\ owner[s] = calls[r].user}
            = {s \in Sessions : Api!Kept(s) /\ Api!Owns(r, s)}
      BY <1>4
    <3>2. Api!List(r)
      BY <1>2, <2>1, <2>3, <3>1
         DEF AnswerListed, ReplyListed, Api!ReplyListed, Api!List
    <3>3. QED
      BY <1>3, <2>1, <3>2 DEF Api!Serve, Api!Next
  <2>4. QED
    BY <1>9, <2>2, <2>3 DEF StoreList
<1>10. CASE StoreDelete(r)
  BY <1>10, DeleteSimulated
<1>11. CASE BreakOff(r)
  BY <1>11, FailSimulated DEF BreakOff, vars
<1>12. QED
  BY <1>5, <1>6, <1>7, <1>8, <1>9, <1>10, <1>11 DEF RequestStep, ApiStep

\* What both results below need of a step.
LEMMA ApiStepSimulated ==
    ASSUME TimesInv, ServerTypeInv, OwnersInv, KeptInv, [ApiNext]_apiVars,
           [LeftAlone]_apiVars
    PROVE  /\ OwnersInv' /\ KeptInv'
           /\ [Api!Next]_(Api!apiContractVars)
<1>1. OwnersInv' /\ KeptInv'
  BY ApiNextOwners, ApiStepIsStep, NextKeptInv DEF TimesInv
<1>2. [Api!Next]_(Api!apiContractVars)
  BY ApiStepKinds, ClusterSimulated, RequestSimulated
<1>3. QED
  BY <1>1, <1>2

LEMMA ApiStarts == ApiInit => OwnersInv /\ KeptInv /\ Api!Init
<1>1. ApiInit => OwnersInv /\ KeptInv
  BY DEF ApiInit, HandlersInit, Init, OwnersInv, KeptInv, Exists
<1>2. ApiInit => Api!Init
  BY DEF ApiInit, Init, Life, Exists, Api!Init, NoCall, Api!NoCall
<1>3. QED
  BY <1>1, <1>2

\* A name that was never drawn is not that of a session about to be deleted.
LEMMA UsedOnceLeavesAlone ==
    ASSUME NamesUsedOnce, TimesInv, ServerTypeInv, OwnersInv,
           [ApiNext]_apiVars
    PROVE  LeftAlone
<1>0. TypeOK
  BY DEF TimesInv, TypeInv
<1>1. ASSUME NEW s \in Sessions, incarnations'[s] # incarnations[s]
      PROVE  incarnations[s] = 0
  <2>1. CASE [ClusterStep]_vars
    BY <1>0, <1>1, <2>1, ClusterKeepsTimes
  <2>2. ASSUME NEW r \in Requests, RequestStep(r) PROVE incarnations[s] = 0
    <3>1. CASE UNCHANGED incarnations
      BY <1>1, <3>1
    <3>2. ASSUME NEW t \in Sessions, NEW profile \in Profiles,
                 NEW ttl \in TTLs, CreateSession(t, profile, ttl)
          PROVE  incarnations[s] = 0
      <4>1. s = t
        BY <1>0, <1>1, <3>2 DEF CreateSession, TypeOK
      <4>2. QED
        BY <1>0, <3>2, <4>1 DEF CreateSession, NamesUsedOnce, TypeOK
    <3>3. QED
      BY <2>2, <3>1, <3>2, RequestOnCluster DEF vars, DeleteSession
  <2>3. QED
    BY <2>1, <2>2, ApiStepKinds
<1>2. QED
  BY <1>1 DEF LeftAlone, OwnersInv

\* Beside the controller, too, the handlers keep the promises of SessionApi,
\* for any number of users, requests, controllers, failures and crashes, and
\* however often a name is used, as long as it is left alone while a session of
\* that name is being deleted.
THEOREM ApiServerImplementsApi == ApiSpec /\ NamesLeftAlone => ImplementsApi
<1>1. ApiSpec => []TimesInv
  BY ApiLeavesController, TimesCorrect, PTL
<1>2. TimesInv /\ ServerTypeInv /\ OwnersInv /\ KeptInv
            /\ [ApiNext]_apiVars /\ [LeftAlone]_apiVars
        => OwnersInv' /\ KeptInv' /\ [Api!Next]_(Api!apiContractVars)
  BY ApiStepSimulated
<1>3. QED
  BY <1>1, <1>2, ApiStarts, ApiTypesCorrect, PTL
     DEF ApiSpec, NamesLeftAlone, ImplementsApi, Api!Spec

\* Names that are drawn once are left alone.
COROLLARY ApiServerImplementsApiOnce ==
    ASSUME NamesUsedOnce
    PROVE  ApiSpec => ImplementsApi
<1>1. ApiSpec => []TimesInv
  BY ApiLeavesController, TimesCorrect, PTL
<1>2. TimesInv /\ ServerTypeInv /\ OwnersInv /\ [ApiNext]_apiVars => LeftAlone
  BY UsedOnceLeavesAlone
<1>3. TimesInv /\ ServerTypeInv /\ OwnersInv /\ KeptInv /\ [ApiNext]_apiVars
            /\ LeftAlone
        => OwnersInv' /\ KeptInv'
  BY ApiStepSimulated
<1>4. ApiSpec => NamesLeftAlone
  BY <1>1, <1>2, <1>3, ApiStarts, ApiTypesCorrect, PTL
     DEF ApiSpec, NamesLeftAlone
<1>5. QED
  BY <1>4, ApiServerImplementsApi
=============================================================================
