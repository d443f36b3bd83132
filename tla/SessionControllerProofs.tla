----------------------- MODULE SessionControllerProofs -----------------------
(***************************************************************************)
(* Theorems about SessionController, for every value of its constants.     *)
(***************************************************************************)
EXTENDS SessionController, TLAPS

-----------------------------------------------------------------------------
(* The functions of AgentSession. *)

\* EnsureStatusTimes changes nothing but the expiry, which becomes ExpiryTime
\* if status is the session's own with other fields assigned.
LEMMA EnsureStatusTimesFields ==
    ASSUME NEW session \in Session, NEW status \in Status
    PROVE  LET ensured == EnsureStatusTimes(session, status) IN
           /\ ensured \in Status
           /\ ensured.phase = status.phase
           /\ ensured.reason = status.reason
           /\ ensured.podName = status.podName
           /\ ensured.terminalReady = status.terminalReady
           /\ ensured.expiresAt # NoTime
           /\ status.expiresAt = session.status.expiresAt
                => ensured.expiresAt = ExpiryTime(session)
<1>1. session.created \in Nat /\ session.ttl \in Nat \ {0}
  BY TTLAssumption DEF Session
<1>2. session.created + session.ttl \in Nat \ {0}
  BY <1>1
<1>3. QED
  BY <1>2 DEF Status, EnsureStatusTimes, ExpiryTime, NoTime

\* The statuses that Reconcile writes, field by field.
LEMMA StatusFields ==
    ASSUME NEW session \in Session, NEW why \in Reasons
    PROVE  LET failed == FailStatus(session, why)
               expired == ExpiredStatus(session)
               provisioning == ProvisioningStatus(session)
               ready == RunningStatus(session)
           IN
           /\ \A status \in {failed, expired, provisioning, ready} :
                /\ status \in Status
                /\ status.expiresAt = ExpiryTime(session)
                /\ status.expiresAt # NoTime
           /\ failed.phase = "Failed" /\ failed.reason = why
           /\ expired.phase = "Expired" /\ expired.reason = "Expired"
           /\ provisioning.phase = "Provisioning" /\ provisioning.podName
           /\ ready.phase = "Running" /\ ready.podName
           /\ ~failed.terminalReady /\ ~expired.terminalReady
           /\ ~provisioning.terminalReady /\ ready.terminalReady
<1> DEFINE f == [session.status EXCEPT !.phase = "Failed", !.reason = why,
                                       !.terminalReady = FALSE]
           e == [session.status EXCEPT !.phase = "Expired",
                                       !.reason = "Expired",
                                       !.terminalReady = FALSE]
           p == [session.status EXCEPT !.phase = "Provisioning",
                                       !.podName = TRUE,
                                       !.terminalReady = FALSE]
           r == [session.status EXCEPT !.phase = "Running", !.podName = TRUE,
                                       !.terminalReady = TRUE]
<1>1. session.status \in Status
  BY DEF Session
<1>2. /\ f \in Status /\ f.phase = "Failed" /\ f.reason = why
      /\ f.terminalReady = FALSE
      /\ f.expiresAt = session.status.expiresAt
  BY <1>1 DEF Status, Phases
<1>3. /\ e \in Status /\ e.phase = "Expired" /\ e.reason = "Expired"
      /\ e.terminalReady = FALSE
      /\ e.expiresAt = session.status.expiresAt
  BY <1>1 DEF Status, Phases, Reasons
<1>4. /\ p \in Status /\ p.phase = "Provisioning" /\ p.podName = TRUE
      /\ p.terminalReady = FALSE
      /\ p.expiresAt = session.status.expiresAt
  BY <1>1 DEF Status, Phases
<1>5. /\ r \in Status /\ r.phase = "Running" /\ r.podName = TRUE
      /\ r.terminalReady = TRUE
      /\ r.expiresAt = session.status.expiresAt
  BY <1>1 DEF Status, Phases
<1> HIDE DEF f, e, p, r
<1>6. /\ FailStatus(session, why) = EnsureStatusTimes(session, f)
      /\ ExpiredStatus(session) = EnsureStatusTimes(session, e)
      /\ ProvisioningStatus(session) = EnsureStatusTimes(session, p)
      /\ RunningStatus(session) = EnsureStatusTimes(session, r)
  BY DEF FailStatus, ExpiredStatus, ProvisioningStatus, RunningStatus, f, e, p, r
<1>7. QED
  BY <1>2, <1>3, <1>4, <1>5, <1>6, EnsureStatusTimesFields

\* BuildPod returns a Pod, and ExpiryTime is a time.
LEMMA BuildPodType ==
    ASSUME NEW session \in Session
    PROVE  BuildPod(session) \in Pod /\ ExpiryTime(session) \in Nat
<1>1. /\ session.uid \in Nat \ {0}
      /\ session.created \in Nat
      /\ session.ttl \in Nat
      /\ session.status.expiresAt \in Nat
  BY TTLAssumption DEF Session, Status
<1>2. ExpiryTime(session) \in Nat
  BY <1>1 DEF ExpiryTime, NoTime
<1>3. QED
  BY <1>1, <1>2 DEF BuildPod, Pod, PodPhases

\* The sentinels are not objects.
LEMMA Sentinels ==
    /\ \A session \in Session : session # NoSession
    /\ \A pod \in Pod : pod # NoPod
BY DEF Session, NoSession, Pod, NoPod

-----------------------------------------------------------------------------
(* Type correctness. *)

\* The type invariant with what a controller's locals hold while it works.
TypeInv == TypeOK /\ LocalsOK

\* A status nobody has written is a status.
LEMMA EmptyStatusType == EmptyStatus \in Status
BY DEF EmptyStatus, Status, Phases, Reasons, NoTime

\* The initial states are well typed.
LEMMA InitTypeInv == Init => TypeInv
BY EmptyStatusType DEF Init, TypeInv, TypeOK, LocalsOK, Calls

\* What a patch of a session's status or finalizers leaves is a session.
LEMMA PatchTypes ==
    ASSUME TypeOK, NEW s \in Sessions, NEW status \in Status,
           NEW present \in BOOLEAN,
           PatchStatus(s, status) \/ PatchFinalizers(s, present)
    PROVE  sessions' \in [Sessions -> Session \cup {NoSession}]
<1>1. ASSUME sessions[s] # NoSession
      PROVE  /\ [sessions[s] EXCEPT !.status = status] \in Session
             /\ [sessions[s] EXCEPT !.finalizer = present] \in Session
  BY <1>1 DEF TypeOK, Session
<1>2. CASE PatchStatus(s, status)
  BY <1>1, <1>2 DEF TypeOK, PatchStatus
<1>3. CASE PatchFinalizers(s, present)
  BY <1>1, <1>3 DEF TypeOK, PatchFinalizers
<1>4. QED
  BY <1>2, <1>3

\* What the deletion of a Pod leaves is a Pod.
LEMMA DeletePodType ==
    ASSUME TypeOK, NEW s \in Sessions, DeletePod(s)
    PROVE  pods' \in [Sessions -> Pod \cup {NoPod}]
<1>1. ASSUME pods[s] # NoPod
      PROVE  [pods[s] EXCEPT !.terminating = TRUE] \in Pod
  <2>1. pods[s] \in Pod
    BY <1>1 DEF TypeOK
  <2>2. QED
    BY <2>1 DEF Pod
<1>2. QED
  BY <1>1 DEF TypeOK, DeletePod

\* What a controller's local steps leave is well typed.
LEMMA LocalTypes ==
    ASSUME TypeInv, NEW c \in Controllers,
           \/ Return(c)
           \/ \E call \in Calls : Continue(c, call) /\ pc[c] # "idle"
           \/ \E status \in Status : Report(c, status) /\ pc[c] # "idle"
    PROVE  /\ pc' \in [Controllers -> Calls]
           /\ queue' \in [Controllers -> SUBSET Sessions]
           /\ cur' \in [Controllers -> Sessions \cup {NoName}]
           /\ obj' \in [Controllers -> Session \cup {NoSession}]
           /\ out' \in [Controllers -> Status]
           /\ LocalsOK'
<1> USE DEF TypeInv, TypeOK, LocalsOK, Goto
<1>1. CASE Return(c)
  BY <1>1, EmptyStatusType DEF Return, Calls
<1>2. CASE \E call \in Calls : Continue(c, call) /\ pc[c] # "idle"
  BY <1>2 DEF Continue
<1>3. CASE \E status \in Status : Report(c, status) /\ pc[c] # "idle"
  BY <1>3 DEF Report, Calls
<1>4. QED
  BY <1>1, <1>2, <1>3

\* A controller's steps keep everything well typed.
LEMMA ControllerStepTypeInv ==
    ASSUME TypeInv, NEW c \in Controllers, ControllerStep(c)
    PROVE  TypeInv'
<1>0. ASSUME pc[c] # "idle"
      PROVE  cur[c] \in Sessions /\ obj[c] \in Session
  BY <1>0 DEF TypeInv, LocalsOK
<1> USE DEF TypeInv, cluster
<1>1. CASE ListSessions(c)
  BY <1>1 DEF ListSessions, TypeOK, LocalsOK
<1>2. CASE GetSession(c)
  BY <1>2 DEF GetSession, TypeOK, LocalsOK, Fault, Goto, FirstCall, Exists, Calls
<1>3. CASE AddFinalizer(c)
  <2>1. \/ Return(c)
        \/ \E call \in Calls : Continue(c, call) /\ pc[c] # "idle"
    BY <1>3 DEF AddFinalizer, Calls
  <2>2. sessions' \in [Sessions -> Session \cup {NoSession}]
    BY <1>0, <1>3, PatchTypes, EmptyStatusType DEF AddFinalizer, TypeOK
  <2>3. /\ faults' = faults \/ faults' = faults + 1
        /\ UNCHANGED <<pods, runtimeClasses, now, incarnations>>
    BY <1>3 DEF AddFinalizer, Fault
  <2>4. QED
    BY <2>1, <2>2, <2>3, LocalTypes DEF TypeOK
<1>4. CASE CheckExpiry(c)
  <2>1. \/ \E call \in Calls : Continue(c, call) /\ pc[c] # "idle"
        \/ \E status \in Status : Report(c, status) /\ pc[c] # "idle"
    BY <1>0, <1>4, StatusFields DEF CheckExpiry, Fail, Calls, Reasons
  <2>2. QED
    BY <1>4, <2>1, LocalTypes DEF CheckExpiry, TypeOK
<1>5. CASE CheckRuntimeClass(c)
  <2>1. \/ \E call \in Calls : Continue(c, call) /\ pc[c] # "idle"
        \/ \E status \in Status : Report(c, status) /\ pc[c] # "idle"
    BY <1>0, <1>5, StatusFields DEF CheckRuntimeClass, Fail, Calls, Reasons
  <2>2. QED
    BY <1>5, <2>1, LocalTypes DEF CheckRuntimeClass, TypeOK, Fault
<1>6. CASE GetPod(c)
  <2>1. \/ Return(c)
        \/ \E call \in Calls : Continue(c, call) /\ pc[c] # "idle"
        \/ \E status \in Status : Report(c, status) /\ pc[c] # "idle"
    BY <1>0, <1>6, StatusFields DEF GetPod, ObservedStatus, Calls, Reasons
  <2>2. QED
    BY <1>6, <2>1, LocalTypes DEF GetPod, TypeOK, Fault
<1>7. CASE CreatePod(c)
  <2>1. \E status \in Status : Report(c, status) /\ pc[c] # "idle"
    BY <1>0, <1>7, StatusFields DEF CreatePod, Fail, Reasons
  <2>2. pods' \in [Sessions -> Pod \cup {NoPod}]
    BY <1>0, <1>7, BuildPodType DEF CreatePod, TypeOK
  <2>3. QED
    BY <1>7, <2>1, <2>2, LocalTypes DEF CreatePod, TypeOK, Fault
<1>8. CASE ExpirePod(c)
  <2>1. \E status \in Status : Report(c, status) /\ pc[c] # "idle"
    BY <1>0, <1>8, StatusFields DEF ExpirePod, Reasons
  <2>2. pods' \in [Sessions -> Pod \cup {NoPod}]
    BY <1>0, <1>8, DeletePodType DEF ExpirePod, TryDeletePod, TypeOK
  <2>3. QED
    BY <1>8, <2>1, <2>2, LocalTypes DEF ExpirePod, TryDeletePod, TypeOK, Fault
<1>9. CASE WriteStatus(c)
  <2>1. out[c] \in Status
    BY DEF TypeOK
  <2>2. sessions' \in [Sessions -> Session \cup {NoSession}]
    BY <1>0, <1>9, <2>1, PatchTypes DEF WriteStatus, TypeOK
  <2>3. QED
    BY <1>9, <2>2, LocalTypes DEF WriteStatus, TypeOK, Fault
<1>10. CASE CleanupPod(c)
  <2>1. Continue(c, "removeFinalizer") /\ pc[c] # "idle"
    BY <1>10 DEF CleanupPod
  <2>2. pods' \in [Sessions -> Pod \cup {NoPod}]
    BY <1>0, <1>10, DeletePodType DEF CleanupPod, TryDeletePod, TypeOK
  <2>3. QED
    BY <1>10, <2>1, <2>2, LocalTypes DEF CleanupPod, TryDeletePod, TypeOK, Fault, Calls
<1>11. CASE RemoveFinalizer(c)
  <2>1. sessions' \in [Sessions -> Session \cup {NoSession}]
    BY <1>0, <1>11, PatchTypes, EmptyStatusType DEF RemoveFinalizer, TypeOK
  <2>2. Return(c) /\ (faults' = faults \/ faults' = faults + 1)
    BY <1>11 DEF RemoveFinalizer, Fault
  <2>3. UNCHANGED <<pods, runtimeClasses, now, incarnations>>
    BY <1>11 DEF RemoveFinalizer
  <2>4. QED
    BY <2>1, <2>2, <2>3, LocalTypes DEF TypeOK
<1>12. QED
  BY <1>1, <1>2, <1>3, <1>4, <1>5, <1>6, <1>7, <1>8, <1>9, <1>10, <1>11
     DEF ControllerStep

\* Every step keeps everything well typed.
LEMMA NextTypeInv == TypeInv /\ [Next]_vars => TypeInv'
<1> SUFFICES ASSUME TypeInv, [Next]_vars PROVE TypeInv'
  OBVIOUS
<1> USE DEF TypeInv, cluster, local
<1>1. ASSUME NEW c \in Controllers, ControllerStep(c) PROVE TypeInv'
  BY <1>1, ControllerStepTypeInv
<1>2. ASSUME NEW c \in Controllers, Crash(c) PROVE TypeInv'
  BY <1>2, EmptyStatusType DEF Crash, Goto, Fault, TypeOK, LocalsOK, Calls
<1>3. ASSUME NEW s \in Sessions, NEW profile \in Profiles, NEW ttl \in TTLs,
             CreateSession(s, profile, ttl)
      PROVE  TypeInv'
  <2>1. sessions'[s] \in Session
    BY <1>3, EmptyStatusType DEF CreateSession, NewSession, TypeOK, Session
  <2>2. QED
    BY <1>3, <2>1 DEF CreateSession, NewSession, TypeOK, LocalsOK
<1>4. ASSUME NEW s \in Sessions, DeleteSession(s) PROVE TypeInv'
  <2>1. sessions[s] \in Session
    BY <1>4 DEF DeleteSession, TypeOK, Exists
  <2>2. [sessions[s] EXCEPT !.deleting = TRUE] \in Session
    BY <2>1 DEF Session
  <2>3. \E left \in Session \cup {NoSession} :
            sessions' = [sessions EXCEPT ![s] = left]
    <3>1. sessions' = [sessions EXCEPT ![s] =
                          IF sessions[s].finalizer
                            THEN [sessions[s] EXCEPT !.deleting = TRUE]
                            ELSE NoSession]
      BY <1>4, Zenon DEF DeleteSession
    <3>2. QED
      BY <2>2, <3>1, Zenon
  <2>4. QED
    BY <1>4, <2>3 DEF DeleteSession, TypeOK, LocalsOK
<1>5. ASSUME NEW s \in Sessions, NEW pod \in Pod \cup {NoPod}, UpdatePod(s, pod)
      PROVE  TypeInv'
  BY <1>5 DEF UpdatePod, TypeOK, LocalsOK
<1>6. ASSUME NEW s \in Sessions,
             \/ StartPod(s) \/ StopPod(s) \/ EvictPod(s)
             \/ ReapPod(s) \/ GarbageCollect(s)
      PROVE  \E pod \in Pod \cup {NoPod} : UpdatePod(s, pod)
  <2>1. pods[s] # NoPod => pods[s] \in Pod
    BY DEF TypeOK
  <2>2. ASSUME pods[s] \in Pod, NEW phase \in PodPhases
        PROVE  /\ [pods[s] EXCEPT !.phase = phase] \in Pod
               /\ [pods[s] EXCEPT !.terminating = TRUE] \in Pod
    BY <2>2 DEF Pod
  <2>3. QED
    BY <1>6, <2>1, <2>2
       DEF StartPod, StopPod, EvictPod, ReapPod, GarbageCollect, Live, PodPhases
<1>7. ASSUME NEW profile \in RuntimeClassProfiles, ChangeRuntimeClass(profile)
      PROVE  TypeInv'
  BY <1>7 DEF ChangeRuntimeClass, TypeOK, LocalsOK
<1>8. CASE Tick
  BY <1>8 DEF Tick, TypeOK, LocalsOK
<1>9. CASE UNCHANGED vars
  BY <1>9 DEF vars, TypeOK, LocalsOK
<1>10. QED
  BY <1>1, <1>2, <1>3, <1>4, <1>5, <1>6, <1>7, <1>8, <1>9 DEF Next, UserStep, ClusterStep

\* Every variable always has its type, and every copy a controller works on is
\* a session, for any number of controllers, faults and incarnations.
THEOREM TypeCorrect == Spec => []TypeInv
BY InitTypeInv, NextTypeInv, PTL DEF Spec

\* Every variable keeps its type: what the single run checks on an instance.
THEOREM Typed == Spec => []TypeOK
BY TypeCorrect, PTL DEF TypeInv

-----------------------------------------------------------------------------
(* Consistent statuses. *)

\* Besides those in the cluster, the statuses about to be written are
\* consistent.
StatusInv == StatusConsistent /\ \A c \in Controllers : Consistent(out[c])

\* Whatever Reconcile reports is consistent, whatever it read.
LEMMA ReportsConsistent ==
    ASSUME NEW session \in Session, NEW why \in Reasons
    PROVE  \A status \in {FailStatus(session, why), ExpiredStatus(session),
                          ProvisioningStatus(session), RunningStatus(session)} :
               Consistent(status)
<1>1. /\ FailStatus(session, why).phase = "Failed"
      /\ ~FailStatus(session, why).terminalReady
      /\ FailStatus(session, why).expiresAt # NoTime
  BY StatusFields
<1>2. /\ ExpiredStatus(session).phase = "Expired"
      /\ ExpiredStatus(session).reason = "Expired"
      /\ ~ExpiredStatus(session).terminalReady
      /\ ExpiredStatus(session).expiresAt # NoTime
  BY StatusFields
<1>3. /\ ProvisioningStatus(session).phase = "Provisioning"
      /\ ProvisioningStatus(session).podName
      /\ ~ProvisioningStatus(session).terminalReady
      /\ ProvisioningStatus(session).expiresAt # NoTime
  BY StatusFields
<1>4. /\ RunningStatus(session).phase = "Running"
      /\ RunningStatus(session).podName
      /\ RunningStatus(session).terminalReady
      /\ RunningStatus(session).expiresAt # NoTime
  BY StatusFields
<1>5. Consistent(FailStatus(session, why))
  BY <1>1 DEF Consistent
<1>6. Consistent(ExpiredStatus(session))
  BY <1>2 DEF Consistent
<1>7. Consistent(ProvisioningStatus(session))
  BY <1>3 DEF Consistent
<1>8. Consistent(RunningStatus(session))
  BY <1>4 DEF Consistent
<1>9. QED
  BY <1>5, <1>6, <1>7, <1>8

\* A status nobody has written is consistent.
LEMMA EmptyConsistent == Consistent(EmptyStatus)
BY DEF Consistent, EmptyStatus

\* A controller's step computes a consistent status or returns.
LEMMA ControllerStatusInv ==
    ASSUME TypeInv, StatusInv, NEW c \in Controllers, ControllerStep(c)
    PROVE  StatusInv'
<1>1. pc[c] # "idle" => obj[c] \in Session
  BY DEF TypeInv, LocalsOK
<1> USE DEF TypeInv, TypeOK, StatusInv, StatusConsistent, cluster
<1>2. \/ UNCHANGED out
      \/ out' = [out EXCEPT ![c] = EmptyStatus]
      \/ \E status \in Status :
            Consistent(status) /\ out' = [out EXCEPT ![c] = status]
  BY <1>1, StatusFields, ReportsConsistent, ControllerStep(c)
     DEF ControllerStep, ListSessions, GetSession, AddFinalizer, CheckExpiry,
         CheckRuntimeClass, GetPod, CreatePod, ExpirePod, WriteStatus,
         CleanupPod, RemoveFinalizer, Continue, Return, Report, Fail,
         ObservedStatus, Reasons
<1>3. \A d \in Controllers : Consistent(out'[d])
  BY <1>2, EmptyConsistent
<1>4. \/ UNCHANGED sessions
      \/ \E s \in Sessions, present \in BOOLEAN : PatchFinalizers(s, present)
      \/ \E s \in Sessions : PatchStatus(s, out[c])
  BY ControllerStep(c)
     DEF ControllerStep, ListSessions, GetSession, AddFinalizer, CheckExpiry,
         CheckRuntimeClass, GetPod, CreatePod, ExpirePod, WriteStatus,
         CleanupPod, RemoveFinalizer, LocalsOK
<1>5. StatusConsistent'
  BY <1>4 DEF PatchFinalizers, PatchStatus, Exists, Session
<1>6. QED
  BY <1>3, <1>5

\* Every step keeps every status consistent.
LEMMA NextStatusInv == TypeInv /\ StatusInv /\ [Next]_vars => StatusInv'
<1> SUFFICES ASSUME TypeInv, StatusInv, [Next]_vars PROVE StatusInv'
  OBVIOUS
<1> USE DEF StatusInv, StatusConsistent, Exists, cluster, local
<1>1. ASSUME NEW c \in Controllers, ControllerStep(c) PROVE StatusInv'
  BY <1>1, ControllerStatusInv
<1>2. ASSUME NEW c \in Controllers, Crash(c) PROVE StatusInv'
  BY <1>2, EmptyConsistent DEF Crash, TypeInv, TypeOK
<1>3. ASSUME NEW s \in Sessions, NEW profile \in Profiles, NEW ttl \in TTLs,
             CreateSession(s, profile, ttl)
      PROVE  StatusInv'
  BY <1>3, EmptyConsistent DEF CreateSession, NewSession, TypeInv, TypeOK
<1>4. ASSUME NEW s \in Sessions, DeleteSession(s) PROVE StatusInv'
  BY <1>4 DEF DeleteSession, TypeInv, TypeOK, Session
<1>5. ASSUME UNCHANGED <<sessions, local>> PROVE StatusInv'
  BY <1>5
<1>6. QED
  BY <1>1, <1>2, <1>3, <1>4, <1>5
     DEF Next, UserStep, ClusterStep, StartPod, StopPod, EvictPod, ReapPod, GarbageCollect, UpdatePod,
         ChangeRuntimeClass, Tick, vars

\* So are they in every reachable state.
LEMMA StatusesCorrect == Spec => []StatusInv
<1>1. Init => StatusInv
  BY EmptyConsistent DEF Init, StatusInv, StatusConsistent, Exists
<1>2. TypeInv /\ StatusInv /\ [Next]_vars => StatusInv'
  BY NextStatusInv
<1>3. QED
  BY <1>1, <1>2, TypeCorrect, PTL DEF Spec

\* Every status that other components read is consistent, for any number of
\* controllers, failures, crashes and incarnations.
THEOREM StatusesConsistent == Spec => []StatusConsistent
BY StatusesCorrect, PTL DEF StatusInv

-----------------------------------------------------------------------------
(* Expiry: all copies of a session agree on when it ends. *)

\* A session's expiry has not been written, or was computed from its TTL.
ExpiryKnown(session) ==
    session.status.expiresAt \in {NoTime, session.created + session.ttl}

\* The object in the API server is the latest of its name; a Pod, and a
\* controller's copy, may be of an earlier one.
NamesInv ==
    /\ \A s \in Sessions :
        /\ Exists(s) => sessions[s].uid = incarnations[s]
        /\ pods[s] # NoPod => pods[s].owner <= incarnations[s]
    /\ \A c \in Controllers :
        pc[c] # "idle" => obj[c].uid <= incarnations[cur[c]]

\* What a session, the copies of it and what is computed from them say of its
\* expiry, as long as there was no earlier session of its name.
ExpiryInv ==
    /\ \A s \in Sessions :
        UsedOnce(s) /\ Exists(s) => ExpiryKnown(sessions[s])
    /\ \A c \in Controllers :
        pc[c] # "idle" /\ UsedOnce(cur[c]) =>
            /\ ExpiryKnown(obj[c])
            /\ Exists(cur[c]) => /\ obj[c].created = sessions[cur[c]].created
                                 /\ obj[c].ttl = sessions[cur[c]].ttl
            /\ pc[c] = "patchStatus" =>
                out[c].expiresAt = obj[c].created + obj[c].ttl
    /\ TokenMatchesExpiry

\* What a controller's step does to the local variables and to the cluster,
\* as far as names and times are concerned.
LEMMA ControllerEffects ==
    ASSUME TypeInv, NEW c \in Controllers, ControllerStep(c)
    PROVE  /\ UNCHANGED <<runtimeClasses, now, incarnations>>
           /\ \/ /\ UNCHANGED <<cur, obj>>
                 /\ pc'[c] # "idle" => pc[c] # "idle"
              \/ /\ pc'[c] = "idle"
                 /\ cur' = [cur EXCEPT ![c] = NoName]
                 /\ obj' = [obj EXCEPT ![c] = NoSession]
              \/ /\ pc[c] = "idle"
                 /\ \E s \in Sessions :
                     /\ Exists(s)
                     /\ cur' = [cur EXCEPT ![c] = s]
                     /\ obj' = [obj EXCEPT ![c] = sessions[s]]
                     /\ pc' = [pc EXCEPT ![c] = FirstCall(sessions[s])]
                     /\ UNCHANGED <<sessions, pods, out>>
           /\ \A d \in Controllers \ {c} : pc'[d] = pc[d] /\ out'[d] = out[d]
           /\ \/ UNCHANGED sessions
              \/ /\ pc[c] # "idle"
                 /\ \E present \in BOOLEAN : PatchFinalizers(cur[c], present)
              \/ /\ pc[c] = "patchStatus"
                 /\ PatchStatus(cur[c], out[c])
           /\ \/ UNCHANGED pods
              \/ pc[c] # "idle" /\ DeletePod(cur[c])
              \/ /\ pc[c] = "createPod"
                 /\ pods[cur[c]] = NoPod
                 /\ pods' = [pods EXCEPT ![cur[c]] = BuildPod(obj[c])]
           /\ pc'[c] = "patchStatus" =>
                out'[c].expiresAt = ExpiryTime(obj[c]) /\ pc[c] # "idle"
           /\ pc'[c] # "idle" /\ pc[c] # "idle" => UNCHANGED <<cur, obj>>
<1>0. pc[c] # "idle" => obj[c] \in Session
  BY DEF TypeInv, LocalsOK
<1> DEFINE Kept(status) == status.expiresAt = ExpiryTime(obj[c])
<1>1. pc[c] # "idle" =>
        /\ \A why \in Reasons : Kept(FailStatus(obj[c], why))
        /\ \A pod : Kept(ObservedStatus(obj[c], pod))
        /\ Kept(ProvisioningStatus(obj[c])) /\ Kept(ExpiredStatus(obj[c]))
  BY <1>0, StatusFields DEF ObservedStatus, Reasons
<1> USE DEF TypeInv, TypeOK, cluster, Goto
<1>2. CASE ListSessions(c)
  BY <1>2 DEF ListSessions
<1>3. CASE GetSession(c)
  BY <1>3 DEF GetSession, FirstCall, Exists
<1>4. CASE AddFinalizer(c)
  BY <1>4 DEF AddFinalizer, Continue, Return
<1>5. CASE CheckExpiry(c)
  BY <1>1, <1>5 DEF CheckExpiry, Continue, Report, Fail, Reasons
<1>6. CASE CheckRuntimeClass(c)
  BY <1>1, <1>6 DEF CheckRuntimeClass, Continue, Report, Fail, Reasons
<1>7. CASE GetPod(c)
  BY <1>1, <1>7 DEF GetPod, Continue, Return, Report
<1>8. CASE CreatePod(c)
  BY <1>1, <1>8 DEF CreatePod, Report, Fail, Reasons
<1>9. CASE ExpirePod(c)
  BY <1>1, <1>9 DEF ExpirePod, TryDeletePod, Report
<1>10. CASE WriteStatus(c)
  BY <1>10 DEF WriteStatus, Return
<1>11. CASE CleanupPod(c)
  BY <1>11 DEF CleanupPod, TryDeletePod, Continue
<1>12. CASE RemoveFinalizer(c)
  BY <1>12 DEF RemoveFinalizer, Return
<1>13. QED
  BY <1>2, <1>3, <1>4, <1>5, <1>6, <1>7, <1>8, <1>9, <1>10, <1>11, <1>12
     DEF ControllerStep

\* A patch of the finalizers changes nothing else, and brings no session back.
LEMMA PatchFinalizersKeep ==
    ASSUME TypeOK, NEW s \in Sessions, NEW present, PatchFinalizers(s, present),
           NEW t \in Sessions, sessions'[t] # NoSession
    PROVE  /\ sessions[t] # NoSession
           /\ sessions'[t].uid = sessions[t].uid
           /\ sessions'[t].created = sessions[t].created
           /\ sessions'[t].ttl = sessions[t].ttl
           /\ sessions'[t].status = sessions[t].status
<1>1. sessions \in [Sessions -> Session \cup {NoSession}]
  BY DEF TypeOK
<1>2. sessions[t] # NoSession
  BY <1>1 DEF PatchFinalizers
<1>3. CASE t # s
  BY <1>1, <1>2, <1>3 DEF PatchFinalizers
<1>4. CASE t = s
  <2>1. sessions'[t] = [sessions[t] EXCEPT !.finalizer = present]
    BY <1>1, <1>4 DEF PatchFinalizers
  <2>2. sessions[t] \in Session
    BY <1>1, <1>2
  <2>3. QED
    BY <1>2, <2>1, <2>2 DEF Session
<1>5. QED
  BY <1>3, <1>4

\* So does a patch of the status.
LEMMA PatchStatusKeeps ==
    ASSUME TypeOK, NEW s \in Sessions, NEW status, PatchStatus(s, status),
           NEW t \in Sessions, sessions'[t] # NoSession
    PROVE  /\ sessions[t] # NoSession
           /\ sessions'[t].uid = sessions[t].uid
           /\ sessions'[t].created = sessions[t].created
           /\ sessions'[t].ttl = sessions[t].ttl
           /\ \/ sessions'[t].status = sessions[t].status
              \/ t = s /\ sessions'[t].status = status
<1>1. sessions \in [Sessions -> Session \cup {NoSession}]
  BY DEF TypeOK
<1>2. sessions[t] # NoSession
  BY <1>1 DEF PatchStatus
<1>3. CASE t # s
  BY <1>1, <1>2, <1>3 DEF PatchStatus
<1>4. CASE t = s
  <2>1. sessions'[t] = [sessions[t] EXCEPT !.status = status]
    BY <1>1, <1>2, <1>4 DEF PatchStatus
  <2>2. sessions[t] \in Session
    BY <1>1, <1>2
  <2>3. QED
    BY <1>2, <1>4, <2>1, <2>2 DEF Session
<1>5. QED
  BY <1>3, <1>4

\* A controller's step brings no session back, and changes nothing of one but
\* its finalizer and, as computed, its status.
LEMMA ControllerSessions ==
    ASSUME TypeInv, NEW c \in Controllers, ControllerStep(c),
           NEW s \in Sessions, sessions'[s] # NoSession
    PROVE  /\ sessions[s] # NoSession
           /\ sessions'[s].uid = sessions[s].uid
           /\ sessions'[s].created = sessions[s].created
           /\ sessions'[s].ttl = sessions[s].ttl
           /\ \/ sessions'[s].status = sessions[s].status
              \/ /\ pc[c] = "patchStatus" /\ s = cur[c]
                 /\ sessions'[s].status = out[c]
<1>1. TypeOK /\ (pc[c] # "idle" => cur[c] \in Sessions)
  BY DEF TypeInv, LocalsOK
<1>2. \/ UNCHANGED sessions
      \/ /\ pc[c] # "idle"
         /\ \E present \in BOOLEAN : PatchFinalizers(cur[c], present)
      \/ pc[c] = "patchStatus" /\ PatchStatus(cur[c], out[c])
  BY ControllerEffects
<1>3. CASE UNCHANGED sessions
  BY <1>3
<1>4. ASSUME pc[c] # "idle", NEW present \in BOOLEAN,
             PatchFinalizers(cur[c], present)
      PROVE  /\ sessions[s] # NoSession
             /\ sessions'[s].uid = sessions[s].uid
             /\ sessions'[s].created = sessions[s].created
             /\ sessions'[s].ttl = sessions[s].ttl
             /\ sessions'[s].status = sessions[s].status
  BY <1>1, <1>4, PatchFinalizersKeep
<1>5. ASSUME pc[c] = "patchStatus", PatchStatus(cur[c], out[c])
      PROVE  /\ sessions[s] # NoSession
             /\ sessions'[s].uid = sessions[s].uid
             /\ sessions'[s].created = sessions[s].created
             /\ sessions'[s].ttl = sessions[s].ttl
             /\ \/ sessions'[s].status = sessions[s].status
                \/ s = cur[c] /\ sessions'[s].status = out[c]
  BY <1>1, <1>5, PatchStatusKeeps
<1>6. QED
  BY <1>2, <1>3, <1>4, <1>5

\* The Pods there are after a controller's step were there before, or one has
\* been built for the session that the controller works on.
LEMMA ControllerPods ==
    ASSUME TypeInv, NEW c \in Controllers, ControllerStep(c),
           NEW s \in Sessions, pods'[s] # NoPod
    PROVE  \/ /\ pods[s] # NoPod
              /\ pods'[s].owner = pods[s].owner
              /\ pods'[s].tokenExpiry = pods[s].tokenExpiry
           \/ /\ pc[c] # "idle" /\ s = cur[c]
              /\ pods'[s].owner = obj[c].uid
              /\ pods'[s].tokenExpiry = ExpiryTime(obj[c])
<1>1. pods \in [Sessions -> Pod \cup {NoPod}]
  BY DEF TypeInv, TypeOK
<1>2. CASE UNCHANGED pods
  BY <1>2
<1>3. ASSUME DeletePod(cur[c])
      PROVE  /\ pods[s] # NoPod
             /\ pods'[s].owner = pods[s].owner
             /\ pods'[s].tokenExpiry = pods[s].tokenExpiry
  <2>1. pods[s] # NoPod /\ pods[s] \in Pod
    BY <1>1, <1>3 DEF DeletePod
  <2>2. \/ pods'[s] = pods[s]
        \/ pods'[s] = [pods[s] EXCEPT !.terminating = TRUE]
    BY <1>1, <1>3, <2>1 DEF DeletePod
  <2>3. QED
    BY <2>1, <2>2 DEF Pod
<1>4. ASSUME pods' = [pods EXCEPT ![cur[c]] = BuildPod(obj[c])]
      PROVE  \/ s # cur[c] /\ pods'[s] = pods[s]
             \/ /\ s = cur[c]
                /\ pods'[s].owner = obj[c].uid
                /\ pods'[s].tokenExpiry = ExpiryTime(obj[c])
  BY <1>1, <1>4 DEF BuildPod
<1>5. QED
  BY <1>2, <1>3, <1>4, ControllerEffects

\* Every step keeps the names in order.
LEMMA NextNamesInv ==
    ASSUME TypeInv, NamesInv, [Next]_vars
    PROVE  NamesInv'
<1> USE DEF TypeInv, TypeOK, NamesInv, Exists
<1>1. ASSUME NEW c \in Controllers, ControllerStep(c) PROVE NamesInv'
  <2>1. pc[c] # "idle" => cur[c] \in Sessions /\ obj[c] \in Session
    BY DEF LocalsOK
  <2>2. /\ \A s \in Sessions :
            /\ sessions'[s] # NoSession =>
                sessions[s] # NoSession /\ sessions'[s].uid = sessions[s].uid
            /\ pods'[s] # NoPod =>
                \/ pods[s] # NoPod /\ pods'[s].owner = pods[s].owner
                \/ pc[c] # "idle" /\ s = cur[c] /\ pods'[s].owner = obj[c].uid
    <3>1. ASSUME NEW s \in Sessions, sessions'[s] # NoSession
          PROVE  sessions[s] # NoSession /\ sessions'[s].uid = sessions[s].uid
      BY <1>1, <3>1, ControllerSessions
    <3>2. ASSUME NEW s \in Sessions, pods'[s] # NoPod
          PROVE  \/ pods[s] # NoPod /\ pods'[s].owner = pods[s].owner
                 \/ /\ pc[c] # "idle" /\ s = cur[c]
                    /\ pods'[s].owner = obj[c].uid
      BY <1>1, <2>1, <3>2, ControllerPods
    <3>3. QED
      BY <3>1, <3>2
  <2>3. \A d \in Controllers : pc'[d] # "idle" =>
            \/ pc[d] # "idle" /\ obj'[d] = obj[d] /\ cur'[d] = cur[d]
            \/ \E s \in Sessions : /\ Exists(s) /\ cur'[d] = s
                                   /\ obj'[d] = sessions[s]
    BY <1>1, ControllerEffects
  <2>4. incarnations' = incarnations
    BY <1>1, ControllerEffects
  <2>5. QED
    BY <2>2, <2>3, <2>4
<1> USE DEF cluster, local
<1>2. ASSUME NEW c \in Controllers, Crash(c) PROVE NamesInv'
  BY <1>2 DEF Crash, Goto
<1>3. ASSUME NEW s \in Sessions, NEW profile \in Profiles, NEW ttl \in TTLs,
             CreateSession(s, profile, ttl)
      PROVE  NamesInv'
  <2>1. /\ incarnations' = [incarnations EXCEPT ![s] = @ + 1]
        /\ sessions'[s].uid = incarnations'[s]
        /\ \A t \in Sessions \ {s} : sessions'[t] = sessions[t]
        /\ UNCHANGED <<pods, local>>
    BY <1>3 DEF CreateSession, NewSession
  <2>2. \A t \in Sessions :
            /\ incarnations[t] <= incarnations'[t]
            /\ t # s => incarnations'[t] = incarnations[t]
            /\ incarnations[t] \in Nat /\ incarnations'[t] \in Nat
    BY <2>1
  <2>3. \A c \in Controllers : pc[c] # "idle" =>
            cur[c] \in Sessions /\ obj[c].uid \in Nat
    BY DEF LocalsOK, Session
  <2>4. \A t \in Sessions : pods[t] # NoPod => pods[t].owner \in Nat
    BY DEF Pod
  <2>5. QED
    BY <2>1, <2>2, <2>3, <2>4
<1>4. ASSUME NEW s \in Sessions, DeleteSession(s) PROVE NamesInv'
  BY <1>4 DEF DeleteSession, Session
<1>5. ASSUME NEW s \in Sessions, NEW pod \in Pod \cup {NoPod}, UpdatePod(s, pod),
             pod # NoPod => pods[s] # NoPod /\ pod.owner = pods[s].owner
      PROVE  NamesInv'
  BY <1>5 DEF UpdatePod
<1>6. ASSUME NEW s \in Sessions,
             \/ StartPod(s) \/ StopPod(s) \/ EvictPod(s)
             \/ ReapPod(s) \/ GarbageCollect(s)
      PROVE  NamesInv'
  BY <1>6 DEF StartPod, StopPod, EvictPod, ReapPod, GarbageCollect, Live,
              UpdatePod, Pod
<1>7. ASSUME UNCHANGED <<sessions, pods, incarnations, local>> PROVE NamesInv'
  BY <1>7
<1>8. QED
  BY <1>1, <1>2, <1>3, <1>4, <1>6, <1>7 DEF Next, UserStep, ClusterStep, ChangeRuntimeClass, Tick, vars

\* Every step keeps all copies of an expiry in agreement.
LEMMA NextExpiryInv ==
    ASSUME TypeInv, NamesInv, ExpiryInv, [Next]_vars
    PROVE  ExpiryInv'
<1> USE DEF TypeInv, TypeOK, ExpiryInv, ExpiryKnown, TokenMatchesExpiry, Orphan,
            Exists, UsedOnce
<1>1. ASSUME NEW c \in Controllers, ControllerStep(c) PROVE ExpiryInv'
  <2>1. pc[c] # "idle" => cur[c] \in Sessions /\ obj[c] \in Session
    BY DEF LocalsOK
  <2>0. incarnations' = incarnations
    BY <1>1, ControllerEffects
  <2>2. pc[c] # "idle" /\ UsedOnce(cur[c]) =>
            ExpiryTime(obj[c]) = obj[c].created + obj[c].ttl
    BY <2>1 DEF ExpiryTime
  <2>3. \A s \in Sessions : sessions'[s] # NoSession =>
            /\ sessions[s] # NoSession
            /\ sessions'[s].created = sessions[s].created
            /\ sessions'[s].ttl = sessions[s].ttl
            /\ sessions'[s].uid = sessions[s].uid
            /\ UsedOnce(s) => ExpiryKnown(sessions'[s])
    <3> SUFFICES ASSUME NEW s \in Sessions, sessions'[s] # NoSession
                 PROVE  /\ sessions[s] # NoSession
                        /\ sessions'[s].created = sessions[s].created
                        /\ sessions'[s].ttl = sessions[s].ttl
                        /\ sessions'[s].uid = sessions[s].uid
                        /\ UsedOnce(s) => ExpiryKnown(sessions'[s])
      OBVIOUS
    <3>1. /\ sessions[s] # NoSession
          /\ sessions'[s].created = sessions[s].created
          /\ sessions'[s].ttl = sessions[s].ttl
          /\ sessions'[s].uid = sessions[s].uid
          /\ \/ sessions'[s].status = sessions[s].status
             \/ /\ pc[c] = "patchStatus" /\ s = cur[c]
                /\ sessions'[s].status = out[c]
      BY <1>1, ControllerSessions
    <3>2. QED
      BY <2>1, <3>1
  <2>4. \A s \in Sessions : pods'[s] # NoPod =>
            \/ /\ pods[s] # NoPod
               /\ pods'[s].owner = pods[s].owner
               /\ pods'[s].tokenExpiry = pods[s].tokenExpiry
            \/ /\ pc[c] # "idle" /\ s = cur[c]
               /\ pods'[s].tokenExpiry = ExpiryTime(obj[c])
    BY <1>1, ControllerPods
  <2>5. \A d \in Controllers : pc'[d] # "idle" =>
            \/ pc[d] # "idle" /\ obj'[d] = obj[d] /\ cur'[d] = cur[d]
            \/ \E s \in Sessions : /\ Exists(s) /\ cur'[d] = s
                                   /\ obj'[d] = sessions[s]
    BY <1>1, ControllerEffects
  <2>6. \A d \in Controllers : pc'[d] = "patchStatus" =>
            \/ pc[d] = "patchStatus" /\ d # c /\ UNCHANGED <<obj[d], out[d]>>
            \/ d = c /\ obj'[d] = obj[d] /\ out'[d].expiresAt = ExpiryTime(obj[d])
                /\ pc[d] # "idle"
    BY <1>1, ControllerEffects
  <2>7. TokenMatchesExpiry'
    <3> SUFFICES ASSUME NEW s \in Sessions, UsedOnce(s), pods'[s] # NoPod,
                        pods'[s].owner = sessions'[s].uid
                 PROVE  pods'[s].tokenExpiry
                            = sessions'[s].created + sessions'[s].ttl
      BY <2>0
    <3>1. sessions'[s] # NoSession
      <4>1. pods'[s].owner # 0
        BY <1>1, <2>1, <2>4, NextTypeInv DEF Pod, Next, UserStep, ClusterStep
      <4>2. QED
        BY <4>1 DEF NoSession
    <3>2. CASE /\ pods[s] # NoPod
               /\ pods'[s].owner = pods[s].owner
               /\ pods'[s].tokenExpiry = pods[s].tokenExpiry
      BY <2>3, <3>1, <3>2
    <3>3. CASE /\ pc[c] # "idle" /\ s = cur[c]
               /\ pods'[s].tokenExpiry = ExpiryTime(obj[c])
      BY <2>2, <2>3, <3>1, <3>3
    <3>4. QED
      BY <2>4, <3>2, <3>3
  <2>8. ASSUME NEW d \in Controllers, pc'[d] # "idle", UsedOnce(cur'[d])
        PROVE  /\ ExpiryKnown(obj'[d])
               /\ sessions'[cur'[d]] # NoSession =>
                    /\ obj'[d].created = sessions'[cur'[d]].created
                    /\ obj'[d].ttl = sessions'[cur'[d]].ttl
    <3>1. CASE pc[d] # "idle" /\ obj'[d] = obj[d] /\ cur'[d] = cur[d]
      BY <2>3, <2>8, <3>1 DEF LocalsOK
    <3>2. CASE \E s \in Sessions : /\ Exists(s) /\ cur'[d] = s
                                   /\ obj'[d] = sessions[s]
      BY <2>3, <2>8, <3>2
    <3>3. QED
      BY <2>5, <2>8, <3>1, <3>2
  <2>9. ASSUME NEW d \in Controllers, pc'[d] = "patchStatus", UsedOnce(cur'[d])
        PROVE  out'[d].expiresAt = obj'[d].created + obj'[d].ttl
    <3>1. pc[d] # "idle" /\ cur'[d] = cur[d]
      BY <1>1, <2>6, <2>9, ControllerEffects
    <3>2. QED
      BY <2>2, <2>6, <2>9, <3>1
  <2>10. QED
    BY <2>0, <2>3, <2>7, <2>8, <2>9
<1> USE DEF cluster, local
<1>2. ASSUME NEW c \in Controllers, Crash(c) PROVE ExpiryInv'
  BY <1>2 DEF Crash, Goto
<1>3. ASSUME NEW s \in Sessions, NEW profile \in Profiles, NEW ttl \in TTLs,
             CreateSession(s, profile, ttl)
      PROVE  ExpiryInv'
  <2>1. UsedOnce(s)' => incarnations[s] = 0
    <3>1. incarnations[s] \in Nat /\ incarnations'[s] = incarnations[s] + 1
      BY <1>3 DEF CreateSession
    <3>2. QED
      BY <3>1
  <2>2. UsedOnce(s)' =>
            /\ pods[s] = NoPod
            /\ \A c \in Controllers : pc[c] # "idle" => cur[c] # s
    BY <2>1 DEF NamesInv, Pod, Session, LocalsOK
  <2>3. /\ sessions'[s].status.expiresAt = NoTime
        /\ \A t \in Sessions \ {s} : /\ sessions'[t] = sessions[t]
                                    /\ incarnations'[t] = incarnations[t]
        /\ UNCHANGED <<pods, local>>
    BY <1>3 DEF CreateSession, NewSession, EmptyStatus
  <2>4. QED
    BY <2>2, <2>3 DEF LocalsOK
<1>4. ASSUME NEW s \in Sessions, DeleteSession(s) PROVE ExpiryInv'
  <2>1. /\ UNCHANGED <<pods, incarnations, local>>
        /\ \A t \in Sessions : sessions'[t] # NoSession =>
            /\ sessions[t] # NoSession
            /\ sessions'[t].created = sessions[t].created
            /\ sessions'[t].ttl = sessions[t].ttl
            /\ sessions'[t].uid = sessions[t].uid
            /\ sessions'[t].status = sessions[t].status
    BY <1>4 DEF DeleteSession, Session
  <2>2. TokenMatchesExpiry'
    BY <2>1 DEF NoSession, Pod
  <2>3. QED
    BY <2>1, <2>2 DEF LocalsOK
<1>6. ASSUME NEW s \in Sessions,
             \/ StartPod(s) \/ StopPod(s) \/ EvictPod(s)
             \/ ReapPod(s) \/ GarbageCollect(s)
      PROVE  ExpiryInv'
  BY <1>6 DEF StartPod, StopPod, EvictPod, ReapPod, GarbageCollect, Live,
              UpdatePod, Pod
<1>7. ASSUME UNCHANGED <<sessions, pods, incarnations, local>> PROVE ExpiryInv'
  BY <1>7
<1>8. QED
  BY <1>1, <1>2, <1>3, <1>4, <1>6, <1>7 DEF Next, UserStep, ClusterStep, ChangeRuntimeClass, Tick, vars

TimesInv == TypeInv /\ NamesInv /\ ExpiryInv

\* All copies of an expiry agree in every reachable state.
LEMMA TimesCorrect == Spec => []TimesInv
<1>1. Init => TimesInv
  BY InitTypeInv
     DEF Init, TimesInv, NamesInv, ExpiryInv, TokenMatchesExpiry, Exists
<1>2. TimesInv /\ [Next]_vars => TimesInv'
  BY NextTypeInv, NextNamesInv, NextExpiryInv DEF TimesInv
<1>3. QED
  BY <1>1, <1>2, PTL DEF Spec

\* The token in a Pod expires with the Pod's session, for any number of
\* controllers, failures and crashes, unless the name is used twice.
THEOREM TokensMatchExpiry == Spec => []TokenMatchesExpiry
<1>1. TimesInv => TokenMatchesExpiry
  BY DEF TimesInv, ExpiryInv
<1>2. QED
  BY <1>1, TimesCorrect, PTL

\* A written expiry is the creation time plus the TTL, in the same generality.
THEOREM ExpiriesFollowTTL == Spec => []ExpiryFollowsTTL
<1>1. TimesInv => ExpiryFollowsTTL
  BY DEF TimesInv, ExpiryInv, ExpiryKnown, ExpiryFollowsTTL
<1>2. QED
  BY <1>1, TimesCorrect, PTL

-----------------------------------------------------------------------------
(* One controller: its Pods have owners, and expired sessions have no Pod. *)

\* A Pod lives only under the finalizer, which is there from the moment the
\* controller may go on to create a Pod, and is removed after the Pod.
OwnerInv ==
    /\ \A s \in Sessions : Live(pods[s]) => Exists(s) /\ sessions[s].finalizer
    /\ \A c \in Controllers :
        /\ pc[c] \in {"checkExpiry", "checkRuntimeClass", "getPod", "createPod"}
            => Exists(cur[c]) /\ sessions[cur[c]].finalizer
        /\ pc[c] = "removeFinalizer" => ~Live(pods[cur[c]])

\* A session reported Expired is past its expiry, and so is the copy of
\* whoever works on it, even of an earlier session of the same name: that copy
\* is of what was there before, and nobody else reports.  A controller that
\* found a session not expired works on one that is not reported Expired.
ExpiredInv ==
    /\ \A s \in Sessions :
        Exists(s) /\ sessions[s].status.phase = "Expired" =>
            Expired(sessions[s], now) /\ ~Live(pods[s])
    /\ \A c \in Controllers :
        /\ (/\ pc[c] # "idle"
            /\ Exists(cur[c])
            /\ sessions[cur[c]].status.phase = "Expired")
                => Expired(obj[c], now)
        /\ pc[c] \in {"checkRuntimeClass", "getPod", "createPod"} =>
            sessions[cur[c]].status.phase # "Expired"
        /\ pc[c] = "expirePod" => Expired(obj[c], now)
        /\ pc[c] = "patchStatus" =>
            IF out[c].phase = "Expired"
              THEN now > out[c].expiresAt /\ ~Live(pods[cur[c]])
              ELSE Exists(cur[c]) => sessions[cur[c]].status.phase # "Expired"

SingleController == \A c, d \in Controllers : c = d

PodDeletionsSucceed == "deletePod" \notin FaultyCalls

\* What the two kinds of patch change.
LEMMA PatchStatusEffect ==
    ASSUME TypeOK, NEW s \in Sessions, NEW status \in Status,
           PatchStatus(s, status)
    PROVE  \A t \in Sessions :
             /\ Exists(t)' <=> Exists(t)
             /\ Exists(t) =>
                  /\ sessions'[t].finalizer = sessions[t].finalizer
                  /\ sessions'[t].deleting = sessions[t].deleting
                  /\ sessions'[t].created = sessions[t].created
                  /\ sessions'[t].ttl = sessions[t].ttl
                  /\ sessions'[t].status = IF t = s THEN status
                                           ELSE sessions[t].status
<1>1. sessions' \in [Sessions -> Session \cup {NoSession}]
  BY PatchTypes
<1>2. ASSUME NEW t \in Sessions, sessions[t] # NoSession
      PROVE  sessions'[t] \in Session
  BY <1>2 DEF TypeOK, PatchStatus, Session
<1>3. QED
  BY <1>1, <1>2, Sentinels DEF TypeOK, PatchStatus, Exists, Session

\* A patch of the finalizers removes an object that is being deleted, or keeps
\* all of it but the finalizer.
LEMMA PatchFinalizersEffect ==
    ASSUME TypeOK, NEW s \in Sessions, NEW present \in BOOLEAN,
           PatchFinalizers(s, present)
    PROVE  /\ \A t \in Sessions :
                /\ Exists(t)' => /\ Exists(t)
                                 /\ sessions'[t].deleting = sessions[t].deleting
                                 /\ sessions'[t].created = sessions[t].created
                                 /\ sessions'[t].ttl = sessions[t].ttl
                                 /\ sessions'[t].status = sessions[t].status
                /\ t # s => sessions'[t] = sessions[t]
           /\ Exists(s) /\ (present \/ ~sessions[s].deleting) =>
                Exists(s)' /\ sessions'[s].finalizer = present
<1>1. ASSUME sessions[s] # NoSession
      PROVE  [sessions[s] EXCEPT !.finalizer = present] \in Session
  BY <1>1 DEF TypeOK, Session
<1>2. \A t \in Sessions : t # s => sessions'[t] = sessions[t]
  BY DEF TypeOK, PatchFinalizers
<1>3. ASSUME Exists(s)'
      PROVE  /\ Exists(s)
             /\ sessions'[s] = [sessions[s] EXCEPT !.finalizer = present]
  BY <1>3 DEF TypeOK, PatchFinalizers, Exists
<1>4. ASSUME Exists(s)'
      PROVE  /\ sessions'[s].deleting = sessions[s].deleting
             /\ sessions'[s].created = sessions[s].created
             /\ sessions'[s].ttl = sessions[s].ttl
             /\ sessions'[s].status = sessions[s].status
  BY <1>3, <1>4 DEF TypeOK, Session, Exists
<1>5. ASSUME Exists(s), present \/ ~sessions[s].deleting
      PROVE  Exists(s)' /\ sessions'[s].finalizer = present
  <2>1. sessions'[s] = [sessions[s] EXCEPT !.finalizer = present]
    BY <1>5 DEF TypeOK, PatchFinalizers, Exists
  <2>2. sessions'[s] \in Session /\ sessions'[s].finalizer = present
    BY <1>1, <1>5, <2>1 DEF TypeOK, Session, Exists
  <2>3. QED
    BY <2>2, Sentinels DEF Exists
<1>6. QED
  BY <1>2, <1>3, <1>4, <1>5 DEF Exists

\* Adding the finalizer removes no session and takes no finalizer away.
LEMMA PatchFinalizersAdds ==
    ASSUME TypeOK, NEW s \in Sessions, PatchFinalizers(s, TRUE),
           NEW t \in Sessions, Exists(t)
    PROVE  /\ Exists(t)'
           /\ sessions[t].finalizer \/ t = s => sessions'[t].finalizer
<1>1. CASE t = s
  BY <1>1, PatchFinalizersEffect
<1>2. CASE t # s
  <2>1. sessions'[t] = sessions[t]
    BY <1>2, PatchFinalizersEffect
  <2>2. QED
    BY <1>2, <2>1 DEF Exists
<1>3. QED
  BY <1>1, <1>2

\* Every step of the only controller keeps Pods under finalizers.
LEMMA ControllerOwnerInv ==
    ASSUME SingleController, PodDeletionsSucceed, TypeInv, OwnerInv,
           NEW c \in Controllers, ControllerStep(c)
    PROVE  OwnerInv'
<1>1. pc[c] # "idle" => cur[c] \in Sessions /\ obj[c] \in Session
  BY DEF TypeInv, LocalsOK
<1>2. \A d \in Controllers : d = c
  BY DEF SingleController
<1>0. TypeOK
  BY DEF TypeInv
<1> USE DEF OwnerInv, cluster, Goto, Live
<1>3. CASE ListSessions(c)
  BY <1>0, <1>3 DEF ListSessions, TypeOK, Exists
<1>4. CASE GetSession(c)
  BY <1>0, <1>2, <1>4 DEF GetSession, FirstCall, TypeOK, Exists
<1>5. CASE AddFinalizer(c)
  <2>1. pc[c] # "idle" /\ pods' = pods
    BY <1>5 DEF AddFinalizer
  <2>2. ASSUME PatchFinalizers(cur[c], TRUE)
        PROVE  \A t \in Sessions : Exists(t) =>
                 /\ Exists(t)'
                 /\ sessions[t].finalizer \/ t = cur[c] => sessions'[t].finalizer
    BY <1>0, <1>1, <2>1, <2>2, PatchFinalizersAdds
  <2>3. CASE Exists(cur[c]) /\ PatchFinalizers(cur[c], TRUE)
                /\ Continue(c, "checkExpiry")
    BY <1>0, <1>1, <1>2, <2>1, <2>2, <2>3 DEF Continue, TypeOK
  <2>4. CASE UNCHANGED sessions /\ Return(c)
    BY <1>0, <1>2, <2>1, <2>4 DEF Return, TypeOK, Exists
  <2>5. CASE PatchFinalizers(cur[c], TRUE) /\ Return(c)
    BY <1>0, <1>2, <2>1, <2>2, <2>5 DEF Return, TypeOK
  <2>6. QED
    BY <1>5, <2>3, <2>4, <2>5 DEF AddFinalizer
<1>6. CASE CheckExpiry(c)
  BY <1>0, <1>2, <1>6 DEF CheckExpiry, Continue, Report, Fail, TypeOK, Exists
<1>7. CASE CheckRuntimeClass(c)
  BY <1>0, <1>2, <1>7
     DEF CheckRuntimeClass, Continue, Report, Fail, TypeOK, Exists
<1>8. CASE GetPod(c)
  BY <1>0, <1>2, <1>8 DEF GetPod, Continue, Return, Report, TypeOK, Exists
<1>9. CASE CreatePod(c)
  BY <1>0, <1>1, <1>2, <1>9 DEF CreatePod, Report, Fail, TypeOK, Exists
<1>10. CASE ExpirePod(c)
  <2>1. \A s \in Sessions : Live(pods[s])' => Live(pods[s])
    BY <1>0, <1>1, <1>10, Sentinels
       DEF ExpirePod, TryDeletePod, DeletePod, Pod, TypeOK
  <2>2. UNCHANGED sessions /\ pc'[c] = "patchStatus"
    BY <1>0, <1>10 DEF ExpirePod, Report, TypeOK
  <2>3. QED
    BY <1>2, <2>1, <2>2 DEF Exists
<1>11. CASE WriteStatus(c)
  <2>1. /\ pc[c] # "idle" /\ pods' = pods /\ pc'[c] = "idle"
        /\ UNCHANGED sessions \/ PatchStatus(cur[c], out[c])
    BY <1>0, <1>11 DEF WriteStatus, Return, TypeOK
  <2>2. out[c] \in Status
    BY <1>0 DEF TypeOK
  <2>3. \A t \in Sessions : Exists(t) =>
            Exists(t)' /\ sessions'[t].finalizer = sessions[t].finalizer
    BY <1>0, <1>1, <2>1, <2>2, PatchStatusEffect DEF Exists
  <2>4. QED
    BY <1>2, <2>1, <2>3
<1>12. CASE CleanupPod(c)
  BY <1>0, <1>1, <1>2, <1>12, Sentinels
     DEF CleanupPod, TryDeletePod, DeletePod, Continue, Fault,
         PodDeletionsSucceed, Pod, TypeOK, Exists
<1>13. CASE RemoveFinalizer(c)
  BY <1>0, <1>1, <1>2, <1>13
     DEF RemoveFinalizer, PatchFinalizers, Return, Session, TypeOK, Exists
<1>14. QED
  BY <1>3, <1>4, <1>5, <1>6, <1>7, <1>8, <1>9, <1>10, <1>11, <1>12, <1>13
     DEF ControllerStep

\* Every step of the system does.
LEMMA NextOwnerInv ==
    ASSUME SingleController, PodDeletionsSucceed, TypeInv, OwnerInv, [Next]_vars
    PROVE  OwnerInv'
<1>1. ASSUME NEW c \in Controllers, ControllerStep(c) PROVE OwnerInv'
  BY <1>1, ControllerOwnerInv
<1>0. TypeOK /\ LocalsOK
  BY DEF TypeInv
<1> USE DEF OwnerInv, cluster, local
<1>2. ASSUME NEW c \in Controllers, Crash(c) PROVE OwnerInv'
  BY <1>0, <1>2 DEF Crash, Goto, TypeOK, Exists
<1>3. ASSUME NEW s \in Sessions, NEW profile \in Profiles, NEW ttl \in TTLs,
             CreateSession(s, profile, ttl)
      PROVE  OwnerInv'
  BY <1>0, <1>3 DEF CreateSession, NewSession, LocalsOK, TypeOK, Exists, Session, NoSession
<1>4. ASSUME NEW s \in Sessions, DeleteSession(s) PROVE OwnerInv'
  <2>0. sessions[s] \in Session
    BY <1>0, <1>4 DEF DeleteSession, TypeOK, Exists
  <2>1. [sessions[s] EXCEPT !.deleting = TRUE] \in Session
    BY <2>0 DEF Session
  <2>2. \A t \in Sessions : Exists(t) /\ sessions[t].finalizer =>
            Exists(t)' /\ sessions'[t].finalizer
    BY <1>0, <1>4, <2>1, Sentinels DEF DeleteSession, Session, TypeOK, Exists
  <2>3. UNCHANGED <<pods, local>>
    BY <1>4 DEF DeleteSession
  <2>4. QED
    BY <1>0, <2>2, <2>3 DEF LocalsOK, Live
<1>5. ASSUME NEW s \in Sessions,
             \/ StartPod(s) \/ StopPod(s) \/ EvictPod(s)
             \/ ReapPod(s) \/ GarbageCollect(s)
      PROVE  OwnerInv'
  <2>1. /\ UNCHANGED <<sessions, local>>
        /\ \A t \in Sessions : Live(pods[t])' => Live(pods[t])
    BY <1>0, <1>5 DEF StartPod, StopPod, EvictPod, ReapPod, GarbageCollect,
                      Live, UpdatePod, Pod, TypeOK
  <2>2. QED
    BY <1>0, <2>1 DEF LocalsOK, Exists
<1>6. ASSUME UNCHANGED <<sessions, pods, local>> PROVE OwnerInv'
  BY <1>6 DEF Live, Exists
<1>7. QED
  BY <1>1, <1>2, <1>3, <1>4, <1>5, <1>6 DEF Next, UserStep, ClusterStep, ChangeRuntimeClass, Tick, vars

\* What is written of a session's times decides whether it has expired.
LEMMA SameExpiry ==
    ASSUME NEW session, NEW copy, NEW time,
           copy.created = session.created, copy.ttl = session.ttl,
           copy.status = session.status
    PROVE  Expired(copy, time) <=> Expired(session, time)
BY DEF Expired, ExpiryTime

\* Every step of the only controller keeps reports of expiry right.
LEMMA ControllerExpiredInv ==
    ASSUME SingleController, PodDeletionsSucceed, TypeInv, StatusInv, OwnerInv,
           ExpiredInv, NEW c \in Controllers, ControllerStep(c)
    PROVE  ExpiredInv'
<1>0. TypeOK
  BY DEF TypeInv
<1>1. pc[c] # "idle" => cur[c] \in Sessions /\ obj[c] \in Session
  BY DEF TypeInv, LocalsOK
<1>2. \A d \in Controllers : d = c
  BY DEF SingleController
<1>4. now' = now
  BY ControllerEffects
<1>5. ASSUME pc[c] # "idle"
      PROVE  /\ \A why \in Reasons : FailStatus(obj[c], why).phase # "Expired"
             /\ \A pod : ObservedStatus(obj[c], pod).phase # "Expired"
             /\ ProvisioningStatus(obj[c]).phase # "Expired"
             /\ ExpiredStatus(obj[c]).phase = "Expired"
             /\ ExpiredStatus(obj[c]).expiresAt = ExpiryTime(obj[c])
  BY <1>1, <1>5, StatusFields DEF ObservedStatus, Reasons
<1> USE <1>0, <1>2, <1>4 DEF ExpiredInv, cluster, Goto
<1>3. ASSUME NEW present \in BOOLEAN, PatchFinalizers(cur[c], present),
             pc[c] # "idle"
      PROVE  \A t \in Sessions : Exists(t)' =>
               /\ Exists(t)
               /\ sessions'[t].status = sessions[t].status
               /\ Expired(sessions'[t], now') <=> Expired(sessions[t], now)
  <2>1. \A t \in Sessions : Exists(t)' =>
            /\ Exists(t)
            /\ sessions'[t].created = sessions[t].created
            /\ sessions'[t].ttl = sessions[t].ttl
            /\ sessions'[t].status = sessions[t].status
    BY <1>1, <1>3, PatchFinalizersEffect DEF Exists
  <2>2. QED
    BY <2>1, SameExpiry
<1>6. CASE ListSessions(c)
  BY <1>6 DEF ListSessions, TypeOK, Exists, Live
<1>7. CASE GetSession(c)
  BY <1>7 DEF GetSession, FirstCall, TypeOK, Exists, Live
<1>8. CASE AddFinalizer(c)
  <2>1. /\ pc[c] = "addFinalizer" /\ pods' = pods
        /\ \/ pc'[c] = "idle"
           \/ pc'[c] = "checkExpiry" /\ UNCHANGED <<cur, obj>>
        /\ UNCHANGED sessions \/ PatchFinalizers(cur[c], TRUE)
    BY <1>8 DEF AddFinalizer, Continue, Return, TypeOK
  <2>2. CASE PatchFinalizers(cur[c], TRUE)
    BY <1>1, <1>3, <2>1, <2>2 DEF Live
  <2>3. CASE UNCHANGED sessions
    BY <2>1, <2>3 DEF Live, Exists
  <2>4. QED
    BY <2>1, <2>2, <2>3
<1>9. CASE CheckExpiry(c)
  <2>1. ~Expired(obj[c], now) => sessions[cur[c]].status.phase # "Expired"
    BY <1>1, <1>9 DEF CheckExpiry, OwnerInv
  <2>2. /\ pc[c] = "checkExpiry" /\ UNCHANGED <<sessions, pods, cur, obj>>
        /\ \/ pc'[c] = "expirePod" /\ Expired(obj[c], now)
           \/ /\ pc'[c] \in {"checkRuntimeClass", "getPod"}
              /\ ~Expired(obj[c], now)
           \/ /\ pc'[c] = "patchStatus" /\ out'[c].phase # "Expired"
              /\ ~Expired(obj[c], now)
    BY <1>5, <1>9
       DEF CheckExpiry, Continue, Report, Fail, TypeOK, Reasons
  <2>3. QED
    BY <2>1, <2>2 DEF Exists, Live
<1>10. CASE CheckRuntimeClass(c)
  <2>1. /\ pc[c] = "checkRuntimeClass" /\ UNCHANGED <<sessions, pods, cur, obj>>
        /\ \/ pc'[c] = "getPod"
           \/ pc'[c] = "patchStatus" /\ out'[c].phase # "Expired"
    BY <1>5, <1>10
       DEF CheckRuntimeClass, Continue, Report, Fail, TypeOK, Reasons
  <2>2. QED
    BY <2>1 DEF Exists, Live
<1>11. CASE GetPod(c)
  <2>1. /\ pc[c] = "getPod" /\ UNCHANGED <<sessions, pods>>
        /\ \/ pc'[c] = "idle"
           \/ pc'[c] = "createPod" /\ UNCHANGED <<cur, obj>>
           \/ /\ pc'[c] = "patchStatus" /\ UNCHANGED <<cur, obj>>
              /\ out'[c].phase # "Expired"
    <3>1. ObservedStatus(obj[c], pods[cur[c]]).phase # "Expired"
      BY <1>5, <1>11 DEF GetPod
    <3>2. QED
      BY <1>11, <3>1 DEF GetPod, Continue, Return, Report, TypeOK
  <2>2. QED
    BY <2>1 DEF Exists, Live
<1>12. CASE CreatePod(c)
  <2>1. /\ pc[c] = "createPod" /\ UNCHANGED <<sessions, cur, obj>>
        /\ pc'[c] = "patchStatus" /\ out'[c].phase # "Expired"
        /\ \A t \in Sessions : t # cur[c] => pods'[t] = pods[t]
    BY <1>1, <1>5, <1>12 DEF CreatePod, Report, Fail, TypeOK, Reasons
  <2>2. QED
    BY <1>1, <2>1 DEF Exists, Live
<1>13. CASE ExpirePod(c)
  <2>1. /\ pc[c] = "expirePod" /\ UNCHANGED <<sessions, cur, obj>>
        /\ pc'[c] = "patchStatus" /\ out'[c].phase = "Expired"
        /\ out'[c].expiresAt = ExpiryTime(obj[c])
        /\ DeletePod(cur[c])
    BY <1>5, <1>13
       DEF ExpirePod, TryDeletePod, Report, Fault, PodDeletionsSucceed, TypeOK
  <2>2. /\ ~Live(pods[cur[c]])'
        /\ \A t \in Sessions : Live(pods[t])' => Live(pods[t])
    BY <1>1, <2>1, Sentinels DEF DeletePod, Live, Pod, TypeOK
  <2>3. now > ExpiryTime(obj[c])
    BY <2>1 DEF Expired
  <2>4. QED
    BY <1>1, <2>1, <2>2, <2>3 DEF Exists
<1>14. CASE WriteStatus(c)
  <2>1. /\ pc[c] = "patchStatus" /\ pods' = pods /\ pc'[c] = "idle"
        /\ UNCHANGED sessions \/ PatchStatus(cur[c], out[c])
    BY <1>14 DEF WriteStatus, Return, TypeOK
  <2>2. CASE PatchStatus(cur[c], out[c])
    <3>1. \A t \in Sessions : Exists(t)' =>
            /\ Exists(t)
            /\ sessions'[t].created = sessions[t].created
            /\ sessions'[t].ttl = sessions[t].ttl
            /\ sessions'[t].status = IF t = cur[c] THEN out[c]
                                     ELSE sessions[t].status
      BY <1>1, <2>1, <2>2, PatchStatusEffect DEF TypeOK
    <3>2. ASSUME NEW t \in Sessions, Exists(t)',
                 sessions'[t].status.phase = "Expired"
          PROVE  Expired(sessions'[t], now) /\ ~Live(pods[t])
      <4>1. CASE t # cur[c]
        BY <3>1, <3>2, <4>1, SameExpiry
      <4>2. CASE t = cur[c]
        <5>1. sessions'[t].status = out[c] /\ out[c].phase = "Expired"
          BY <3>1, <3>2, <4>2
        <5>2. out[c].expiresAt # NoTime
          BY <5>1 DEF StatusInv, Consistent
        <5>3. ExpiryTime(sessions'[t]) = out[c].expiresAt
          BY <5>1, <5>2 DEF ExpiryTime
        <5>4. QED
          BY <2>1, <4>2, <5>1, <5>3 DEF Expired
      <4>3. QED
        BY <4>1, <4>2
    <3>3. QED
      BY <2>1, <3>2 DEF Live
  <2>3. QED
    BY <2>1, <2>2 DEF Exists, Live
<1>15. CASE CleanupPod(c)
  <2>1. /\ pc[c] = "cleanupPod" /\ pc'[c] = "removeFinalizer"
        /\ UNCHANGED <<sessions, cur, obj>>
        /\ UNCHANGED pods \/ DeletePod(cur[c])
    BY <1>15 DEF CleanupPod, TryDeletePod, Continue, TypeOK
  <2>2. \A t \in Sessions : Live(pods[t])' => Live(pods[t])
    BY <1>1, <2>1, Sentinels DEF DeletePod, Live, Pod, TypeOK
  <2>3. QED
    BY <2>1, <2>2 DEF Exists
<1>16. CASE RemoveFinalizer(c)
  <2>1. /\ pc[c] = "removeFinalizer" /\ pods' = pods /\ pc'[c] = "idle"
        /\ UNCHANGED sessions \/ PatchFinalizers(cur[c], FALSE)
    BY <1>16 DEF RemoveFinalizer, Return, TypeOK
  <2>2. CASE PatchFinalizers(cur[c], FALSE)
    BY <1>3, <2>1, <2>2 DEF Live
  <2>3. CASE UNCHANGED sessions
    BY <2>1, <2>3 DEF Live, Exists
  <2>4. QED
    BY <2>1, <2>2, <2>3
<1>17. QED
  BY <1>6, <1>7, <1>8, <1>9, <1>10, <1>11, <1>12, <1>13, <1>14, <1>15, <1>16
     DEF ControllerStep

\* What has expired stays so as time passes.
LEMMA ExpiredForGood ==
    ASSUME TypeOK, NEW session \in Session, Expired(session, now),
           now' = now \/ now' = now + 1
    PROVE  Expired(session, now')
BY BuildPodType DEF Expired, TypeOK

\* Every step of the system does.
LEMMA NextExpiredInv ==
    ASSUME SingleController, PodDeletionsSucceed,
           TypeInv, StatusInv, OwnerInv, ExpiredInv, [Next]_vars
    PROVE  ExpiredInv'
<1>0. TypeOK /\ LocalsOK
  BY DEF TypeInv
<1>1. ASSUME NEW c \in Controllers, ControllerStep(c) PROVE ExpiredInv'
  BY <1>1, ControllerExpiredInv
<1> USE DEF ExpiredInv, cluster, local
<1>2. ASSUME NEW c \in Controllers, Crash(c) PROVE ExpiredInv'
  BY <1>0, <1>2 DEF Crash, Goto, TypeOK, Exists, Live
<1>3. ASSUME NEW s \in Sessions, NEW profile \in Profiles, NEW ttl \in TTLs,
             CreateSession(s, profile, ttl)
      PROVE  ExpiredInv'
  <2>1. /\ sessions'[s].status.phase = ""
        /\ \A t \in Sessions \ {s} : sessions'[t] = sessions[t]
        /\ UNCHANGED <<pods, now, local>>
    BY <1>0, <1>3 DEF CreateSession, NewSession, EmptyStatus, TypeOK
  <2>2. QED
    BY <1>0, <2>1 DEF LocalsOK, Exists, Live
<1>4. ASSUME NEW s \in Sessions, DeleteSession(s) PROVE ExpiredInv'
  <2>1. /\ UNCHANGED <<pods, now, local>>
        /\ \A t \in Sessions : Exists(t)' =>
            /\ Exists(t)
            /\ sessions'[t].created = sessions[t].created
            /\ sessions'[t].ttl = sessions[t].ttl
            /\ sessions'[t].status = sessions[t].status
    BY <1>0, <1>4 DEF DeleteSession, Session, TypeOK, Exists
  <2>2. \A t \in Sessions : Exists(t)' =>
            (Expired(sessions'[t], now) <=> Expired(sessions[t], now))
    BY <2>1, SameExpiry
  <2>3. \A c \in Controllers :
            pc[c] \in {"checkRuntimeClass", "getPod", "createPod"}
                => Exists(cur[c])'
    <3>1. OwnerInv'
      BY <1>4, NextOwnerInv DEF Next, UserStep
    <3>2. QED
      BY <2>1, <3>1 DEF OwnerInv
  <2>4. QED
    BY <1>0, <2>1, <2>2, <2>3 DEF LocalsOK, Live
<1>5. ASSUME NEW s \in Sessions,
             \/ StartPod(s) \/ StopPod(s) \/ EvictPod(s)
             \/ ReapPod(s) \/ GarbageCollect(s)
      PROVE  ExpiredInv'
  <2>1. /\ UNCHANGED <<sessions, now, local>>
        /\ \A t \in Sessions : Live(pods[t])' => Live(pods[t])
    BY <1>0, <1>5 DEF StartPod, StopPod, EvictPod, ReapPod, GarbageCollect,
                      Live, UpdatePod, Pod, TypeOK
  <2>2. QED
    BY <1>0, <2>1 DEF LocalsOK, Exists
<1>6. ASSUME UNCHANGED <<sessions, pods, local>>, now' = now \/ now' = now + 1
      PROVE  ExpiredInv'
  <2>1. \A s \in Sessions : Exists(s) /\ Expired(sessions[s], now)
            => Expired(sessions[s], now')
    BY <1>0, <1>6, ExpiredForGood DEF TypeOK, Exists
  <2>2. \A c \in Controllers : pc[c] # "idle" /\ Expired(obj[c], now)
            => Expired(obj[c], now')
    BY <1>0, <1>6, ExpiredForGood DEF LocalsOK
  <2>3. \A c \in Controllers : now > out[c].expiresAt => now' > out[c].expiresAt
    BY <1>0, <1>6 DEF TypeOK, Status
  <2>4. QED
    BY <1>0, <1>6, <2>1, <2>2, <2>3 DEF Live, Exists, LocalsOK
<1>7. QED
  BY <1>1, <1>2, <1>3, <1>4, <1>5, <1>6 DEF Next, UserStep, ClusterStep, ChangeRuntimeClass, Tick, vars

SingleInv == TypeInv /\ StatusInv /\ OwnerInv /\ ExpiredInv

\* One controller whose Pod deletions succeed keeps all of these invariants.
LEMMA SingleCorrect ==
    ASSUME SingleController, PodDeletionsSucceed
    PROVE  Spec => []SingleInv
<1>1. Init => OwnerInv /\ ExpiredInv
  BY DEF Init, OwnerInv, ExpiredInv, Exists, Live
<1>2. TypeInv /\ StatusInv /\ OwnerInv /\ ExpiredInv /\ [Next]_vars
        => OwnerInv' /\ ExpiredInv'
  BY NextOwnerInv, NextExpiredInv
<1>3. QED
  BY <1>1, <1>2, TypeCorrect, StatusesCorrect, PTL DEF SingleInv, Spec

\* No live Pod is without its session, for one controller whose Pod deletions
\* do not fail, whatever else fails, however often it crashes and however often
\* a name is used.
THEOREM PodsHaveOwners ==
    ASSUME SingleController, PodDeletionsSucceed
    PROVE  Spec => []PodHasOwner
<1>1. SingleInv /\ NamesInv => PodHasOwner
  <2> SUFFICES ASSUME SingleInv, NamesInv, NEW s \in Sessions, Live(pods[s])
               PROVE  Exists(s) /\ (UsedOnce(s) => ~Orphan(s))
    BY DEF PodHasOwner
  <2>1. Exists(s) /\ sessions[s].uid = incarnations[s]
    BY DEF SingleInv, OwnerInv, NamesInv
  <2>2. /\ pods[s].owner \in Nat \ {0} /\ pods[s].owner <= incarnations[s]
        /\ incarnations[s] \in Nat
    BY DEF SingleInv, TypeInv, TypeOK, NamesInv, Live, Pod
  <2>3. QED
    BY <2>1, <2>2 DEF UsedOnce, Orphan
<1>2. QED
  BY <1>1, SingleCorrect, TimesCorrect, PTL DEF TimesInv

\* No session reported Expired has a live Pod, under the same assumptions.
THEOREM ExpiredSessionsHaveNoPod ==
    ASSUME SingleController, PodDeletionsSucceed
    PROVE  Spec => []ExpiredHasNoPod
<1>1. SingleInv => ExpiredHasNoPod
  BY DEF SingleInv, ExpiredInv, ExpiredHasNoPod
<1>2. QED
  BY <1>1, SingleCorrect, PTL

-----------------------------------------------------------------------------
(* Late Pods: what replicas with old copies may still do. *)

\* The steps that are no controller's change no controller's variables but by
\* a crash, and bring no Pod to life.
LEMMA OtherSteps ==
    ASSUME TypeOK, [Next]_vars,
           ~ \E c \in Controllers : ControllerStep(c)
    PROVE  /\ \/ UNCHANGED local
              \/ /\ UNCHANGED cluster
                 /\ \E c \in Controllers :
                        /\ pc' = [pc EXCEPT ![c] = "idle"]
                        /\ cur' = [cur EXCEPT ![c] = NoName]
                        /\ obj' = [obj EXCEPT ![c] = NoSession]
           /\ now' = now \/ now' = now + 1
           /\ \A s \in Sessions : Live(pods[s])' => Live(pods[s])
<1> USE DEF local, cluster
<1>1. ASSUME NEW c \in Controllers, Crash(c) PROVE UNCHANGED cluster
  BY <1>1 DEF Crash
<1>2. ASSUME NEW s \in Sessions,
             \/ StartPod(s) \/ StopPod(s) \/ EvictPod(s)
             \/ ReapPod(s) \/ GarbageCollect(s)
      PROVE  /\ UNCHANGED <<local, now>>
             /\ \A t \in Sessions : Live(pods[t])' => Live(pods[t])
  BY <1>2 DEF StartPod, StopPod, EvictPod, ReapPod, GarbageCollect, Live,
              UpdatePod, Pod, TypeOK
<1>3. ASSUME UNCHANGED pods
      PROVE  \A s \in Sessions : Live(pods[s])' => Live(pods[s])
  BY <1>3 DEF Live
<1>4. QED
  BY <1>1, <1>2, <1>3
     DEF Next, UserStep, ClusterStep, CreateSession, DeleteSession, Crash, Goto,
         ChangeRuntimeClass, Tick, vars

\* Nor do they change the status that a controller is about to write, ...
LEMMA OtherOuts ==
    ASSUME TypeOK, [Next]_vars,
           ~ \E c \in Controllers : ControllerStep(c),
           NEW c \in Controllers, pc'[c] # "idle"
    PROVE  pc'[c] = pc[c] /\ cur'[c] = cur[c] /\ out'[c] = out[c]
<1> USE DEF local, cluster
<1>1. ASSUME NEW d \in Controllers, Crash(d)
      PROVE  pc'[c] = pc[c] /\ cur'[c] = cur[c] /\ out'[c] = out[c]
  <2>1. d # c
    BY <1>1 DEF Crash, Goto, TypeOK
  <2>2. QED
    BY <1>1, <2>1 DEF Crash, Goto, TypeOK
<1>2. CASE UNCHANGED local
  BY <1>2
<1>3. QED
  BY <1>1, <1>2
     DEF Next, UserStep, ClusterStep, CreateSession, DeleteSession, StartPod,
         StopPod, EvictPod, ReapPod, GarbageCollect, UpdatePod,
         ChangeRuntimeClass, Tick, vars

\* ... or the status of a session that there is.
LEMMA OtherStatuses ==
    ASSUME TypeOK, [Next]_vars,
           ~ \E c \in Controllers : ControllerStep(c),
           NEW s \in Sessions, Exists(s), Exists(s)'
    PROVE  sessions'[s].status = sessions[s].status
<1>1. ASSUME NEW t \in Sessions, NEW profile \in Profiles, NEW ttl \in TTLs,
             CreateSession(t, profile, ttl)
      PROVE  sessions'[s] = sessions[s]
  BY <1>1 DEF CreateSession, Exists, TypeOK
<1>2. ASSUME NEW t \in Sessions, DeleteSession(t)
      PROVE  sessions'[s].status = sessions[s].status
  <2>1. sessions[s] \in Session
    BY DEF TypeOK, Exists
  <2>2. \/ sessions'[s] = sessions[s]
        \/ sessions'[s] = [sessions[s] EXCEPT !.deleting = TRUE]
    BY <1>2 DEF DeleteSession, TypeOK, Exists
  <2>3. QED
    BY <2>1, <2>2 DEF Session
<1>3. CASE UNCHANGED sessions
  BY <1>3
<1>4. QED
  BY <1>1, <1>2, <1>3
     DEF Next, UserStep, ClusterStep, Crash, StartPod, StopPod, EvictPod, ReapPod,
         GarbageCollect, UpdatePod, ChangeRuntimeClass, Tick, vars, cluster

\* A controller joins those that may create a Pod of a session only by reading
\* that session while it is not over.
LEMMA SetsOut ==
    ASSUME TypeInv, [Next]_vars, NEW s \in Sessions, NEW c \in MayCreate(s)'
    PROVE  \/ c \in MayCreate(s)
           \/ /\ Exists(s)
              /\ ~sessions[s].deleting
              /\ ~Expired(sessions[s], now)
<1>0. TypeOK /\ LocalsOK /\ c \in Controllers
  BY DEF TypeInv, MayCreate
<1> DEFINE May(call, copy, time) ==
                \/ call \in {"checkRuntimeClass", "getPod", "createPod"}
                \/ /\ call \in {"addFinalizer", "checkExpiry"}
                   /\ ~Expired(copy, time)
<1>1. /\ c \in MayCreate(s) <=> cur[c] = s /\ May(pc[c], obj[c], now)
      /\ cur'[c] = s /\ May(pc'[c], obj'[c], now')
  BY <1>0 DEF MayCreate
<1>2. ASSUME pc'[c] = pc[c], cur'[c] = cur[c], obj'[c] = obj[c],
             now' = now \/ now' = now + 1
      PROVE  c \in MayCreate(s)
  <2>1. pc[c] # "idle" /\ ~Expired(obj[c], now') => ~Expired(obj[c], now)
    BY <1>0, <1>2, ExpiredForGood DEF LocalsOK
  <2>2. QED
    BY <1>1, <1>2, <2>1
<1>3. ASSUME ControllerStep(c)
      PROVE  \/ c \in MayCreate(s)
             \/ /\ Exists(s)
                /\ ~sessions[s].deleting
                /\ ~Expired(sessions[s], now)
  <2>1. now' = now
    BY <1>0, <1>3, ControllerEffects DEF TypeInv
  <2>2. CASE GetSession(c)
    BY <1>0, <1>1, <2>1, <2>2 DEF GetSession, FirstCall, Goto, TypeOK
  <2>3. CASE AddFinalizer(c)
    BY <1>0, <1>1, <2>1, <2>3 DEF AddFinalizer, Continue, Return, Goto, TypeOK
  <2>4. CASE CheckExpiry(c)
    BY <1>0, <1>1, <2>4
       DEF CheckExpiry, Continue, Report, Fail, Goto, TypeOK
  <2>5. CASE CheckRuntimeClass(c) \/ GetPod(c)
    BY <1>0, <1>1, <2>5
       DEF CheckRuntimeClass, GetPod, Continue, Return, Report, Fail, Goto, TypeOK
  <2>6. CASE ListSessions(c)
    BY <1>0, <1>2, <2>1, <2>6 DEF ListSessions
  <2>7. CASE CreatePod(c) \/ ExpirePod(c) \/ WriteStatus(c) \/ CleanupPod(c)
                \/ RemoveFinalizer(c)
    BY <1>0, <1>1, <2>7
       DEF CreatePod, ExpirePod, WriteStatus, CleanupPod, RemoveFinalizer,
           Continue, Return, Report, Fail, Goto, TypeOK
  <2>8. QED
    BY <1>3, <2>2, <2>3, <2>4, <2>5, <2>6, <2>7 DEF ControllerStep
<1>4. ASSUME NEW d \in Controllers \ {c}, ControllerStep(d)
      PROVE  c \in MayCreate(s)
  <2>1. now' = now /\ pc'[c] = pc[c] /\ cur'[c] = cur[c] /\ obj'[c] = obj[c]
    BY <1>0, <1>4, ControllerEffects DEF TypeInv, TypeOK
  <2>2. QED
    BY <1>2, <2>1
<1>5. CASE ~ \E d \in Controllers : ControllerStep(d)
  <2>1. /\ \/ pc'[c] = pc[c] /\ cur'[c] = cur[c] /\ obj'[c] = obj[c]
           \/ pc'[c] = "idle"
        /\ now' = now \/ now' = now + 1
    BY <1>0, <1>5, OtherSteps DEF TypeOK, local
  <2>2. QED
    BY <1>1, <1>2, <2>1
<1>6. QED
  BY <1>3, <1>4, <1>5

\* A Pod comes to life only by a controller that may create it, which then
\* goes on to report.
LEMMA LivesByCreation ==
    ASSUME TypeInv, [Next]_vars, NEW s \in Sessions,
           ~Live(pods[s]), Live(pods[s])'
    PROVE  MayCreate(s)' # MayCreate(s)
<1>0. TypeOK
  BY DEF TypeInv
<1>1. PICK c \in Controllers : ControllerStep(c)
  BY <1>0, OtherSteps
<1>2. pc[c] # "idle" => cur[c] \in Sessions
  BY DEF TypeInv, LocalsOK
<1>3. pc[c] = "createPod" /\ cur[c] = s
  BY <1>0, <1>1, <1>2, ControllerEffects DEF DeletePod, Live, Pod, TypeOK
<1>4. pc'[c] = "patchStatus"
  <2>1. CreatePod(c)
    BY <1>1, <1>3
       DEF ControllerStep, ListSessions, GetSession, AddFinalizer, CheckExpiry,
           CheckRuntimeClass, GetPod, ExpirePod, WriteStatus, CleanupPod,
           RemoveFinalizer
  <2>2. QED
    BY <1>0, <2>1 DEF CreatePod, Report, Fail, Goto, TypeOK
<1>5. c \in MayCreate(s) /\ c \notin MayCreate(s)'
  BY <1>3, <1>4 DEF MayCreate
<1>6. QED
  BY <1>5

\* No step but a creation under its name changes when a session ends, takes
\* back its deletion or brings it back.
LEMMA SessionKept ==
    ASSUME TypeInv, [Next]_vars, NEW s \in Sessions,
           incarnations'[s] = incarnations[s], Exists(s)'
    PROVE  /\ Exists(s)
           /\ sessions[s].deleting => sessions'[s].deleting
           /\ sessions'[s].created = sessions[s].created
           /\ sessions'[s].ttl = sessions[s].ttl
<1>0. TypeOK
  BY DEF TypeInv
<1>1. ASSUME NEW c \in Controllers, ControllerStep(c)
      PROVE  \/ UNCHANGED sessions
             \/ \E t \in Sessions, present \in BOOLEAN : PatchFinalizers(t, present)
             \/ \E t \in Sessions, status \in Status : PatchStatus(t, status)
  BY <1>0, <1>1, ControllerEffects DEF TypeInv, LocalsOK, TypeOK
<1>2. ASSUME NEW t \in Sessions, NEW present \in BOOLEAN,
             PatchFinalizers(t, present)
      PROVE  /\ Exists(s)
             /\ sessions[s].deleting => sessions'[s].deleting
             /\ sessions'[s].created = sessions[s].created
             /\ sessions'[s].ttl = sessions[s].ttl
  BY <1>0, <1>2, PatchFinalizersEffect
<1>3. ASSUME NEW t \in Sessions, NEW status \in Status, PatchStatus(t, status)
      PROVE  /\ Exists(s)
             /\ sessions[s].deleting => sessions'[s].deleting
             /\ sessions'[s].created = sessions[s].created
             /\ sessions'[s].ttl = sessions[s].ttl
  BY <1>0, <1>3, PatchStatusEffect
<1>4. ASSUME NEW t \in Sessions, NEW profile \in Profiles, NEW ttl \in TTLs,
             CreateSession(t, profile, ttl)
      PROVE  t # s /\ sessions'[s] = sessions[s]
  BY <1>0, <1>4 DEF CreateSession, TypeOK
<1>5. ASSUME NEW t \in Sessions, DeleteSession(t)
      PROVE  /\ Exists(s)
             /\ sessions[s].deleting => sessions'[s].deleting
             /\ sessions'[s].created = sessions[s].created
             /\ sessions'[s].ttl = sessions[s].ttl
  BY <1>0, <1>5 DEF DeleteSession, Session, TypeOK, Exists
<1>6. QED
  BY <1>1, <1>2, <1>3, <1>4, <1>5
     DEF Next, UserStep, ClusterStep, Crash, StartPod, StopPod, EvictPod, ReapPod,
         GarbageCollect, UpdatePod, ChangeRuntimeClass, Tick, vars, cluster, Exists

\* The clock and the count of a name's objects only go up, one at a time.
LEMMA CountsGoUp ==
    ASSUME TypeInv, [Next]_vars
    PROVE  /\ now' = now \/ now' = now + 1
           /\ \A s \in Sessions : \/ incarnations'[s] = incarnations[s]
                                  \/ incarnations'[s] = incarnations[s] + 1
<1>0. TypeOK
  BY DEF TypeInv
<1>1. now' = now \/ now' = now + 1
  BY <1>0, OtherSteps, ControllerEffects
<1>2. ASSUME NEW t \in Sessions, NEW profile \in Profiles, NEW ttl \in TTLs,
             CreateSession(t, profile, ttl)
      PROVE  incarnations' = [incarnations EXCEPT ![t] = @ + 1]
  BY <1>2 DEF CreateSession
<1>3. \/ UNCHANGED incarnations
      \/ \E t \in Sessions : incarnations' = [incarnations EXCEPT ![t] = @ + 1]
  BY <1>2, ControllerEffects
     DEF Next, UserStep, ClusterStep, DeleteSession, Crash, StartPod, StopPod,
         EvictPod, ReapPod, GarbageCollect, UpdatePod, ChangeRuntimeClass, Tick,
         vars, cluster
<1>4. QED
  BY <1>0, <1>1, <1>3 DEF TypeOK

\* A session that is over stays so while its name is not used again.
LEMMA OverForGood ==
    ASSUME TimesInv, [Next]_vars, NEW s \in Sessions, Over(s),
           incarnations'[s] = 1
    PROVE  Over(s)'
<1>0. TypeInv /\ TypeOK
  BY DEF TimesInv, TypeInv
<1>1. TypeInv' /\ ExpiryInv'
  BY NextTypeInv, NextExpiryInv DEF TimesInv
<1>2. SUFFICES ASSUME Exists(s)' PROVE Over(s)'
  BY DEF Over
<1>3. /\ incarnations[s] = 1
      /\ Exists(s)
      /\ sessions[s].deleting => sessions'[s].deleting
      /\ sessions'[s].created = sessions[s].created
      /\ sessions'[s].ttl = sessions[s].ttl
  BY <1>0, <1>2, SessionKept DEF Over
<1>4. ASSUME Expired(sessions[s], now) PROVE Expired(sessions'[s], now')
  <2>1. /\ ExpiryTime(sessions[s]) = sessions[s].created + sessions[s].ttl
        /\ ExpiryTime(sessions'[s]) = sessions'[s].created + sessions'[s].ttl
    BY <1>1, <1>2, <1>3
       DEF TimesInv, ExpiryInv, ExpiryKnown, ExpiryTime, UsedOnce
  <2>2. Expired(sessions[s], now')
    <3>1. now' = now \/ now' = now + 1
      BY <1>0, CountsGoUp
    <3>2. QED
      BY <1>0, <1>3, <1>4, <3>1, ExpiredForGood DEF TypeOK, Exists
  <2>3. QED
    BY <1>3, <2>1, <2>2 DEF Expired
<1>5. QED
  BY <1>2, <1>3, <1>4 DEF Over

\* For any number of controllers, whatever fails: the Pods that come to life
\* when their session is over are at most as many as the controllers that were
\* on their way to create one when it ended.
THEOREM LatePodsFew == Spec => LatePodsAreFew
<1> DEFINE Few(s) ==
                Over(s) /\ incarnations'[s] = 1 =>
                    /\ Over(s)'
                    /\ MayCreate(s)' \subseteq MayCreate(s)
                    /\ ~Live(pods[s]) /\ Live(pods[s])'
                        => MayCreate(s)' # MayCreate(s)
<1>1. TimesInv /\ [Next]_vars => \A s \in Sessions : Few(s)
  <2> SUFFICES ASSUME TimesInv, [Next]_vars, NEW s \in Sessions, Over(s),
                      incarnations'[s] = 1
               PROVE  Few(s)
    OBVIOUS
  <2>1. Over(s)'
    BY OverForGood
  <2>2. MayCreate(s)' \subseteq MayCreate(s)
    BY SetsOut DEF TimesInv, Over
  <2>3. ~Live(pods[s]) /\ Live(pods[s])' => MayCreate(s)' # MayCreate(s)
    BY LivesByCreation DEF TimesInv
  <2>4. QED
    BY <2>1, <2>2, <2>3
<1>2. QED
  BY <1>1, TimesCorrect, PTL DEF Spec, LatePodsAreFew

\* A controller joins those that may report that a session is not Expired only
\* by reading that session while it is not over.
LEMMA SetsOutToReport ==
    ASSUME TypeInv, [Next]_vars, NEW s \in Sessions, NEW c \in MayReport(s)'
    PROVE  \/ c \in MayReport(s)
           \/ /\ Exists(s)
              /\ ~sessions[s].deleting
              /\ ~Expired(sessions[s], now)
<1>0. TypeOK /\ LocalsOK /\ c \in Controllers
  BY DEF TypeInv, MayReport, MayCreate
<1>1. CASE c \in MayCreate(s)'
  BY <1>1, SetsOut DEF MayReport
<1>2. CASE cur'[c] = s /\ pc'[c] = "patchStatus" /\ out'[c].phase # "Expired"
  <2>1. ASSUME pc'[c] = pc[c], cur'[c] = cur[c], out'[c] = out[c]
        PROVE  c \in MayReport(s)
    BY <1>0, <1>2, <2>1 DEF MayReport
  <2>2. ASSUME ControllerStep(c)
        PROVE  c \in MayReport(s)
    <3>1. pc[c] # "idle" /\ cur[c] = s
      BY <1>0, <1>2, <2>2, ControllerEffects DEF TypeInv, TypeOK, FirstCall
    <3>2. \/ pc[c] \in {"checkRuntimeClass", "getPod", "createPod"}
          \/ pc[c] = "checkExpiry" /\ ~Expired(obj[c], now)
      <4>1. ~ExpirePod(c)
        <5>1. ExpiredStatus(obj[c]).phase = "Expired"
          BY <1>0, <3>1, StatusFields DEF LocalsOK, Reasons
        <5>2. QED
          BY <1>0, <1>2, <5>1 DEF ExpirePod, Report, TypeOK
      <4>2. QED
        BY <1>0, <1>2, <2>2, <3>1, <4>1
           DEF ControllerStep, ListSessions, GetSession, AddFinalizer,
               CheckExpiry, CheckRuntimeClass, GetPod, CreatePod, WriteStatus,
               CleanupPod, RemoveFinalizer, Continue, Return, Goto, TypeOK
    <3>3. QED
      BY <1>0, <3>1, <3>2 DEF MayReport, MayCreate
  <2>3. ASSUME NEW d \in Controllers \ {c}, ControllerStep(d)
        PROVE  c \in MayReport(s)
    BY <1>0, <2>1, <2>3, ControllerEffects DEF TypeInv, TypeOK
  <2>4. CASE ~ \E d \in Controllers : ControllerStep(d)
    BY <1>0, <1>2, <2>1, <2>4, OtherOuts DEF TypeOK
  <2>5. QED
    BY <2>2, <2>3, <2>4
<1>3. QED
  BY <1>0, <1>1, <1>2 DEF MayReport, MayCreate

\* A status other than Expired is written only by a controller that may do so,
\* which then begins anew.
LEMMA ReportsByWriting ==
    ASSUME TypeInv, [Next]_vars, NEW s \in Sessions, Exists(s)', Exists(s),
           sessions'[s].status # sessions[s].status,
           sessions'[s].status.phase # "Expired"
    PROVE  MayReport(s)' # MayReport(s)
<1>0. TypeOK
  BY DEF TypeInv
<1>1. PICK c \in Controllers : ControllerStep(c)
  BY <1>0, OtherStatuses
<1>2. pc[c] = "patchStatus" /\ s = cur[c] /\ sessions'[s].status = out[c]
  BY <1>1, ControllerSessions DEF Exists
<1>3. pc'[c] = "idle"
  BY <1>0, <1>1, <1>2
     DEF ControllerStep, ListSessions, GetSession, AddFinalizer, CheckExpiry,
         CheckRuntimeClass, GetPod, CreatePod, ExpirePod, WriteStatus,
         CleanupPod, RemoveFinalizer, Return, Goto, TypeOK
<1>4. c \in MayReport(s) /\ c \notin MayReport(s)'
  BY <1>2, <1>3 DEF MayReport, MayCreate
<1>5. QED
  BY <1>4

\* For any number of controllers, whatever fails: the statuses other than
\* Expired that are written when their session is over are at most as many as
\* the controllers that were on their way to write one when it ended.
THEOREM LateReportsFew == Spec => LateReportsAreFew
<1> DEFINE Few(s) ==
                Over(s) /\ incarnations'[s] = 1 =>
                    /\ MayReport(s)' \subseteq MayReport(s)
                    /\ (/\ Exists(s)'
                        /\ sessions'[s].status # sessions[s].status
                        /\ sessions'[s].status.phase # "Expired")
                            => MayReport(s)' # MayReport(s)
<1>1. TypeInv /\ [Next]_vars => \A s \in Sessions : Few(s)
  <2> SUFFICES ASSUME TypeInv, [Next]_vars, NEW s \in Sessions, Over(s),
                      incarnations'[s] = 1
               PROVE  Few(s)
    OBVIOUS
  <2>1. MayReport(s)' \subseteq MayReport(s)
    BY SetsOutToReport DEF Over
  <2>2. Exists(s)' => Exists(s)
    BY SessionKept DEF Over
  <2>3. (/\ Exists(s)'
         /\ sessions'[s].status # sessions[s].status
         /\ sessions'[s].status.phase # "Expired")
            => MayReport(s)' # MayReport(s)
    BY <2>2, ReportsByWriting
  <2>4. QED
    BY <2>1, <2>3
<1>2. QED
  BY <1>1, TypeCorrect, PTL DEF Spec, LateReportsAreFew

-----------------------------------------------------------------------------
(* One controller implements SessionContract. *)

Reported(s) == Exists(s) /\ sessions[s].status.phase = "Expired"

\* The three things that SessionContract knows of a session stay as they are.
SameLife(s) == Life(s)' = Life(s)
SameRunning(s) == Live(pods[s])' <=> Live(pods[s])
SameReport(s) == Reported(s)' <=> Reported(s)
Same(s) == SameLife(s) /\ SameRunning(s) /\ SameReport(s)

\* The changes that SessionContract allows to a session.
Allowed(s) ==
    \/ Same(s)
    \/ /\ Life(s) \notin {"open", "closing"} /\ Life(s)' = "open"
       /\ SameRunning(s) /\ SameReport(s)
    \/ /\ Life(s) \in {"open", "closing"} /\ SameLife(s)
       /\ ~Live(pods[s]) /\ Live(pods[s])'
       /\ ~Reported(s) /\ ~Reported(s)'
    \/ /\ Live(pods[s]) /\ ~Live(pods[s])'
       /\ SameLife(s) /\ SameReport(s)
    \/ /\ Life(s) \in {"open", "closing"} /\ SameLife(s)
       /\ ~Live(pods[s]) /\ ~Live(pods[s])'
       /\ Reported(s)'
    \/ /\ Life(s) = "open" /\ Life(s)' = "closing"
       /\ SameRunning(s) /\ SameReport(s)
    \/ /\ Life(s) \in {"open", "closing"} /\ Life(s)' = "gone"
       /\ ~Live(pods[s]) /\ ~Live(pods[s])'
       /\ ~Reported(s)'

\* A step that changes one session, in an allowed way, is one of the contract.
LEMMA AllowedIsContractStep ==
    ASSUME NEW s \in Sessions, Allowed(s),
           \A t \in Sessions \ {s} : Same(t)
    PROVE  [Contract!Next]_(Contract!contractVars)
<1> DEFINE life == [t \in Sessions |-> Life(t)]
           running == [t \in Sessions |-> Live(pods[t])]
           expired == [t \in Sessions |-> Reported(t)]
<1>1. /\ life' = [life EXCEPT ![s] = Life(s)']
      /\ SameLife(s) => life' = life
  BY DEF Same, SameLife
<1>2. /\ Live(pods[s])' => running' = [running EXCEPT ![s] = TRUE]
      /\ ~Live(pods[s])' => running' = [running EXCEPT ![s] = FALSE]
      /\ SameRunning(s) => running' = running
  BY Zenon DEF Same, SameRunning, Live
<1>3. /\ Reported(s)' => expired' = [expired EXCEPT ![s] = TRUE]
      /\ ~Reported(s)' => expired' = [expired EXCEPT ![s] = FALSE]
      /\ SameReport(s) => expired' = expired
  BY Zenon DEF Same, SameReport, Reported
<1>4. life[s] = Life(s) /\ running[s] = Live(pods[s]) /\ expired[s] = Reported(s)
  OBVIOUS
<1> HIDE DEF life, running, expired
<1>5. CASE Same(s)
  <2>1. life' = life /\ running' = running /\ expired' = expired
    BY <1>1, <1>2, <1>3, <1>5 DEF Same
  <2>2. QED
    BY <2>1 DEF Contract!contractVars, life, running, expired, Reported
<1>6. CASE /\ Life(s) \notin {"open", "closing"} /\ Life(s)' = "open"
           /\ SameRunning(s) /\ SameReport(s)
  <2>1. /\ life[s] \notin {"open", "closing"}
        /\ life' = [life EXCEPT ![s] = "open"]
        /\ running' = running /\ expired' = expired
    BY <1>1, <1>2, <1>3, <1>4, <1>6
  <2>2. Contract!Open(s)
    BY <2>1 DEF Contract!Open, Contract!Kept, life, running, expired, Reported
  <2>3. QED
    BY <2>2 DEF Contract!Next
<1>7. CASE /\ Life(s) \in {"open", "closing"} /\ SameLife(s)
           /\ ~Live(pods[s]) /\ Live(pods[s])'
           /\ ~Reported(s) /\ ~Reported(s)'
  <2>1. /\ life[s] \in {"open", "closing"} /\ ~running[s] /\ ~expired[s]
        /\ running' = [running EXCEPT ![s] = TRUE]
        /\ life' = life /\ expired' = expired
    BY <1>1, <1>2, <1>3, <1>4, <1>7 DEF SameReport
  <2>2. Contract!Launch(s)
    BY <2>1
       DEF Contract!Launch, Contract!Kept, life, running, expired, Reported
  <2>3. QED
    BY <2>2 DEF Contract!Next
<1>8. CASE /\ Live(pods[s]) /\ ~Live(pods[s])'
           /\ SameLife(s) /\ SameReport(s)
  <2>1. /\ running[s]
        /\ running' = [running EXCEPT ![s] = FALSE]
        /\ life' = life /\ expired' = expired
    BY <1>1, <1>2, <1>3, <1>4, <1>8
  <2>2. Contract!Stop(s)
    BY <2>1 DEF Contract!Stop, life, running, expired, Reported
  <2>3. QED
    BY <2>2 DEF Contract!Next
<1>9. CASE /\ Life(s) \in {"open", "closing"} /\ SameLife(s)
           /\ ~Live(pods[s]) /\ ~Live(pods[s])'
           /\ Reported(s)'
  <2>1. /\ life[s] \in {"open", "closing"} /\ ~running[s]
        /\ expired' = [expired EXCEPT ![s] = TRUE]
        /\ life' = life /\ running' = running
    BY <1>1, <1>2, <1>3, <1>4, <1>9 DEF SameRunning
  <2>2. Contract!ReportExpired(s)
    BY <2>1
       DEF Contract!ReportExpired, Contract!Kept, life, running, expired, Reported
  <2>3. QED
    BY <2>2 DEF Contract!Next
<1>10. CASE /\ Life(s) = "open" /\ Life(s)' = "closing"
            /\ SameRunning(s) /\ SameReport(s)
  <2>1. /\ life[s] = "open"
        /\ life' = [life EXCEPT ![s] = "closing"]
        /\ running' = running /\ expired' = expired
    BY <1>1, <1>2, <1>3, <1>4, <1>10
  <2>2. Contract!RequestDeletion(s)
    BY <2>1 DEF Contract!RequestDeletion, life, running, expired, Reported
  <2>3. QED
    BY <2>2 DEF Contract!Next
<1>11. CASE /\ Life(s) \in {"open", "closing"} /\ Life(s)' = "gone"
            /\ ~Live(pods[s]) /\ ~Live(pods[s])'
            /\ ~Reported(s)'
  <2>1. /\ life[s] \in {"open", "closing"} /\ ~running[s]
        /\ life' = [life EXCEPT ![s] = "gone"]
        /\ expired' = [expired EXCEPT ![s] = FALSE]
        /\ running' = running
    BY <1>1, <1>2, <1>3, <1>4, <1>11 DEF SameRunning
  <2>2. Contract!Remove(s)
    BY <2>1 DEF Contract!Remove, Contract!Kept, life, running, expired, Reported
  <2>3. QED
    BY <2>2 DEF Contract!Next
<1>12. QED
  BY <1>5, <1>6, <1>7, <1>8, <1>9, <1>10, <1>11 DEF Allowed

\* A step changes one session in an allowed way, or none.
Simulated ==
    \/ \A t \in Sessions : Same(t)
    \/ \E s \in Sessions :
        /\ Allowed(s)
        /\ \A t \in Sessions \ {s} : Same(t)

\* The deletion of a Pod is allowed at any time.
LEMMA DeletePodSimulated ==
    ASSUME TypeOK, NEW s \in Sessions, DeletePod(s),
           UNCHANGED <<sessions, incarnations>>
    PROVE  Simulated
<1>1. /\ ~Live(pods[s])'
      /\ \A t \in Sessions \ {s} : pods'[t] = pods[t]
  BY Sentinels DEF DeletePod, Live, Pod, TypeOK
<1>2. \A t \in Sessions : SameLife(t) /\ SameReport(t)
  BY DEF SameLife, SameReport, Life, Reported, Exists
<1>3. QED
  BY <1>1, <1>2 DEF Simulated, Allowed, Same, SameRunning, Live

\* The name of a session that exists was used.
LEMMA ExistingUsed ==
    ASSUME TypeOK, NamesInv, NEW s \in Sessions, Exists(s)
    PROVE  incarnations[s] # 0
BY DEF TypeOK, NamesInv, Exists, Session

\* Each call of the only controller is a step of the contract or invisible.
LEMMA ControllerSimulated ==
    ASSUME SingleController, PodDeletionsSucceed, SingleInv,
           NamesInv, NEW c \in Controllers, ControllerStep(c)
    PROVE  Simulated
<1>0. TypeOK
  BY DEF SingleInv, TypeInv
<1>1. pc[c] # "idle" => cur[c] \in Sessions /\ obj[c] \in Session
  BY DEF SingleInv, TypeInv, LocalsOK
<1>2. ASSUME UNCHANGED cluster PROVE Simulated
  BY <1>2 DEF cluster, Simulated, Same, SameLife, SameRunning, SameReport,
              Life, Reported, Exists, Live
<1>3. CASE ListSessions(c)
  BY <1>2, <1>3 DEF ListSessions, cluster
<1>4. CASE GetSession(c)
  BY <1>2, <1>4 DEF GetSession, cluster
<1>5. CASE AddFinalizer(c)
  <2>1. /\ cur[c] \in Sessions
        /\ UNCHANGED sessions \/ PatchFinalizers(cur[c], TRUE)
        /\ UNCHANGED <<pods, incarnations>>
    BY <1>1, <1>5 DEF AddFinalizer
  <2>2. CASE PatchFinalizers(cur[c], TRUE)
    <3>1. \A t \in Sessions :
            /\ Exists(t)' <=> Exists(t)
            /\ Exists(t)' => /\ sessions'[t].deleting = sessions[t].deleting
                             /\ sessions'[t].status = sessions[t].status
      BY <1>0, <2>1, <2>2, PatchFinalizersEffect DEF Exists
    <3>2. QED
      BY <2>1, <3>1
         DEF Simulated, Same, SameLife, SameRunning, SameReport, Life, Reported,
             Live
  <2>3. CASE UNCHANGED sessions
    BY <2>1, <2>3 DEF Simulated, Same, SameLife, SameRunning, SameReport, Life,
                      Reported, Exists, Live
  <2>4. QED
    BY <2>1, <2>2, <2>3
<1>6. CASE CheckExpiry(c)
  BY <1>2, <1>6 DEF CheckExpiry, cluster
<1>7. CASE CheckRuntimeClass(c)
  BY <1>2, <1>7 DEF CheckRuntimeClass, cluster
<1>8. CASE GetPod(c)
  BY <1>2, <1>8 DEF GetPod, cluster
<1>9. CASE CreatePod(c)
  <2>0. PICK s \in Sessions : s = cur[c]
    BY <1>1, <1>9 DEF CreatePod
  <2>1. /\ UNCHANGED <<sessions, incarnations>>
        /\ \A t \in Sessions : SameLife(t) /\ SameReport(t)
    BY <1>1, <1>9 DEF CreatePod, SameLife, SameReport, Life, Reported, Exists
  <2>2. \/ UNCHANGED pods
        \/ /\ pods[s] = NoPod
           /\ pods' = [pods EXCEPT ![s] = BuildPod(obj[c])]
    BY <1>9, <2>0 DEF CreatePod
  <2>3. CASE UNCHANGED pods
    BY <2>1, <2>3 DEF Simulated, Same, SameRunning
  <2>4. CASE /\ pods[s] = NoPod
             /\ pods' = [pods EXCEPT ![s] = BuildPod(obj[c])]
    <3>1. Life(s) \in {"open", "closing"} /\ ~Reported(s)
      BY <1>9, <2>0
         DEF CreatePod, SingleInv, OwnerInv, ExpiredInv, Life, Reported
    <3>2. ~Live(pods[s]) /\ Live(pods[s])'
      BY <1>0, <1>1, <1>9, <2>0, <2>4, BuildPodType, Sentinels
         DEF CreatePod, Live, BuildPod, TypeOK
    <3>3. \A t \in Sessions \ {s} : SameRunning(t)
      BY <1>0, <2>4 DEF SameRunning, TypeOK, Live
    <3>4. QED
      BY <2>1, <3>1, <3>2, <3>3 DEF Simulated, Allowed, Same, SameReport
  <2>5. QED
    BY <2>2, <2>3, <2>4
<1>10. CASE ExpirePod(c)
  BY <1>0, <1>1, <1>10, DeletePodSimulated
     DEF ExpirePod, TryDeletePod, Fault, PodDeletionsSucceed
<1>11. CASE WriteStatus(c)
  <2>0. PICK s \in Sessions : s = cur[c]
    BY <1>1, <1>11 DEF WriteStatus
  <2>1. /\ pc[c] = "patchStatus" /\ out[c] \in Status
        /\ UNCHANGED sessions \/ PatchStatus(s, out[c])
        /\ UNCHANGED <<pods, incarnations>>
    BY <1>0, <1>11, <2>0 DEF WriteStatus, TypeOK
  <2>2. CASE PatchStatus(s, out[c])
    <3>1. \A t \in Sessions :
            /\ Exists(t)' <=> Exists(t)
            /\ Exists(t) =>
                /\ sessions'[t].deleting = sessions[t].deleting
                /\ sessions'[t].status = IF t = s THEN out[c]
                                         ELSE sessions[t].status
      BY <1>0, <2>1, <2>2, PatchStatusEffect
    <3>2. \A t \in Sessions : SameLife(t) /\ SameRunning(t)
      BY <2>1, <3>1 DEF SameLife, SameRunning, Life, Live
    <3>3. \A t \in Sessions \ {s} : SameReport(t)
      BY <3>1 DEF SameReport, Reported
    <3>4. CASE Exists(s) /\ out[c].phase = "Expired"
      <4>1. /\ Life(s) \in {"open", "closing"}
            /\ ~Live(pods[s]) /\ Reported(s)'
        BY <2>0, <2>1, <3>1, <3>4 DEF SingleInv, ExpiredInv, Life, Reported
      <4>2. QED
        BY <2>1, <3>2, <3>3, <4>1 DEF Simulated, Allowed, Same, SameRunning
    <3>5. CASE ~(Exists(s) /\ out[c].phase = "Expired")
      <4>1. SameReport(s)
        BY <2>0, <2>1, <3>1, <3>5 DEF SingleInv, ExpiredInv, SameReport, Reported
      <4>2. QED
        BY <3>2, <3>3, <4>1 DEF Simulated, Same
    <3>6. QED
      BY <3>4, <3>5
  <2>3. CASE UNCHANGED sessions
    BY <2>1, <2>3 DEF Simulated, Same, SameLife, SameRunning, SameReport, Life,
                      Reported, Exists, Live
  <2>4. QED
    BY <2>1, <2>2, <2>3
<1>12. CASE CleanupPod(c)
  BY <1>0, <1>1, <1>12, DeletePodSimulated
     DEF CleanupPod, TryDeletePod, Fault, PodDeletionsSucceed
<1>13. CASE RemoveFinalizer(c)
  <2>0. PICK s \in Sessions : s = cur[c]
    BY <1>1, <1>13 DEF RemoveFinalizer
  <2>1. /\ pc[c] = "removeFinalizer"
        /\ UNCHANGED sessions \/ PatchFinalizers(s, FALSE)
        /\ UNCHANGED <<pods, incarnations>>
    BY <1>13, <2>0 DEF RemoveFinalizer
  <2>2. CASE PatchFinalizers(s, FALSE)
    <3>1. /\ \A t \in Sessions :
                Exists(t)' => /\ Exists(t)
                              /\ sessions'[t].deleting = sessions[t].deleting
                              /\ sessions'[t].status = sessions[t].status
          /\ \A t \in Sessions \ {s} : sessions'[t] = sessions[t]
      BY <1>0, <2>1, <2>2, PatchFinalizersEffect
    <3>2. \A t \in Sessions \ {s} : Same(t)
      BY <2>1, <3>1 DEF Same, SameLife, SameRunning, SameReport, Life, Reported,
                        Exists, Live
    <3>3. CASE Exists(s)' <=> Exists(s)
      <4>1. Same(s)
        BY <2>1, <3>1, <3>3 DEF Same, SameLife, SameRunning, SameReport, Life,
                                Reported, Live
      <4>2. QED
        BY <3>2, <4>1 DEF Simulated
    <3>4. CASE Exists(s) /\ ~Exists(s)'
      <4>1. incarnations[s] # 0
        BY <3>4, <1>0, ExistingUsed
      <4>2. /\ Life(s) \in {"open", "closing"} /\ Life(s)' = "gone"
            /\ ~Reported(s)'
        BY <2>1, <3>4, <4>1 DEF Life, Reported
      <4>3. ~Live(pods[s]) /\ ~Live(pods[s])'
        BY <2>0, <2>1 DEF SingleInv, OwnerInv, Live
      <4>4. QED
        BY <2>1, <3>2, <4>2, <4>3 DEF Simulated, Allowed
    <3>5. QED
      BY <3>1, <3>3, <3>4
  <2>3. CASE UNCHANGED sessions
    BY <2>1, <2>3 DEF Simulated, Same, SameLife, SameRunning, SameReport, Life,
                      Reported, Exists, Live
  <2>4. QED
    BY <2>1, <2>2, <2>3
<1>14. QED
  BY <1>3, <1>4, <1>5, <1>6, <1>7, <1>8, <1>9, <1>10, <1>11, <1>12, <1>13
     DEF ControllerStep

\* Every step of the system is a step of the contract or invisible.
LEMMA NextSimulated ==
    ASSUME SingleController, PodDeletionsSucceed, SingleInv, NamesInv, [Next]_vars
    PROVE  Simulated
<1>0. TypeOK
  BY DEF SingleInv, TypeInv
<1>1. ASSUME NEW c \in Controllers, ControllerStep(c) PROVE Simulated
  BY <1>1, ControllerSimulated
<1>2. ASSUME UNCHANGED <<sessions, pods, incarnations>> PROVE Simulated
  BY <1>2 DEF Simulated, Same, SameLife, SameRunning, SameReport, Life,
              Reported, Exists, Live
<1>3. ASSUME NEW s \in Sessions, NEW profile \in Profiles, NEW ttl \in TTLs,
             CreateSession(s, profile, ttl)
      PROVE  Simulated
  <2>1. /\ incarnations' = [incarnations EXCEPT ![s] = @ + 1]
        /\ incarnations[s] + 1 \in Nat \ {0}
        /\ ~Exists(s) /\ pods' = pods
    BY <1>0, <1>3 DEF CreateSession, TypeOK
  <2>2. /\ sessions'[s].deleting = FALSE
        /\ sessions'[s].status.phase = ""
    BY <1>0, <1>3, <2>1 DEF CreateSession, NewSession, EmptyStatus, TypeOK
  <2>3. Exists(s)'
    <3>1. sessions'[s] \in Session
      BY <1>0, <1>3, <2>1, EmptyStatusType
         DEF CreateSession, NewSession, TypeOK, Session
    <3>2. QED
      BY <3>1, Sentinels DEF Exists
  <2>4. \A t \in Sessions \ {s} : Same(t)
    BY <1>0, <1>3 DEF CreateSession, NewSession, Same, SameLife, SameRunning, SameReport,
                      Life, Reported, Exists, Live, TypeOK
  <2>5. /\ Life(s) \notin {"open", "closing"} /\ Life(s)' = "open"
        /\ SameRunning(s) /\ SameReport(s)
    BY <2>1, <2>2, <2>3 DEF Life, SameRunning, SameReport, Reported, Live
  <2>6. QED
    BY <2>4, <2>5 DEF Simulated, Allowed
<1>4. ASSUME NEW s \in Sessions, DeleteSession(s) PROVE Simulated
  <2>1. /\ Exists(s) /\ sessions[s] \in Session
        /\ UNCHANGED <<pods, incarnations>>
        /\ \A t \in Sessions \ {s} : sessions'[t] = sessions[t]
    BY <1>0, <1>4 DEF DeleteSession, Exists, TypeOK
  <2>2. \A t \in Sessions \ {s} : Same(t)
    BY <2>1 DEF Same, SameLife, SameRunning, SameReport, Life, Reported, Exists,
                Live
  <2>3. CASE sessions[s].finalizer
    <3>1. /\ sessions'[s] \in Session
          /\ sessions'[s].deleting
          /\ sessions'[s].status = sessions[s].status
      BY <1>0, <1>4, <2>1, <2>3 DEF DeleteSession, Session, TypeOK
    <3>2. Exists(s)'
      BY <3>1, Sentinels DEF Exists
    <3>3. SameRunning(s) /\ SameReport(s) /\ Life(s)' = "closing"
          /\ Life(s) \in {"open", "closing"}
      BY <2>1, <3>1, <3>2 DEF SameRunning, SameReport, Life, Reported, Live
    <3>4. QED
      BY <2>2, <3>3 DEF Simulated, Allowed, Same, SameLife
  <2>4. CASE ~sessions[s].finalizer
    <3>1. ~Live(pods[s]) /\ ~Live(pods[s])'
      BY <2>1, <2>4 DEF SingleInv, OwnerInv, Live
    <3>2. ~Exists(s)'
      BY <1>0, <1>4, <2>4 DEF DeleteSession, Exists, TypeOK
    <3>3. incarnations[s] # 0
      BY <1>0, <2>1, ExistingUsed
    <3>4. /\ Life(s) \in {"open", "closing"} /\ Life(s)' = "gone"
          /\ ~Reported(s)'
      BY <2>1, <3>2, <3>3 DEF Life, Reported
    <3>5. QED
      BY <2>2, <3>1, <3>4 DEF Simulated, Allowed
  <2>5. QED
    BY <2>3, <2>4
<1>5. ASSUME NEW s \in Sessions,
             \/ StartPod(s) \/ StopPod(s) \/ EvictPod(s)
             \/ ReapPod(s) \/ GarbageCollect(s)
      PROVE  Simulated
  <2>1. /\ UNCHANGED <<sessions, incarnations>>
        /\ \A t \in Sessions \ {s} : pods'[t] = pods[t]
        /\ Live(pods[s])' => Live(pods[s])
    BY <1>0, <1>5 DEF StartPod, StopPod, EvictPod, ReapPod, GarbageCollect,
                      Live, UpdatePod, Pod, TypeOK
  <2>2. \A t \in Sessions : SameLife(t) /\ SameReport(t)
    BY <2>1 DEF SameLife, SameReport, Life, Reported, Exists
  <2>3. \A t \in Sessions \ {s} : SameRunning(t)
    BY <2>1 DEF SameRunning, Live
  <2>4. SameRunning(s) \/ (Live(pods[s]) /\ ~Live(pods[s])')
    BY <2>1 DEF SameRunning
  <2>5. QED
    BY <2>2, <2>3, <2>4 DEF Simulated, Allowed, Same
<1>6. QED
  BY <1>1, <1>2, <1>3, <1>4, <1>5
     DEF Next, UserStep, ClusterStep, Crash, ChangeRuntimeClass, Tick, vars, cluster

\* One controller whose Pod deletions succeed implements SessionContract: a
\* Pod is launched only for a kept session that is not reported Expired, expiry
\* is reported after the Pod was stopped and never taken back, and a session is
\* removed after its Pod was stopped.
THEOREM ControllerImplementsContract ==
    ASSUME SingleController, PodDeletionsSucceed
    PROVE  Spec => ImplementsContract
<1>1. Init => Contract!Init
  BY DEF Init, Contract!Init, Life, Exists, Live
<1>2. SingleInv /\ NamesInv /\ [Next]_vars => [Contract!Next]_(Contract!contractVars)
  <2> SUFFICES ASSUME SingleInv, NamesInv, [Next]_vars
               PROVE  [Contract!Next]_(Contract!contractVars)
    OBVIOUS
  <2>1. CASE \A t \in Sessions : Same(t)
    BY <2>1 DEF Contract!contractVars, Same, SameLife, SameRunning, SameReport,
                Reported, Live
  <2>2. ASSUME NEW s \in Sessions, Allowed(s), \A t \in Sessions \ {s} : Same(t)
        PROVE  [Contract!Next]_(Contract!contractVars)
    BY <2>2, AllowedIsContractStep
  <2>3. QED
    BY <2>1, <2>2, NextSimulated DEF Simulated
<1>3. QED
  BY <1>1, <1>2, SingleCorrect, TimesCorrect, PTL
     DEF TimesInv, Spec, ImplementsContract, Contract!Spec

\* Under the same assumptions a session reported Expired stays so until it is
\* deleted: no stale copy, failed call or crash takes the report back.
THEOREM ExpiredSessionsStayExpired ==
    ASSUME SingleController, PodDeletionsSucceed
    PROVE  Spec => ExpiredIsFinal
<1> DEFINE Kept == \A s \in Sessions :
                      Exists(s) /\ Exists(s)' /\ sessions[s].status.phase = "Expired"
                          => sessions'[s].status.phase = "Expired"
<1>1. SingleInv /\ NamesInv /\ [Next]_vars => Kept
  <2> SUFFICES ASSUME SingleInv, NamesInv, [Next]_vars, NEW s \in Sessions,
                      Reported(s), Exists(s)'
               PROVE  Reported(s)'
    BY DEF Reported
  <2>1. Life(s)' # "gone"
    BY DEF Life
  <2>2. Allowed(s)
    BY NextSimulated DEF Simulated, Allowed
  <2>3. QED
    BY <2>1, <2>2 DEF Allowed, Same, SameReport
<1>2. QED
  BY <1>1, SingleCorrect, TimesCorrect, PTL DEF TimesInv, Spec, ExpiredIsFinal
=============================================================================
