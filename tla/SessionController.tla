-------------------------- MODULE SessionController --------------------------
(***************************************************************************)
(* cask-controller (internal/controller/controller.go) reconciling         *)
(* AgentSession objects with their Pods through the Kubernetes API.        *)
(*                                                                         *)
(* Every replica runs the loop of Run: list all sessions, reconcile one    *)
(* after another, wait for the ticker.  A reconciliation is a sequence of  *)
(* API calls; each call is one action, so that users, the kubelet, the     *)
(* garbage collector, the clock and other replicas may act between any two *)
(* of them.  What a call read is kept in the replica's local variables     *)
(* until the reconciliation returns, as in the Go code.                    *)
(***************************************************************************)
EXTENDS AgentSession

CONSTANTS
    Sessions,         \* names of sessions
    Controllers,      \* running controller processes
    NoName,           \* no session is being reconciled
    FaultyCalls,      \* the calls (values of pc) that may fail, and "crash"
    MaxFaults,        \* bound on the number of failures
    MaxTime,          \* bound on the clock
    MaxIncarnations   \* bound on the objects created under one name

ASSUME NoNameAssumption == NoName \notin Sessions

VARIABLES
    sessions,         \* the AgentSession objects in the API server
    pods,             \* the Pod of each session
    runtimeClasses,   \* the profiles whose RuntimeClass is installed
    now,              \* the clock
    incarnations,     \* how many objects each name has had
    faults,           \* how many failures have happened
    pc,               \* the call each controller is about to make
    queue,            \* listed sessions that it has not yet reconciled
    cur,              \* the session it is reconciling
    obj,              \* its copy of that session, read by Get
    out               \* the status it is about to write

vars == <<sessions, pods, runtimeClasses, now, incarnations, faults,
          pc, queue, cur, obj, out>>

cluster == <<sessions, pods, runtimeClasses, now, incarnations>>
local == <<pc, queue, cur, obj, out>>

Calls == {"idle", "addFinalizer", "checkExpiry", "checkRuntimeClass",
          "getPod", "createPod", "expirePod", "patchStatus", "cleanupPod",
          "removeFinalizer"}

TypeOK ==
    /\ sessions \in [Sessions -> Session \cup {NoSession}]
    /\ pods \in [Sessions -> Pod \cup {NoPod}]
    /\ runtimeClasses \in SUBSET RuntimeClassProfiles
    /\ now \in Nat
    /\ incarnations \in [Sessions -> Nat]
    /\ faults \in Nat
    /\ pc \in [Controllers -> Calls]
    /\ queue \in [Controllers -> SUBSET Sessions]
    /\ cur \in [Controllers -> Sessions \cup {NoName}]
    /\ obj \in [Controllers -> Session \cup {NoSession}]
    /\ out \in [Controllers -> Status]

\* A controller that is about to make a call works on a session.
LocalsOK ==
    \A c \in Controllers :
        pc[c] # "idle" => cur[c] \in Sessions /\ obj[c] \in Session

Init ==
    /\ sessions = [s \in Sessions |-> NoSession]
    /\ pods = [s \in Sessions |-> NoPod]
    /\ runtimeClasses \in SUBSET RuntimeClassProfiles
    /\ now = 0
    /\ incarnations = [s \in Sessions |-> 0]
    /\ faults = 0
    /\ pc = [c \in Controllers |-> "idle"]
    /\ queue = [c \in Controllers |-> {}]
    /\ cur = [c \in Controllers |-> NoName]
    /\ obj = [c \in Controllers |-> NoSession]
    /\ out = [c \in Controllers |-> EmptyStatus]

-----------------------------------------------------------------------------
(* The API server, as the code's calls see it. *)

Exists(s) == sessions[s] # NoSession

\* A failure of a call: the call errs, with or without having taken effect.
Fault(call) ==
    /\ call \in FaultyCalls
    /\ faults < MaxFaults
    /\ faults' = faults + 1

DeletePod(s) ==
    pods' = [pods EXCEPT ![s] =
                IF @ = NoPod THEN NoPod ELSE [@ EXCEPT !.terminating = TRUE]]

\* A merge patch of status names the object, not its uid or resourceVersion.
PatchStatus(s, status) ==
    sessions' = [sessions EXCEPT ![s] =
                    IF @ = NoSession THEN NoSession
                    ELSE [@ EXCEPT !.status = status]]

\* A merge patch of metadata.finalizers replaces the list.  The API server
\* removes a deleted object when its last finalizer goes.
PatchFinalizers(s, present) ==
    sessions' = [sessions EXCEPT ![s] =
                    IF @ = NoSession \/ (@.deleting /\ ~present)
                      THEN NoSession
                      ELSE [@ EXCEPT !.finalizer = present]]

-----------------------------------------------------------------------------
(* The controller. *)

Goto(c, call) == pc' = [pc EXCEPT ![c] = call]

\* Reconcile goes on with its next call.
Continue(c, call) == Goto(c, call) /\ UNCHANGED <<queue, cur, obj, out>>

\* Reconcile returns, with or without an error: Run only logs it.
Return(c) ==
    /\ Goto(c, "idle")
    /\ cur' = [cur EXCEPT ![c] = NoName]
    /\ obj' = [obj EXCEPT ![c] = NoSession]
    /\ out' = [out EXCEPT ![c] = EmptyStatus]
    /\ UNCHANGED queue

\* Reconcile ends by writing a status computed from its copy.
Report(c, status) ==
    /\ Goto(c, "patchStatus")
    /\ out' = [out EXCEPT ![c] = status]
    /\ UNCHANGED <<queue, cur, obj>>

Fail(c, why) == Report(c, FailStatus(obj[c], why))

\* A round begins when the last one is over.  A List that fails leaves
\* everything as it is.
ListSessions(c) ==
    /\ pc[c] = "idle"
    /\ queue[c] = {}
    /\ queue' = [queue EXCEPT ![c] = {s \in Sessions : Exists(s)}]
    /\ UNCHANGED <<cluster, faults, pc, cur, obj, out>>

\* Mistake: no finalizer is added before resources are created.
FirstCall_NoFinalizer_Mutant(session) ==
    IF session.deleting THEN "cleanupPod" ELSE "checkExpiry"

\* Mistake: a session whose deletion was requested is reconciled as any other.
FirstCall_IgnoresDeletion_Mutant(session) ==
    IF ~session.finalizer THEN "addFinalizer" ELSE "checkExpiry"

\* The copy read here decides what this reconciliation does first.
FirstCall(session) ==
    IF session.deleting THEN "cleanupPod"
    ELSE IF ~session.finalizer THEN "addFinalizer" ELSE "checkExpiry"

GetSession(c) ==
    /\ pc[c] = "idle"
    /\ \E s \in queue[c] :
        /\ queue' = [queue EXCEPT ![c] = @ \ {s}]
        /\ \/ /\ Exists(s)
              /\ Goto(c, FirstCall(sessions[s]))
              /\ cur' = [cur EXCEPT ![c] = s]
              /\ obj' = [obj EXCEPT ![c] = sessions[s]]
              /\ UNCHANGED <<out, faults>>
           \/ /\ ~Exists(s)
              /\ UNCHANGED <<pc, cur, obj, out, faults>>
           \/ /\ Fault("getSession")
              /\ UNCHANGED <<pc, cur, obj, out>>
    /\ UNCHANGED cluster

AddFinalizer(c) ==
    /\ pc[c] = "addFinalizer"
    /\ \/ /\ Exists(cur[c])
          /\ PatchFinalizers(cur[c], TRUE)
          /\ Continue(c, "checkExpiry")
          /\ UNCHANGED faults
       \/ /\ ~Exists(cur[c])
          /\ Return(c)
          /\ UNCHANGED <<sessions, faults>>
       \/ /\ Fault("addFinalizer")
          /\ PatchFinalizers(cur[c], TRUE) \/ UNCHANGED sessions
          /\ Return(c)
    /\ UNCHANGED <<pods, runtimeClasses, now, incarnations>>

\* Local: the clock is read once, then the profile is looked up.
CheckExpiry(c) ==
    /\ pc[c] = "checkExpiry"
    /\ \/ /\ Expired(obj[c], now)
          /\ Continue(c, "expirePod")
       \/ /\ ~Expired(obj[c], now)
          /\ obj[c].profile \notin ConfiguredProfiles
          /\ Fail(c, "UnsupportedIsolationProfile")
       \/ /\ ~Expired(obj[c], now)
          /\ obj[c].profile \in RuntimeClassProfiles
          /\ Continue(c, "checkRuntimeClass")
       \/ /\ ~Expired(obj[c], now)
          /\ obj[c].profile \in ConfiguredProfiles \ RuntimeClassProfiles
          /\ Continue(c, "getPod")
    /\ UNCHANGED <<cluster, faults>>

\* Any error of the call, not only NotFound, fails the session.
CheckRuntimeClass(c) ==
    /\ pc[c] = "checkRuntimeClass"
    /\ \/ /\ obj[c].profile \in runtimeClasses
          /\ Continue(c, "getPod")
          /\ UNCHANGED faults
       \/ /\ obj[c].profile \notin runtimeClasses
          /\ Fail(c, "RuntimeClassNotFound")
          /\ UNCHANGED faults
       \/ /\ Fault("checkRuntimeClass")
          /\ Fail(c, "RuntimeClassNotFound")
    /\ UNCHANGED cluster

GetPod(c) ==
    /\ pc[c] = "getPod"
    /\ \/ /\ pods[cur[c]] = NoPod
          /\ Continue(c, "createPod")
          /\ UNCHANGED faults
       \/ /\ pods[cur[c]] # NoPod
          /\ Report(c, ObservedStatus(obj[c], pods[cur[c]]))
          /\ UNCHANGED faults
       \/ /\ Fault("getPod")
          /\ Return(c)
    /\ UNCHANGED cluster

\* The API server refuses a second Pod of the same name; it does not ask
\* whether the owner that the Pod names still exists.
CreatePod(c) ==
    LET NewPod == pods' = [pods EXCEPT ![cur[c]] = BuildPod(obj[c])] IN
    /\ pc[c] = "createPod"
    /\ \/ /\ pods[cur[c]] = NoPod
          /\ NewPod
          /\ Report(c, ProvisioningStatus(obj[c]))
          /\ UNCHANGED faults
       \/ /\ pods[cur[c]] # NoPod
          /\ Fail(c, "PodCreateFailed")
          /\ UNCHANGED <<pods, faults>>
       \/ /\ Fault("createPod")
          /\ UNCHANGED pods \/ (pods[cur[c]] = NoPod /\ NewPod)
          /\ Fail(c, "PodCreateFailed")
    /\ UNCHANGED <<sessions, runtimeClasses, now, incarnations>>

\* deletePod: its callers ignore the error.
TryDeletePod(s) ==
    \/ DeletePod(s) /\ UNCHANGED faults
    \/ Fault("deletePod") /\ UNCHANGED pods

\* Mistake: Expired is reported and the Pod is left to a later round.
ExpirePod_KeepsPod_Mutant(c) ==
    /\ pc[c] = "expirePod"
    /\ Report(c, ExpiredStatus(obj[c]))
    /\ UNCHANGED <<cluster, faults>>

\* Mistake: a Pod that is not found ends the reconciliation.
ExpirePod_NeedsPod_Mutant(c) ==
    /\ pc[c] = "expirePod"
    /\ TryDeletePod(cur[c])
    /\ IF pods[cur[c]] = NoPod THEN Return(c) ELSE Report(c, ExpiredStatus(obj[c]))
    /\ UNCHANGED <<sessions, runtimeClasses, now, incarnations>>

ExpirePod(c) ==
    /\ pc[c] = "expirePod"
    /\ TryDeletePod(cur[c])
    /\ Report(c, ExpiredStatus(obj[c]))
    /\ UNCHANGED <<sessions, runtimeClasses, now, incarnations>>

\* Mistake: a patch whose answer is lost is sent again as it is.
WriteStatus_Retries_Mutant(c) ==
    /\ pc[c] = "patchStatus"
    /\ PatchStatus(cur[c], out[c])
    /\ Return(c) \/ UNCHANGED local
    /\ UNCHANGED <<pods, runtimeClasses, now, incarnations, faults>>

WriteStatus(c) ==
    /\ pc[c] = "patchStatus"
    /\ \/ PatchStatus(cur[c], out[c]) /\ UNCHANGED faults
       \/ /\ Fault("patchStatus")
          /\ PatchStatus(cur[c], out[c]) \/ UNCHANGED sessions
    /\ Return(c)
    /\ UNCHANGED <<pods, runtimeClasses, now, incarnations>>

\* Mistake: a Pod that is not found ends the clean-up.
CleanupPod_NeedsPod_Mutant(c) ==
    /\ pc[c] = "cleanupPod"
    /\ TryDeletePod(cur[c])
    /\ IF pods[cur[c]] = NoPod THEN Return(c) ELSE Continue(c, "removeFinalizer")
    /\ UNCHANGED <<sessions, runtimeClasses, now, incarnations>>

\* Mistake: the finalizer is removed without deleting the Pod.
CleanupPod_KeepsPod_Mutant(c) ==
    /\ pc[c] = "cleanupPod"
    /\ Continue(c, "removeFinalizer")
    /\ UNCHANGED <<cluster, faults>>

CleanupPod(c) ==
    /\ pc[c] = "cleanupPod"
    /\ TryDeletePod(cur[c])
    /\ Continue(c, "removeFinalizer")
    /\ UNCHANGED <<sessions, runtimeClasses, now, incarnations>>

RemoveFinalizer(c) ==
    /\ pc[c] = "removeFinalizer"
    /\ \/ PatchFinalizers(cur[c], FALSE) /\ UNCHANGED faults
       \/ /\ Fault("removeFinalizer")
          /\ PatchFinalizers(cur[c], FALSE) \/ UNCHANGED sessions
    /\ Return(c)
    /\ UNCHANGED <<pods, runtimeClasses, now, incarnations>>

\* The process stops and is started again by its Deployment.
Crash(c) ==
    /\ Fault("crash")
    /\ Goto(c, "idle")
    /\ queue' = [queue EXCEPT ![c] = {}]
    /\ cur' = [cur EXCEPT ![c] = NoName]
    /\ obj' = [obj EXCEPT ![c] = NoSession]
    /\ out' = [out EXCEPT ![c] = EmptyStatus]
    /\ UNCHANGED cluster

ControllerStep(c) ==
    \/ ListSessions(c)
    \/ GetSession(c)
    \/ AddFinalizer(c)
    \/ CheckExpiry(c)
    \/ CheckRuntimeClass(c)
    \/ GetPod(c)
    \/ CreatePod(c)
    \/ ExpirePod(c)
    \/ WriteStatus(c)
    \/ CleanupPod(c)
    \/ RemoveFinalizer(c)

-----------------------------------------------------------------------------
(* Users, through cask-api. *)

CreateSession(s, profile, ttl) ==
    /\ ~Exists(s)
    /\ incarnations[s] < MaxIncarnations
    /\ incarnations' = [incarnations EXCEPT ![s] = @ + 1]
    /\ sessions' = [sessions EXCEPT ![s] =
                        NewSession(incarnations[s] + 1, now, profile, ttl)]
    /\ UNCHANGED <<pods, runtimeClasses, now, faults, local>>

\* An object with no finalizer is removed at once.
DeleteSession(s) ==
    /\ Exists(s)
    /\ sessions' = [sessions EXCEPT ![s] =
                        IF @.finalizer THEN [@ EXCEPT !.deleting = TRUE]
                        ELSE NoSession]
    /\ UNCHANGED <<pods, runtimeClasses, now, incarnations, faults, local>>

-----------------------------------------------------------------------------
(* The rest of the cluster: kubelet, garbage collector, administrators.    *)

UpdatePod(s, pod) ==
    /\ pods' = [pods EXCEPT ![s] = pod]
    /\ UNCHANGED <<sessions, runtimeClasses, now, incarnations, faults, local>>

StartPod(s) ==
    /\ Live(pods[s])
    /\ pods[s].phase = "Pending"
    /\ UpdatePod(s, [pods[s] EXCEPT !.phase = "Running"])

\* restartPolicy is Never: a stopped container stays stopped.
StopPod(s) ==
    /\ pods[s] # NoPod
    /\ pods[s].phase \in {"Pending", "Running"}
    /\ \E phase \in {"Succeeded", "Failed"} :
        /\ phase = "Succeeded" => pods[s].phase = "Running"
        /\ UpdatePod(s, [pods[s] EXCEPT !.phase = phase])

\* A node is drained, or an administrator deletes the Pod.
EvictPod(s) ==
    /\ Live(pods[s])
    /\ UpdatePod(s, [pods[s] EXCEPT !.terminating = TRUE])

ReapPod(s) ==
    /\ pods[s] # NoPod
    /\ pods[s].terminating
    /\ UpdatePod(s, NoPod)

\* Mistake: the Pod is built without an ownerReference.
Orphan_NoReference_Mutant(s) == FALSE

Orphan(s) == pods[s].owner # sessions[s].uid

\* The garbage collector deletes a Pod whose ownerReference names a uid that
\* no longer exists.
GarbageCollect(s) ==
    /\ Live(pods[s])
    /\ Orphan(s)
    /\ UpdatePod(s, [pods[s] EXCEPT !.terminating = TRUE])

\* An administrator installs or removes the RuntimeClass of a profile.
ChangeRuntimeClass(profile) ==
    /\ runtimeClasses' = IF profile \in runtimeClasses
                           THEN runtimeClasses \ {profile}
                           ELSE runtimeClasses \cup {profile}
    /\ UNCHANGED <<sessions, pods, now, incarnations, faults, local>>

Tick ==
    /\ now < MaxTime
    /\ now' = now + 1
    /\ UNCHANGED <<sessions, pods, runtimeClasses, incarnations, faults, local>>

-----------------------------------------------------------------------------

\* What a user's request does to the cluster.
UserStep ==
    \/ \E s \in Sessions, profile \in Profiles, ttl \in TTLs :
            CreateSession(s, profile, ttl)
    \/ \E s \in Sessions : DeleteSession(s)

\* What happens without one.
ClusterStep ==
    \/ \E c \in Controllers : ControllerStep(c) \/ Crash(c)
    \/ \E s \in Sessions :
            \/ StartPod(s)
            \/ StopPod(s)
            \/ EvictPod(s)
            \/ ReapPod(s)
            \/ GarbageCollect(s)
    \/ \E profile \in RuntimeClassProfiles : ChangeRuntimeClass(profile)
    \/ Tick

Next == UserStep \/ ClusterStep

Spec == Init /\ [][Next]_vars

\* Every controller keeps running its loop (its ticker fires every two
\* seconds and no call waits for anything but the API server), a deleted Pod
\* is gone in the end, and the garbage collector sees every orphan.  Nothing
\* obliges users, the scheduler, the clock or an administrator to act.
Fairness ==
    /\ \A c \in Controllers : WF_vars(ControllerStep(c))
    /\ \A s \in Sessions : WF_vars(ReapPod(s)) /\ WF_vars(GarbageCollect(s))

FairSpec == Spec /\ Fairness

-----------------------------------------------------------------------------
(* Safety. *)

\* generateSessionID draws names at random: s is not the name of an earlier
\* session as well.
UsedOnce(s) == incarnations[s] <= 1

\* Every live Pod runs for a session that still exists: no step of a user,
\* crash or failed call lets a Pod outlive its session other than terminating.
\* Holds for one controller whose Pod deletions do not fail.  The finalizer
\* must be in place before the Pod is created, and must stay until the Pod is
\* deleted.  Where a name was used again, the Pod may have been built from a
\* copy of the earlier session: the garbage collector, not a user, ends it.
PodHasOwner ==
    \A s \in Sessions :
        Live(pods[s]) => Exists(s) /\ (UsedOnce(s) => ~Orphan(s))

\* A session reported Expired has no live Pod: the report is made after the
\* Pod is deleted, and no reconciliation of an expired session creates one.
ExpiredHasNoPod ==
    \A s \in Sessions :
        Exists(s) /\ sessions[s].status.phase = "Expired" => ~Live(pods[s])

\* A session once reported Expired is Expired until it is deleted.
ExpiredIsFinal ==
    [][\A s \in Sessions :
            Exists(s) /\ Exists(s)' /\ sessions[s].status.phase = "Expired"
                => sessions'[s].status.phase = "Expired"]_vars

\* The session token in a Pod expires exactly when the Pod's session does,
\* whichever replica built the Pod and however old the copy it built it from,
\* whatever happens to sessions of other names.
TokenMatchesExpiry ==
    \A s \in Sessions :
        UsedOnce(s) /\ pods[s] # NoPod /\ ~Orphan(s)
            => pods[s].tokenExpiry = sessions[s].created + sessions[s].ttl

\* A written expiry is the creation time plus the TTL: patches by replicas
\* that read different copies never move it.
ExpiryFollowsTTL ==
    \A s \in Sessions :
        UsedOnce(s) /\ Exists(s) /\ sessions[s].status.expiresAt # NoTime
            => sessions[s].status.expiresAt
                    = sessions[s].created + sessions[s].ttl

\* What cask-api, the terminal gateway and the model proxy read together was
\* written together: a ready terminal means a running phase and a Pod name.
Consistent(status) ==
    /\ status.terminalReady <=> status.phase = "Running"
    /\ status.phase \in {"Running", "Provisioning"} => status.podName
    /\ status.phase = "Expired" => status.reason = "Expired"
    /\ status.phase # "" => status.expiresAt # NoTime

\* Every status in the cluster is consistent in this sense.
StatusConsistent ==
    \A s \in Sessions : Exists(s) => Consistent(sessions[s].status)

\* The replicas that may still create a Pod of s: they read it before it was
\* over, and have not found out.
MayCreate(s) ==
    {c \in Controllers :
        /\ cur[c] = s
        /\ \/ pc[c] \in {"checkRuntimeClass", "getPod", "createPod"}
           \/ /\ pc[c] \in {"addFinalizer", "checkExpiry"}
              /\ ~Expired(obj[c], now)}

\* The session of this name was deleted or has expired.
Over(s) ==
    /\ incarnations[s] = 1
    /\ \/ ~Exists(s)
       \/ sessions[s].deleting
       \/ Expired(sessions[s], now)

\* A session that is over stays so until its name is used again.  A Pod may
\* still be created for it, but each such Pod takes a replica that was on its
\* way when the session ended, and no other replica sets out: their number
\* bounds the Pods that deletion and expiry have to do away with once more.
LatePodsAreFew ==
    [][\A s \in Sessions :
            Over(s) /\ incarnations'[s] = 1 =>
                /\ Over(s)'
                /\ MayCreate(s)' \subseteq MayCreate(s)
                /\ ~Live(pods[s]) /\ Live(pods[s])'
                    => MayCreate(s)' # MayCreate(s)]_vars

\* The replicas that may still write of s that it is anything but Expired.
MayReport(s) ==
    MayCreate(s) \cup
        {c \in Controllers :
            cur[c] = s /\ pc[c] = "patchStatus" /\ out[c].phase # "Expired"}

\* A patch by a replica with an old copy can undo an Expired report, or bring a
\* ready terminal back to a session that has expired or is being deleted.  Each
\* such patch takes a replica that was on its way when the session ended, and
\* no other replica sets out: their number bounds the times that the report has
\* to be made once more.
LateReportsAreFew ==
    [][\A s \in Sessions :
            Over(s) /\ incarnations'[s] = 1 =>
                /\ MayReport(s)' \subseteq MayReport(s)
                /\ (/\ Exists(s)'
                    /\ sessions'[s].status # sessions[s].status
                    /\ sessions'[s].status.phase # "Expired")
                        => MayReport(s)' # MayReport(s)]_vars

-----------------------------------------------------------------------------
(* What the documents say and the code does not do. *)

\* docs/CRD_SPEC.md: the controller removes owned resources, then removes the
\* finalizer.  So a step that removes a session from the cluster finds no live
\* Pod of it.
CleanupBeforeRemoval ==
    [][\A s \in Sessions :
            Exists(s) /\ ~Exists(s)' => ~Live(pods[s])]_vars

\* docs/CONTROLLER_DESIGN.md: Failed is for unrecoverable errors.  So a session
\* that is Failed stays so until it expires or is deleted.
FailedIsUnrecoverable ==
    [][\A s \in Sessions :
            Exists(s) /\ Exists(s)' /\ sessions[s].status.phase = "Failed"
                => sessions'[s].status.phase \in {"Failed", "Expired"}]_vars

\* docs/CONTROLLER_DESIGN.md: Running, with terminalReady, is set when the Pod
\* is ready enough for exec.  So no controller decides to report a terminal
\* ready while the Pod it looks at is not running.
ReadyMeansRunning ==
    [][\A c \in Controllers :
            pc[c] = "getPod" /\ pc'[c] = "patchStatus" /\ out'[c].terminalReady
                => pods[cur[c]] # NoPod /\ pods[cur[c]].phase = "Running"]_vars

\* docs/API_SPEC.md and docs/CRD_SPEC.md show a Running session without a
\* reason.  So a session that recovers does not keep the reason of a failure.
RunningHasNoReason ==
    \A s \in Sessions :
        Exists(s) /\ sessions[s].status.phase = "Running"
            => sessions[s].status.reason = ""

-----------------------------------------------------------------------------
(* Liveness, under FairSpec. *)

\* The object that the u-th creation under a name made.
Is(s, u) == Exists(s) /\ sessions[s].uid = u

\* A session that a user deleted is removed, and its Pod with it, for good,
\* although calls fail, processes crash, another replica may be about to create
\* the Pod, and the name may be used again: the later session's Pod is not in
\* the way, and no Pod of the earlier one comes back.
DeletionCompletes ==
    \A s \in Sessions, u \in 1..MaxIncarnations :
        (Is(s, u) /\ sessions[s].deleting)
            ~> [](~Is(s, u) /\ pods[s].owner # u)

\* From some time after its TTL has passed a session is reported Expired and
\* has no live Pod for as long as its object is kept.
ExpiryEnforced ==
    \A s \in Sessions, u \in 1..MaxIncarnations :
        (Is(s, u) /\ Expired(sessions[s], now))
            ~> [](Is(s, u) => /\ sessions[s].status.phase = "Expired"
                              /\ ~Live(pods[s]))

PodReady(s) == pods[s] # NoPod /\ pods[s].phase \in {"Running", "Succeeded"}

\* The terminal's readiness keeps up with the Pod: it never differs from it
\* for ever, unless the session ends or its RuntimeClass is away.
ReadinessConverges ==
    \A s \in Sessions :
        []<>(\/ ~Exists(s)
             \/ sessions[s].deleting
             \/ Expired(sessions[s], now)
             \/ sessions[s].profile \notin
                    (ConfiguredProfiles \ RuntimeClassProfiles) \cup runtimeClasses
             \/ sessions[s].status.terminalReady <=> PodReady(s))

-----------------------------------------------------------------------------
(* Refinement. *)

Life(s) ==
    IF Exists(s) THEN IF sessions[s].deleting THEN "closing" ELSE "open"
    ELSE IF incarnations[s] = 0 THEN "absent" ELSE "gone"

Contract == INSTANCE SessionContract WITH
    life    <- [s \in Sessions |-> Life(s)],
    running <- [s \in Sessions |-> Live(pods[s])],
    expired <- [s \in Sessions |->
                    Exists(s) /\ sessions[s].status.phase = "Expired"]

\* One controller, with all its calls, copies, failures and crashes, keeps the
\* promises of SessionContract, however often a name is used.
ImplementsContract == Contract!Spec

=============================================================================
