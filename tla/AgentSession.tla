---------------------------- MODULE AgentSession ----------------------------
(***************************************************************************)
(* The AgentSession custom resource (api/v1alpha1/types.go), the Pod that  *)
(* runs a session, and the pure functions of the controller that compute   *)
(* one from the other (internal/controller/controller.go).                 *)
(*                                                                         *)
(* Data that no property tells apart is abstracted: user, tool, repository *)
(* and resource profile are left out, a message is left out, the name of a *)
(* session's only Pod is a flag, and times are whole numbers on one clock. *)
(* status.createdAt is left out: the code only ever writes it together     *)
(* with status.expiresAt, which is all that is computed from it.           *)
(***************************************************************************)
EXTENDS Naturals

CONSTANTS
    Profiles,              \* values spec.isolation.profile may take
    ConfiguredProfiles,    \* keys of the controller's Config.Profiles
    RuntimeClassProfiles,  \* those whose RuntimeClassName is not empty
    TTLs                   \* values spec.ttlSeconds may take

\* A profile with a RuntimeClass is a configured one.
ASSUME ProfilesAssumption ==
    /\ ConfiguredProfiles \subseteq Profiles
    /\ RuntimeClassProfiles \subseteq ConfiguredProfiles

\* The CRD schema and Validate refuse a ttlSeconds below 1.
ASSUME TTLAssumption == TTLs \subseteq Nat \ {0}

-----------------------------------------------------------------------------
(* The resource. *)

\* A nil *metav1.Time; every real expiry is later, because a TTL is positive.
NoTime == 0

\* "" is the phase of an object whose status nobody has written yet: the API
\* server drops the status that cask-api sends with a create request.
Phases == {"", "Pending", "Provisioning", "Running", "Failed",
           "Terminating", "Expired", "Succeeded"}

Reasons == {"", "UnsupportedIsolationProfile", "RuntimeClassNotFound",
            "PodCreateFailed", "Expired"}

Status == [phase : Phases, reason : Reasons, podName : BOOLEAN,
           terminalReady : BOOLEAN, expiresAt : Nat]

EmptyStatus == [phase |-> "", reason |-> "", podName |-> FALSE,
                terminalReady |-> FALSE, expiresAt |-> NoTime]

\* uid numbers the objects that carried the same name, created is the
\* creationTimestamp, deleting says that there is a deletionTimestamp.
Session == [uid : Nat \ {0}, created : Nat, profile : Profiles, ttl : TTLs,
            finalizer : BOOLEAN, deleting : BOOLEAN, status : Status]

\* What the API server stores of a NewAgentSession: not the status it fills in.
NewSession(uid, created, profile, ttl) ==
    [uid |-> uid, created |-> created, profile |-> profile, ttl |-> ttl,
     finalizer |-> FALSE, deleting |-> FALSE, status |-> EmptyStatus]

NoSession == [uid |-> 0]

PodPhases == {"Pending", "Running", "Succeeded", "Failed"}

\* terminating: deleted, and still there until its containers have stopped.
\* tokenExpiry: the expiry signed into the session token in its environment.
Pod == [owner : Nat \ {0}, phase : PodPhases, terminating : BOOLEAN,
        tokenExpiry : Nat]

NoPod == [owner |-> 0]

-----------------------------------------------------------------------------
(* Expiry. *)

\* The operators with a name in ..._Mutant are wrong on purpose: each is a
\* plausible mistake in the definition that follows it, which the runs detect.

ExpiryTime(session) ==
    IF session.status.expiresAt # NoTime
      THEN session.status.expiresAt
      ELSE session.created + session.ttl

\* Mistake: a session that is already reported Expired is not looked at again.
Expired_SkipsReported_Mutant(session, time) ==
    session.status.phase # "Expired" /\ time > ExpiryTime(session)

\* now.After(expiresAt): at the instant of expiry a session has not expired.
Expired(session, time) == time > ExpiryTime(session)

\* Mistake: the TTL is added to a createdAt that was never filled in.
EnsureStatusTimes_NoCreation_Mutant(session, status) ==
    [status EXCEPT !.expiresAt = IF @ # NoTime THEN @ ELSE session.ttl]

EnsureStatusTimes(session, status) ==
    [status EXCEPT !.expiresAt =
        IF @ # NoTime THEN @ ELSE session.created + session.ttl]

-----------------------------------------------------------------------------
(* The status that each outcome of a reconciliation writes. A field that   *)
(* an outcome does not assign keeps the value of the copy that was read.   *)

\* Mistake: the arguments for reason and message are swapped.
FailStatus_Message_Mutant(session, why) ==
    EnsureStatusTimes(session,
        [session.status EXCEPT !.phase = "Failed", !.reason = "not found",
                               !.terminalReady = FALSE])

\* Mistake: terminalReady keeps its old value.
FailStatus_StillReady_Mutant(session, why) ==
    EnsureStatusTimes(session,
        [session.status EXCEPT !.phase = "Failed", !.reason = why])

FailStatus(session, why) ==
    EnsureStatusTimes(session,
        [session.status EXCEPT !.phase = "Failed", !.reason = why,
                               !.terminalReady = FALSE])

ExpiredStatus(session) ==
    EnsureStatusTimes(session,
        [session.status EXCEPT !.phase = "Expired", !.reason = "Expired",
                               !.terminalReady = FALSE])

ProvisioningStatus(session) ==
    EnsureStatusTimes(session,
        [session.status EXCEPT !.phase = "Provisioning", !.podName = TRUE,
                               !.terminalReady = FALSE])

RunningStatus(session) ==
    EnsureStatusTimes(session,
        [session.status EXCEPT !.phase = "Running", !.podName = TRUE,
                               !.terminalReady = TRUE])

\* Mistake: a session that is Running is taken to stay Running.
ObservedStatus_Sticky_Mutant(session, pod) ==
    IF session.status.phase = "Running" \/ pod.phase \in {"Running", "Succeeded"}
      THEN RunningStatus(session)
      ELSE ProvisioningStatus(session)

\* The status for a Pod that was found.
ObservedStatus(session, pod) ==
    IF pod.phase \in {"Running", "Succeeded"}
      THEN RunningStatus(session)
      ELSE ProvisioningStatus(session)

-----------------------------------------------------------------------------
(* The Pod. *)

\* Mistake: the token gets a default lifetime instead of the session's.
BuildPod_DefaultTTL_Mutant(session) ==
    [owner |-> session.uid, phase |-> "Pending", terminating |-> FALSE,
     tokenExpiry |-> session.created + 2]

BuildPod(session) ==
    [owner |-> session.uid, phase |-> "Pending", terminating |-> FALSE,
     tokenExpiry |-> ExpiryTime(session)]

Live(pod) == pod # NoPod /\ ~pod.terminating
=============================================================================
