------------------------------ MODULE ApiServer ------------------------------
(***************************************************************************)
(* cask-api beside the controller: the handlers of ApiHandlers over        *)
(* SessionClient, whose calls act on the objects of SessionController.     *)
(* Between any two calls of a handler everything else may happen.          *)
(*                                                                         *)
(* owner is spec.userId, which never changes; promised is not in the code: *)
(* it remembers the expiry in the answer to a creation.                    *)
(***************************************************************************)
EXTENDS SessionController, ApiHandlers

CONSTANT MaxStoreFaults    \* bound on the handlers' calls that fail

VARIABLES
    owner,
    readAt,            \* the clock as each handler of a creation read it
    promised,          \* the expiry the creator of a session was told
    storeFaults

apiLocal == <<readAt, promised, storeFaults>>
apiVars == <<vars, calls, step, owner, apiLocal>>

ApiTypeOK ==
    /\ TypeOK
    /\ calls \in [Requests -> ApiCall(Sessions, NoName)]
    /\ step \in [Requests -> Steps]
    /\ owner \in [Sessions -> Users \cup {NoUser}]
    /\ readAt \in [Requests -> Nat]
    /\ promised \in [Sessions -> Nat]
    /\ storeFaults \in Nat

ApiInit ==
    /\ Init
    /\ HandlersInit
    /\ calls = [r \in Requests |-> NoCall(NoName)]
    /\ owner = [s \in Sessions |-> NoUser]
    /\ readAt = [r \in Requests |-> 0]
    /\ promised = [s \in Sessions |-> NoTime]
    /\ storeFaults = 0

-----------------------------------------------------------------------------

\* A handler's local variables go with it.
ForgetClock(r) == readAt' = [readAt EXCEPT ![r] = 0]

StoreFault ==
    /\ storeFaults < MaxStoreFaults
    /\ storeFaults' = storeFaults + 1

\* createSession reads the clock before it calls the Store.
ReceiveCall(r) ==
    /\ \E u \in Users :
        \/ \E method \in {"create", "list"} : Receive(r, u, method, NoName)
        \/ \E method \in {"get", "delete"}, s \in Sessions :
                Receive(r, u, method, s)
    /\ readAt' = [readAt EXCEPT ![r] =
                    IF calls'[r].method = "create" THEN now ELSE 0]
    /\ UNCHANGED <<vars, owner, promised, storeFaults>>

RefuseCall(r) ==
    /\ Refuse(r)
    /\ ForgetClock(r)
    /\ UNCHANGED <<vars, owner, promised, storeFaults>>

\* Mistake: the answer shows the default TTL.
Promise_Default_Mutant(r, ttl) == readAt[r] + 2

\* The API server stores no status, so the answer carries the one that
\* NewAgentSession computed.
Promise(r, ttl) == readAt[r] + ttl

\* Names are random: the one drawn has not been used before.
StoreCreate(r) ==
    /\ step[r] = "create"
    /\ \/ \E s \in Sessions, profile \in Profiles, ttl \in TTLs :
            /\ CreateSession(s, profile, ttl)
            /\ owner' = [owner EXCEPT ![s] = calls[r].user]
            /\ \/ /\ AnswerCreated(r, s)
                  /\ promised' = [promised EXCEPT ![s] = Promise(r, ttl)]
                  /\ UNCHANGED storeFaults
               \/ StoreFault /\ Answer(r, "error") /\ UNCHANGED promised
       \/ /\ StoreFault
          /\ Answer(r, "error")
          /\ UNCHANGED <<vars, owner, promised>>
    /\ ForgetClock(r)

\* Every error of Get is answered with 404.
StoreGet(r) ==
    LET s == calls[r].session IN
    /\ step[r] = "get"
    /\ \/ AfterGet(r, Exists(s), owner[s]) /\ UNCHANGED storeFaults
       \/ StoreFault /\ Answer(r, "missing")
    /\ UNCHANGED <<vars, owner, readAt, promised>>

StoreList(r) ==
    /\ step[r] = "list"
    /\ \/ /\ AnswerListed(r, {s \in Sessions :
                                Exists(s) /\ owner[s] = calls[r].user})
          /\ UNCHANGED storeFaults
       \/ StoreFault /\ Answer(r, "error")
    /\ UNCHANGED <<vars, owner, readAt, promised>>

\* Mistake: the error of Delete is not looked at.
StoreDelete_IgnoresError_Mutant(r) ==
    LET s == calls[r].session IN
    /\ step[r] = "delete"
    /\ \/ DeleteSession(s) /\ UNCHANGED storeFaults
       \/ ~Exists(s) /\ UNCHANGED <<vars, storeFaults>>
       \/ StoreFault /\ UNCHANGED vars
    /\ Answer(r, "deleted")
    /\ UNCHANGED <<owner, readAt, promised>>

\* Delete names the session; its object may have gone since Get.
StoreDelete(r) ==
    LET s == calls[r].session IN
    /\ step[r] = "delete"
    /\ \/ DeleteSession(s) /\ Answer(r, "deleted") /\ UNCHANGED storeFaults
       \/ DeleteSession(s) /\ StoreFault /\ Answer(r, "error")
       \/ ~Exists(s) /\ Answer(r, "error") /\ UNCHANGED <<vars, storeFaults>>
       \/ StoreFault /\ Answer(r, "error") /\ UNCHANGED vars
    /\ UNCHANGED <<owner, readAt, promised>>

\* cask-api stops, or the user's connection breaks and with it the context of
\* the handler's next call.  main returns as soon as Shutdown has begun, so a
\* stop does not wait for handlers.
BreakOff(r) ==
    /\ step[r] # "none"
    /\ StoreFault
    /\ Answer(r, "error")
    /\ ForgetClock(r)
    /\ UNCHANGED <<vars, owner, promised>>

ApiStep(r) ==
    RefuseCall(r) \/ StoreCreate(r) \/ StoreGet(r) \/ StoreList(r)
        \/ StoreDelete(r)

ApiNext ==
    \/ ClusterStep /\ UNCHANGED <<calls, step, owner, apiLocal>>
    \/ \E r \in Requests : ReceiveCall(r) \/ ApiStep(r) \/ BreakOff(r)

ApiSpec == ApiInit /\ [][ApiNext]_apiVars

\* As for the controller alone: users need not ask for anything, nor need a
\* handler go on.
ApiFairSpec == ApiSpec /\ Fairness

-----------------------------------------------------------------------------

\* The expiry a user is told when a session is created is kept to: until it has
\* passed the session is not reported Expired, and its Pod's token is accepted,
\* although the handler, the API server and the controllers read the clock at
\* different times.
PromiseKept ==
    \A s \in Sessions :
        UsedOnce(s) =>
            /\ Exists(s) /\ sessions[s].status.phase = "Expired"
                   => now > promised[s]
            /\ pods[s] # NoPod /\ ~Orphan(s)
                   => pods[s].tokenExpiry >= promised[s]

\* A user who was told that a session is deleted need not look again: object
\* and Pod go, for good, whatever else fails.
AcknowledgedDeletionCompletes ==
    \A r \in Requests, s \in Sessions :
        (calls[r].answer = "deleted" /\ calls[r].session = s)
            ~> [](~Exists(s) /\ pods[s] = NoPod)

Api == INSTANCE SessionApi WITH
    life <- [s \in Sessions |-> Life(s)],
    Unreliable <- TRUE,
    Reusable <- MaxIncarnations # 1

\* The handlers, whose Get and Delete are two calls with anything between them,
\* keep the promises of SessionApi: every answer was true at one instant, and
\* nobody but its owner ends a session.
ImplementsApi == Api!Spec
=============================================================================
