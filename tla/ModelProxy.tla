----------------------------- MODULE ModelProxy -----------------------------
(***************************************************************************)
(* cask-model-proxy (internal/modelproxy) beside the controller: programs  *)
(* in a Pod send model requests with the session token that the controller *)
(* put into the Pod's environment.  The handler of a request validates the *)
(* token, gets the session, judges the copy it got, reads the body and     *)
(* forwards the request; anything may happen between these steps.          *)
(*                                                                         *)
(* A token is the expiry signed into it and the name of its session: no    *)
(* token is forged.  Contents and headers are left out, and so is modelRef,  *)
(* which the CRD schema restricts to the one value the proxy accepts.      *)
(***************************************************************************)
EXTENDS SessionController

CONSTANT Requests      \* requests that may be under way at once

VARIABLE requests      \* the request each of them is, and where it stands

Stages == {"none", "validate", "resolve", "judge", "body", "upstream", "over"}

\* token: the expiry in its token.  copy: the session as Get returned it.
\* late: was it sent after its session had been revoked?  (The code has no
\* such field: it is there to state RevokedIsDenied.)
Request == [stage : Stages, session : Sessions \cup {NoName}, token : Nat,
            copy : Session \cup {NoSession}, late : BOOLEAN]

NoRequest == [stage |-> "none", session |-> NoName, token |-> 0,
              copy |-> NoSession, late |-> FALSE]

ProxyTypeOK == TypeOK /\ requests \in [Requests -> Request]

ProxyInit == Init /\ requests = [r \in Requests |-> NoRequest]

-----------------------------------------------------------------------------

\* A user or the clock has ended the session.
Revoked(s) ==
    \/ ~Exists(s)
    \/ sessions[s].deleting
    \/ now >= sessions[s].created + sessions[s].ttl

MoveTo(r, stage) == requests' = [requests EXCEPT ![r].stage = stage]

\* A container that has not stopped yet may send, in a Pod being deleted too.
Send(r, s) ==
    /\ requests[r].stage \in {"none", "over"}
    /\ pods[s] # NoPod
    /\ pods[s].phase = "Running"
    /\ requests' = [requests EXCEPT ![r] =
            [stage |-> "validate", session |-> s, token |-> pods[s].tokenExpiry,
             copy |-> NoSession, late |-> Revoked(s)]]

ValidateToken(r) ==
    /\ requests[r].stage = "validate"
    /\ MoveTo(r, IF now < requests[r].token THEN "resolve" ELSE "over")

\* Any error of Get, not only NotFound, denies the request.
ResolveSession(r) ==
    LET s == requests[r].session IN
    /\ requests[r].stage = "resolve"
    /\ \/ Exists(s) /\ requests' = [requests EXCEPT ![r].stage = "judge",
                                                    ![r].copy = sessions[s]]
       \/ MoveTo(r, "over")

\* Mistake: only what the controller reports counts, not the deletion.
Usable_ReportedOnly_Mutant(session, time) ==
    /\ session.status.phase \notin {"Expired", "Terminating", "Failed"}
    /\ session.status.expiresAt # NoTime => time < session.status.expiresAt

\* A session whose expiry nobody has written yet is judged by its token alone.
Usable(session, time) ==
    /\ ~session.deleting
    /\ session.status.phase \notin {"Expired", "Terminating", "Failed"}
    /\ session.status.expiresAt # NoTime => time < session.status.expiresAt

Judge(r) ==
    /\ requests[r].stage = "judge"
    /\ MoveTo(r, IF Usable(requests[r].copy, now) THEN "body" ELSE "over")

\* The program may send the body as slowly as it likes, or break off.
ReadBody(r) ==
    /\ requests[r].stage = "body"
    /\ MoveTo(r, "upstream") \/ MoveTo(r, "over")
    /\ UNCHANGED vars

\* The upstream answers or fails, or the client's 30 seconds are over.
Answer(r) == requests[r].stage = "upstream" /\ MoveTo(r, "over")

HandlerStep(r) ==
    /\ ValidateToken(r) \/ ResolveSession(r) \/ Judge(r) \/ Answer(r)
    /\ UNCHANGED vars

ProxyNext ==
    \/ Next /\ UNCHANGED requests
    \/ \E r \in Requests, s \in Sessions : Send(r, s) /\ UNCHANGED vars
    \/ \E r \in Requests : HandlerStep(r) \/ ReadBody(r)

proxyVars == <<vars, requests>>

ProxySpec == ProxyInit /\ [][ProxyNext]_proxyVars

\* Handlers run to their end: the API server answers a Get, and http.Client
\* gives up on the upstream after 30 seconds.  A body need never be complete.
ProxyFairSpec == ProxySpec /\ \A r \in Requests : WF_proxyVars(HandlerStep(r))

-----------------------------------------------------------------------------

\* A request sent after its session was deleted or had reached its TTL is not
\* forwarded, however late the controller is to delete the Pod that sends it,
\* with whatever the controller's failed calls left unwritten in the status,
\* and with more than one controller.  (The proxy looks a session up by name:
\* it cannot tell a later session of the same name from the one that ended.)
RevokedIsDenied ==
    \A r \in Requests :
        requests[r].late /\ UsedOnce(requests[r].session)
            => requests[r].stage # "upstream"

\* The model access of a session that was deleted or has reached its TTL ends
\* for good, although nothing obliges the controller to stop the Pod.
AccessEnds ==
    \A s \in Sessions :
        (incarnations[s] > 0 /\ Revoked(s))
            ~> [](\A r \in Requests :
                    requests[r].stage = "upstream" => requests[r].session # s)
=============================================================================
