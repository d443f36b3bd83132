-------------------------- MODULE ModelProxyProofs --------------------------
(***************************************************************************)
(* That a request sent after its session was revoked is never forwarded,   *)
(* for any number of requests, controllers, failures and crashes, while    *)
(* the session's name is not used again.                                   *)
(***************************************************************************)
EXTENDS ModelProxy, SessionControllerProofs

\* A user has ended the session: for good, if its name is not used again.
Ended(s) == ~Exists(s) \/ sessions[s].deleting

\* How far a late request gets depends on why it is late: a session that has
\* ended has a deleted copy or none, and a token is over when its session is.
LateInv(r) ==
    /\ requests[r].stage # "none" =>
        requests[r].session \in Sessions /\ incarnations[requests[r].session] # 0
    /\ requests[r].late /\ UsedOnce(requests[r].session) =>
        /\ requests[r].stage \notin {"body", "upstream"}
        /\ requests[r].stage = "validate" =>
            Ended(requests[r].session) \/ requests[r].token <= now
        /\ requests[r].stage = "resolve" => Ended(requests[r].session)
        /\ requests[r].stage = "judge" => requests[r].copy.deleting

GateInv == ProxyTypeOK /\ \A r \in Requests : LateInv(r)

-----------------------------------------------------------------------------

\* The composition does to the controller's variables what the controller's
\* own specification allows.
LEMMA ProxyLeavesSessions == ProxySpec => Spec
<1>1. ProxyInit => Init
  BY DEF ProxyInit
<1>2. [ProxyNext]_proxyVars => [Next]_vars
  BY DEF ProxyNext, HandlerStep, ReadBody, proxyVars
<1>3. QED
  BY <1>1, <1>2, PTL DEF ProxySpec, Spec

\* What has ended stays so until its name is used again, and the clock does not
\* go back.
LEMMA EndedIsFinal ==
    ASSUME TypeInv, NEW s \in Sessions, incarnations[s] # 0, UsedOnce(s)',
           [Next]_vars
    PROVE  /\ UsedOnce(s) /\ incarnations'[s] # 0
           /\ Ended(s) => Ended(s)'
           /\ now' >= now
<1>1. /\ now \in Nat /\ incarnations[s] \in Nat
      /\ now' = now \/ now' = now + 1
      /\ incarnations'[s] = incarnations[s] \/ incarnations'[s] = incarnations[s] + 1
  BY CountsGoUp DEF TypeInv, TypeOK
<1>2. incarnations'[s] = incarnations[s]
  BY <1>1 DEF UsedOnce
<1>3. Ended(s) => Ended(s)'
  BY <1>2, SessionKept DEF Ended, Exists
<1>4. QED
  BY <1>1, <1>2, <1>3 DEF UsedOnce

\* A step of the rest of the system moves no request.
LEMMA OthersKeepGate ==
    ASSUME TimesInv, TimesInv', GateInv, [Next]_vars, UNCHANGED requests
    PROVE  GateInv'
<1>1. ProxyTypeOK'
  BY DEF TimesInv, TypeInv, GateInv, ProxyTypeOK
<1>2. ASSUME NEW r \in Requests PROVE LateInv(r)'
  <2>1. LateInv(r) /\ requests[r] \in Request
    BY DEF GateInv, ProxyTypeOK
  <2>2. CASE requests[r].stage = "none"
    BY <2>1, <2>2 DEF LateInv
  <2>3. CASE requests[r].stage # "none"
    <3>1. PICK s \in Sessions : s = requests[r].session /\ incarnations[s] # 0
      BY <2>1, <2>3 DEF LateInv
    <3>2. incarnations'[s] # 0
      BY <3>1, CountsGoUp DEF TimesInv, TypeInv, TypeOK
    <3>3. CASE UsedOnce(s)'
      <4>1. UsedOnce(s) /\ (Ended(s) => Ended(s)') /\ now' >= now
        BY <3>1, <3>3, EndedIsFinal DEF TimesInv
      <4>2. requests[r].token <= now => requests[r].token <= now'
        BY <2>1, <4>1 DEF Request, TimesInv, TypeInv, TypeOK
      <4>3. QED
        BY <2>1, <3>1, <3>2, <4>1, <4>2 DEF LateInv
    <3>4. CASE ~UsedOnce(s)'
      BY <2>1, <3>1, <3>2, <3>4 DEF LateInv, UsedOnce
    <3>5. QED
      BY <3>3, <3>4
  <2>4. QED
    BY <2>2, <2>3
<1>3. QED
  BY <1>1, <1>2 DEF GateInv

\* A request that is sent late has a token that is over or a session that has
\* ended: the token's expiry is the session's.
LEMMA SendKeepsGate ==
    ASSUME TimesInv, GateInv, NEW r \in Requests, NEW s \in Sessions,
           Send(r, s), UNCHANGED vars
    PROVE  GateInv'
<1>0. TypeOK /\ TypeOK' /\ requests \in [Requests -> Request]
  BY DEF TimesInv, TypeInv, GateInv, ProxyTypeOK, TypeOK, vars
<1>1. /\ pods[s] \in Pod /\ incarnations[s] \in Nat
      /\ pods[s].owner \in Nat \ {0} /\ pods[s].owner <= incarnations[s]
  BY <1>0 DEF Send, TimesInv, NamesInv, TypeOK, Pod
<1>2. Revoked(s) /\ UsedOnce(s) => Ended(s) \/ pods[s].tokenExpiry <= now
  <2> SUFFICES ASSUME UsedOnce(s), Revoked(s)
               PROVE  Ended(s) \/ pods[s].tokenExpiry <= now
    OBVIOUS
  <2>1. ASSUME Exists(s) PROVE pods[s].tokenExpiry = sessions[s].created + sessions[s].ttl
    <3>1. pods[s].owner = sessions[s].uid
      BY <1>1, <2>1 DEF TimesInv, NamesInv, UsedOnce
    <3>2. QED
      BY <2>1, <3>1 DEF TimesInv, ExpiryInv, TokenMatchesExpiry, Orphan, Send
  <2>2. ASSUME Exists(s), now >= sessions[s].created + sessions[s].ttl
        PROVE  pods[s].tokenExpiry <= now
    BY <1>0, <2>1, <2>2 DEF TypeOK
  <2>3. QED
    BY <2>2 DEF Revoked, Ended
<1>3. Revoked(s) \in BOOLEAN
  BY <1>0, Sentinels DEF Revoked, Exists, TypeOK, Session
<1>4. requests'[r] = [stage |-> "validate", session |-> s,
                      token |-> pods[s].tokenExpiry, copy |-> NoSession,
                      late |-> Revoked(s)]
  BY <1>0 DEF Send
<1>5. \A q \in Requests \ {r} : requests'[q] = requests[q]
  BY <1>0 DEF Send
<1>6. requests' \in [Requests -> Request]
  <2>1. requests'[r] \in Request
    BY <1>1, <1>3, <1>4 DEF Request, Stages, Pod
  <2>2. QED
    BY <1>0, <2>1 DEF Send
<1>7. LateInv(r)'
  BY <1>1, <1>2, <1>4 DEF LateInv, Ended, Exists, UsedOnce, vars
<1>8. ASSUME NEW q \in Requests \ {r} PROVE LateInv(q)'
  BY <1>5, <1>8 DEF GateInv, LateInv, Ended, Exists, UsedOnce, vars
<1>9. QED
  BY <1>0, <1>6, <1>7, <1>8 DEF GateInv, ProxyTypeOK

\* A handler's step lets no late request through.
LEMMA HandlerKeepsGate ==
    ASSUME GateInv, NEW r \in Requests, HandlerStep(r) \/ ReadBody(r)
    PROVE  GateInv'
<1>0. TypeOK /\ requests \in [Requests -> Request] /\ UNCHANGED vars
  BY DEF GateInv, ProxyTypeOK, HandlerStep, ReadBody
<1>1. TypeOK'
  BY <1>0 DEF TypeOK, vars
<1>2. ASSUME NEW stage \in Stages, MoveTo(r, stage)
      PROVE  /\ requests' \in [Requests -> Request]
             /\ requests'[r].stage = stage
             /\ requests'[r].session = requests[r].session
             /\ requests'[r].token = requests[r].token
             /\ requests'[r].copy = requests[r].copy
             /\ requests'[r].late = requests[r].late
             /\ \A q \in Requests \ {r} : requests'[q] = requests[q]
  BY <1>0, <1>2 DEF MoveTo, Request
<1>3. requests[r] \in Request /\ LateInv(r)
  BY <1>0 DEF GateInv
<1>4. \A q \in Requests : requests'[q] = requests[q] => LateInv(q)'
  BY <1>0 DEF GateInv, LateInv, Ended, Exists, UsedOnce, vars
<1>5. CASE ValidateToken(r)
  <2>1. PICK stage \in {"resolve", "over"} :
            /\ MoveTo(r, stage)
            /\ stage = "resolve" => now < requests[r].token
    BY <1>5 DEF ValidateToken
  <2>2. LateInv(r)'
    <3>1. stage = "resolve" => ~(requests[r].token <= now)
      BY <1>0, <1>3, <2>1 DEF Request, TypeOK
    <3>2. QED
      BY <1>0, <1>2, <1>3, <1>5, <2>1, <3>1
         DEF ValidateToken, Stages, LateInv, Ended, Exists, UsedOnce, vars
  <2>3. QED
    BY <1>1, <1>2, <1>4, <2>1, <2>2 DEF GateInv, ProxyTypeOK, Stages
<1>6. CASE ResolveSession(r)
  <2>1. CASE MoveTo(r, "over")
    <3>1. LateInv(r)'
      BY <1>0, <1>2, <1>3, <1>6, <2>1
         DEF ResolveSession, Stages, LateInv, Ended, Exists, UsedOnce, vars
    <3>2. QED
      BY <1>1, <1>2, <1>4, <2>1, <3>1 DEF GateInv, ProxyTypeOK, Stages
  <2>2. CASE /\ Exists(requests[r].session)
             /\ requests' = [requests EXCEPT ![r].stage = "judge",
                                             ![r].copy = sessions[requests[r].session]]
    <3>1. PICK s \in Sessions : s = requests[r].session /\ incarnations[s] # 0
      BY <1>3, <1>6 DEF ResolveSession, LateInv
    <3>2. sessions[s] \in Session
      BY <1>0, <2>2, <3>1 DEF Exists, TypeOK
    <3>3. /\ requests' \in [Requests -> Request]
          /\ requests'[r].stage = "judge"
          /\ requests'[r].session = s
          /\ requests'[r].copy = sessions[s]
          /\ requests'[r].late = requests[r].late
          /\ \A q \in Requests \ {r} : requests'[q] = requests[q]
      BY <1>0, <2>2, <3>1, <3>2 DEF Request, Stages
    <3>4. LateInv(r)'
      BY <1>0, <1>3, <1>6, <2>2, <3>1, <3>3
         DEF ResolveSession, LateInv, Ended, UsedOnce, vars
    <3>5. QED
      BY <1>1, <1>4, <3>3, <3>4 DEF GateInv, ProxyTypeOK
  <2>3. QED
    BY <1>6, <2>1, <2>2 DEF ResolveSession
<1>7. CASE Judge(r)
  <2>1. PICK stage \in {"body", "over"} :
            /\ MoveTo(r, stage)
            /\ stage = "body" => ~requests[r].copy.deleting
    BY <1>7 DEF Judge, Usable
  <2>2. LateInv(r)'
    BY <1>0, <1>2, <1>3, <1>7, <2>1
       DEF Judge, Stages, LateInv, Ended, Exists, UsedOnce, vars
  <2>3. QED
    BY <1>1, <1>2, <1>4, <2>1, <2>2 DEF GateInv, ProxyTypeOK, Stages
<1>8. CASE Answer(r)
  <2>1. LateInv(r)'
    BY <1>0, <1>2, <1>3, <1>8 DEF Answer, Stages, LateInv, Ended, Exists, UsedOnce, vars
  <2>2. QED
    BY <1>1, <1>2, <1>4, <1>8, <2>1 DEF Answer, GateInv, ProxyTypeOK, Stages
<1>9. CASE ReadBody(r)
  <2>1. PICK stage \in {"upstream", "over"} : MoveTo(r, stage)
    BY <1>9 DEF ReadBody
  <2>2. LateInv(r)'
    BY <1>0, <1>2, <1>3, <1>9, <2>1
       DEF ReadBody, Stages, LateInv, Ended, Exists, UsedOnce, vars
  <2>3. QED
    BY <1>1, <1>2, <1>4, <2>1, <2>2 DEF GateInv, ProxyTypeOK, Stages
<1>10. QED
  BY <1>5, <1>6, <1>7, <1>8, <1>9 DEF HandlerStep

\* A request sent after its session was deleted or had reached its TTL is never
\* forwarded, for any number of controllers, requests, failures and crashes and
\* whatever happens to other names, unless its own name is used again.
THEOREM RevokedRequestsDenied == ProxySpec => []RevokedIsDenied
<1>1. ProxySpec => []TimesInv
  BY ProxyLeavesSessions, TimesCorrect, PTL
<1>2. ProxyInit => GateInv
  <2> SUFFICES ASSUME ProxyInit PROVE GateInv
    OBVIOUS
  <2>1. TypeOK
    BY InitTypeInv DEF ProxyInit, TypeInv
  <2>2. requests \in [Requests -> Request]
    BY DEF ProxyInit, NoRequest, Request, Stages
  <2>3. QED
    BY <2>1, <2>2 DEF ProxyInit, NoRequest, GateInv, ProxyTypeOK, LateInv
<1>3. TimesInv /\ TimesInv' /\ GateInv /\ [ProxyNext]_proxyVars => GateInv'
  <2> SUFFICES ASSUME TimesInv, TimesInv', GateInv, [ProxyNext]_proxyVars
               PROVE  GateInv'
    OBVIOUS
  <2>1. CASE [Next]_vars /\ UNCHANGED requests
    BY <2>1, OthersKeepGate
  <2>2. CASE \E r \in Requests, s \in Sessions : Send(r, s) /\ UNCHANGED vars
    BY <2>2, SendKeepsGate
  <2>3. CASE \E r \in Requests : HandlerStep(r) \/ ReadBody(r)
    BY <2>3, HandlerKeepsGate
  <2>4. QED
    BY <2>1, <2>2, <2>3 DEF ProxyNext, proxyVars
<1>4. GateInv => RevokedIsDenied
  BY DEF GateInv, LateInv, RevokedIsDenied
<1>5. QED
  BY <1>1, <1>2, <1>3, <1>4, PTL DEF ProxySpec
=============================================================================
