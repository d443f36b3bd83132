--------------------------- MODULE InMemoryProofs ---------------------------
(***************************************************************************)
(* cask-api over MemoryStore implements SessionApi, for any number of      *)
(* users, requests and names; with a terminal connection beside it, it     *)
(* goes on to do so, and the connection does what it does by itself.       *)
(***************************************************************************)
EXTENDS InMemory, ApiHandlersProofs, TerminalProofs

-----------------------------------------------------------------------------
(* Requests over MemoryStore. *)

\* The map holds a session for its owner, and a handler that goes on to Delete
\* serves the session's owner.
MemoryInv ==
    /\ HandlersInv(Sessions, NoName)
    /\ drawn \in [Sessions -> Users \cup {NoUser}]
    /\ store \in [Sessions -> Users \cup {NoUser}]
    /\ \A s \in Sessions : store[s] \in {NoUser, drawn[s]}
    /\ \A r \in Requests :
            step[r] = "delete" => drawn[calls[r].session] = calls[r].user

\* The life of a session as SessionApi sees it.
LifeOf(s) == IF drawn[s] = NoUser THEN "absent"
             ELSE IF Stored(s) THEN "open" ELSE "gone"

-----------------------------------------------------------------------------

\* Nothing has been asked and nothing is stored.
LEMMA MemoryInitInv == MemoryInit => MemoryInv
<1> SUFFICES ASSUME MemoryInit PROVE MemoryInv
  OBVIOUS
<1>1. NoCall(NoName) \in ApiCall(Sessions, NoName)
  BY DEF NoCall, ApiCall, Answers
<1>2. HandlersInv(Sessions, NoName)
  BY <1>1 DEF MemoryInit, HandlersInit, HandlersInv, Steps, StepOK, Pending, NoCall
<1>3. QED
  BY <1>2 DEF MemoryInit, HandlersInit, MemoryInv

\* Every operation of a handler keeps the invariant, and leaves the other
\* handlers alone.
LEMMA MemoryStepInv ==
    ASSUME MemoryInv, NEW r \in Requests,
           \/ ReceiveCall(r) \/ RefuseCall(r) \/ Create(r) \/ Get(r)
           \/ List(r) \/ Delete(r)
    PROVE  MemoryInv'
<1> USE DEF MemoryInv
<1>0. HandlersInv(Sessions, NoName)
  OBVIOUS
<1>1. StepOK(r, Sessions)
  BY DEF HandlersInv
<1>2. ASSUME HandlersInv(Sessions, NoName)', OnlyServes(r),
             UNCHANGED <<store, drawn>>, step'[r] # "delete"
      PROVE  MemoryInv'
  BY <1>2 DEF OnlyServes
<1>3. CASE ReceiveCall(r)
  <2>1. PICK u \in Users, method \in Methods, s \in Sessions \cup {NoName} :
            /\ Receive(r, u, method, s)
            /\ method \in {"get", "delete"} => s \in Sessions
    BY <1>3 DEF ReceiveCall, Methods
  <2>2. HandlersInv(Sessions, NoName)' /\ OnlyServes(r)
    BY <1>0, <2>1, ReceiveEffect
  <2>3. step'[r] # "delete"
    BY <1>0, <2>1 DEF Receive, FirstStep, HandlersInv, Methods
  <2>4. QED
    BY <1>2, <1>3, <2>2, <2>3 DEF ReceiveCall
<1>4. ASSUME NEW answer \in Answers \ {"pending"}, Answer(r, answer)
      PROVE  /\ HandlersInv(Sessions, NoName)' /\ OnlyServes(r)
             /\ step'[r] # "delete"
  BY <1>0, <1>4, AnswerEffect DEF Answer, Finish, HandlersInv
<1>5. CASE RefuseCall(r)
  BY <1>2, <1>4, <1>5 DEF RefuseCall, Refuse, Answers
<1>6. CASE Create(r)
  <2>1. PICK s \in Sessions :
            /\ Fresh(s)
            /\ store' = [store EXCEPT ![s] = calls[r].user]
            /\ drawn' = [drawn EXCEPT ![s] = calls[r].user]
            /\ AnswerCreated(r, s)
    BY <1>6 DEF Create
  <2>2. HandlersInv(Sessions, NoName)' /\ OnlyServes(r) /\ step'[r] # "delete"
    BY <1>0, <2>1, AnswerCreatedEffect DEF AnswerCreated, Finish, HandlersInv
  <2>3. calls[r].user \in Users
    BY <1>1, <1>6 DEF Create, StepOK
  <2>4. ASSUME NEW q \in Requests, step'[q] = "delete"
        PROVE  drawn'[calls'[q].session] = calls'[q].user
    <3>1. /\ step[q] = "delete" /\ calls'[q] = calls[q]
          /\ calls[q].session \in Sessions /\ calls[q].user \in Users
      BY <2>2, <2>4 DEF OnlyServes, HandlersInv, StepOK
    <3>2. calls[q].session # s
      BY <2>1, <3>1, NoUserAssumption DEF Fresh
    <3>3. QED
      BY <2>1, <3>1, <3>2
  <2>5. QED
    BY <2>1, <2>2, <2>3, <2>4
<1>7. CASE Get(r)
  <2>1. /\ HandlersInv(Sessions, NoName)' /\ OnlyServes(r)
        /\ UNCHANGED <<store, drawn>>
    BY <1>0, <1>7, AfterGetEffect DEF Get, Stored
  <2>2. step'[r] = "delete" => drawn'[calls'[r].session] = calls'[r].user
    <3>1. CASE \E answer \in {"missing", "forbidden", "found"} : Answer(r, answer)
      BY <1>4, <3>1 DEF Answers
    <3>2. CASE /\ Stored(calls[r].session)
               /\ store[calls[r].session] = calls[r].user
               /\ UNCHANGED calls
      BY <1>1, <1>7, <2>1, <3>2 DEF Get, Stored, StepOK
    <3>3. QED
      BY <1>7, <3>1, <3>2 DEF Get, AfterGet
  <2>3. QED
    BY <2>1, <2>2 DEF OnlyServes
<1>8. CASE List(r)
  BY <1>0, <1>2, <1>8, AnswerListedEffect
     DEF List, AnswerListed, Finish, HandlersInv
<1>9. CASE Delete(r)
  <2>1. /\ HandlersInv(Sessions, NoName)' /\ OnlyServes(r)
        /\ step'[r] # "delete"
    BY <1>4, <1>9 DEF Delete, Answers
  <2>2. QED
    BY <1>9, <2>1 DEF Delete, OnlyServes
<1>10. QED
  BY <1>3, <1>5, <1>6, <1>7, <1>8, <1>9

\* Every operation of a handler is an instant of SessionApi, or invisible.
LEMMA MemoryStepSimulated ==
    ASSUME MemoryInv, MemoryInv', NEW r \in Requests,
           \/ ReceiveCall(r) \/ RefuseCall(r) \/ Create(r) \/ Get(r)
           \/ List(r) \/ Delete(r)
    PROVE  [Api!Next]_(Api!apiContractVars)
<1> DEFINE life == [s \in Sessions |-> LifeOf(s)]
<1> USE DEF MemoryInv
<1>1. StepOK(r, Sessions) /\ calls[r] \in ApiCall(Sessions, NoName)
  BY DEF HandlersInv
<1>2. ASSUME UNCHANGED <<store, drawn>> PROVE life' = life
  BY <1>2 DEF LifeOf, Stored
<1>3. step[r] # "none" => Api!Pending(r)
  BY <1>1 DEF StepOK, Pending, Api!Pending
<1>4. ASSUME NEW s \in Sessions
      PROVE  /\ Api!Kept(s) <=> Stored(s)
             /\ Api!Owns(r, s) <=> drawn[s] = calls[r].user
             /\ Stored(s) => store[s] = drawn[s]
  BY <1>4, NoUserAssumption DEF Api!Kept, Api!Owns, Stored
<1>5. CASE ReceiveCall(r)
  <2>1. PICK u \in Users, method \in Methods, s \in Sessions \cup {NoName} :
            Receive(r, u, method, s)
    BY <1>5 DEF ReceiveCall, Methods
  <2>2. Api!Ask(r, u, method, s) /\ method \in Api!Methods
    BY <2>1 DEF Receive, Ask, Pending, Api!Ask, Api!Pending, Methods, Api!Methods
  <2>3. Api!Call(r)
    BY <1>2, <1>5, <2>2 DEF ReceiveCall, LifeOf, Stored, Api!Call
  <2>4. QED
    BY <2>3 DEF Api!Next
<1>6. CASE RefuseCall(r)
  <2>1. Api!Refuse(r)
    BY <1>1, <1>2, <1>6
       DEF RefuseCall, Refuse, StepOK, Answer, Reply, Api!Refuse, Api!Reply,
           LifeOf, Stored
  <2>2. QED
    BY <1>3, <1>6, <2>1 DEF RefuseCall, Refuse, Api!Serve, Api!Next
<1>7. CASE Create(r)
  <2>1. PICK s \in Sessions :
            /\ Fresh(s)
            /\ store' = [store EXCEPT ![s] = calls[r].user]
            /\ drawn' = [drawn EXCEPT ![s] = calls[r].user]
            /\ AnswerCreated(r, s)
    BY <1>7 DEF Create
  <2>2. calls[r].user \in Users /\ calls[r].method = "create"
    BY <1>1, <1>7 DEF Create, StepOK
  <2>3. life[s] = "absent" /\ life' = [life EXCEPT ![s] = "open"]
    BY <2>1, <2>2, NoUserAssumption DEF Fresh, LifeOf, Stored
  <2>4. Api!ReplyCreated(r, s)
    BY <2>1 DEF AnswerCreated, ReplyCreated, Api!ReplyCreated
  <2>5. Api!Create(r)
    BY <2>1, <2>2, <2>3, <2>4 DEF Api!Create, Api!Free, LifeOf, Stored
  <2>6. QED
    BY <1>3, <1>7, <2>5 DEF Create, Api!Serve, Api!Next
<1>8. CASE Get(r)
  <2>1. PICK s \in Sessions : s = calls[r].session
    BY <1>1, <1>8 DEF Get, StepOK
  <2>2. /\ step[r] = "get" /\ calls[r].method \in {"get", "delete"}
        /\ calls[r].user \in Users
    BY <1>1, <1>8 DEF Get, StepOK
  <2>3. CASE \/ ~Stored(s) /\ Answer(r, "missing")
             \/ Stored(s) /\ drawn[s] # calls[r].user /\ Answer(r, "forbidden")
    <3>1. Api!Deny(r)
      BY <1>2, <1>4, <1>8, <2>1, <2>2, <2>3
         DEF Get, Answer, Reply, Api!Reply, Api!Deny, LifeOf, Stored
    <3>2. QED
      BY <1>3, <2>2, <3>1 DEF Api!Serve, Api!Next
  <2>4. CASE /\ Stored(s) /\ drawn[s] = calls[r].user
             /\ calls[r].method = "get" /\ Answer(r, "found")
    <3>1. Api!Get(r)
      BY <1>2, <1>4, <1>8, <2>1, <2>4
         DEF Get, Answer, Reply, Api!Reply, Api!Get, LifeOf, Stored
    <3>2. QED
      BY <1>3, <2>2, <3>1 DEF Api!Serve, Api!Next
  <2>5. CASE UNCHANGED calls
    BY <1>2, <1>8, <2>5 DEF Get, Api!apiContractVars, LifeOf, Stored
  <2>6. QED
    BY <1>4, <1>8, <2>1, <2>3, <2>4, <2>5 DEF Get, AfterGet
<1>9. CASE List(r)
  <2>1. /\ step[r] = "list" /\ calls[r].method = "list"
        /\ calls[r].user \in Users
    BY <1>1, <1>9 DEF List, StepOK
  <2>2. {s \in Sessions : store[s] = calls[r].user}
            = {s \in Sessions : Api!Kept(s) /\ Api!Owns(r, s)}
    BY <1>4, <2>1, NoUserAssumption DEF Stored
  <2>3. Api!List(r)
    BY <1>2, <1>9, <2>1, <2>2
       DEF List, AnswerListed, ReplyListed, Api!ReplyListed, Api!List, LifeOf, Stored
  <2>4. QED
    BY <1>3, <2>1, <2>3 DEF Api!Serve, Api!Next
<1>10. CASE Delete(r)
  <2>1. PICK s \in Sessions : s = calls[r].session
    BY <1>1, <1>10 DEF Delete, StepOK
  <2>2. /\ step[r] = "delete" /\ calls[r].method = "delete"
        /\ drawn[s] = calls[r].user /\ calls[r].user \in Users
    BY <1>1, <1>10, <2>1 DEF Delete, StepOK
  <2>3. CASE Stored(s)
    <3>1. life[s] = "open" /\ life' = [life EXCEPT ![s] = "gone"]
      BY <1>10, <2>1, <2>2, <2>3, NoUserAssumption DEF Delete, LifeOf, Stored
    <3>2. Api!Delete(r)
      BY <1>4, <1>10, <2>1, <2>2, <2>3, <3>1
         DEF Delete, Answer, Reply, Api!Reply, Api!Delete, LifeOf, Stored
    <3>3. QED
      BY <1>3, <2>2, <3>2 DEF Api!Serve, Api!Next
  <2>4. CASE ~Stored(s)
    <3>1. life[s] = "gone" /\ life' = life
      BY <1>10, <2>1, <2>2, <2>4, NoUserAssumption DEF Delete, LifeOf, Stored
    <3>2. Api!DeleteTooLate(r)
      BY <1>4, <1>10, <2>1, <2>2, <2>4, <3>1
         DEF Delete, Answer, Reply, Api!Reply, Api!DeleteTooLate, LifeOf, Stored
    <3>3. QED
      BY <1>3, <2>2, <3>2 DEF Api!Serve, Api!Next
  <2>5. QED
    BY <2>3, <2>4
<1>11. QED
  BY <1>5, <1>6, <1>7, <1>8, <1>9, <1>10

\* The invariant holds in every reachable state.
LEMMA MemoryCorrect == MemorySpec => []MemoryInv
<1>1. MemoryInv /\ [MemoryNext]_memoryVars => MemoryInv'
  <2> SUFFICES ASSUME MemoryInv, [MemoryNext]_memoryVars PROVE MemoryInv'
    OBVIOUS
  <2>1. CASE MemoryNext
    BY <2>1, MemoryStepInv DEF MemoryNext
  <2>2. CASE UNCHANGED memoryVars
    BY <2>2 DEF memoryVars, MemoryInv, HandlersInv, StepOK, Pending
  <2>3. QED
    BY <2>1, <2>2
<1>2. QED
  BY <1>1, MemoryInitInv, PTL DEF MemorySpec

\* In its in-memory mode cask-api keeps the promises of SessionApi, and fails no
\* request but the second deletion of a session, for any number of users,
\* requests under way and names, while no name is drawn twice.
THEOREM MemoryServerImplementsApi == MemorySpec => ImplementsApi
<1>1. MemoryInit => Api!Init
  BY DEF MemoryInit, Api!Init, Api!NoCall, NoCall
<1>2. MemoryInv /\ MemoryInv' /\ [MemoryNext]_memoryVars
        => [Api!Next]_(Api!apiContractVars)
  <2> SUFFICES ASSUME MemoryInv, MemoryInv', [MemoryNext]_memoryVars
               PROVE  [Api!Next]_(Api!apiContractVars)
    OBVIOUS
  <2>1. CASE MemoryNext
    BY <2>1, MemoryStepSimulated DEF MemoryNext
  <2>2. CASE UNCHANGED memoryVars
    BY <2>2 DEF memoryVars, Api!apiContractVars, Stored
  <2>3. QED
    BY <2>1, <2>2
<1>3. QED
  BY <1>1, <1>2, MemoryCorrect, PTL DEF MemorySpec, ImplementsApi, Api!Spec

-----------------------------------------------------------------------------
(* Requests and a terminal connection. *)

\* What the gateway's Get would say of the session is what the map says.
InMemoryInv == session = Readiness

\* Only requests change what Get says: no step of the connection itself does.
LEMMA ConnectionKeepsSession == EchoConnection => UNCHANGED session
<1> SUFFICES ASSUME EchoConnection PROVE session' = session
  OBVIOUS
<1> USE DEF world
<1>1. CASE EchoHandler
  BY <1>1 DEF EchoHandler, EchoPanic, ResolveSession, Upgrade, EchoStart,
        CheckDone, ReadFails, EchoWrite, WriteFails, CloseStream,
        CancelContext, CloseConnection
<1>2. CASE ReadInput \/ ReadControl \/ ReadDeadline
  BY <1>2 DEF ReadInput, ReadControl, ReadDeadline
<1>3. CASE Pump \/ SendOutput
  BY <1>3 DEF Pump, ReceiveOutput, SendFails, PumpExits, SendOutput
<1>4. CASE EchoWatcher
  BY <1>4 DEF EchoWatcher, Watch, EchoWatchSession, CloseTerminal, HangUp,
        CancelTerminal
<1>5. CASE EchoExec \/ Close
  BY <1>5 DEF EchoExec, ExecCancelled, ExecReturns, Close, BeginClose, FinishClose
<1>6. CASE Disconnect
  BY <1>6 DEF Disconnect
<1>7. QED
  BY <1>1, <1>2, <1>3, <1>4, <1>5, <1>6 DEF EchoConnection

\* A step of the whole is one of the requests or one of the connection, which
\* sees a request at most as a session that comes or goes.
LEMMA InMemoryStep ==
    InMemoryInv /\ [InMemoryNext]_inMemoryVars
        => /\ InMemoryInv'
           /\ [MemoryNext]_memoryVars
           /\ [EchoNext]_echoVars
<1> SUFFICES ASSUME InMemoryInv, [InMemoryNext]_inMemoryVars
             PROVE  InMemoryInv' /\ [MemoryNext]_memoryVars /\ [EchoNext]_echoVars
  OBVIOUS
<1>1. UNCHANGED store => Readiness' = Readiness
  BY DEF Readiness, Stored
<1>2. CASE EchoConnection /\ UNCHANGED memoryVars
  BY <1>1, <1>2, ConnectionKeepsSession DEF EchoNext, memoryVars, InMemoryInv
<1>3. CASE MemoryNext /\ session' = Readiness' /\ UNCHANGED connection
  <2>1. session \in {"ready", "gone"} /\ session' \in {"ready", "gone"}
    BY <1>3 DEF InMemoryInv, Readiness
  <2>2. session' = session => UNCHANGED echoVars
    BY <1>3 DEF connection, echoVars, vars, channel, others
  <2>3. session' # session => ChangeStored /\ UNCHANGED panicked
    BY <1>3, <2>1 DEF connection, ChangeStored, channel, others
  <2>4. QED
    BY <1>3, <2>2, <2>3 DEF EchoNext, InMemoryInv
<1>4. CASE UNCHANGED inMemoryVars
  BY <1>1, <1>4 DEF inMemoryVars, memoryVars, echoVars, vars, InMemoryInv
<1>5. QED
  BY <1>2, <1>3, <1>4 DEF InMemoryNext

\* The in-memory server as a whole is both of its parts: requests do nothing
\* to the connection, nor it to them, that either does not expect of its
\* surroundings.
LEMMA InMemoryIsBoth == InMemorySpec => MemorySpec /\ EchoSpec
<1>1. InMemoryInit => MemoryInit /\ EchoInit /\ InMemoryInv
  BY DEF InMemoryInit, InMemoryInv
<1>2. QED
  BY <1>1, InMemoryStep, PTL DEF InMemorySpec, MemorySpec, EchoSpec

\* With a terminal connection beside the requests, cask-api in its in-memory
\* mode keeps the promises of SessionApi.
THEOREM InMemoryImplementsApi == InMemorySpec => ImplementsApi
BY InMemoryIsBoth, MemoryServerImplementsApi, PTL

\* Whatever requests do to the session meanwhile, the connection keeps its
\* types, and what it is told of the session is what the map says.
THEOREM InMemoryTyped == InMemorySpec => [](EchoTypeOK /\ InMemoryInv)
<1>1. InMemoryInit => InMemoryInv
  BY DEF InMemoryInit, InMemoryInv
<1>2. InMemorySpec => []InMemoryInv
  BY <1>1, InMemoryStep, PTL DEF InMemorySpec
<1>3. QED
  BY <1>2, InMemoryIsBoth, EchoTyped, PTL

-----------------------------------------------------------------------------
(* Panics. *)

\* Who can have closed the stream of a connection whose session is still
\* there: its own handler, on the way out.  A session that has a connection was
\* created, and one that was created and is gone stays so.
DeletionInv ==
    /\ handler \notin {"get", "returned"} \/ watcher # "none"
            => drawn[Connected] # NoUser
    /\ watcher \in {"close", "hangUp", "cancel"} => Deleted
    /\ stdinClosed => Deleted \/ Leaving
    /\ cancelled => Deleted \/ handler \in {"close", "returned"}
    /\ panicked => Deleted

\* Nothing is closed before the connection begins.
LEMMA InitDeletionInv == InMemoryInit => DeletionInv
BY Zenon DEF InMemoryInit, EchoInit, Init, DeletionInv

\* A step of the connection: it begins only for a session that is there, its
\* watcher closes only what was deleted, and its handler only while unwinding.
LEMMA ConnectionKeepsDeletionInv ==
    ASSUME MemoryInv, EchoInv, InMemoryInv, DeletionInv,
           EchoConnection, UNCHANGED memoryVars
    PROVE  DeletionInv'
<1>1. UNCHANGED <<drawn, Deleted>>
  BY DEF memoryVars, Deleted, Stored
<1>2. session = "ready" <=> store[Connected] # NoUser
  BY DEF InMemoryInv, Readiness, Stored
<1>3. store[Connected] # NoUser => drawn[Connected] # NoUser
  BY ConnectedAssumption DEF MemoryInv
<1>4. Deleted <=> drawn[Connected] # NoUser /\ session # "ready"
  BY <1>2 DEF Deleted, Stored
<1> USE <1>1, <1>2, <1>3, <1>4
    DEF DeletionInv, EchoInv, CloserInv, Leaving, world, channel, others
<1>5. CASE EchoHandler
  <2>1. CASE EchoPanic
    <3>1. handler = "write" /\ stdinClosed
      BY <2>1, Zenon DEF EchoPanic
    <3>2. Deleted /\ Deleted'
      BY <3>1
    <3>3. QED
      BY <3>2, Zenon
  <2>2. CASE (ResolveSession \/ Upgrade \/ EchoStart) /\ UNCHANGED panicked
    <3>1. /\ UNCHANGED <<cancelled, stdinClosed, panicked>>
          /\ ~stdinClosed /\ ~cancelled /\ ~panicked
          /\ watcher = "none" /\ watcher' \in {"none", "wait"}
          /\ handler' \in {"returned", "upgrade", "start", "loop"}
          /\ watcher' = "none" \/ handler' = "loop"
      BY <2>2 DEF ResolveSession, Upgrade, EchoStart, WatcherEnds
    <3>2. handler' # "returned" => drawn[Connected] # NoUser
      BY <2>2 DEF ResolveSession, Upgrade, EchoStart
    <3>3. QED
      BY <3>1, <3>2
  <2>3. CASE /\ \/ CheckDone \/ ReadFails \/ EchoWrite \/ WriteFails
                \/ (outClosed /\ CloseStream) \/ CancelContext \/ CloseConnection
             /\ UNCHANGED panicked
    BY <2>3 DEF CheckDone, ReadFails, EchoWrite, WriteFails, CloseStream,
        CancelContext, CloseConnection
  <2>4. QED
    BY <1>5, <2>1, <2>2, <2>3 DEF EchoHandler
<1>6. CASE (ReadInput \/ ReadControl \/ ReadDeadline) /\ UNCHANGED panicked
  BY <1>6 DEF ReadInput, ReadControl, ReadDeadline
<1>7. CASE (Pump \/ SendOutput) /\ UNCHANGED panicked
  BY <1>7 DEF Pump, ReceiveOutput, SendFails, PumpExits, SendOutput
<1>8. CASE EchoWatcher /\ UNCHANGED panicked
  BY <1>8 DEF EchoWatcher, Watch, EchoWatchSession, CloseTerminal, HangUp,
        CancelTerminal
<1>9. CASE (EchoExec \/ Close) /\ UNCHANGED panicked
  BY <1>9 DEF EchoExec, ExecCancelled, ExecReturns, Close, Closing, BeginClose,
              FinishClose
<1>10. CASE Disconnect /\ UNCHANGED panicked
  BY <1>10 DEF Disconnect
<1>11. QED
  BY <1>5, <1>6, <1>7, <1>8, <1>9, <1>10 DEF EchoConnection

\* A step of a request: names are drawn once, so that a deletion is for good.
LEMMA RequestsKeepDeletionInv ==
    ASSUME MemoryInv, DeletionInv, MemoryNext, UNCHANGED connection
    PROVE  DeletionInv'
<1>1. PICK r \in Requests :
        ReceiveCall(r) \/ RefuseCall(r) \/ Create(r) \/ Get(r) \/ List(r)
            \/ Delete(r)
  BY DEF MemoryNext
<1>2. /\ drawn[Connected] # NoUser => drawn'[Connected] # NoUser
      /\ Deleted => Deleted'
  <2>1. CASE Create(r)
    BY <2>1, ConnectedAssumption DEF Create, Fresh, Deleted, Stored, MemoryInv
  <2>2. CASE Delete(r)
    BY <2>2, ConnectedAssumption DEF Delete, Deleted, Stored, MemoryInv
  <2>3. CASE ReceiveCall(r) \/ RefuseCall(r) \/ Get(r) \/ List(r)
    BY <2>3 DEF ReceiveCall, RefuseCall, Get, List, Deleted, Stored
  <2>4. QED
    BY <1>1, <2>1, <2>2, <2>3
<1>3. UNCHANGED <<handler, watcher, stdinClosed, cancelled, panicked>>
  BY DEF connection, others
<1>4. QED
  BY <1>2, <1>3 DEF DeletionInv, Leaving

\* A Write panics only when a request has deleted the session of its terminal,
\* however requests, the goroutines of the connection and its user interleave.
THEOREM PanicsOnlyAfterDeletion == InMemorySpec => []PanicOnlyAfterDeletion
<1> DEFINE Inv == MemoryInv /\ EchoInv /\ InMemoryInv
<1>1. Inv /\ DeletionInv /\ [InMemoryNext]_inMemoryVars => DeletionInv'
  <2>1. CASE UNCHANGED inMemoryVars
    BY <2>1 DEF inMemoryVars, memoryVars, echoVars, vars, DeletionInv, Leaving,
                Deleted, Stored
  <2>2. QED
    BY <2>1, ConnectionKeepsDeletionInv, RequestsKeepDeletionInv DEF InMemoryNext
<1>2. InMemorySpec => []Inv
  BY InMemoryIsBoth, InMemoryTyped, EchoCorrect, MemoryCorrect, PTL
<1>3. DeletionInv => PanicOnlyAfterDeletion
  BY DEF DeletionInv, PanicOnlyAfterDeletion
<1>4. QED
  BY <1>1, <1>2, <1>3, InitDeletionInv, PTL DEF InMemorySpec
=============================================================================
