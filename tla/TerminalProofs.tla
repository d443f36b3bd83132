--------------------------- MODULE TerminalProofs ---------------------------
(***************************************************************************)
(* That a command of KubernetesExecBackend that ends by itself loses no    *)
(* output, and that only the end of a session makes a Write of EchoBackend *)
(* panic, for every capacity of the output channel.                        *)
(***************************************************************************)
EXTENDS EchoTerminal, TLAPS

-----------------------------------------------------------------------------
(* KubernetesExecBackend. *)

\* Everything the command printed has been received from the channel.
Drained == copier = "done" /\ out = 0 /\ exec = "done"

\* What the exec goroutine knows when it closes the channel, what the pump
\* knows when it stops, and what a closed connection therefore means.  Until
\* the handler starts the other goroutines, nothing is closed.
DrainInv ==
    /\ handler \in {"get", "upgrade", "start"}
           => /\ conn # "closed" /\ ~outClosed
              /\ pump = "none" /\ watcher = "none" /\ exec = "none"
    /\ handler = "close" => cancelled
    /\ exec = "dead" => cancelled
    /\ outClosed => exec \in {"done", "dead"}
    /\ exec \in {"close", "done"} /\ ~cancelled => copier = "done"
    /\ client /\ ~Ending /\ pump \in {"exit", "done"} => Drained
    /\ client /\ ~Ending /\ conn = "closed" => Drained

TerminalInv == TypeOK /\ DrainInv

\* A connection starts well typed, with nothing printed.
LEMMA InitTerminalInv == Init => TerminalInv
<1>1. Init => FlagsOK
  BY Zenon DEF Init, FlagsOK
<1>2. Init => PlacesOK
  BY CapacityAssumption, SMT DEF Init, PlacesOK
<1>3. Init => DrainInv
  BY SMT DEF Init, DrainInv, Drained, Ending
<1>4. QED
  BY <1>1, <1>2, <1>3 DEF TerminalInv, TypeOK

\* Every step sets flags to TRUE or FALSE.
LEMMA NextFlags == FlagsOK /\ [Next]_vars => FlagsOK'
<1> SUFFICES ASSUME FlagsOK, [Next]_vars PROVE FlagsOK'
  OBVIOUS
<1> USE DEF FlagsOK, world, channel, others
<1>1. CASE Handler
  BY <1>1, Zenon DEF Handler, ResolveSession, Upgrade, StartExec, CheckDone,
                     ReadFails, WriteFails, CloseStream, CancelContext,
        CloseConnection
<1>2. CASE ReadInput \/ ReadControl \/ ReadDeadline \/ InputTaken
  BY <1>2, Zenon DEF ReadInput, ReadControl, ReadDeadline, InputTaken
<1>3. CASE Pump \/ SendOutput
  BY <1>3, Zenon DEF Pump, ReceiveOutput, SendFails, PumpExits, SendOutput
<1>4. CASE Watcher
  BY <1>4, Zenon DEF Watcher, Watch, WatchSession, CloseTerminal,
                     HangUp, CancelTerminal
<1>5. CASE Exec
  BY <1>5, Zenon DEF Exec, ExecEnds, ExecCancelled, CloseOutput
<1>6. CASE Copier \/ ReadRemote
  BY <1>6, Zenon DEF Copier, PutOutput, Panic, ReadRemote
<1>7. CASE Disconnect \/ ChangeSession
  BY <1>7, Zenon DEF Disconnect, ChangeSession
<1>8. CASE UNCHANGED vars
  BY <1>8, Zenon DEF vars
<1>9. QED
  BY <1>1, <1>2, <1>3, <1>4, <1>5, <1>6, <1>7, <1>8 DEF Next

\* Every step keeps the goroutines at their places, and the order in which
\* output is copied, received and over.
LEMMA NextPlaces ==
    PlacesOK /\ DrainInv /\ [Next]_vars => PlacesOK' /\ DrainInv'
<1> SUFFICES ASSUME PlacesOK, DrainInv, [Next]_vars PROVE PlacesOK' /\ DrainInv'
  OBVIOUS
<1> USE CapacityAssumption
    DEF PlacesOK, DrainInv, Drained, Ending, world, channel, others
<1>1. CASE Handler
  <2> USE <1>1 DEF Handler, ResolveSession, Upgrade, StartExec, CheckDone,
                   ReadFails, WriteFails, CloseStream, CancelContext,
        CloseConnection
  <2>1. PlacesOK'
    BY SMT
  <2>2. DrainInv'
    BY SMT
  <2>3. QED
    BY <2>1, <2>2
<1>2. CASE ReadInput \/ ReadControl \/ ReadDeadline \/ InputTaken
  BY <1>2, SMT DEF ReadInput, ReadControl, ReadDeadline, InputTaken
<1>3. CASE Pump \/ SendOutput
  <2> USE <1>3 DEF Pump, ReceiveOutput, SendFails, PumpExits, SendOutput
  <2>1. PlacesOK'
    BY SMT
  <2>2. DrainInv'
    BY SMT
  <2>3. QED
    BY <2>1, <2>2
<1>4. CASE Watcher
  BY <1>4, SMT DEF Watcher, Watch, WatchSession, CloseTerminal,
                     HangUp, CancelTerminal
<1>5. CASE Exec
  BY <1>5, SMT DEF Exec, ExecEnds, ExecCancelled, CloseOutput
<1>6. CASE Copier \/ ReadRemote
  BY <1>6, SMT DEF Copier, PutOutput, Panic, ReadRemote
<1>7. CASE Disconnect \/ ChangeSession
  BY <1>7, SMT DEF Disconnect, ChangeSession
<1>8. CASE UNCHANGED vars
  BY <1>8, SMT DEF vars
<1>9. QED
  BY <1>1, <1>2, <1>3, <1>4, <1>5, <1>6, <1>7, <1>8 DEF Next

\* The invariant holds in every reachable state.
LEMMA TerminalCorrect == Spec => []TerminalInv
<1>1. TerminalInv /\ [Next]_vars => TerminalInv'
  BY NextFlags, NextPlaces DEF TerminalInv, TypeOK
<1>2. QED
  BY <1>1, InitTerminalInv, PTL DEF Spec

\* Every variable of a connection keeps its type.
THEOREM TerminalTyped == Spec => []TypeOK
<1>1. TerminalInv => TypeOK
  BY DEF TerminalInv
<1>2. QED
  BY <1>1, TerminalCorrect, PTL

\* A command that ends by itself loses no output: while the user is there and
\* nothing was cancelled, the connection is closed only when the channel is
\* drained, whatever its capacity and the speed of the user.
THEOREM OutputNotLost == Spec => []NoOutputLost
<1>1. TerminalInv => NoOutputLost
  BY DEF TerminalInv, DrainInv, Drained, Ending, NoOutputLost
<1>2. QED
  BY <1>1, TerminalCorrect, PTL

\* Whoever cancels the context has closed the stream before; the watcher has
\* closed the connection as well, and the handler is just about to, which is the
\* only time that the context is cancelled and the connection open.  The exec
\* goroutine ends by closing the channel, and only then, when
\* it was cancelled, can the copier panic, which ends them all.
ReleaseInv ==
    /\ cancelled => conn = "closed" \/ handler = "close"
    /\ watcher = "cancel" => conn = "closed"
    /\ cancelled \/ watcher \in {"hangUp", "cancel"}
            \/ handler \in {"cancel", "close"} => stdinClosed
    /\ exec = "none" => pump = "none" /\ copier = "none"
    /\ exec = "done" => outClosed
    /\ exec = "dead" => pump = "dead" /\ copier = "dead"
    /\ copier = "dead" => cancelled

\* Before the terminal there is nothing to release.
LEMMA InitReleaseInv == Init => ReleaseInv
BY SMT DEF Init, ReleaseInv

\* Every step keeps this order.
LEMMA NextReleases ==
    PlacesOK /\ DrainInv /\ ReleaseInv /\ [Next]_vars => ReleaseInv'
<1> SUFFICES ASSUME PlacesOK, DrainInv, ReleaseInv, [Next]_vars
             PROVE  ReleaseInv'
  OBVIOUS
<1> USE DEF PlacesOK, DrainInv, ReleaseInv, world, channel, others
<1>1. CASE Handler
  BY <1>1, SMT DEF Handler, ResolveSession, Upgrade, StartExec, CheckDone,
                   ReadFails, WriteFails, CloseStream, CancelContext,
        CloseConnection
<1>2. CASE ReadInput \/ ReadControl \/ ReadDeadline \/ InputTaken
  BY <1>2, SMT DEF ReadInput, ReadControl, ReadDeadline, InputTaken
<1>3. CASE Pump \/ SendOutput
  BY <1>3, SMT DEF Pump, ReceiveOutput, SendFails, PumpExits, SendOutput
<1>4. CASE Watcher
  BY <1>4, SMT DEF Watcher, Watch, WatchSession, CloseTerminal,
                   HangUp, CancelTerminal
<1>5. CASE Exec
  BY <1>5, SMT DEF Exec, ExecEnds, ExecCancelled, CloseOutput
<1>6. CASE PutOutput \/ ReadRemote
  BY <1>6, SMT DEF PutOutput, ReadRemote
<1>7. CASE Panic
  BY <1>7, SMT DEF Panic
<1>8. CASE Disconnect \/ ChangeSession
  BY <1>8, SMT DEF Disconnect, ChangeSession
<1>9. CASE UNCHANGED vars
  BY <1>9, SMT DEF vars
<1>10. QED
  BY <1>1, <1>2, <1>3, <1>4, <1>5, <1>6, <1>7, <1>8, <1>9 DEF Next, Copier

\* The order holds in every reachable state.
LEMMA ReleasesCorrect == Spec => [](TerminalInv /\ ReleaseInv)
<1>1. TerminalInv /\ ReleaseInv /\ [Next]_vars => ReleaseInv'
  BY NextReleases DEF TerminalInv, TypeOK
<1>2. QED
  BY <1>1, InitReleaseInv, TerminalCorrect, PTL DEF Spec

\* Once the context is cancelled nobody depends on the user or the command, the
\* pump not even while the handler is between cancel and conn.Close: what
\* SessionEndClosesTerminal and ReturnReleasesAll owe to the order of the calls
\* alone, for every capacity of the output channel.
THEOREM NobodyHeld == Spec => []NobodyIsHeld
<1>1. TerminalInv /\ ReleaseInv => NobodyIsHeld
  BY SMT DEF TerminalInv, TypeOK, PlacesOK, ReleaseInv, NobodyIsHeld
<1>2. QED
  BY <1>1, ReleasesCorrect, PTL

\* Nothing that a command and a slow user do ends cask-api, as long as nothing
\* ends their terminal.
THEOREM PanicsOnlyWhenEnding == Spec => []PanicOnlyWhenEnding
<1>1. ReleaseInv => PanicOnlyWhenEnding
  BY DEF ReleaseInv, PanicOnlyWhenEnding
<1>2. QED
  BY <1>1, ReleasesCorrect, PTL

-----------------------------------------------------------------------------
(* EchoBackend. *)

\* The watcher has seen that the session is gone, or its context is done.
WatcherEnds == watcher \in {"close", "hangUp", "cancel", "done"}

\* The handler runs its deferred calls, or has run them.
Leaving == handler \in {"unwind", "cancel", "close", "returned"}

\* Who can have closed the stream, or cancelled the context, by now.  Until
\* the handler has started them there are no other goroutines.
CloserInv ==
    /\ handler \in {"get", "upgrade", "start"}
           => /\ watcher = "none" /\ exec = "none"
              /\ ~stdinClosed /\ ~cancelled
    /\ outClosed => stdinClosed
    /\ stdinClosed => WatcherEnds \/ Leaving
    /\ cancelled => WatcherEnds \/ handler \in {"close", "returned"}
    /\ exec \in {"close", "done"} => cancelled
    /\ panicked => WatcherEnds

EchoInv == EchoTypeOK /\ CloserInv

\* A connection starts well typed, with an open stream.
LEMMA InitEchoInv == EchoInit => EchoInv
<1> SUFFICES ASSUME EchoInit PROVE EchoInv
  OBVIOUS
<1>1. FlagsOK /\ panicked \in BOOLEAN
  BY Zenon DEF EchoInit, Init, FlagsOK
<1>2. PlacesOK /\ copier = "none"
  BY CapacityAssumption, SMT DEF EchoInit, Init, PlacesOK
<1>3. CloserInv
  BY Zenon DEF EchoInit, Init, CloserInv
<1>4. QED
  BY <1>1, <1>2, <1>3 DEF EchoInv, EchoTypeOK, TypeOK

\* Every step sets flags to TRUE or FALSE.
LEMMA NextEchoFlags ==
    FlagsOK /\ panicked \in BOOLEAN /\ [EchoNext]_echoVars
        => FlagsOK' /\ panicked' \in BOOLEAN
<1> SUFFICES ASSUME FlagsOK, panicked \in BOOLEAN, [EchoNext]_echoVars
             PROVE FlagsOK' /\ panicked' \in BOOLEAN
  OBVIOUS
<1> USE DEF FlagsOK, world, channel, others
<1>1. CASE EchoHandler
  BY <1>1, Zenon DEF EchoHandler, EchoPanic, ResolveSession, Upgrade, EchoStart,
        CheckDone, ReadFails, EchoWrite, WriteFails, CloseStream,
        CancelContext, CloseConnection
<1>2. CASE (ReadInput \/ ReadControl \/ ReadDeadline) /\ UNCHANGED panicked
  BY <1>2, Zenon DEF ReadInput, ReadControl, ReadDeadline
<1>3. CASE (Pump \/ SendOutput) /\ UNCHANGED panicked
  BY <1>3, Zenon DEF Pump, ReceiveOutput, SendFails, PumpExits, SendOutput
<1>4. CASE EchoWatcher /\ UNCHANGED panicked
  BY <1>4, Zenon DEF EchoWatcher, Watch, EchoWatchSession, CloseTerminal,
        HangUp, CancelTerminal
<1>5. CASE (EchoExec \/ Close) /\ UNCHANGED panicked
  BY <1>5, Zenon DEF EchoExec, ExecCancelled, ExecReturns, Close, BeginClose,
        FinishClose
<1>6. CASE (Disconnect \/ ChangeStored) /\ UNCHANGED panicked
  BY <1>6, Zenon DEF Disconnect, ChangeStored
<1>7. CASE UNCHANGED echoVars
  BY <1>7, Zenon DEF echoVars, vars
<1>8. QED
  BY <1>1, <1>2, <1>3, <1>4, <1>5, <1>6, <1>7, Zenon DEF EchoNext, EchoConnection

\* Every step keeps the goroutines at their places, and nobody but the
\* watcher closes the stream before the handler is about to return.
LEMMA NextEchoPlaces ==
    PlacesOK /\ copier = "none" /\ CloserInv /\ [EchoNext]_echoVars
        => PlacesOK' /\ copier' = "none" /\ CloserInv'
<1> SUFFICES ASSUME PlacesOK, copier = "none", CloserInv, [EchoNext]_echoVars
             PROVE PlacesOK' /\ copier' = "none" /\ CloserInv'
  OBVIOUS
<1> USE CapacityAssumption
    DEF PlacesOK, CloserInv, WatcherEnds, Leaving, world, channel, others
<1>1. CASE EchoHandler
  <2> USE <1>1 DEF EchoHandler, EchoPanic, ResolveSession, Upgrade, EchoStart,
        CheckDone, ReadFails, EchoWrite, WriteFails, CloseStream,
        CancelContext, CloseConnection
  <2>1. PlacesOK' /\ copier' = "none"
    BY SMT
  <2>2. CloserInv'
    BY SMT
  <2>3. QED
    BY <2>1, <2>2
<1>2. CASE (ReadInput \/ ReadControl \/ ReadDeadline) /\ UNCHANGED panicked
  BY <1>2, SMT DEF ReadInput, ReadControl, ReadDeadline
<1>3. CASE (Pump \/ SendOutput) /\ UNCHANGED panicked
  BY <1>3, SMT DEF Pump, ReceiveOutput, SendFails, PumpExits, SendOutput
<1>4. CASE EchoWatcher /\ UNCHANGED panicked
  BY <1>4, SMT DEF EchoWatcher, Watch, EchoWatchSession, CloseTerminal,
        HangUp, CancelTerminal
<1>5. CASE (EchoExec \/ Close) /\ UNCHANGED panicked
  BY <1>5, SMT DEF EchoExec, ExecCancelled, ExecReturns, Close, Closing,
        BeginClose, FinishClose
<1>6. CASE (Disconnect \/ ChangeStored) /\ UNCHANGED panicked
  BY <1>6, SMT DEF Disconnect, ChangeStored
<1>7. CASE UNCHANGED echoVars
  BY <1>7, SMT DEF echoVars, vars
<1>8. QED
  BY <1>1, <1>2, <1>3, <1>4, <1>5, <1>6, <1>7, Zenon DEF EchoNext, EchoConnection

\* The invariant holds in every reachable state.
LEMMA EchoCorrect == EchoSpec => []EchoInv
<1>1. EchoInv /\ [EchoNext]_echoVars => EchoInv'
  BY NextEchoFlags, NextEchoPlaces DEF EchoInv, EchoTypeOK, TypeOK
<1>2. QED
  BY <1>1, InitEchoInv, PTL DEF EchoSpec

\* Every variable of an echo connection keeps its type: the output channel
\* never holds more than its capacity.
THEOREM EchoTyped == EchoSpec => []EchoTypeOK
<1>1. EchoInv => EchoTypeOK
  BY DEF EchoInv
<1>2. QED
  BY <1>1, EchoCorrect, PTL

\* The same over EchoBackend, whose Close has closed both channels when it
\* returns, whoever called it.
EchoReleaseInv ==
    /\ cancelled => conn = "closed" \/ handler = "close"
    /\ watcher = "cancel" => conn = "closed"
    /\ cancelled \/ watcher \in {"hangUp", "cancel"}
            \/ handler \in {"cancel", "close"} => stdinClosed /\ outClosed

\* Every step keeps this order.
LEMMA NextEchoReleases ==
    EchoInv /\ EchoReleaseInv /\ [EchoNext]_echoVars => EchoReleaseInv'
<1> SUFFICES ASSUME EchoInv, EchoReleaseInv, [EchoNext]_echoVars
             PROVE  EchoReleaseInv'
  OBVIOUS
<1> USE DEF EchoInv, EchoTypeOK, TypeOK, PlacesOK, CloserInv, EchoReleaseInv,
            world, channel, others
<1>1. CASE EchoHandler
  BY <1>1, SMT DEF EchoHandler, EchoPanic, ResolveSession, Upgrade, EchoStart,
        CheckDone, ReadFails, EchoWrite, WriteFails, CloseStream,
        CancelContext, CloseConnection
<1>2. CASE (ReadInput \/ ReadControl \/ ReadDeadline) /\ UNCHANGED panicked
  BY <1>2, SMT DEF ReadInput, ReadControl, ReadDeadline
<1>3. CASE (Pump \/ SendOutput) /\ UNCHANGED panicked
  BY <1>3, SMT DEF Pump, ReceiveOutput, SendFails, PumpExits, SendOutput
<1>4. CASE EchoWatcher /\ UNCHANGED panicked
  BY <1>4, SMT DEF EchoWatcher, Watch, EchoWatchSession, CloseTerminal,
        HangUp, CancelTerminal
<1>5. CASE (EchoExec \/ Close) /\ UNCHANGED panicked
  BY <1>5, SMT DEF EchoExec, ExecCancelled, ExecReturns, Close, Closing,
        BeginClose, FinishClose
<1>6. CASE (Disconnect \/ ChangeStored) /\ UNCHANGED panicked
  BY <1>6, SMT DEF Disconnect, ChangeStored
<1>7. CASE UNCHANGED echoVars
  BY <1>7, SMT DEF echoVars, vars
<1>8. QED
  BY <1>1, <1>2, <1>3, <1>4, <1>5, <1>6, <1>7, Zenon DEF EchoNext, EchoConnection

\* Over EchoBackend, too, nobody depends on the user once the context is
\* cancelled, although the handler itself writes to the channel that the pump has to empty.
THEOREM EchoNobodyHeld == EchoSpec => []NobodyIsHeld
<1>1. EchoInit => EchoReleaseInv
  BY SMT DEF EchoInit, Init, EchoReleaseInv
<1>2. EchoInv /\ EchoReleaseInv => NobodyIsHeld
  BY SMT DEF EchoInv, EchoTypeOK, EchoReleaseInv, NobodyIsHeld
<1>3. QED
  BY <1>1, <1>2, NextEchoReleases, EchoCorrect, PTL DEF EchoSpec
=============================================================================
