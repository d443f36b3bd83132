---------------------------- MODULE EchoTerminal ----------------------------
(***************************************************************************)
(* A terminal connection of cask-api in its in-memory mode: the gateway of *)
(* Terminal over EchoBackend, which puts what the user writes into the     *)
(* output channel.  There is no remote command and no copier; the handler  *)
(* itself writes to the channel, and exec is the goroutine of Start that   *)
(* waits for the context.  stdinClosed and outClosed say whether the       *)
(* channels closed and out of the stream have been closed.                 *)
(***************************************************************************)
EXTENDS Terminal

VARIABLE panicked      \* has a send on the closed channel ended the handler?

echoVars == <<vars, panicked>>

EchoTypeOK == TypeOK /\ panicked \in BOOLEAN /\ copier = "none"

\* A session of MemoryStore is ready from its creation to its deletion.
EchoInit == Init /\ session # "stopped" /\ panicked = FALSE

-----------------------------------------------------------------------------
(* The backend. *)

\* The greeting is in the channel before anyone can receive it.
EchoStart ==
    /\ handler = "start"
    /\ handler' = "loop"
    /\ out' = 1
    /\ pump' = "receive" /\ watcher' = "wait" /\ exec' = "streaming"
    /\ UNCHANGED <<world, conn, cancelled, stdinClosed, outClosed, copier>>

\* Mistake: Write does not wait for room.
EchoWrite_NoWait_Mutant ==
    /\ handler = "write"
    /\ ~outClosed
    /\ out' = out + 1
    /\ handler' = "loop"
    /\ UNCHANGED <<world, conn, cancelled, stdinClosed, outClosed, others>>

\* Write selects between the closed channel and room in the output channel.
EchoWrite ==
    /\ handler = "write"
    /\ ~outClosed
    /\ out < Capacity
    /\ out' = out + 1
    /\ handler' = "loop"
    /\ UNCHANGED <<world, conn, cancelled, stdinClosed, outClosed, others>>

\* The select may take a send on a channel that is closed: it panics.  The
\* deferred calls of Serve run, and net/http recovers the panic.  A send that
\* was already waiting is woken by the other channel, which is closed first.
EchoPanic ==
    /\ handler = "write"
    /\ outClosed
    /\ handler' = "unwind"
    /\ panicked' = TRUE
    /\ UNCHANGED <<world, conn, cancelled, stdinClosed, channel, others>>

\* Mistake: the pump, too, closes the stream when it ends.
Closing_Pump_Mutant ==
    handler = "unwind" \/ watcher = "close" \/ exec = "close" \/ pump = "exit"

\* A goroutine is at its call of Close.
Closing == handler = "unwind" \/ watcher = "close" \/ exec = "close"

\* sync.Once: the first caller closes both channels, one after the other, and
\* the others wait until it has done so.
BeginClose ==
    /\ Closing
    /\ ~stdinClosed
    /\ stdinClosed' = TRUE
    /\ UNCHANGED <<world, conn, cancelled, channel, handler, others>>

FinishClose ==
    /\ Closing
    /\ stdinClosed
    /\ ~outClosed
    /\ outClosed' = TRUE
    /\ UNCHANGED <<world, conn, cancelled, stdinClosed, out, handler, others>>

\* Mistake: the error of Get is taken for a passing one.
EchoWatchSession_IgnoresErrors_Mutant ==
    /\ watcher = "get"
    /\ watcher' = "wait"
    /\ UNCHANGED <<world, conn, cancelled, stdinClosed, channel, handler, pump,
                   exec, copier>>

\* Get of MemoryStore fails for a session that is not in the map and for no
\* other; it does not look at the context.
EchoWatchSession ==
    /\ watcher = "get"
    /\ watcher' = IF session = "ready" THEN "wait" ELSE "close"
    /\ UNCHANGED <<world, conn, cancelled, stdinClosed, channel, handler, pump,
                   exec, copier>>

\* Close has returned.
ExecReturns ==
    /\ outClosed
    /\ exec = "close"
    /\ exec' = "done"
    /\ UNCHANGED <<world, conn, cancelled, stdinClosed, channel, handler, pump,
                   watcher, copier>>

-----------------------------------------------------------------------------

\* A request creates or deletes the session.
ChangeStored ==
    /\ session' = IF session = "ready" THEN "gone" ELSE "ready"
    /\ UNCHANGED <<client, conn, cancelled, stdinClosed, channel, handler,
                   others>>

EchoHandler ==
    \/ EchoPanic
    \/ /\ \/ ResolveSession \/ Upgrade \/ EchoStart \/ CheckDone \/ ReadFails
          \/ EchoWrite \/ WriteFails
          \/ (outClosed /\ CloseStream) \/ CancelContext \/ CloseConnection
       /\ UNCHANGED panicked

EchoWatcher ==
    Watch \/ EchoWatchSession \/ (outClosed /\ CloseTerminal) \/ HangUp
        \/ CancelTerminal

EchoExec == ExecCancelled \/ ExecReturns

Close == BeginClose \/ FinishClose

\* What happens on the connection.
EchoConnection ==
    \/ EchoHandler
    \/ /\ \/ ReadInput \/ ReadControl \/ ReadDeadline
          \/ Pump \/ SendOutput
          \/ EchoWatcher
          \/ EchoExec
          \/ Close
          \/ Disconnect
       /\ UNCHANGED panicked

EchoNext == EchoConnection \/ (ChangeStored /\ UNCHANGED panicked)

EchoSpec == EchoInit /\ [][EchoNext]_echoVars

WatchEnds == Watch /\ watcher' = "done"

\* As for Terminal: the goroutines run when they can, the user need not read.
\* Get does not fail when the context is done, but a select picks any of what
\* is ready: it does not pass over a context that is done for ever.
EchoFairness ==
    /\ WF_echoVars(EchoHandler)
    /\ WF_vars(Pump) /\ WF_vars(EchoWatcher) /\ WF_vars(EchoExec) /\ WF_vars(Close)
    /\ SF_vars(WatchEnds)

EchoFairSpec == EchoSpec /\ EchoFairness
=============================================================================
