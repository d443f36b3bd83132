------------------------------ MODULE Terminal ------------------------------
(***************************************************************************)
(* One terminal connection of cask-api (internal/terminal), bridged to a   *)
(* pods/exec stream by KubernetesExecBackend.                              *)
(*                                                                         *)
(* Five goroutines share the WebSocket, the context and the exec stream:   *)
(* the handler (Serve), which reads frames; the pump, which writes output; *)
(* the watcher (closeWhenSessionStops); the exec goroutine of Start, which *)
(* calls StreamWithContext; and, inside that call, the copier of client-go *)
(* that writes what the remote command prints into the output channel.     *)
(* Bytes are left out: a frame or a chunk of output only comes or does not.*)
(***************************************************************************)
EXTENDS Naturals

CONSTANT Capacity      \* of the output channel (32 in the code)

ASSUME CapacityAssumption == Capacity \in Nat \ {0}

VARIABLES
    session,       \* what Get would say: "ready", "stopped" or "gone"
    client,        \* does the server still find the user at the other end of
                   \* the WebSocket, when it reads or writes?
    conn,          \* "none", "open" or "closed": the server's end of it
    cancelled,     \* the context of the exec stream
    stdinClosed,   \* the writing end of the stdin pipe
    out,           \* chunks in the output channel
    outClosed,     \* has the output channel been closed?
    handler, pump, watcher, exec, copier    \* where each goroutine is; all
                   \* are "dead" when one has panicked: so is the process

vars == <<session, client, conn, cancelled, stdinClosed, out, outClosed,
          handler, pump, watcher, exec, copier>>

world == <<session, client>>
channel == <<out, outClosed>>
others == <<pump, watcher, exec, copier>>

FlagsOK ==
    /\ client \in BOOLEAN
    /\ cancelled \in BOOLEAN
    /\ stdinClosed \in BOOLEAN
    /\ outClosed \in BOOLEAN

PlacesOK ==
    /\ session \in {"ready", "stopped", "gone"}
    /\ conn \in {"none", "open", "closed"}
    /\ out \in 0..Capacity
    /\ handler \in {"get", "upgrade", "start", "loop", "read", "write",
                    "unwind", "cancel", "close", "returned", "dead"}
    /\ pump \in {"none", "receive", "send", "exit", "done", "dead"}
    /\ watcher \in {"none", "wait", "get", "close", "hangUp", "cancel", "done",
                    "dead"}
    /\ exec \in {"none", "streaming", "close", "done", "dead"}
    /\ copier \in {"none", "read", "send", "done", "dead"}

TypeOK == FlagsOK /\ PlacesOK

Init ==
    /\ session \in {"ready", "stopped", "gone"}
    /\ client = TRUE
    /\ conn = "none"
    /\ cancelled = FALSE
    /\ stdinClosed = FALSE
    /\ out = 0
    /\ outClosed = FALSE
    /\ handler = "get"
    /\ pump = "none" /\ watcher = "none" /\ exec = "none" /\ copier = "none"

-----------------------------------------------------------------------------
(* The handler: Serve. *)

\* An error of Get is answered with 404, a session that is not ready with 409.
ResolveSession ==
    /\ handler = "get"
    /\ \/ handler' = "returned"
       \/ session = "ready" /\ handler' = "upgrade"
    /\ UNCHANGED <<world, conn, cancelled, stdinClosed, channel, others>>

Upgrade ==
    /\ handler = "upgrade"
    /\ \/ handler' = "returned" /\ UNCHANGED conn
       \/ handler' = "start" /\ conn' = "open"
    /\ UNCHANGED <<world, cancelled, stdinClosed, channel, others>>

\* The Pod is not reached here: that StreamWithContext fails shows later.  If
\* Start fails it leaves no pipe open and stream.Close is not deferred yet; the
\* message to the user finds the connection's buffer empty.
StartExec ==
    /\ handler = "start"
    /\ \/ /\ handler' = "cancel"
          /\ stdinClosed' = TRUE
          /\ UNCHANGED others
       \/ /\ handler' = "loop"
          /\ pump' = "receive" /\ watcher' = "wait"
          /\ exec' = "streaming" /\ copier' = "read"
          /\ UNCHANGED stdinClosed
    /\ UNCHANGED <<world, conn, cancelled, channel>>

\* The handler looks whether the pump is done, then waits for a frame.
CheckDone ==
    /\ handler = "loop"
    /\ handler' = IF pump = "done" THEN "unwind" ELSE "read"
    /\ UNCHANGED <<world, conn, cancelled, stdinClosed, channel, others>>

\* A binary frame goes to stdin.
ReadInput ==
    /\ handler = "read"
    /\ client
    /\ conn = "open"
    /\ handler' = "write"
    /\ UNCHANGED <<world, conn, cancelled, stdinClosed, channel, others>>

\* A text frame resizes the terminal at most.  It never waits: a full resize
\* queue drops it, and whatever else it says is ignored.
ReadControl ==
    /\ handler = "read"
    /\ client
    /\ conn = "open"
    /\ handler' = "loop"
    /\ UNCHANGED <<world, conn, cancelled, stdinClosed, channel, others>>

\* The user closed, the server's end was closed, or the deadline passed.
ReadFails ==
    /\ handler = "read"
    /\ ~client \/ conn = "closed"
    /\ handler' = "unwind"
    /\ UNCHANGED <<world, conn, cancelled, stdinClosed, channel, others>>

ReadDeadline ==
    /\ handler = "read"
    /\ handler' = "unwind"
    /\ UNCHANGED <<world, conn, cancelled, stdinClosed, channel, others>>

\* An io.Pipe has no buffer: a write waits until client-go takes the bytes,
\* which it need not do: the remote command may not read its input, ...
InputTaken ==
    /\ handler = "write"
    /\ ~stdinClosed
    /\ handler' = "loop"
    /\ UNCHANGED <<world, conn, cancelled, stdinClosed, channel, others>>

\* ... or until the writing end is closed.
WriteFails ==
    /\ handler = "write"
    /\ stdinClosed
    /\ handler' = "unwind"
    /\ UNCHANGED <<world, conn, cancelled, stdinClosed, channel, others>>

\* The deferred calls, the last one first: stream.Close, ...
CloseStream ==
    /\ handler = "unwind"
    /\ handler' = "cancel"
    /\ stdinClosed' = TRUE
    /\ UNCHANGED <<world, conn, cancelled, channel, others>>

\* Mistake: the context is not cancelled when the handler returns.
CancelContext_Skipped_Mutant ==
    /\ handler = "cancel"
    /\ handler' = "close"
    /\ UNCHANGED <<world, conn, cancelled, stdinClosed, channel, others>>

\* ... cancel, ...
CancelContext ==
    /\ handler = "cancel"
    /\ handler' = "close"
    /\ cancelled' = TRUE
    /\ UNCHANGED <<world, conn, stdinClosed, channel, others>>

\* ... and conn.Close, until which the pump may wait for the user.
CloseConnection ==
    /\ handler = "close"
    /\ handler' = "returned"
    /\ conn' = "closed"
    /\ UNCHANGED <<world, cancelled, stdinClosed, channel, others>>

-----------------------------------------------------------------------------
(* The pump. *)

\* Mistake: the pump stops when the stream is done, not when it is drained.
ReceiveOutput_NoDrain_Mutant ==
    /\ pump = "receive"
    /\ \/ /\ out > 0
          /\ out' = out - 1
          /\ pump' = "send"
       \/ /\ outClosed
          /\ pump' = "exit"
          /\ UNCHANGED out
    /\ UNCHANGED <<world, conn, cancelled, stdinClosed, outClosed, handler,
                   watcher, exec, copier>>

ReceiveOutput ==
    /\ pump = "receive"
    /\ \/ /\ out > 0
          /\ out' = out - 1
          /\ pump' = "send"
       \/ /\ out = 0
          /\ outClosed
          /\ pump' = "exit"
          /\ UNCHANGED out
    /\ UNCHANGED <<world, conn, cancelled, stdinClosed, outClosed, handler,
                   watcher, exec, copier>>

\* A user who does not read makes WriteMessage wait: it has no deadline.
SendOutput ==
    /\ pump = "send"
    /\ client
    /\ conn = "open"
    /\ pump' = "receive"
    /\ UNCHANGED <<world, conn, cancelled, stdinClosed, channel, handler,
                   watcher, exec, copier>>

SendFails ==
    /\ pump = "send"
    /\ ~client \/ conn = "closed"
    /\ pump' = "exit"
    /\ UNCHANGED <<world, conn, cancelled, stdinClosed, channel, handler,
                   watcher, exec, copier>>

\* Mistake: the connection is left open when the output ends.
PumpExits_NoClose_Mutant ==
    /\ pump = "exit"
    /\ pump' = "done"
    /\ UNCHANGED <<world, conn, cancelled, stdinClosed, channel, handler,
                   watcher, exec, copier>>

\* conn.Close, then close(done): whoever comes between the two finds the
\* connection closed.
PumpExits ==
    /\ pump = "exit"
    /\ pump' = "done"
    /\ conn' = "closed"
    /\ UNCHANGED <<world, cancelled, stdinClosed, channel, handler, watcher,
                   exec, copier>>

-----------------------------------------------------------------------------
(* The watcher: closeWhenSessionStops. *)

\* Every two seconds, unless the context is done.
Watch ==
    /\ watcher = "wait"
    /\ \/ watcher' = "get"
       \/ cancelled /\ watcher' = "done"
    /\ UNCHANGED <<world, conn, cancelled, stdinClosed, channel, handler,
                   pump, exec, copier>>

\* Any error of Get counts as a session that has stopped.
WatchSession ==
    /\ watcher = "get"
    /\ \/ watcher' = "close"
       \/ session = "ready" /\ ~cancelled /\ watcher' = "wait"
    /\ UNCHANGED <<world, conn, cancelled, stdinClosed, channel, handler,
                   pump, exec, copier>>

\* Mistake: the watcher leaves the stream to the handler.
CloseTerminal_NoStream_Mutant ==
    /\ watcher = "close"
    /\ watcher' = "hangUp"
    /\ UNCHANGED <<world, conn, cancelled, stdinClosed, channel, handler, pump,
                   exec, copier>>

\* stream.Close comes first, ...
CloseTerminal ==
    /\ watcher = "close"
    /\ watcher' = "hangUp"
    /\ stdinClosed' = TRUE
    /\ UNCHANGED <<world, conn, cancelled, channel, handler, pump, exec, copier>>

\* ... then conn.Close, ...
HangUp ==
    /\ watcher = "hangUp"
    /\ watcher' = "cancel"
    /\ conn' = "closed"
    /\ UNCHANGED <<world, cancelled, stdinClosed, channel, handler, pump, exec,
                   copier>>

\* ... then cancel.
CancelTerminal ==
    /\ watcher = "cancel"
    /\ watcher' = "done"
    /\ cancelled' = TRUE
    /\ UNCHANGED <<world, conn, stdinClosed, channel, handler, pump, exec,
                   copier>>

-----------------------------------------------------------------------------
(* The exec goroutine, and client-go's copier. *)

\* Mistake: the end of the command is reported before its output is copied.
ExecEnds_Early_Mutant ==
    /\ exec = "streaming"
    /\ exec' = "close"
    /\ UNCHANGED <<world, conn, cancelled, stdinClosed, channel, handler,
                   pump, watcher, copier>>

\* The remote command ended and its output was copied.
ExecEnds ==
    /\ exec = "streaming"
    /\ copier = "done"
    /\ exec' = "close"
    /\ UNCHANGED <<world, conn, cancelled, stdinClosed, channel, handler,
                   pump, watcher, copier>>

\* StreamWithContext returns at once, without waiting for its goroutines.
ExecCancelled ==
    /\ exec = "streaming"
    /\ cancelled
    /\ exec' = "close"
    /\ UNCHANGED <<world, conn, cancelled, stdinClosed, channel, handler,
                   pump, watcher, copier>>

CloseOutput ==
    /\ exec = "close"
    /\ exec' = "done"
    /\ outClosed' = TRUE
    /\ UNCHANGED <<world, conn, cancelled, stdinClosed, out, handler, pump,
                   watcher, copier>>

\* The remote command prints, or its end of the stream is over.
ReadRemote ==
    /\ copier = "read"
    /\ \/ copier' = "done"
       \/ exec = "streaming" /\ copier' = "send"
    /\ UNCHANGED <<world, conn, cancelled, stdinClosed, channel, handler,
                   pump, watcher, exec>>

\* Mistake: the writer does not wait for room.
PutOutput_NoWait_Mutant ==
    /\ copier = "send"
    /\ ~outClosed
    /\ out' = out + 1
    /\ copier' = "read"
    /\ UNCHANGED <<world, conn, cancelled, stdinClosed, outClosed, handler,
                   pump, watcher, exec>>

\* outputWriter.Write sends on the channel and waits while it is full.
PutOutput ==
    /\ copier = "send"
    /\ ~outClosed
    /\ out < Capacity
    /\ out' = out + 1
    /\ copier' = "read"
    /\ UNCHANGED <<world, conn, cancelled, stdinClosed, outClosed, handler,
                   pump, watcher, exec>>

\* A send on a closed channel panics, here in a goroutine of client-go, which
\* logs the panic and lets it end the process.
Panic ==
    /\ copier = "send"
    /\ outClosed
    /\ handler' = "dead" /\ pump' = "dead" /\ watcher' = "dead"
    /\ exec' = "dead" /\ copier' = "dead"
    /\ conn' = "closed"
    /\ UNCHANGED <<world, cancelled, stdinClosed, channel>>

-----------------------------------------------------------------------------
(* The user and the session. *)

Disconnect ==
    /\ conn = "open"
    /\ client
    /\ client' = FALSE
    /\ UNCHANGED <<session, conn, cancelled, stdinClosed, channel, handler,
                   others>>

\* The controller changes the status, or the object goes.
ChangeSession ==
    /\ session # "gone"
    /\ session' \in {"ready", "stopped", "gone"} \ {session}
    /\ UNCHANGED <<client, conn, cancelled, stdinClosed, channel, handler,
                   others>>

-----------------------------------------------------------------------------

\* What a goroutine does without the help of the user or the remote command.
Handler == ResolveSession \/ Upgrade \/ StartExec \/ CheckDone \/ ReadFails
              \/ WriteFails \/ CloseStream \/ CancelContext \/ CloseConnection
Pump == ReceiveOutput \/ SendFails \/ PumpExits
Watcher == Watch \/ WatchSession \/ CloseTerminal \/ HangUp \/ CancelTerminal
Exec == ExecEnds \/ ExecCancelled \/ CloseOutput

Copier == PutOutput \/ Panic

Next ==
    \/ Handler \/ ReadInput \/ ReadControl \/ ReadDeadline
    \/ InputTaken
    \/ Pump \/ SendOutput
    \/ Watcher
    \/ Exec
    \/ Copier \/ ReadRemote
    \/ Disconnect \/ ChangeSession

Spec == Init /\ [][Next]_vars

\* Goroutines run when they can, the ticker fires, and the API server answers
\* every Get.  The user and the remote command need not read or write.
Fairness ==
    WF_vars(Handler) /\ WF_vars(Pump) /\ WF_vars(Watcher) /\ WF_vars(Exec)
        /\ WF_vars(Copier)

FairSpec == Spec /\ Fairness

-----------------------------------------------------------------------------

\* The goroutines that Serve and Start began have ended.  Those of client-go
\* are its own: the copier ends with the remote stream, and the one that waits
\* in the resize queue does not.
ConnectionOver ==
    /\ handler \in {"returned", "dead"}
    /\ conn # "open"
    /\ pump \in {"none", "done", "dead"}
    /\ watcher \in {"none", "done", "dead"}
    /\ exec \in {"none", "done", "dead"}

\* The terminal of a session that stops, and does not become ready again,
\* comes to an end with the goroutines that Serve and Start began, even while
\* the handler waits for a command that reads no input and the pump for a user
\* who reads no output.
SessionEndClosesTerminal ==
    <>[](session # "ready") => <>ConnectionOver

\* Whatever made the handler return, it leaves behind no goroutine that Serve or
\* Start began.
ReturnReleasesAll ==
    (handler = "returned") ~> ConnectionOver

\* When the remote command has ended, the connection of a user who goes on
\* reading is closed.
ExecEndClosesConnection ==
    []<>(pump # "send") => ((exec = "done") ~> (conn = "closed"))

\* The handler is leaving, or the watcher has closed the connection of a session
\* that has stopped.
Ending == cancelled \/ watcher = "cancel"

\* A command that ends by itself loses no output: unless the user left or
\* the server is ending the terminal, the connection is closed only when
\* everything the command printed has gone through the channel.
NoOutputLost ==
    conn = "closed" /\ client /\ ~Ending
        => copier = "done" /\ out = 0 /\ exec = "done"

\* Once the context is cancelled no goroutine depends on the user or on the
\* command any more: what it waits for is closed already, or a goroutine that
\* waits for nobody is about to close it.  That is the exec goroutine for the
\* channel, and for the connection, on which the pump may still wait for a user
\* who reads nothing, the handler: it cancels before it closes the connection,
\* while the watcher, which may be all there is to release the handler, must
\* have closed both ends by then.  (EchoTerminal, whose handler may wait for
\* room in the channel, keeps to it as well.)
NobodyIsHeld ==
    cancelled =>
        /\ handler = "read" => conn = "closed"
        /\ handler = "write" => stdinClosed
        /\ pump = "receive" => out > 0 \/ outClosed \/ exec \in {"streaming", "close"}
        /\ pump = "send" => conn = "closed" \/ handler = "close"
        /\ copier = "send" => outClosed \/ exec \in {"streaming", "close"}

\* The copier's send on the closed channel, which ends cask-api for everybody,
\* cannot happen to a terminal that nothing is ending: a command may print and
\* end, and its user may be slow, in whatever order the goroutines run.
PanicOnlyWhenEnding == copier = "dead" => cancelled

-----------------------------------------------------------------------------
(* What the documents say and the code does not do. *)

\* docs/TERMINAL_GATEWAY.md: WebSocket disconnect closes the exec stream.
DisconnectClosesStream == ~client ~> (exec \in {"none", "done", "dead"})

\* docs/TEST_PLAN.md: disconnect cleans exec stream.  Cleaning it up is not
\* to end in a send on the closed output channel.
DisconnectCleansStream == ~client => copier # "dead"
=============================================================================
