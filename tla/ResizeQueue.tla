----------------------------- MODULE ResizeQueue -----------------------------
(***************************************************************************)
(* The way of a terminal size from the user's window to the remote         *)
(* terminal: a text frame on the WebSocket, the handler of Terminal, the   *)
(* queue of KubernetesExecBackend, the goroutine of client-go that waits   *)
(* in Next, and the resize stream of pods/exec.  Sizes are numbered in the *)
(* order in which the user asks for them.  The rest of the connection is   *)
(* in Terminal, where a text frame is ReadControl and a binary one is      *)
(* ReadInput; here, too, the handler may wait in Write for a command that  *)
(* does not read its input.                                                *)
(***************************************************************************)
EXTENDS Naturals, Sequences, SequencesExt

CONSTANTS
    Keys,       \* a binary frame: what the user types
    Capacity,   \* room in the queue
    MaxFrames,  \* bound on the frames under way from the user
    MaxSizes    \* bound on the sizes a user asks for

ASSUME SizesAssumption == {Capacity, MaxFrames, MaxSizes} \subseteq Nat \ {0}

ASSUME KeysAssumption == Keys \notin 0 .. MaxSizes

VARIABLES
    asked,      \* the size the user asked for last, 0 before the first
    frames,     \* what the user sent and the handler has not read yet
    writing,    \* does the handler wait in Write?
    queue,      \* the channel of resizeQueue
    next,       \* the size client-go is writing, NoSize while it waits in Next
    shown,      \* the size of the remote terminal, 0 before the first
    stream      \* does the resize stream take what is written to it?

vars == <<asked, frames, writing, queue, next, shown, stream>>

\* A text frame that asks for no size: a ping, a size with a zero, no JSON.
NoSize == 0

Sizes == 1 .. MaxSizes

Init ==
    /\ asked = 0 /\ shown = 0
    /\ frames = <<>> /\ queue = <<>>
    /\ next = NoSize
    /\ writing = FALSE
    /\ stream = "open"

-----------------------------------------------------------------------------
(* The user and the network. *)

SendFrame(frame) ==
    /\ Len(frames) < MaxFrames
    /\ frames' = Append(frames, frame)
    /\ UNCHANGED <<writing, queue, next, shown, stream>>

AskSize ==
    /\ asked < MaxSizes
    /\ asked' = asked + 1
    /\ SendFrame(asked')

SendOther == (SendFrame(NoSize) \/ SendFrame(Keys)) /\ UNCHANGED asked

\* The remote end stops reading.
Stall ==
    /\ stream = "open"
    /\ stream' = "stalled"
    /\ UNCHANGED <<asked, frames, writing, queue, next, shown>>

\* The command ends or the context is cancelled.
End ==
    /\ stream # "ended"
    /\ stream' = "ended"
    /\ UNCHANGED <<asked, frames, writing, queue, next, shown>>

-----------------------------------------------------------------------------
(* The handler. *)

\* Mistake: the last place of the queue is never used.
Push_OffByOne_Mutant(size) ==
    queue' = IF Len(queue) + 1 < Capacity THEN Append(queue, size) ELSE queue

\* Mistake: Push waits for room.
Push_Waits_Mutant(size) ==
    /\ Len(queue) < Capacity
    /\ queue' = Append(queue, size)

\* Mistake: the newest size goes first.
Push_Front_Mutant(size) ==
    queue' = IF Len(queue) < Capacity THEN <<size>> \o queue ELSE queue

\* Mistake: the queue has no limit.
Push_Unbounded_Mutant(size) == queue' = Append(queue, size)

\* A select with a default: the new size is dropped when the queue is full.
Push(size) ==
    queue' = IF Len(queue) < Capacity THEN Append(queue, size) ELSE queue

HandleControl(frame) ==
    IF frame \in Sizes THEN Push(frame) ELSE UNCHANGED queue

ReadFrame ==
    /\ ~writing
    /\ frames # <<>>
    /\ HandleControl(Head(frames))
    /\ writing' = (Head(frames) = Keys)
    /\ frames' = Tail(frames)
    /\ UNCHANGED <<asked, next, shown, stream>>

\* The command takes the input, or the stream's end closes the pipe.
InputTaken ==
    /\ writing
    /\ writing' = FALSE
    /\ UNCHANGED <<asked, frames, queue, next, shown, stream>>

-----------------------------------------------------------------------------
(* The goroutine of client-go. *)

\* Next of resizeQueue.  Nothing closes the channel: with an empty queue it
\* waits, for ever if the stream has ended.
TakeNext ==
    /\ next = NoSize
    /\ queue # <<>>
    /\ next' = Head(queue)
    /\ queue' = Tail(queue)
    /\ UNCHANGED <<asked, frames, writing, shown, stream>>

Encode ==
    /\ next # NoSize
    /\ stream = "open"
    /\ shown' = next
    /\ next' = NoSize
    /\ UNCHANGED <<asked, frames, writing, queue, stream>>

\* The error is logged and the loop goes on.
EncodeFails ==
    /\ next # NoSize
    /\ stream = "ended"
    /\ next' = NoSize
    /\ UNCHANGED <<asked, frames, writing, queue, shown, stream>>

-----------------------------------------------------------------------------

Resizer == TakeNext \/ Encode \/ EncodeFails

Next == AskSize \/ SendOther \/ Stall \/ End \/ ReadFrame \/ InputTaken \/ Resizer

Spec == Init /\ [][Next]_vars

\* The goroutines run when they can, and an open stream takes the sizes that
\* are written to it; the command need not read its input.
FairSpec == Spec /\ WF_vars(ReadFrame) /\ WF_vars(Resizer)

-----------------------------------------------------------------------------

TypeOK ==
    /\ asked \in Sizes \cup {0}
    /\ frames \in BoundedSeq(Sizes \cup {NoSize, Keys}, MaxFrames)
    /\ writing \in BOOLEAN
    /\ queue \in BoundedSeq(Sizes, Capacity)
    /\ next \in Sizes \cup {NoSize}
    /\ shown \in Sizes \cup {0}
    /\ stream \in {"open", "stalled", "ended"}

\* The remote terminal takes sizes in the order in which the user asked for
\* them, each once, whichever of them the full queue drops.
SizesInOrder == [][shown' # shown => shown' > shown]_vars

\* What the user sends is read although the remote end has stopped taking
\* sizes: only a command that does not read its input holds the handler up.
UserIsNeverHeldUp ==
    Len(frames) = MaxFrames ~> (Len(frames) < MaxFrames \/ writing)

\* A user who never asks for more sizes than the queue holds ahead of the
\* remote terminal gets the last of them, unless the handler waits in Write or
\* the stream ends or stalls.
Settled == shown = asked \/ stream # "open" \/ writing
QuietUserIsObeyed == [](asked - shown <= Capacity) => <>[]Settled

\* docs/TERMINAL_GATEWAY.md:86: "The terminal gateway must pass resize events
\* to the Kubernetes exec stream."  At least the last one, then.
LastSizeArrives == <>[]Settled
=============================================================================
