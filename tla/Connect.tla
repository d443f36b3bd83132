------------------------------- MODULE Connect -------------------------------
(***************************************************************************)
(* caskctl session connect (internal/cli): Client.Connect and the two      *)
(* goroutines it starts.  The writer copies standard input to the          *)
(* WebSocket, the reader copies frames to standard output; each reports    *)
(* at most one result through errCh, and Connect returns the first, or     *)
(* when its context is done.  Then the deferred Close shuts the WebSocket  *)
(* and the process exits.  Contents of frames are left out.                *)
(***************************************************************************)
EXTENDS Naturals, Sequences

CONSTANT MaxFrames     \* bound on frames in transit

ASSUME MaxFramesAssumption == MaxFrames \in Nat

VARIABLES
    main,          \* "dial", "wait" (the select) or "returned"
    result,        \* what Connect returned
    errCh,         \* results reported and not received
    reader,        \* "none", "read", "print" or "done"
    writer,        \* "none", "input", "write" or "done"
    shut,          \* has Connect closed its end of the WebSocket?
    link,          \* the other end: "none", "up", "closed" by the server, or
                   \* "dropped": the network or the server failed
    frames,        \* sent by the server and not read yet
    interrupted,   \* is the context done (SIGINT, SIGTERM)?
    broken         \* does standard output refuse writes?

vars == <<main, result, errCh, reader, writer, shut, link, frames,
          interrupted, broken>>

Results == {"ok", "failed", "cancelled"}

TypeOK ==
    /\ main \in {"dial", "wait", "returned"}
    /\ result \in Results \cup {"none"}
    /\ errCh \in Seq(Results)
    /\ Len(errCh) <= 2
    /\ reader \in {"none", "read", "print", "done"}
    /\ writer \in {"none", "input", "write", "done"}
    /\ shut \in BOOLEAN
    /\ link \in {"none", "up", "closed", "dropped"}
    /\ frames \in 0..MaxFrames
    /\ interrupted \in BOOLEAN
    /\ broken \in BOOLEAN

Init ==
    /\ main = "dial"
    /\ result = "none"
    /\ errCh = <<>>
    /\ reader = "none" /\ writer = "none"
    /\ shut = FALSE
    /\ link = "none"
    /\ frames = 0
    /\ interrupted = FALSE
    /\ broken = FALSE

-----------------------------------------------------------------------------
(* Connect itself. *)

\* The server refuses (404, 409), cannot be reached, or upgrades.
Dial ==
    /\ main = "dial"
    /\ \/ /\ main' = "returned"
          /\ result' = "failed"
          /\ UNCHANGED <<reader, writer, link>>
       \/ /\ ~interrupted
          /\ main' = "wait"
          /\ reader' = "read" /\ writer' = "input"
          /\ link' = "up"
          /\ UNCHANGED result
    /\ UNCHANGED <<errCh, shut, frames, interrupted, broken>>

\* The select, then the deferred Close.
Return ==
    /\ main = "wait"
    /\ \/ interrupted /\ result' = "cancelled" /\ UNCHANGED errCh
       \/ errCh # <<>> /\ result' = Head(errCh) /\ errCh' = Tail(errCh)
    /\ main' = "returned"
    /\ shut' = TRUE
    /\ UNCHANGED <<reader, writer, link, frames, interrupted, broken>>

\* Mistake: errCh has no buffer.
Room_Unbuffered_Mutant == main = "wait" /\ errCh = <<>>

\* errCh has room for both goroutines.
Room == Len(errCh) < 2

Report(r) == Room /\ errCh' = Append(errCh, r)

\* What main.go makes of the result.  No error that Connect returns contains
\* "normal", the word that runConnect looks for.
ExitCode == IF result = "ok" THEN 0 ELSE 1

-----------------------------------------------------------------------------
(* The writer. *)

\* Mistake: the end of the input is reported.
ReadInput_ReportsEnd_Mutant ==
    /\ writer = "input"
    /\ \/ writer' = "write" /\ UNCHANGED errCh
       \/ writer' = "done" /\ Report("ok")
    /\ UNCHANGED <<main, result, reader, shut, link, frames, interrupted, broken>>

\* The end of the input is not reported: Connect goes on printing.
ReadInput ==
    /\ writer = "input"
    /\ writer' \in {"write", "done"}
    /\ UNCHANGED <<main, result, errCh, reader, shut, link, frames,
                   interrupted, broken>>

\* A write succeeds when the kernel takes it, also after the other end has
\* gone, ...
WriteFrame ==
    /\ writer = "write"
    /\ ~shut
    /\ writer' = "input"
    /\ UNCHANGED <<main, result, errCh, reader, shut, link, frames,
                   interrupted, broken>>

\* ... until it is known to have gone.
WriteFails ==
    /\ writer = "write"
    /\ shut \/ link # "up"
    /\ writer' = "done"
    /\ Report("failed")
    /\ UNCHANGED <<main, result, reader, shut, link, frames, interrupted, broken>>

-----------------------------------------------------------------------------
(* The reader. *)

ReadFrame ==
    /\ reader = "read"
    /\ ~shut
    /\ frames > 0
    /\ frames' = frames - 1
    /\ reader' = "print"
    /\ UNCHANGED <<main, result, errCh, writer, shut, link, interrupted, broken>>

\* Mistake: a read error ends the goroutine without a report.
ReadFails_Silent_Mutant ==
    /\ reader = "read"
    /\ shut \/ (link # "up" /\ frames = 0)
    /\ reader' = "done"
    /\ UNCHANGED <<main, result, errCh, writer, shut, link, frames, interrupted,
                   broken>>

\* Any error of ReadMessage is taken for the end of the terminal.
ReadFails ==
    /\ reader = "read"
    /\ shut \/ (link # "up" /\ frames = 0)
    /\ reader' = "done"
    /\ Report("ok")
    /\ UNCHANGED <<main, result, writer, shut, link, frames, interrupted, broken>>

PrintFrame ==
    /\ reader = "print"
    /\ \/ /\ ~broken
          /\ reader' = "read"
          /\ UNCHANGED errCh
       \/ /\ broken
          /\ reader' = "done"
          /\ Report("failed")
    /\ UNCHANGED <<main, result, writer, shut, link, frames, interrupted, broken>>

-----------------------------------------------------------------------------
(* The terminal gateway, the network and the user. *)

SendFrame ==
    /\ link = "up"
    /\ frames < MaxFrames
    /\ frames' = frames + 1
    /\ UNCHANGED <<main, result, errCh, reader, writer, shut, link,
                   interrupted, broken>>

\* The gateway closes the connection after the last output: what was sent can
\* still be read.  When the connection drops, part of it is lost.
LinkEnds ==
    /\ link = "up"
    /\ \/ link' = "closed" /\ UNCHANGED frames
       \/ link' = "dropped" /\ frames' \in 0..frames
    /\ UNCHANGED <<main, result, errCh, reader, writer, shut, interrupted,
                   broken>>

Interrupt ==
    /\ ~interrupted
    /\ interrupted' = TRUE
    /\ UNCHANGED <<main, result, errCh, reader, writer, shut, link, frames,
                   broken>>

BreakOutput ==
    /\ ~broken
    /\ broken' = TRUE
    /\ UNCHANGED <<main, result, errCh, reader, writer, shut, link, frames,
                   interrupted>>

-----------------------------------------------------------------------------

Main == Dial \/ Return
Writer == WriteFrame \/ WriteFails
Reader == ReadFrame \/ ReadFails \/ PrintFrame

Next ==
    \/ Main
    \/ ReadInput \/ Writer
    \/ Reader
    \/ SendFrame \/ LinkEnds
    \/ Interrupt \/ BreakOutput

Spec == Init /\ [][Next]_vars

\* Goroutines run when they can, and standard output takes or refuses what is
\* written to it.  The user need not type, nor the server send or close.
FairSpec == Spec /\ WF_vars(Main) /\ WF_vars(Writer) /\ WF_vars(Reader)

-----------------------------------------------------------------------------

\* Success is reported only when the terminal is over at the other end and
\* everything that arrived from it was read, whichever goroutine reports first
\* and although the user's input may have ended long before.
OkMeansComplete == result = "ok" => link \in {"closed", "dropped"} /\ frames = 0

\* A terminal that was connected ends for a reason outside the program: the
\* user interrupts it, standard output breaks, or the other end goes.  The
\* end of the input is none.
EndHasCause ==
    main = "returned" => interrupted \/ broken \/ link # "up"

\* When the other end goes, the command ends, whatever its writer is doing.
EndReachesUser == link \in {"closed", "dropped"} ~> main = "returned"

\* Whatever made Connect return, the reader does not stay behind: not waiting
\* for frames, nor to report to nobody.
ReturnReleasesReader == main = "returned" ~> reader \in {"none", "done"}

-----------------------------------------------------------------------------
(* What the documents say and the code does not do. *)

\* docs/CLI_SPEC.md: connect forwards binary frames to standard output.  So when
\* the gateway has closed the connection and nobody interferes, the command
\* ends with everything printed.
OutputForwarded ==
    main = "returned" /\ link = "closed" /\ ~interrupted /\ ~broken
        => frames = 0

\* docs/CLI_SPEC.md: the CLI has a clean message for a dropped connection.  So
\* it does not end as if the terminal had been closed.
DroppedIsReported == link = "dropped" /\ main = "returned" => ExitCode # 0
=============================================================================
