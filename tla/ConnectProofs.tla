---------------------------- MODULE ConnectProofs ----------------------------
(***************************************************************************)
(* What the result of caskctl session connect means, for any number of     *)
(* frames in transit.                                                      *)
(***************************************************************************)
EXTENDS Connect, TLAPS

\* The other end is gone, and what came from it was read.
Over == link \in {"closed", "dropped"} /\ frames = 0

\* What a report in errCh is evidence of, while Connect still waits for it.
ReportInv ==
    main = "wait" =>
        \A i \in 1..Len(errCh) :
            /\ errCh[i] = "ok" => Over
            /\ errCh[i] = "failed" => link # "up" \/ broken
            /\ errCh[i] # "cancelled"

\* What Connect has done so far, and what its result is evidence of.
PhaseInv ==
    /\ main = "dial" => link = "none" /\ errCh = <<>> /\ frames = 0
    /\ main = "dial" => reader = "none" /\ writer = "none"
    /\ main = "wait" => link # "none"
    /\ shut => main = "returned"
    /\ main # "returned" => result = "none"
    /\ link = "none" => frames = 0
    /\ result = "ok" => Over
    /\ main = "returned" => interrupted \/ broken \/ link # "up"

ConnectInv == TypeOK /\ ReportInv /\ PhaseInv

\* The command starts with nothing connected and nothing reported.
LEMMA InitConnectInv == Init => ConnectInv
<1> SUFFICES ASSUME Init PROVE ConnectInv
  OBVIOUS
<1>1. TypeOK
  <2>1. errCh \in Seq(Results) /\ Len(errCh) <= 2 /\ frames \in 0..MaxFrames
    BY MaxFramesAssumption, SMT DEF Init
  <2>2. QED
    BY <2>1, Zenon DEF Init, TypeOK
<1>2. ReportInv /\ PhaseInv
  BY SMT DEF Init, ReportInv, PhaseInv
<1>3. QED
  BY <1>1, <1>2 DEF ConnectInv

\* A report that is true of the terminal keeps the reports true.
LEMMA ReportKept ==
    ASSUME TypeOK, ReportInv, NEW r \in Results, Report(r),
           r = "ok" /\ main = "wait" => Over,
           r = "failed" => link # "up" \/ broken,
           r # "cancelled",
           UNCHANGED <<main, link, frames, broken>>
    PROVE  /\ errCh' \in Seq(Results)
           /\ Len(errCh') <= 2
           /\ ReportInv'
BY SMT DEF TypeOK, ReportInv, Report, Room, Over

\* No step of the goroutines, the gateway, the network or the user breaks the
\* invariant.
LEMMA NextConnectInv == ConnectInv /\ [Next]_vars => ConnectInv'
<1> SUFFICES ASSUME ConnectInv, [Next]_vars PROVE ConnectInv'
  OBVIOUS
<1> USE MaxFramesAssumption DEF ConnectInv
<1>1. CASE Dial
  BY <1>1, SMT DEF Dial, TypeOK, ReportInv, PhaseInv, Over, Results
<1>2. CASE Return
  <2>1. errCh # <<>> => Head(errCh) = errCh[1] /\ 1 \in 1..Len(errCh)
    BY SMT DEF TypeOK
  <2>2. TypeOK'
    BY <1>2, SMT DEF Return, TypeOK, Results
  <2>3. ReportInv' /\ PhaseInv'
    BY <1>2, <2>1, SMT DEF Return, TypeOK, ReportInv, PhaseInv, Over, Results
  <2>4. QED
    BY <2>2, <2>3
<1>3. CASE ReadInput \/ WriteFrame
  BY <1>3, SMT DEF ReadInput, WriteFrame, TypeOK, ReportInv, PhaseInv, Over
<1>4. CASE WriteFails
  <2>1. /\ errCh' \in Seq(Results) /\ Len(errCh') <= 2 /\ ReportInv'
    <3>1. CASE main = "wait"
      BY <1>4, <3>1, ReportKept, SMT DEF WriteFails, PhaseInv, Results
    <3>2. CASE main # "wait"
      BY <1>4, <3>2, SMT DEF WriteFails, Report, Room, ReportInv, TypeOK, Results
    <3>3. QED
      BY <3>1, <3>2
  <2>2. TypeOK' /\ PhaseInv'
    BY <1>4, <2>1, SMT DEF WriteFails, TypeOK, PhaseInv, Over
  <2>3. QED
    BY <2>1, <2>2
<1>5. CASE ReadFrame
  BY <1>5, SMT DEF ReadFrame, TypeOK, ReportInv, PhaseInv, Over
<1>6. CASE ReadFails
  <2>1. main = "wait" => Over
    BY <1>6, SMT DEF ReadFails, PhaseInv, TypeOK, Over
  <2>2. /\ errCh' \in Seq(Results) /\ Len(errCh') <= 2 /\ ReportInv'
    BY <1>6, <2>1, ReportKept, SMT DEF ReadFails, Results
  <2>3. TypeOK' /\ PhaseInv'
    BY <1>6, <2>2, SMT DEF ReadFails, TypeOK, PhaseInv, Over
  <2>4. QED
    BY <2>2, <2>3
<1>7. CASE PrintFrame
  <2>1. /\ errCh' \in Seq(Results) /\ Len(errCh') <= 2 /\ ReportInv'
    <3>1. CASE broken
      BY <1>7, <3>1, ReportKept, SMT DEF PrintFrame, Results
    <3>2. CASE ~broken
      BY <1>7, <3>2, SMT DEF PrintFrame, ReportInv, TypeOK, Over
    <3>3. QED
      BY <3>1, <3>2
  <2>2. TypeOK' /\ PhaseInv'
    BY <1>7, <2>1, SMT DEF PrintFrame, TypeOK, PhaseInv, Over
  <2>3. QED
    BY <2>1, <2>2
<1>8. CASE SendFrame \/ LinkEnds
  BY <1>8, SMT DEF SendFrame, LinkEnds, TypeOK, ReportInv, PhaseInv, Over
<1>9. CASE Interrupt
  BY <1>9, SMT DEF Interrupt, TypeOK, ReportInv, PhaseInv, Over
<1>10. CASE BreakOutput
  BY <1>10, SMT DEF BreakOutput, TypeOK, ReportInv, PhaseInv, Over
<1>11. CASE UNCHANGED vars
  <2>1. /\ UNCHANGED <<main, result, shut, errCh>>
        /\ UNCHANGED <<reader, writer, link, frames>>
        /\ UNCHANGED <<interrupted, broken>>
    BY <1>11 DEF vars
  <2>2. TypeOK'
    BY <2>1 DEF TypeOK
  <2>3. ReportInv'
    BY <2>1 DEF ReportInv, Over
  <2>4. PhaseInv'
    BY <2>1 DEF PhaseInv, Over
  <2>5. QED
    BY <2>2, <2>3, <2>4
<1>12. QED
  BY <1>1, <1>2, <1>3, <1>4, <1>5, <1>6, <1>7, <1>8, <1>9, <1>10, <1>11
     DEF Next, Main, Writer, Reader

\* The invariant holds in every reachable state.
LEMMA ConnectCorrect == Spec => []ConnectInv
BY InitConnectInv, NextConnectInv, PTL DEF Spec

\* Every variable keeps its type: errCh holds two reports at most, so nobody
\* ever waits to report.
THEOREM ConnectTyped == Spec => []TypeOK
<1>1. ConnectInv => TypeOK
  BY DEF ConnectInv
<1>2. QED
  BY <1>1, ConnectCorrect, PTL

\* Connect returns success only when the terminal is over at the other end and
\* everything that arrived from it was read.
THEOREM OkIsComplete == Spec => []OkMeansComplete
<1>1. ConnectInv => OkMeansComplete
  BY DEF ConnectInv, PhaseInv, Over, OkMeansComplete
<1>2. QED
  BY <1>1, ConnectCorrect, PTL

\* The end of the user's input alone never ends the command.
THEOREM EndsHaveCauses == Spec => []EndHasCause
<1>1. ConnectInv => EndHasCause
  BY DEF ConnectInv, PhaseInv, EndHasCause
<1>2. QED
  BY <1>1, ConnectCorrect, PTL
=============================================================================
