--------------------------- MODULE SessionContract ---------------------------
(***************************************************************************)
(* What the controller promises about a session and its Pod, without       *)
(* saying how: no API calls, copies, finalizers, retries or crashes.       *)
(***************************************************************************)
CONSTANT Sessions

VARIABLES
    life,       \* "absent", "open", "closing" (deletion requested) or "gone"
    running,    \* is there a Pod that nobody has told to stop?
    expired     \* has the session been reported Expired?

contractVars == <<life, running, expired>>

Init ==
    /\ life = [s \in Sessions |-> "absent"]
    /\ running = [s \in Sessions |-> FALSE]
    /\ expired = [s \in Sessions |-> FALSE]

Kept(s) == life[s] \in {"open", "closing"}

\* A name may be used again when the session that had it is gone.
Open(s) ==
    /\ ~Kept(s)
    /\ life' = [life EXCEPT ![s] = "open"]
    /\ UNCHANGED <<running, expired>>

\* A Pod is launched only for a session that is kept and has not expired.
Launch(s) ==
    /\ Kept(s)
    /\ ~running[s]
    /\ ~expired[s]
    /\ running' = [running EXCEPT ![s] = TRUE]
    /\ UNCHANGED <<life, expired>>

Stop(s) ==
    /\ running[s]
    /\ running' = [running EXCEPT ![s] = FALSE]
    /\ UNCHANGED <<life, expired>>

\* Expiry is reported when the Pod has been stopped, and is not taken back.
ReportExpired(s) ==
    /\ Kept(s)
    /\ ~running[s]
    /\ expired' = [expired EXCEPT ![s] = TRUE]
    /\ UNCHANGED <<life, running>>

RequestDeletion(s) ==
    /\ life[s] = "open"
    /\ life' = [life EXCEPT ![s] = "closing"]
    /\ UNCHANGED <<running, expired>>

\* A session goes only after its Pod.
Remove(s) ==
    /\ Kept(s)
    /\ ~running[s]
    /\ life' = [life EXCEPT ![s] = "gone"]
    /\ expired' = [expired EXCEPT ![s] = FALSE]
    /\ UNCHANGED running

Next ==
    \E s \in Sessions :
        \/ Open(s)
        \/ Launch(s)
        \/ Stop(s)
        \/ ReportExpired(s)
        \/ RequestDeletion(s)
        \/ Remove(s)

Spec == Init /\ [][Next]_contractVars
=============================================================================
