------------------------------ MODULE InMemory ------------------------------
(***************************************************************************)
(* cask-api with the flag -memory, whole: the requests of MemoryServer and *)
(* one terminal connection over EchoBackend.  They share the MemoryStore:  *)
(* what the gateway's Get says of a session is what requests made of it.   *)
(***************************************************************************)
EXTENDS MemoryServer, EchoTerminal

CONSTANT Connected     \* the session whose terminal the connection is

ASSUME ConnectedAssumption == Connected \in Sessions

connection == <<client, conn, cancelled, stdinClosed, channel, handler, others,
                panicked>>
inMemoryVars == <<memoryVars, echoVars>>

\* AutoRun: what is in the map is ready.
Readiness == IF Stored(Connected) THEN "ready" ELSE "gone"

InMemoryInit == MemoryInit /\ EchoInit /\ session = Readiness

InMemoryNext ==
    \/ EchoConnection /\ UNCHANGED memoryVars
    \/ MemoryNext /\ session' = Readiness' /\ UNCHANGED connection

InMemorySpec == InMemoryInit /\ [][InMemoryNext]_inMemoryVars

\* The goroutines of the connection run when they can; no handler of a request
\* need go on.
InMemoryFairSpec == InMemorySpec /\ EchoFairness

-----------------------------------------------------------------------------

\* The session was created and is no longer in the map.
Deleted == drawn[Connected] # NoUser /\ ~Stored(Connected)

\* The panic of a Write that meets Close is confined to sessions that a request
\* has deleted: no disconnect, deadline or failed write of a connection closes
\* the stream under its own handler.
PanicOnlyAfterDeletion == panicked => Deleted

\* When a user is told that a session is deleted, its terminal ends with all of
\* its goroutines, even while the handler waits for room in the echo channel or
\* panics on closing it, and the pump for a user who reads nothing.
DeletionEndsTerminal ==
    \A r \in Requests :
        (calls[r].answer = "deleted" /\ calls[r].session = Connected)
            ~> ConnectionOver
=============================================================================
