-------------------------- MODULE ServerLifecycle --------------------------
(***************************************************************************)
(* What socket_server.h promises of start and stop, without threads,       *)
(* descriptors or message traffic: connections are served between a start  *)
(* and the end of the stop that follows it, and at no other time.          *)
(***************************************************************************)
CONSTANT Conns  \* the connections whose objects only the server owns

VARIABLES
    phase,   \* of the server
    active   \* the connections it has an object for

vars == <<phase, active>>

Init == phase = "stopped" /\ active = {}

\* start, start_in_background: only when nothing of an earlier start is left.
Start ==
    /\ phase = "stopped"
    /\ phase' = "running"
    /\ UNCHANGED active

\* stop() has invalidated the server; what was accepted is still served.
Halt ==
    /\ phase = "running"
    /\ phase' = "stopping"
    /\ UNCHANGED active

\* The loop accepts a connection; one accept() may complete during a stop().
Accept(c) ==
    /\ phase # "stopped" /\ c \notin active
    /\ active' = active \cup {c}
    /\ UNCHANGED phase

\* A connection has ended.
End(c) ==
    /\ c \in active
    /\ active' = active \ {c}
    /\ UNCHANGED phase

\* The loop is gone, and it has left no connection behind.
Stopped ==
    /\ phase = "stopping" /\ active = {}
    /\ phase' = "stopped"
    /\ UNCHANGED active

Next == Start \/ Halt \/ Stopped \/ \E c \in Conns : Accept(c) \/ End(c)

Spec == Init /\ [][Next]_vars

=============================================================================
