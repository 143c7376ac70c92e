------------------------------ MODULE PortLife ------------------------------
(***************************************************************************)
(* What an application may expect of a port: it is down, starting or up,   *)
(* and what the application is told about it (Client/ServerPortConnected   *)
(* and ...Disconnected) tells the two apart. Connected and Disconnected    *)
(* follow from one start each, a disconnection says whether the port had   *)
(* ever been connected, and a port that is down is started again until its *)
(* owner closes it, or needs it no more.                                   *)
(***************************************************************************)
VARIABLES status,     \* "down", "starting", "up" or "closed"
          everUp,     \* the port was connected before
          told,       \* the last event written about it
          unneeded,   \* the connection does without the port
          void        \* the promise does not hold any more

vars == <<status, everUp, told, unneeded, void>>

Nothing == [event |-> "nothing", was |-> FALSE]

Init == status = "down" /\ everUp = FALSE /\ told = Nothing /\ unneeded = FALSE /\ void = FALSE

Start == status = "down" /\ status' = "starting" /\ UNCHANGED <<everUp, told, unneeded>>

Connect ==
    /\ status = "starting" /\ status' = "up"
    /\ everUp' = TRUE
    /\ told' = [event |-> "connected", was |-> FALSE]
    /\ UNCHANGED unneeded

Disconnect ==
    /\ status \in {"starting", "up"} /\ status' = "down"
    /\ told' = [event |-> "disconnected", was |-> everUp]
    /\ UNCHANGED <<everUp, unneeded>>

Close == status' = "closed" /\ UNCHANGED <<everUp, told, unneeded>>

\* Another port under the same number.
Reopen ==
    /\ status = "closed" /\ status' = "down" /\ everUp' = FALSE /\ told' = Nothing
    /\ UNCHANGED unneeded

Need == unneeded' = ~unneeded /\ UNCHANGED <<status, everUp, told>>

Kept(A) == void = FALSE /\ void' = FALSE /\ A

Next ==
    \/ void \/ void' = TRUE
    \/ Kept(Start \/ Connect \/ Disconnect \/ Close \/ Reopen \/ Need)

\* A port that is down is started, and a start is answered.
Spec ==
    /\ Init /\ [][Next]_vars
    /\ WF_vars(Kept(~unneeded /\ Start))
    /\ WF_vars(Kept(~unneeded /\ status = "starting" /\ (Connect \/ Disconnect)))
=============================================================================
