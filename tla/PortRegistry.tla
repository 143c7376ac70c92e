---------------------------- MODULE PortRegistry ----------------------------
(***************************************************************************)
(* What an application may expect of the secondary ports of a connection:  *)
(* a port it opens is open, and is served in every frame, until it is      *)
(* closed, and no port goes away without being closed - provided that the  *)
(* application closes ports last opened first.                             *)
(***************************************************************************)
CONSTANT Ports        \* the port objects create_port() makes

VARIABLES orderly,    \* the application closes its ports last opened first
          open,       \* ports the connection holds
          closed,     \* ports whose close() was called
          served      \* ports the systems of the last frame visited

vars == <<orderly, open, closed, served>>

Init == orderly \in BOOLEAN /\ open = {} /\ closed = {} /\ served = {}

Open(p) == p \notin open \cup closed /\ open' = open \cup {p} /\ UNCHANGED <<closed, served>>

\* Closing any set of open ports: one port, or all with the connection.
Close(P) == /\ P \subseteq open
            /\ open' = open \ P /\ closed' = closed \cup P
            /\ UNCHANGED served

Frame == served' = open /\ UNCHANGED <<open, closed>>

Step == (\E p \in Ports : Open(p)) \/ (\E P \in SUBSET open : Close(P)) \/ Frame

\* Nothing is promised to an application that does not keep to the rules.
Next == UNCHANGED orderly /\ (orderly => Step)

Spec == Init /\ [][Next]_vars
=============================================================================
