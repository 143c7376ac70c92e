----------------------------- MODULE PortTable -----------------------------
(***************************************************************************)
(* How a connection numbers its secondary ports (ServerConnection; the     *)
(* ClientConnection does the same) and which of them the systems visit.    *)
(*                                                                         *)
(* A new port gets the number len + 1, the systems visit the numbers 1 to  *)
(* len, and a port may be closed by any number. The three agree while the  *)
(* numbers in use are exactly 1 to len; closing any but the highest port   *)
(* breaks that.                                                            *)
(***************************************************************************)
EXTENDS Integers, FiniteSets, Functions

CONSTANT Ports        \* the port objects create_port() makes

ASSUME PortsAssumption == IsFiniteSet(Ports)

VARIABLES lastOnly,   \* the application closes ports last opened first, for good
          connected,  \* the connection id is in NetworkConnection
          secondary,  \* secondary_ports: number -> port
          closed,     \* ports whose close() was called
          served      \* ports the systems of the last frame visited

vars == <<lastOnly, connected, secondary, closed, served>>

Numbers == DOMAIN secondary
Held == Range(secondary)
PortsAmount == Cardinality(Numbers)             \* get_ports_amount
Fresh == Ports \ (Held \cup closed)

NoPorts == [n \in {} |-> 0]

Init ==
    /\ lastOnly \in BOOLEAN
    /\ connected = FALSE
    /\ secondary = NoPorts
    /\ closed = {} /\ served = {}

\* start_connection: nothing happens if the id is taken.
StartConnection ==
    /\ ~connected /\ connected' = TRUE
    /\ UNCHANGED <<lastOnly, secondary, closed, served>>

\* Variant with a bug: the new port takes the number len.
OpenSecondaryPortAtLen(p) ==
    /\ connected /\ p \in Fresh
    /\ secondary' = [n \in Numbers \cup {PortsAmount} |-> IF n = PortsAmount THEN p ELSE secondary[n]]
    /\ UNCHANGED <<lastOnly, connected, closed, served>>

\* open_secondary_port: insert overwrites, and a port it overwrites is dropped
\* without close().
OpenSecondaryPort(p) ==
    /\ connected /\ p \in Fresh
    /\ secondary' = [n \in Numbers \cup {PortsAmount + 1} |->
                       IF n = PortsAmount + 1 THEN p ELSE secondary[n]]
    /\ UNCHANGED <<lastOnly, connected, closed, served>>

\* Variant with a bug: the port is removed but not closed.
ClosePortUnclosed(n) ==
    /\ connected /\ n \in Numbers
    /\ secondary' = Restrict(secondary, Numbers \ {n})
    /\ UNCHANGED <<lastOnly, connected, closed, served>>

\* close_port(n) of a secondary port.
ClosePort(n) ==
    /\ connected /\ n \in Numbers
    /\ lastOnly => \A m \in Numbers : m <= n
    /\ secondary' = Restrict(secondary, Numbers \ {n})
    /\ closed' = closed \cup {secondary[n]}
    /\ UNCHANGED <<lastOnly, connected, served>>

\* Variant with a bug: the ports are closed and kept.
CloseAllPortsHeld ==
    /\ connected
    /\ closed' = closed \cup Held
    /\ UNCHANGED <<lastOnly, connected, secondary, served>>

\* close_port(0) closes the main port and every secondary one; the connection
\* stays and may open secondary ports again.
CloseAllPorts ==
    /\ connected
    /\ secondary' = NoPorts
    /\ closed' = closed \cup Held
    /\ UNCHANGED <<lastOnly, connected, served>>

\* close_connection does the same and forgets the connection.
CloseConnection ==
    /\ connected /\ connected' = FALSE
    /\ secondary' = NoPorts
    /\ closed' = closed \cup Held
    /\ UNCHANGED <<lastOnly, served>>

\* Variant with a bug: the loop stops one short.
VisitedNumbersShort == Numbers \cap (1 .. PortsAmount - 1)

\* The numbers a system's loop finds a port at: for port_id in 1..=len.
VisitedNumbers == Numbers \cap (1 .. PortsAmount)

\* A frame: the systems visit the ports of their loops.
Frame ==
    /\ served' = {secondary[n] : n \in VisitedNumbers}
    /\ UNCHANGED <<lastOnly, connected, secondary, closed>>

Next ==
    \/ StartConnection
    \/ \E p \in Ports : OpenSecondaryPort(p)
    \/ \E n \in Numbers : ClosePort(n)
    \/ CloseAllPorts \/ CloseConnection
    \/ Frame

Spec == Init /\ [][Next]_vars

-----------------------------------------------------------------------------
\* The numbers in use are 1 to len.
Contiguous == Numbers = 1 .. PortsAmount

\* The type of every variable.
TypeOK ==
    /\ {lastOnly, connected} \subseteq BOOLEAN
    /\ IsFiniteSet(Numbers) /\ Numbers \subseteq Nat \ {0}
    /\ Held \subseteq Ports
    /\ closed \subseteq Ports /\ served \subseteq Ports

\* A port has one number, and a closed one none: close() is called once.
NumberedOnce ==
    /\ \A m, n \in Numbers : secondary[m] = secondary[n] => m = n
    /\ Held \cap closed = {}

\* As long as the application closes its ports last opened first (or all at
\* once), the numbers stay 1 to len.
StaysContiguous == lastOnly => Contiguous

\* Then the table is a registry: every open port is served in every frame and
\* none goes away without close(). Numbers are an implementation detail. (The
\* registry promises nothing to other applications.)
Registry == INSTANCE PortRegistry WITH open <- Held, orderly <- lastOnly
ImplementsRegistry == Registry!Spec

\* Whatever order ports are closed in, a port is only lost without close() by
\* opening another one while a lower number is free.
LostOnlyAtGap ==
    [][\A p \in Held : p \notin Range(secondary') \cup closed' => ~Contiguous]_vars

\* Likewise a frame only passes over an open port while a lower number is free.
UnservedOnlyAtGap ==
    [][served' # served => Held \subseteq served' \/ ~Contiguous]_vars

\* What an application that closes its ports in any order has to fear is all at
\* a gap: while the numbers are 1 to len no port is lost or passed over.
OnlyAtGap == LostOnlyAtGap /\ UnservedOnlyAtGap
=============================================================================
