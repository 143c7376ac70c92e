-------------------------- MODULE PortTable_proofs --------------------------
(***************************************************************************)
(* Proofs about PortTable: for any set of ports, a port has one number, an *)
(* application that closes its ports last opened first keeps the numbers   *)
(* contiguous, and then the table implements PortRegistry.                 *)
(***************************************************************************)
EXTENDS PortTable, FiniteSetTheorems, TLAPS

\* What the steps need of each other: the numbers are only 1 to len because of
\* how len is taken and kept, and a port is only lost if two share a number.
IInv == TypeOK /\ NumberedOnce /\ StaysContiguous

\* The number of ports is a natural number.
LEMMA AmountType == ASSUME TypeOK PROVE PortsAmount \in Nat
BY FS_CardinalityType DEF TypeOK, PortsAmount

\* A table whose numbers are 1 to n has n ports.
LEMMA Amount ==
    ASSUME NEW S, NEW n \in Nat, S = 1 .. n
    PROVE  IsFiniteSet(S) /\ Cardinality(S) = n /\ S \subseteq Nat \ {0}
<1>1. IsFiniteSet(1 .. n) /\ Cardinality(1 .. n) = n
  BY FS_Interval
<1> QED BY <1>1

\* An empty table is contiguous.
LEMMA NoPortsFacts ==
    /\ DOMAIN NoPorts = {} /\ Range(NoPorts) = {}
    /\ IsFiniteSet({}) /\ Cardinality({}) = 0 /\ {} = 1 .. 0
BY FS_EmptySet DEF NoPorts, Range

\* The initial state.
LEMMA InitIInv == Init => IInv
BY NoPortsFacts DEF Init, IInv, TypeOK, NumberedOnce, StaysContiguous, Contiguous,
   Numbers, Held, PortsAmount

\* A new port: the table after open_secondary_port.
LEMMA Opened ==
    ASSUME TypeOK, NEW p \in Ports, OpenSecondaryPort(p)
    PROVE  /\ Numbers' = Numbers \cup {PortsAmount + 1}
           /\ \A n \in Numbers' : secondary'[n] = IF n = PortsAmount + 1 THEN p ELSE secondary[n]
           /\ Held' \subseteq Held \cup {p}
           /\ PortsAmount + 1 \notin Numbers => Held' = Held \cup {p}
BY DEF OpenSecondaryPort, Numbers, Held, Range

\* A port less: the table after close_port.
LEMMA Closed ==
    ASSUME NumberedOnce, NEW n \in Numbers, ClosePort(n)
    PROVE  /\ Numbers' = Numbers \ {n}
           /\ \A m \in Numbers' : secondary'[m] = secondary[m]
           /\ Held' = Held \ {secondary[n]}
           /\ secondary[n] \in Held
<1>1. secondary' = [m \in Numbers \ {n} |-> secondary[m]]
  BY DEF ClosePort, Restrict
<1>2. Numbers' = Numbers \ {n} /\ \A m \in Numbers' : secondary'[m] = secondary[m]
  BY <1>1 DEF Numbers
<1>3. Held' = {secondary[m] : m \in Numbers \ {n}}
  BY <1>1, <1>2 DEF Held, Range, Numbers
<1>4. Held = {secondary[m] : m \in Numbers}
  BY DEF Held, Range, Numbers
<1> QED BY <1>2, <1>3, <1>4 DEF NumberedOnce

\* Opening keeps the invariant: len + 1 is free, or the table has a gap.
LEMMA OpenStep ==
    ASSUME IInv, NEW p \in Ports, OpenSecondaryPort(p)
    PROVE  IInv'
<1> USE DEF IInv
<1>1. PortsAmount \in Nat /\ Numbers' = Numbers \cup {PortsAmount + 1}
  BY AmountType, Opened
<1>2. TypeOK'
  <2>1. IsFiniteSet(Numbers')
    BY Opened, FS_AddElement DEF TypeOK
  <2>2. Numbers' \subseteq Nat \ {0}
    <3>1. Numbers \subseteq Nat \ {0}
      BY DEF TypeOK
    <3> QED BY <3>1, <1>1
  <2> QED BY <2>1, <2>2, Opened DEF TypeOK, OpenSecondaryPort
<1>3. NumberedOnce'
  <2>1. p \notin Held /\ p \notin closed /\ closed' = closed
    BY DEF OpenSecondaryPort, Fresh
  <2>2. \A n \in Numbers : secondary[n] # p
    BY <2>1 DEF Held, Range, Numbers
  <2> QED BY <2>1, <2>2, Opened DEF NumberedOnce
<1>4. StaysContiguous'
  <2> SUFFICES ASSUME lastOnly' PROVE Contiguous'
    BY DEF StaysContiguous
  <2>1. Numbers' = 1 .. PortsAmount + 1
    <3>1. Numbers = 1 .. PortsAmount
      BY DEF StaysContiguous, Contiguous, OpenSecondaryPort
    <3> QED BY <3>1, <1>1
  <2>2. Cardinality(Numbers') = PortsAmount + 1
    BY <2>1, <1>1, Amount
  <2> QED BY <2>1, <2>2 DEF Contiguous, PortsAmount
<1> QED BY <1>2, <1>3, <1>4

\* Closing the port opened last keeps the invariant.
LEMMA CloseStep ==
    ASSUME IInv, NEW n \in Numbers, ClosePort(n)
    PROVE  IInv'
<1> USE DEF IInv
<1>1. PortsAmount \in Nat
  BY AmountType
<1>2. closed' = closed \cup {secondary[n]} /\ UNCHANGED <<lastOnly, connected, served>>
  BY DEF ClosePort
<1>3. TypeOK'
  <2>1. IsFiniteSet(Numbers')
    BY Closed, FS_RemoveElement DEF TypeOK
  <2> QED BY <2>1, <1>2, Closed DEF TypeOK
<1>4. NumberedOnce'
  BY <1>2, Closed DEF NumberedOnce
<1>5. StaysContiguous'
  <2> SUFFICES ASSUME lastOnly' PROVE Contiguous'
    BY DEF StaysContiguous
  <2>1. Numbers = 1 .. PortsAmount
    BY DEF StaysContiguous, Contiguous, ClosePort
  <2>2. n = PortsAmount
    <3>1. PortsAmount \in Numbers /\ n \in 1 .. PortsAmount
      BY <2>1, <1>1
    <3> QED BY <3>1, <1>1 DEF ClosePort
  <2>3. PortsAmount - 1 \in Nat /\ Numbers' = 1 .. PortsAmount - 1
    <3>1. Numbers' = (1 .. PortsAmount) \ {PortsAmount}
      BY <2>1, <2>2, Closed
    <3>2. PortsAmount \in 1 .. PortsAmount
      BY <2>1, <2>2
    <3> QED BY <3>1, <3>2, <1>1
  <2>4. Cardinality(Numbers') = PortsAmount - 1
    BY <2>3, Amount
  <2> QED BY <2>3, <2>4 DEF Contiguous, PortsAmount
<1> QED BY <1>3, <1>4, <1>5

\* Closing everything keeps the invariant.
LEMMA CloseAllStep ==
    ASSUME IInv, lastOnly' = lastOnly, connected' \in BOOLEAN, secondary' = NoPorts,
           closed' = closed \cup Held, served' = served
    PROVE  IInv'
<1>1. Numbers' = {} /\ Held' = {}
  BY NoPortsFacts DEF Numbers, Held
<1>2. TypeOK' /\ NumberedOnce'
  BY <1>1, NoPortsFacts DEF IInv, TypeOK, NumberedOnce
<1>3. Contiguous'
  BY <1>1, NoPortsFacts DEF Contiguous, PortsAmount
<1> QED BY <1>2, <1>3 DEF IInv, StaysContiguous

\* A step that leaves the table alone keeps the invariant.
LEMMA SameTable ==
    ASSUME IInv, connected' \in BOOLEAN, UNCHANGED <<lastOnly, secondary, closed>>, served' \subseteq Ports
    PROVE  IInv'
BY DEF IInv, TypeOK, NumberedOnce, StaysContiguous, Contiguous, Numbers, Held, PortsAmount

\* Every step keeps the invariant.
LEMMA IInvStep == IInv /\ [Next]_vars => IInv'
<1> SUFFICES ASSUME IInv, [Next]_vars PROVE IInv'
  OBVIOUS
<1>1. CASE StartConnection
  BY <1>1, SameTable DEF StartConnection, IInv, TypeOK
<1>2. ASSUME NEW p \in Ports, OpenSecondaryPort(p) PROVE IInv'
  BY <1>2, OpenStep
<1>3. ASSUME NEW n \in Numbers, ClosePort(n) PROVE IInv'
  BY <1>3, CloseStep
<1>4. CASE CloseAllPorts
  BY <1>4, CloseAllStep DEF CloseAllPorts, IInv, TypeOK
<1>5. CASE CloseConnection
  BY <1>5, CloseAllStep DEF CloseConnection
<1>6. CASE Frame
  <2>1. served' \subseteq Held
    BY <1>6 DEF Frame, VisitedNumbers, Held, Range, Numbers
  <2> QED BY <1>6, <2>1, SameTable DEF Frame, IInv, TypeOK
<1>7. CASE UNCHANGED vars
  BY <1>7, SameTable DEF vars, IInv, TypeOK
<1> QED BY <1>1, <1>2, <1>3, <1>4, <1>5, <1>6, <1>7 DEF Next

\* The inductive invariant holds in every behaviour.
THEOREM Invariance == Spec => []IInv
<1> QED BY InitIInv, IInvStep, PTL DEF Spec

\* Every variable keeps its type, for any finite set of ports.
THEOREM TypeCorrect == Spec => []TypeOK
<1>1. IInv => TypeOK
  BY DEF IInv
<1> QED BY <1>1, Invariance, PTL

\* A port has one number, and a closed port none, in whatever order ports are
\* closed: close() is called once.
THEOREM NumberedOnceAlways == Spec => []NumberedOnce
<1>1. IInv => NumberedOnce
  BY DEF IInv
<1> QED BY <1>1, Invariance, PTL

\* An application that closes its ports last opened first keeps the numbers
\* of the secondary ports 1 to len.
THEOREM ContiguousAlways == Spec => []StaysContiguous
<1>1. IInv => StaysContiguous
  BY DEF IInv
<1> QED BY <1>1, Invariance, PTL

\* For an orderly application a step of the table is a step of the registry, or
\* changes nothing there.
LEMMA OrderlyStep ==
    ASSUME lastOnly, IInv, Next
    PROVE  Registry!Step \/ UNCHANGED Registry!vars
<1>0. NumberedOnce /\ TypeOK /\ Numbers = 1 .. PortsAmount /\ PortsAmount \in Nat
  BY AmountType DEF IInv, StaysContiguous, Contiguous
<1>1. CASE StartConnection
  BY <1>1 DEF StartConnection, Registry!vars, Held
<1>2. ASSUME NEW p \in Ports, OpenSecondaryPort(p) PROVE Registry!Step
  <2>1. PortsAmount + 1 \notin Numbers
    BY <1>0
  <2>2. Registry!Open(p)
    BY <1>0, <1>2, <2>1, Opened DEF OpenSecondaryPort, Fresh, Registry!Open
  <2> QED BY <2>2 DEF Registry!Step
<1>3. ASSUME NEW n \in Numbers, ClosePort(n) PROVE Registry!Step
  <2>1. Registry!Close({secondary[n]}) /\ {secondary[n]} \in SUBSET Held
    BY <1>0, <1>3, Closed DEF ClosePort, Registry!Close
  <2> QED BY <2>1 DEF Registry!Step
<1>4. ASSUME secondary' = NoPorts, closed' = closed \cup Held, served' = served
      PROVE  Registry!Step
  <2>1. Held' = {}
    BY <1>4, NoPortsFacts DEF Held
  <2>2. Registry!Close(Held) /\ Held \in SUBSET Held
    BY <1>4, <2>1 DEF Registry!Close
  <2> QED BY <2>2 DEF Registry!Step
<1>5. CASE Frame
  <2>1. VisitedNumbers = Numbers
    BY <1>0 DEF VisitedNumbers
  <2>2. Registry!Frame
    BY <1>5, <2>1 DEF Frame, Registry!Frame, Held, Range, Numbers
  <2> QED BY <2>2 DEF Registry!Step
<1> QED BY <1>1, <1>2, <1>3, <1>4, <1>5 DEF Next, CloseAllPorts, CloseConnection

\* No step changes what kind of application it is.
LEMMA SameApplication == ASSUME [Next]_vars PROVE lastOnly' = lastOnly
BY DEF Next, vars, StartConnection, OpenSecondaryPort, ClosePort, CloseAllPorts, CloseConnection, Frame

\* A step of the table is a step of the registry, or changes nothing there.
LEMMA RegistryStep ==
    ASSUME IInv, [Next]_vars
    PROVE  [Registry!Next]_(Registry!vars)
<1>0. lastOnly' = lastOnly
  BY SameApplication
<1>1. CASE Next /\ lastOnly
  BY <1>0, <1>1, OrderlyStep DEF Registry!Next
<1>2. CASE Next /\ ~lastOnly
  BY <1>0, <1>2 DEF Registry!Next
<1>3. CASE UNCHANGED vars
  BY <1>3 DEF vars, Registry!vars, Held
<1> QED BY <1>1, <1>2, <1>3

\* Closed last opened first, the numbered table implements the registry: every
\* open port is served in every frame and none is lost without close().
THEOREM TableImplementsRegistry == Spec => ImplementsRegistry
<1>1. Init => Registry!Init
  BY NoPortsFacts DEF Init, Registry!Init, Held
<1>2. IInv /\ [Next]_vars => [Registry!Next]_(Registry!vars)
  BY RegistryStep
<1> QED BY <1>1, <1>2, Invariance, PTL DEF Spec, ImplementsRegistry, Registry!Spec

\* In whatever order ports are closed, a port is only lost without close() by
\* an open while a lower number is free.
THEOREM LostOnlyAtGapAlways == Spec => LostOnlyAtGap
<1> DEFINE Lost == \A p \in Held : p \notin Range(secondary') \cup closed' => ~Contiguous
<1>1. ASSUME IInv, Next PROVE Lost
  <2>0. TypeOK /\ NumberedOnce /\ PortsAmount \in Nat
    BY <1>1, AmountType DEF IInv
  <2>1. ASSUME NEW p \in Ports, OpenSecondaryPort(p), Contiguous PROVE Held \subseteq Held'
    <3>1. PortsAmount + 1 \notin Numbers
      BY <2>0, <2>1 DEF Contiguous
    <3> QED BY <2>0, <2>1, <3>1, Opened
  <2>2. ASSUME NEW n \in Numbers, ClosePort(n) PROVE Held \subseteq Held' \cup closed'
    BY <2>0, <2>2, Closed DEF ClosePort
  <2>3. CASE CloseAllPorts \/ CloseConnection
    BY <2>3 DEF CloseAllPorts, CloseConnection
  <2>4. CASE StartConnection \/ Frame
    BY <2>4 DEF StartConnection, Frame, Held
  <2> QED BY <1>1, <2>1, <2>2, <2>3, <2>4 DEF Next, Held
<1>2. IInv /\ [Next]_vars => [Lost]_vars
  BY <1>1
<1> QED BY <1>2, Invariance, PTL DEF Spec, LostOnlyAtGap

\* Likewise a frame only passes over an open port while a lower number is free.
THEOREM UnservedOnlyAtGapAlways == Spec => UnservedOnlyAtGap
<1> DEFINE Served == served' # served => Held \subseteq served' \/ ~Contiguous
<1>1. ASSUME Next PROVE Served
  <2>1. CASE Frame
    BY <2>1 DEF Frame, VisitedNumbers, Contiguous, Held, Range, Numbers
  <2>2. CASE ~Frame
    BY <1>1, <2>2 DEF Next, StartConnection, OpenSecondaryPort, ClosePort, CloseAllPorts,
       CloseConnection
  <2> QED BY <2>1, <2>2
<1> QED BY <1>1, PTL DEF Spec, UnservedOnlyAtGap

\* Closing ports in any order does harm at a gap only.
THEOREM OnlyAtGapAlways == Spec => OnlyAtGap
BY LostOnlyAtGapAlways, UnservedOnlyAtGapAlways DEF OnlyAtGap
=============================================================================
