-------------------------- MODULE PortLives_proofs --------------------------
(***************************************************************************)
(* Proofs about the life of a port, for every number of faults and of      *)
(* ports: the invariants of its starts and that it lives the life PortLife *)
(* promises, as far as safety goes. Each kind of port has an inductive     *)
(* invariant of its own; all three say that one start is under way at a    *)
(* time and that it reports the firstStarted the port still has.           *)
(***************************************************************************)
EXTENDS PortLives, FiniteSetTheorems, SequenceTheorems, TLAPS

-----------------------------------------------------------------------------
(* The steps of PortLife, in terms of the port's flags. *)

LifeStep == [Life!Next]_(Life!vars)

SameNeed == UNCHANGED <<isLocal, hosted>>
Valid == connectsFailed = 0 /\ connectsFailed' = 0

LEMMA LifeStart ==
    ASSUME Valid, SameNeed, alive, alive', ~started, ~starting, ~started', starting',
           UNCHANGED <<firstStarted, told>>
    PROVE  LifeStep
BY DEF LifeStep, Life!Next, Life!Kept, Life!Start, Valid, SameNeed

LEMMA LifeConnect ==
    ASSUME Valid, SameNeed, alive, alive', ~started, starting, started',
           firstStarted' = TRUE, told' = [event |-> "connected", was |-> FALSE]
    PROVE  LifeStep
BY DEF LifeStep, Life!Next, Life!Kept, Life!Connect, Valid, SameNeed

LEMMA LifeDisconnect ==
    ASSUME Valid, SameNeed, alive, alive', started \/ starting, ~started', ~starting',
           firstStarted' = firstStarted,
           told' = [event |-> "disconnected", was |-> firstStarted]
    PROVE  LifeStep
BY DEF LifeStep, Life!Next, Life!Kept, Life!Disconnect, Valid, SameNeed

LEMMA LifeClose ==
    ASSUME Valid, SameNeed, ~alive', UNCHANGED <<firstStarted, told>>
    PROVE  LifeStep
BY DEF LifeStep, Life!Next, Life!Kept, Life!Close, Valid, SameNeed

LEMMA LifeReopen ==
    ASSUME Valid, SameNeed, ~alive, alive', ~started', ~starting', firstStarted' = FALSE,
           told' = [event |-> "nothing", was |-> FALSE]
    PROVE  LifeStep
BY DEF LifeStep, Life!Next, Life!Kept, Life!Reopen, Life!Nothing, Valid, SameNeed

LEMMA LifeStutter ==
    ASSUME UNCHANGED connectsFailed, UNCHANGED (isLocal \/ hosted),
           UNCHANGED <<alive, started, starting, firstStarted, told>>
    PROVE  LifeStep
BY DEF LifeStep, Life!vars

LEMMA LifeNeed ==
    ASSUME Valid, isLocal = FALSE, isLocal' = FALSE, hosted \in BOOLEAN, hosted' = ~hosted,
           UNCHANGED <<alive, started, starting, firstStarted, told>>
    PROVE  LifeStep
<1>1. (isLocal \/ hosted)' = ~(isLocal \/ hosted)
  OBVIOUS
<1>2. Life!Need
  BY <1>1 DEF Life!Need
<1> QED BY <1>2 DEF LifeStep, Life!Next, Life!Kept, Valid

LEMMA LifeVoid ==
    ASSUME connectsFailed' > 0 PROVE LifeStep
BY DEF LifeStep, Life!Next

\* One more and one less at the end of a channel.
LEMMA AppendFacts ==
    ASSUME NEW S, NEW q \in Seq(S), NEW e \in S
    PROVE  /\ Append(q, e) \in Seq(S) /\ Len(Append(q, e)) = Len(q) + 1 /\ Len(q) \in Nat
           /\ Append(q, e) # <<>> /\ (q = <<>> <=> Len(q) = 0)
           /\ \A P : (\A k \in 1..Len(q) : q[k] = P) /\ e = P
                     => \A k \in 1..Len(Append(q, e)) : Append(q, e)[k] = P
BY AppendProperties, LenProperties, EmptySeq

LEMMA TailFacts ==
    ASSUME NEW S, NEW q \in Seq(S), q # <<>>
    PROVE  /\ Tail(q) \in Seq(S) /\ Len(Tail(q)) = Len(q) - 1 /\ Len(q) \in Nat \ {0}
           /\ Head(q) \in S /\ Head(q) = q[1] /\ (Tail(q) = <<>> <=> Len(Tail(q)) = 0)
           /\ \A P : (\A k \in 1..Len(q) : q[k] = P)
                     => Head(q) = P /\ \A k \in 1..Len(Tail(q)) : Tail(q)[k] = P
<1>1. /\ Tail(q) \in Seq(S) /\ Len(Tail(q)) = Len(q) - 1 /\ Len(q) \in Nat \ {0}
      /\ Head(q) \in S /\ \A i \in 1 .. Len(Tail(q)) : Tail(q)[i] = q[i+1]
  BY HeadTailProperties, EmptySeq
<1>2. Head(q) = q[1]
  OBVIOUS
<1>3. Tail(q) = <<>> <=> Len(Tail(q)) = 0
  BY <1>1, EmptySeq
<1> QED BY <1>1, <1>2, <1>3

-----------------------------------------------------------------------------
(* A client's TCP port. *)

\* A report waits while the port is up only where the same frame takes it, and
\* is then of the stream the port holds; every start reports what firstStarted
\* was when it began, and it still is.
TcpReports ==
    alive =>
        /\ started /\ stage # "check_port_disconnected" => downedChan = <<>>
        /\ started /\ downedChan # <<>> => wire[readHalf] = "reset"
        /\ \A k \in 1..Len(tasks) : tasks[k] = firstStarted
        /\ \A k \in 1..Len(downedChan) : downedChan[k] = firstStarted

TcpInv == TcpClient!TypeOK /\ TcpClient!OneStart /\ TcpReports

\* A step keeps the invariant, takes the port down for a reason only, and is
\* one of PortLife.
TcpOK == TcpInv' /\ TcpClient!DownJustified /\ LifeStep

LEMMA TcpInit == TcpClient!Init => TcpInv
<1> SUFFICES ASSUME TcpClient!Init PROVE TcpInv OBVIOUS
<1> USE DEF TcpClient!Init
<1>1. \A S : <<>> \in Seq(S) /\ Len(<<>>) = 0
  BY EmptySeq
<1>2. TcpClient!TypeOK
  <2>1. tasks \in Seq(BOOLEAN) /\ downedChan \in Seq(BOOLEAN)
        /\ wire \in Seq({"open", "fin", "reset"}) /\ streamChan \in Seq(1..Len(wire))
    BY <1>1
  <2>2. readHalf \in 0..Len(wire) /\ faults \in 0..MaxFaults
    BY <1>1, LivesBoundsAssumption DEF TcpClient!NoStream
  <2>3. told \in [event : {"nothing", "connected", "disconnected"}, was : BOOLEAN]
    OBVIOUS
  <2> QED BY <2>1, <2>2, <2>3 DEF TcpClient!TypeOK, TcpClient!Stages
<1>3. TcpClient!OneStart /\ TcpReports
  BY <1>1 DEF TcpClient!OneStart, TcpReports, TcpClient!NoStream
<1> QED BY <1>2, <1>3 DEF TcpInv

\* What the invariant says of the lengths of the channels.
LEMMA TcpFacts ==
    ASSUME TcpInv, alive
    PROVE  /\ Len(tasks) \in Nat /\ Len(streamChan) \in Nat /\ Len(downedChan) \in Nat
           /\ (tasks = <<>> <=> Len(tasks) = 0) /\ (streamChan = <<>> <=> Len(streamChan) = 0)
           /\ (downedChan = <<>> <=> Len(downedChan) = 0)
           /\ Len(tasks) + Len(streamChan) + Len(downedChan) <= 1
           /\ started \in BOOLEAN /\ starting \in BOOLEAN /\ firstStarted \in BOOLEAN
           /\ Len(wire) \in Nat /\ \A st \in 1..Len(wire) : wire[st] \in {"open", "fin", "reset"}
<1>1. \A S : \A q \in Seq(S) : Len(q) \in Nat /\ (q = <<>> <=> Len(q) = 0)
  BY EmptySeq, LenProperties
<1> QED BY <1>1, ElementOfSeq DEF TcpInv, TcpClient!TypeOK, TcpClient!OneStart

\* Steps that leave the starts and the streams alone.
LEMMA TcpQuiet ==
    ASSUME TcpInv, stage' \in TcpClient!Stages, isLocal' \in BOOLEAN, hosted' \in BOOLEAN,
           faults' \in 0..MaxFaults,
           UNCHANGED <<alive, started, starting, firstStarted, readHalf, tasks, streamChan,
                       downedChan, wire, told>>,
           alive /\ started /\ stage' # "check_port_disconnected" => downedChan = <<>>
    PROVE  TcpInv' /\ TcpClient!DownJustified
<1>1. TcpClient!TypeOK'
  BY DEF TcpInv, TcpClient!TypeOK
<1>2. TcpClient!OneStart'
  BY DEF TcpInv, TcpClient!OneStart
<1>3. TcpReports'
  BY DEF TcpInv, TcpReports
<1>4. TcpClient!DownJustified
  BY DEF TcpClient!DownJustified
<1> QED BY <1>1, <1>2, <1>3, <1>4 DEF TcpInv

LEMMA TcpStartPorts ==
    ASSUME TcpInv, Valid, TcpClient!StartPorts PROVE TcpOK
<1> USE DEF TcpClient!StartPorts, TcpClient!GoTo, TcpClient!Stages
<1>0. /\ alive /\ alive' /\ stage' = "start_listening_ports" /\ UNCHANGED <<wire, hosted, faults>>
      /\ stage # "check_port_disconnected"
  OBVIOUS
<1>1. CASE TcpClient!BecomeLocal
  <2> USE <1>1 DEF TcpClient!BecomeLocal, TcpClient!flags, TcpClient!chans
  <2>1. TcpInv' /\ TcpClient!DownJustified
    <3>1. alive /\ started => downedChan = <<>>
      BY <1>0 DEF TcpInv, TcpReports
    <3> QED BY <3>1, TcpQuiet DEF TcpInv, TcpClient!TypeOK
  <2>2. LifeStep
    BY LifeStutter DEF Valid
  <2> QED BY <2>1, <2>2 DEF TcpOK
<1>2. CASE TcpClient!TakeStream
  <2> USE <1>2 DEF TcpClient!TakeStream, TcpClient!Remote
  <2>1. streamChan \in Seq(1..Len(wire)) /\ streamChan # <<>>
    BY DEF TcpInv, TcpClient!TypeOK
  <2>2. /\ Head(streamChan) \in 1..Len(wire) /\ Tail(streamChan) \in Seq(1..Len(wire))
        /\ Len(Tail(streamChan)) = Len(streamChan) - 1 /\ Len(streamChan) \in Nat \ {0}
        /\ (Tail(streamChan) = <<>> <=> Len(Tail(streamChan)) = 0)
    BY <2>1, TailFacts
  <2>3. tasks = <<>> /\ downedChan = <<>> /\ Tail(streamChan) = <<>> /\ Len(streamChan) = 1
    BY <1>0, <2>2, TcpFacts
  <2>4. Len(wire) \in Nat /\ Len(<<>>) = 0
    BY <1>0, TcpFacts, EmptySeq
  <2>5. TcpClient!TypeOK'
    <3>1. readHalf' \in 0..Len(wire)' /\ streamChan' \in Seq(1..Len(wire))'
      BY <2>2, <2>4
    <3> QED BY <3>1 DEF TcpInv, TcpClient!TypeOK
  <2>6. TcpClient!OneStart'
    BY <2>2, <2>3, <2>4 DEF TcpClient!OneStart, TcpClient!NoStream
  <2>7. TcpReports'
    BY <2>3, <2>4 DEF TcpReports
  <2>8. LifeStep
    BY <1>0, <2>1, LifeConnect DEF SameNeed, TcpInv, TcpClient!OneStart
  <2> QED BY <2>5, <2>6, <2>7, <2>8 DEF TcpOK, TcpInv, TcpClient!DownJustified
<1>3. CASE TcpClient!SpawnTask
  <2> USE <1>3 DEF TcpClient!SpawnTask, TcpClient!Remote, TcpClient!chans
  <2>1. tasks = <<>> /\ streamChan = <<>> /\ downedChan = <<>> /\ readHalf = TcpClient!NoStream
    BY <1>0 DEF TcpInv, TcpClient!OneStart
  <2>2. /\ tasks' \in Seq(BOOLEAN) /\ tasks' # <<>> /\ Len(tasks') = 1 /\ Len(<<>>) = 0
        /\ \A k \in 1..Len(tasks') : tasks'[k] = firstStarted
    BY <2>1, AppendFacts, EmptySeq DEF TcpInv, TcpClient!TypeOK
  <2>3. TcpClient!TypeOK'
    BY <2>2 DEF TcpInv, TcpClient!TypeOK
  <2>4. TcpClient!OneStart'
    BY <2>1, <2>2 DEF TcpClient!OneStart
  <2>5. TcpReports'
    BY <2>1, <2>2 DEF TcpReports
  <2>6. LifeStep
    BY <1>0, LifeStart DEF SameNeed
  <2> QED BY <2>3, <2>4, <2>5, <2>6 DEF TcpOK, TcpInv, TcpClient!DownJustified
<1>4. CASE TcpClient!NothingToStart
  <2> USE <1>4 DEF TcpClient!NothingToStart, TcpClient!flags, TcpClient!chans
  <2>1. TcpInv' /\ TcpClient!DownJustified
    <3>1. alive /\ started => downedChan = <<>>
      BY <1>0 DEF TcpInv, TcpReports
    <3> QED BY <3>1, TcpQuiet DEF TcpInv, TcpClient!TypeOK
  <2>2. LifeStep
    BY LifeStutter DEF Valid
  <2> QED BY <2>1, <2>2 DEF TcpOK
<1> QED BY <1>1, <1>2, <1>3, <1>4

LEMMA TcpListening ==
    ASSUME TcpInv, Valid, TcpClient!StartListeningPorts PROVE TcpOK
<1> USE DEF TcpClient!StartListeningPorts, TcpClient!GoTo, TcpClient!flags
<1>0. alive /\ alive' /\ stage # "check_port_disconnected" /\ stage' = "check_port_disconnected"
  OBVIOUS
<1>1. LifeStep
  BY LifeStutter DEF Valid
<1>2. CASE ~TcpClient!ReadFails
  <2>1. TcpInv' /\ TcpClient!DownJustified
    BY <1>2, TcpQuiet DEF TcpInv, TcpClient!TypeOK, TcpClient!Stages
  <2> QED BY <1>1, <2>1 DEF TcpOK
<1>3. CASE TcpClient!ReadFails
  <2>1. started /\ wire[readHalf] = "reset"
    BY <1>0, <1>3 DEF TcpClient!ReadFails, TcpInv, TcpClient!OneStart
  <2>2. tasks = <<>> /\ streamChan = <<>> /\ downedChan = <<>> /\ ~starting
    BY <1>0, <2>1 DEF TcpInv, TcpClient!OneStart, TcpReports
  <2>3. /\ downedChan' \in Seq(BOOLEAN) /\ downedChan' # <<>> /\ Len(downedChan') = 1
        /\ Len(<<>>) = 0 /\ \A k \in 1..Len(downedChan') : downedChan'[k] = firstStarted
    BY <1>3, <2>2, AppendFacts, EmptySeq DEF TcpInv, TcpClient!TypeOK
  <2>4. TcpClient!TypeOK'
    BY <2>3 DEF TcpInv, TcpClient!TypeOK, TcpClient!Stages
  <2>5. TcpClient!OneStart'
    BY <1>0, <2>1, <2>2, <2>3 DEF TcpInv, TcpClient!OneStart
  <2>6. TcpReports'
    BY <1>0, <2>1, <2>2, <2>3 DEF TcpReports
  <2> QED BY <1>1, <2>1, <2>4, <2>5, <2>6 DEF TcpOK, TcpInv, TcpClient!DownJustified
<1> QED BY <1>2, <1>3

LEMMA TcpDisconnected ==
    ASSUME TcpInv, Valid, TcpClient!CheckPortDisconnected PROVE TcpOK
<1> USE DEF TcpClient!CheckPortDisconnected, TcpClient!GoTo
<1>0. alive /\ alive' /\ stage' = "app" /\ UNCHANGED <<tasks, streamChan, wire, isLocal, hosted, faults>>
  OBVIOUS
<1>1. CASE TcpClient!PortDown
  <2> USE <1>1 DEF TcpClient!PortDown
  <2>1. downedChan \in Seq(BOOLEAN) /\ downedChan # <<>>
    BY DEF TcpInv, TcpClient!TypeOK
  <2>2. /\ Tail(downedChan) \in Seq(BOOLEAN) /\ Len(Tail(downedChan)) = Len(downedChan) - 1
        /\ Len(downedChan) \in Nat \ {0} /\ (Tail(downedChan) = <<>> <=> Len(Tail(downedChan)) = 0)
        /\ Head(downedChan) = downedChan[1] /\ Head(downedChan) \in BOOLEAN
    BY <2>1, TailFacts
  <2>3. tasks = <<>> /\ streamChan = <<>> /\ Tail(downedChan) = <<>> /\ Len(downedChan) = 1
    BY <1>0, <2>2, TcpFacts
  <2>4. Head(downedChan) = firstStarted /\ Len(<<>>) = 0
    BY <1>0, <2>2, <2>3, EmptySeq DEF TcpInv, TcpReports
  <2>5. TcpClient!TypeOK'
    <3>1. Len(wire) \in Nat
      BY <1>0, TcpFacts
    <3>2. readHalf' \in 0..Len(wire)' /\ downedChan' \in Seq(BOOLEAN)
      BY <2>2, <3>1 DEF TcpClient!NoStream
    <3> QED BY <2>2, <3>2 DEF TcpInv, TcpClient!TypeOK, TcpClient!Stages
  <2>6. TcpClient!OneStart'
    <3>1. tasks' = <<>> /\ streamChan' = <<>> /\ downedChan' = <<>>
      BY <2>3
    <3>2. Len(tasks') = 0 /\ Len(streamChan') = 0 /\ Len(downedChan') = 0
      BY <2>4, <3>1, Zenon
    <3>4. ~started' /\ ~starting' /\ readHalf' = TcpClient!NoStream
      OBVIOUS
    <3> HIDE DEF TcpClient!CheckPortDisconnected, TcpClient!PortDown
    <3>3. Len(tasks') + Len(streamChan') + Len(downedChan') <= 1
      BY <3>2
    <3> QED BY <3>1, <3>3, <3>4 DEF TcpClient!OneStart
  <2>7. TcpReports'
    BY <2>3, <2>4 DEF TcpReports
  <2>8. TcpClient!DownJustified
    BY <1>0, <2>1 DEF TcpClient!DownJustified, TcpInv, TcpReports
  <2>9. LifeStep
    <3>1. started \/ starting
      BY <1>0, <2>1 DEF TcpInv, TcpClient!OneStart
    <3> QED BY <1>0, <2>4, <3>1, LifeDisconnect DEF SameNeed
  <2> QED BY <2>5, <2>6, <2>7, <2>8, <2>9 DEF TcpOK, TcpInv
<1>2. CASE TcpClient!PortUp
  <2> USE <1>2 DEF TcpClient!PortUp, TcpClient!flags
  <2>1. TcpInv' /\ TcpClient!DownJustified
    BY TcpQuiet DEF TcpInv, TcpClient!TypeOK, TcpClient!Stages
  <2>2. LifeStep
    BY LifeStutter DEF Valid
  <2> QED BY <2>1, <2>2 DEF TcpOK
<1> QED BY <1>1, <1>2

LEMMA TcpFrameEnds ==
    ASSUME TcpInv, Valid, TcpClient!EndFrame \/ TcpClient!SkipSystem PROVE TcpOK
<1> USE DEF TcpClient!EndFrame, TcpClient!SkipSystem, TcpClient!GoTo, TcpClient!flags,
            TcpClient!chans
<1>1. TcpInv' /\ TcpClient!DownJustified
  BY TcpQuiet DEF TcpInv, TcpClient!TypeOK, TcpClient!Stages, TcpReports
<1>2. LifeStep
  BY LifeStutter DEF Valid
<1> QED BY <1>1, <1>2 DEF TcpOK

LEMMA TcpHost ==
    ASSUME TcpInv, Valid, TcpClient!Host PROVE TcpOK
<1> USE DEF TcpClient!Host, TcpClient!flags, TcpClient!chans
<1>1. TcpInv' /\ TcpClient!DownJustified
  <2>1. faults' \in 0..MaxFaults
    BY LivesBoundsAssumption DEF TcpInv, TcpClient!TypeOK
  <2> QED BY <2>1, TcpQuiet DEF TcpInv, TcpClient!TypeOK, TcpReports
<1>2. LifeStep
  <2>1. isLocal \in BOOLEAN /\ hosted \in BOOLEAN
    BY DEF TcpInv, TcpClient!TypeOK
  <2>2. CASE isLocal = TRUE
    BY <2>2, LifeStutter DEF Valid
  <2>3. CASE isLocal = FALSE
    BY <2>1, <2>3, LifeNeed
  <2> QED BY <2>1, <2>2, <2>3
<1> QED BY <1>1, <1>2 DEF TcpOK

LEMMA TcpClose ==
    ASSUME TcpInv, Valid, TcpClient!Close PROVE TcpOK
<1> USE DEF TcpClient!Close, TcpClient!flags
<1>1. TcpClient!TypeOK'
  <2>1. \A S : <<>> \in Seq(S)
    BY EmptySeq
  <2>2. Len(wire) \in Nat
    BY LenProperties DEF TcpInv, TcpClient!TypeOK
  <2>3. readHalf' \in 0..Len(wire)'
    BY <2>2 DEF TcpClient!NoStream
  <2>4. tasks' \in Seq(BOOLEAN)
    BY <2>1 DEF TcpInv, TcpClient!TypeOK
  <2> QED BY <2>1, <2>3, <2>4 DEF TcpInv, TcpClient!TypeOK
<1>2. TcpClient!OneStart' /\ TcpReports' /\ TcpClient!DownJustified
  BY DEF TcpClient!OneStart, TcpReports, TcpClient!DownJustified
<1>3. LifeStep
  BY LifeClose DEF SameNeed
<1> QED BY <1>1, <1>2, <1>3 DEF TcpOK, TcpInv

\* The task that connected or failed was the only start under way.
LEMMA TcpTask ==
    ASSUME TcpInv, tasks # <<>>
    PROVE  /\ Tail(tasks) \in Seq(BOOLEAN) /\ Head(tasks) \in BOOLEAN /\ Len(<<>>) = 0
           /\ alive => /\ ~started /\ starting /\ readHalf = TcpClient!NoStream
                       /\ Tail(tasks) = <<>> /\ streamChan = <<>> /\ downedChan = <<>>
                       /\ Head(tasks) = firstStarted
<1>1. tasks \in Seq(BOOLEAN)
  BY DEF TcpInv, TcpClient!TypeOK
<1>2. /\ Tail(tasks) \in Seq(BOOLEAN) /\ Len(Tail(tasks)) = Len(tasks) - 1
      /\ Len(tasks) \in Nat \ {0} /\ (Tail(tasks) = <<>> <=> Len(Tail(tasks)) = 0)
      /\ Head(tasks) = tasks[1] /\ Head(tasks) \in BOOLEAN
  BY <1>1, TailFacts
<1>3. ASSUME alive PROVE Tail(tasks) = <<>> /\ streamChan = <<>> /\ downedChan = <<>>
  BY <1>2, <1>3, TcpFacts
<1>4. ASSUME alive PROVE ~started /\ starting /\ readHalf = TcpClient!NoStream
  BY <1>4 DEF TcpInv, TcpClient!OneStart
<1>5. ASSUME alive PROVE Head(tasks) = firstStarted
  BY <1>2, <1>5 DEF TcpInv, TcpReports
<1> QED BY <1>2, <1>3, <1>4, <1>5, EmptySeq

LEMMA TcpConnectOk ==
    ASSUME TcpInv, Valid, TcpClient!ConnectOk PROVE TcpOK
<1> USE DEF TcpClient!ConnectOk, TcpClient!flags
<1>1. wire \in Seq({"open", "fin", "reset"}) /\ streamChan \in Seq(1..Len(wire))
      /\ readHalf \in 0..Len(wire)
  BY DEF TcpInv, TcpClient!TypeOK
<1>2. /\ wire' \in Seq({"open", "fin", "reset"}) /\ Len(wire') = Len(wire) + 1 /\ Len(wire) \in Nat
      /\ \A st \in 1..Len(wire) : wire'[st] = wire[st]
  BY <1>1, AppendFacts, AppendProperties
<1>3. streamChan \in Seq(1..Len(wire'))
  <2>1. 1..Len(wire) \subseteq 1..Len(wire')
    BY <1>2
  <2> QED BY <1>1, <2>1, SeqMonotonic
<1>4. /\ Append(streamChan, Len(wire')) \in Seq(1..Len(wire'))
      /\ Append(streamChan, Len(wire')) # <<>>
      /\ Len(Append(streamChan, Len(wire'))) = Len(streamChan) + 1
  BY <1>2, <1>3, AppendFacts
<1>5. TcpClient!TypeOK'
  <2>1. readHalf' \in 0..Len(wire)'
    <3>1. readHalf' = readHalf /\ readHalf \in 0..Len(wire)
      BY <1>1
    <3> HIDE DEF TcpClient!ConnectOk
    <3> QED BY <1>2, <3>1
  <2>2. streamChan' \in Seq(1..Len(wire))'
    BY <1>3, <1>4
  <2> QED BY <1>2, <2>1, <2>2, TcpTask DEF TcpInv, TcpClient!TypeOK
<1>6. TcpClient!OneStart'
  <2>1. ASSUME alive PROVE tasks' = <<>> /\ downedChan' = <<>> /\ Len(streamChan') = 1
    BY <1>4, <2>1, TcpTask
  <2>2. ASSUME alive PROVE Len(tasks') + Len(streamChan') + Len(downedChan') <= 1
    BY <2>1, <2>2, TcpTask
  <2> QED BY <1>4, <2>1, <2>2, TcpTask DEF TcpClient!OneStart
<1>7. TcpReports'
  <2>1. ASSUME alive PROVE ~started' /\ tasks' = <<>> /\ downedChan' = <<>> /\ Len(<<>>) = 0
    BY <2>1, TcpTask
  <2> QED BY <2>1 DEF TcpReports
<1>8. LifeStep
  BY LifeStutter DEF Valid
<1> QED BY <1>5, <1>6, <1>7, <1>8 DEF TcpOK, TcpInv, TcpClient!DownJustified

LEMMA TcpConnectErr ==
    ASSUME TcpInv, Valid, TcpClient!ConnectErr PROVE TcpOK
<1> USE DEF TcpClient!ConnectErr, TcpClient!flags
<1>1. downedChan \in Seq(BOOLEAN) /\ faults' \in 0..MaxFaults
  BY LivesBoundsAssumption DEF TcpInv, TcpClient!TypeOK
<1>2. /\ Append(downedChan, Head(tasks)) \in Seq(BOOLEAN)
      /\ Append(downedChan, Head(tasks)) # <<>>
      /\ Len(Append(downedChan, Head(tasks))) = Len(downedChan) + 1
      /\ alive => \A k \in 1..Len(Append(downedChan, Head(tasks))) :
                    Append(downedChan, Head(tasks))[k] = firstStarted
  <2>1. Head(tasks) \in BOOLEAN /\ (alive => downedChan = <<>> /\ Head(tasks) = firstStarted)
        /\ Len(<<>>) = 0
    BY TcpTask
  <2>2. ASSUME alive PROVE \A k \in 1..Len(downedChan) : downedChan[k] = firstStarted
    BY <2>1, <2>2
  <2> QED BY <1>1, <2>1, <2>2, AppendFacts
<1>3. TcpClient!TypeOK'
  BY <1>1, <1>2, TcpTask DEF TcpInv, TcpClient!TypeOK
<1>4. TcpClient!OneStart'
  <2>1. ASSUME alive PROVE tasks' = <<>> /\ streamChan' = <<>> /\ Len(downedChan') = 1
    BY <1>2, <2>1, TcpTask
  <2>2. ASSUME alive PROVE Len(tasks') + Len(streamChan') + Len(downedChan') <= 1
    BY <2>1, <2>2, TcpTask
  <2> QED BY <1>2, <2>1, <2>2, TcpTask DEF TcpClient!OneStart
<1>5. TcpReports'
  <2>1. ASSUME alive PROVE ~started' /\ tasks' = <<>> /\ Len(<<>>) = 0
    BY <2>1, TcpTask
  <2> QED BY <1>2, <2>1 DEF TcpReports
<1>6. LifeStep
  BY LifeStutter DEF Valid
<1> QED BY <1>3, <1>4, <1>5, <1>6 DEF TcpOK, TcpInv, TcpClient!DownJustified

\* A stream in another state; one that was reset stays so.
LEMMA TcpWire ==
    ASSUME TcpInv, Valid, NEW st \in 1..Len(wire), wire[st] # "reset",
           NEW how \in {"fin", "reset"}, wire' = [wire EXCEPT ![st] = how],
           faults' \in 0..MaxFaults,
           UNCHANGED <<stage, alive, started, starting, firstStarted, readHalf, tasks,
                       streamChan, downedChan, isLocal, hosted, told>>
    PROVE  TcpOK
<1>1. /\ wire' \in Seq({"open", "fin", "reset"}) /\ Len(wire') = Len(wire)
      /\ \A j \in 1..Len(wire) : wire'[j] = IF j = st THEN how ELSE wire[j]
  BY ExceptSeq DEF TcpInv, TcpClient!TypeOK
<1>2. TcpClient!TypeOK'
  BY <1>1 DEF TcpInv, TcpClient!TypeOK
<1>3. TcpClient!OneStart'
  BY DEF TcpInv, TcpClient!OneStart
<1>4. TcpReports'
  <2>1. ASSUME alive, started, downedChan # <<>> PROVE wire'[readHalf] = "reset"
    <3>1. wire[readHalf] = "reset" /\ readHalf \in 1..Len(wire)
      <4>1. readHalf \in 0..Len(wire) /\ readHalf # 0 /\ Len(wire) \in Nat
        BY <2>1, LenProperties DEF TcpInv, TcpClient!TypeOK, TcpClient!OneStart, TcpClient!NoStream
      <4> QED BY <2>1, <4>1 DEF TcpInv, TcpReports
    <3> QED BY <1>1, <3>1
  <2> QED BY <2>1 DEF TcpInv, TcpReports
<1>5. LifeStep
  BY LifeStutter DEF Valid
<1> QED BY <1>2, <1>3, <1>4, <1>5 DEF TcpOK, TcpInv, TcpClient!DownJustified

LEMMA TcpSend ==
    ASSUME TcpInv, Valid, TcpClient!Send PROVE TcpOK
<1>1. readHalf \in 1..Len(wire)
  <2>1. Len(wire) \in Nat
    BY LenProperties DEF TcpInv, TcpClient!TypeOK
  <2> QED BY <2>1 DEF TcpClient!Send, TcpInv, TcpClient!TypeOK, TcpClient!NoStream
<1> QED BY <1>1, TcpWire
        DEF TcpClient!Send, TcpInv, TcpClient!TypeOK, TcpClient!flags, TcpClient!chans

LEMMA TcpLoseStream ==
    ASSUME TcpInv, Valid, NEW st \in DOMAIN wire, TcpClient!LoseStream(st) PROVE TcpOK
<1>1. st \in 1..Len(wire)
  BY LenProperties DEF TcpInv, TcpClient!TypeOK
<1>2. faults' \in 0..MaxFaults
  BY LivesBoundsAssumption DEF TcpClient!LoseStream, TcpInv, TcpClient!TypeOK
<1> QED BY <1>1, <1>2, TcpWire DEF TcpClient!LoseStream, TcpClient!flags, TcpClient!chans

LEMMA TcpStep ==
    ASSUME TcpInv, Valid, TcpClient!Next PROVE TcpOK
BY TcpStartPorts, TcpListening, TcpDisconnected, TcpFrameEnds, TcpHost, TcpClose, TcpConnectOk,
   TcpConnectErr, TcpSend, TcpLoseStream
   DEF TcpClient!Next, TcpClient!FrameStep, TcpClient!Answer

-----------------------------------------------------------------------------
(* A client's UDP port. *)

\* What a start has put somewhere - a task, a socket, a report - is one, and one
\* more for every connect that failed; the port's own place, which is taken
\* unless a start is under way, counts.
PlacesCounted ==
    alive => Len(tasks) + Len(socketChan) + Len(downedChan)
               + (IF started \/ ~starting THEN 1 ELSE 0) <= 1 + connectsFailed

\* Until a connect fails, starts report what firstStarted was, and still is.
UdpReports ==
    alive /\ connectsFailed = 0 =>
        /\ \A k \in 1..Len(tasks) : tasks[k].first = firstStarted
        /\ \A k \in 1..Len(downedChan) : downedChan[k] = firstStarted

UdpInv == UdpClient!TypeOK /\ connectsFailed <= faults /\ PlacesCounted /\ UdpReports

UdpOK == UdpInv' /\ UdpClient!DownJustified /\ LifeStep

LEMMA UdpInit == UdpClient!Init => UdpInv
<1> SUFFICES ASSUME UdpClient!Init PROVE UdpInv OBVIOUS
<1> USE DEF UdpClient!Init
<1>1. \A S : <<>> \in Seq(S) /\ Len(<<>>) = 0
  BY EmptySeq
<1>2. UdpClient!TypeOK
  <2>1. /\ tasks \in Seq([phase : {"binding", "unconnected"}, first : BOOLEAN])
        /\ socketChan \in Seq(UdpClient!Sockets) /\ downedChan \in Seq(BOOLEAN)
    BY <1>1
  <2>2. connectsFailed \in 0..MaxFaults /\ faults \in 0..MaxFaults
    BY LivesBoundsAssumption
  <2>3. told \in [event : {"nothing", "connected", "disconnected"}, was : BOOLEAN]
    OBVIOUS
  <2> QED BY <2>1, <2>2, <2>3 DEF UdpClient!TypeOK, UdpClient!Stages
<1>3. PlacesCounted /\ UdpReports
  BY <1>1 DEF PlacesCounted, UdpReports
<1> QED BY <1>2, <1>3 DEF UdpInv

\* The types of the numbers the invariant adds up.
LEMMA UdpFacts ==
    ASSUME UdpInv
    PROVE  /\ Len(tasks) \in Nat /\ Len(socketChan) \in Nat /\ Len(downedChan) \in Nat
           /\ (socketChan = <<>> <=> Len(socketChan) = 0)
           /\ (downedChan = <<>> <=> Len(downedChan) = 0)
           /\ started \in BOOLEAN /\ starting \in BOOLEAN /\ firstStarted \in BOOLEAN
           /\ connectsFailed \in Nat /\ faults \in 0..MaxFaults /\ MaxFaults \in Nat
<1>1. \A S : \A q \in Seq(S) : Len(q) \in Nat /\ (q = <<>> <=> Len(q) = 0)
  BY EmptySeq, LenProperties
<1> QED BY <1>1, LivesBoundsAssumption DEF UdpInv, UdpClient!TypeOK

\* A task that ends is taken out of the sequence of tasks.
LEMMA EndsFacts ==
    ASSUME NEW S, NEW q \in Seq(S), NEW i \in 1..Len(q)
    PROVE  LET r == SubSeq(q, 1, i - 1) \o SubSeq(q, i + 1, Len(q))
           IN  /\ r \in Seq(S) /\ Len(r) = Len(q) - 1
               /\ \A k \in 1..Len(r) : \E j \in 1..Len(q) : r[k] = q[j]
<1> DEFINE a == SubSeq(q, 1, i - 1)
           b == SubSeq(q, i + 1, Len(q))
<1>1. Len(q) \in Nat /\ \A j \in 1..Len(q) : q[j] \in S
  BY LenProperties, ElementOfSeq
<1>2. a \in Seq(S) /\ Len(a) = i - 1 /\ \A k \in 1..(i - 1) : a[k] = q[k]
  <2>1. 1 \in Int /\ i - 1 \in Int /\ \A j \in 1..(i - 1) : q[j] \in S
    BY <1>1
  <2>2. /\ a \in Seq(S) /\ Len(a) = IF 1 <= i - 1 THEN (i - 1) - 1 + 1 ELSE 0
        /\ \A k \in 1..((i - 1) - 1 + 1) : a[k] = q[1 + k - 1]
    BY <2>1, SubSeqProperties
  <2> HIDE DEF a
  <2> QED BY <1>1, <2>2
<1>3. b \in Seq(S) /\ Len(b) = Len(q) - i /\ \A k \in 1..(Len(q) - i) : b[k] = q[i + k]
  <2>1. i + 1 \in Int /\ Len(q) \in Int /\ \A j \in (i + 1)..Len(q) : q[j] \in S
    BY <1>1
  <2>2. /\ b \in Seq(S) /\ Len(b) = IF i + 1 <= Len(q) THEN Len(q) - (i + 1) + 1 ELSE 0
        /\ \A k \in 1..(Len(q) - (i + 1) + 1) : b[k] = q[(i + 1) + k - 1]
    BY <2>1, SubSeqProperties
  <2> HIDE DEF b
  <2> QED BY <1>1, <2>2
<1> HIDE DEF a, b
<1>4. /\ a \o b \in Seq(S) /\ Len(a \o b) = Len(a) + Len(b)
      /\ \A k \in 1..(Len(a) + Len(b)) :
           (a \o b)[k] = IF k <= Len(a) THEN a[k] ELSE b[k - Len(a)]
  BY <1>2, <1>3, ConcatProperties
<1>5. Len(a \o b) = Len(q) - 1
  BY <1>1, <1>2, <1>3, <1>4
<1>6. ASSUME NEW k \in 1..Len(a \o b) PROVE \E j \in 1..Len(q) : (a \o b)[k] = q[j]
  <2>1. CASE k <= i - 1
    BY <1>1, <1>2, <1>3, <1>4, <1>5, <2>1
  <2>2. CASE ~(k <= i - 1)
    <3>1. k - (i - 1) \in 1..(Len(q) - i) /\ i + (k - (i - 1)) = k + 1 /\ k + 1 \in 1..Len(q)
      BY <1>1, <1>5, <2>2
    <3>2. (a \o b)[k] = b[k - (i - 1)]
      BY <1>1, <1>2, <1>3, <1>4, <1>5, <2>2
    <3> QED BY <1>3, <3>1, <3>2
  <2> QED BY <2>1, <2>2
<1> QED BY <1>4, <1>5, <1>6 DEF a, b

\* Steps that leave the starts alone.
LEMMA UdpQuiet ==
    ASSUME UdpInv, SameNeed, stage' \in UdpClient!Stages, late' \in BOOLEAN,
           faults' \in 0..MaxFaults, faults <= faults',
           UNCHANGED <<alive, started, starting, firstStarted, udpSocket, tasks, socketChan,
                       downedChan, told, connectsFailed>>
    PROVE  UdpOK
<1>1. UdpClient!TypeOK'
  BY DEF UdpInv, UdpClient!TypeOK
<1>2. connectsFailed' <= faults'
  BY UdpFacts DEF UdpInv
<1>3. PlacesCounted' /\ UdpReports'
  BY DEF UdpInv, PlacesCounted, UdpReports
<1>4. LifeStep
  BY LifeStutter DEF SameNeed
<1> QED BY <1>1, <1>2, <1>3, <1>4 DEF UdpOK, UdpInv, UdpClient!DownJustified

\* The steps of PortLife, once a connect has failed.
LEMMA UdpVoid ==
    ASSUME UdpInv, connectsFailed' = connectsFailed, connectsFailed # 0 PROVE LifeStep
BY UdpFacts, LifeVoid

LEMMA UdpStartPorts ==
    ASSUME UdpInv, SameNeed, UdpClient!StartPorts PROVE UdpOK
<1> USE DEF UdpClient!StartPorts, UdpClient!GoTo
<1>0. /\ alive /\ alive' /\ stage' \in UdpClient!Stages
      /\ UNCHANGED <<connectsFailed, faults>>
  BY DEF UdpClient!Stages
<1>1. CASE UdpClient!TakeSocket
  <2> USE <1>1 DEF UdpClient!TakeSocket
  <2>1. socketChan \in Seq(UdpClient!Sockets) /\ socketChan # <<>>
    BY DEF UdpInv, UdpClient!TypeOK
  <2>2. /\ Head(socketChan) \in UdpClient!Sockets /\ Tail(socketChan) \in Seq(UdpClient!Sockets)
        /\ Len(Tail(socketChan)) = Len(socketChan) - 1 /\ Len(socketChan) \in Nat \ {0}
    BY <2>1, TailFacts
  <2>3. UdpClient!TypeOK'
    BY <1>0, <2>2 DEF UdpInv, UdpClient!TypeOK
  <2>4. PlacesCounted'
    <3>1. Len(socketChan') = Len(socketChan) - 1
      BY <2>2
    <3>2. Len(tasks) + Len(socketChan) + Len(downedChan) <= 1 + connectsFailed
      BY <1>0, UdpFacts DEF UdpInv, PlacesCounted
    <3>3. UNCHANGED <<tasks, downedChan, connectsFailed>>
      OBVIOUS
    <3> HIDE DEF UdpClient!TakeSocket, UdpClient!StartPorts
    <3> QED BY <2>2, <3>1, <3>2, <3>3, UdpFacts DEF PlacesCounted
  <2>5. ASSUME connectsFailed = 0
        PROVE  starting /\ tasks = <<>> /\ downedChan = <<>> /\ Len(<<>>) = 0
    <3>1. Len(tasks) = 0 /\ Len(downedChan) = 0 /\ starting
      BY <1>0, <2>2, <2>5, UdpFacts DEF UdpInv, PlacesCounted
    <3> QED BY <3>1, EmptySeq DEF UdpInv, UdpClient!TypeOK
  <2>6. UdpReports'
    <3>1. UNCHANGED <<tasks, downedChan, connectsFailed>>
      OBVIOUS
    <3> HIDE DEF UdpClient!TakeSocket, UdpClient!StartPorts
    <3>2. ASSUME connectsFailed = 0 PROVE Len(tasks) = 0 /\ Len(downedChan) = 0
      BY <2>5, <3>2
    <3> QED BY <3>1, <3>2 DEF UdpReports
  <2>7. CASE connectsFailed = 0
    <3>1. LifeStep
      BY <1>0, <2>5, <2>7, LifeConnect DEF SameNeed, Valid
    <3> QED BY <2>3, <2>4, <2>6, <3>1 DEF UdpOK, UdpInv, UdpClient!DownJustified
  <2>8. CASE connectsFailed # 0
    <3>1. LifeStep
      BY <2>8, UdpVoid
    <3> QED BY <2>3, <2>4, <2>6, <3>1 DEF UdpOK, UdpInv, UdpClient!DownJustified
  <2> QED BY <2>7, <2>8
<1>2. CASE UdpClient!SpawnTask
  <2> USE <1>2 DEF UdpClient!SpawnTask, UdpClient!chans
  <2> DEFINE T == [phase : {"binding", "unconnected"}, first : BOOLEAN]
             new == [phase |-> "binding", first |-> firstStarted]
  <2>1. tasks \in Seq(T) /\ new \in T
    BY UdpFacts DEF UdpInv, UdpClient!TypeOK
  <2>2. /\ tasks' \in Seq(T) /\ Len(tasks') = Len(tasks) + 1
        /\ \A k \in 1..Len(tasks) : tasks'[k] = tasks[k]
        /\ tasks'[Len(tasks) + 1] = new
    BY <2>1, AppendProperties
  <2>3. UdpClient!TypeOK'
    BY <1>0, <2>2 DEF UdpInv, UdpClient!TypeOK
  <2>4. PlacesCounted'
    BY <1>0, <2>2, UdpFacts DEF UdpInv, PlacesCounted
  <2>5. UdpReports'
    <3>1. ASSUME NEW k \in 1..(Len(tasks) + 1), connectsFailed = 0
          PROVE  tasks'[k].first = firstStarted
      <4>1. CASE k = Len(tasks) + 1
        BY <2>2, <4>1
      <4>2. CASE k # Len(tasks) + 1
        <5>1. k \in 1..Len(tasks)
          BY <4>2, UdpFacts
        <5> QED BY <1>0, <2>2, <3>1, <5>1 DEF UdpInv, UdpReports
      <4> QED BY <4>1, <4>2
    <3> QED BY <1>0, <2>2, <3>1 DEF UdpInv, UdpReports
  <2>6. CASE connectsFailed = 0
    <3>1. LifeStep
      BY <1>0, <2>6, LifeStart DEF SameNeed, Valid
    <3> QED BY <2>3, <2>4, <2>5, <3>1 DEF UdpOK, UdpInv, UdpClient!DownJustified
  <2>7. CASE connectsFailed # 0
    <3>1. LifeStep
      BY <2>7, UdpVoid
    <3> QED BY <2>3, <2>4, <2>5, <3>1 DEF UdpOK, UdpInv, UdpClient!DownJustified
  <2> QED BY <2>6, <2>7
<1>3. CASE UdpClient!NothingToStart
  BY <1>0, <1>3, UdpQuiet, UdpFacts
     DEF UdpClient!NothingToStart, UdpClient!flags, UdpClient!chans, UdpInv, UdpClient!TypeOK
<1> QED BY <1>1, <1>2, <1>3

LEMMA UdpDisconnected ==
    ASSUME UdpInv, SameNeed, UdpClient!CheckPortDisconnected PROVE UdpOK
<1> USE DEF UdpClient!CheckPortDisconnected, UdpClient!GoTo
<1>0. /\ alive /\ alive' /\ stage' \in UdpClient!Stages
      /\ UNCHANGED <<late, tasks, socketChan, connectsFailed, faults>>
  BY DEF UdpClient!Stages
<1>1. CASE UdpClient!TimeOut
  <2> USE <1>1 DEF UdpClient!TimeOut
  <2>1. UdpClient!TypeOK'
    BY <1>0 DEF UdpInv, UdpClient!TypeOK
  <2>2. PlacesCounted'
    BY <1>0, UdpFacts DEF UdpInv, PlacesCounted
  <2>3. UdpReports'
    BY DEF UdpInv, UdpReports
  <2>4. UdpClient!DownJustified
    BY DEF UdpClient!DownJustified
  <2>5. LifeStep
    <3>1. CASE connectsFailed = 0
      BY <1>0, <3>1, LifeDisconnect DEF SameNeed, Valid
    <3>2. CASE connectsFailed # 0
      BY <3>2, UdpVoid
    <3> QED BY <3>1, <3>2
  <2> QED BY <2>1, <2>2, <2>3, <2>4, <2>5 DEF UdpOK, UdpInv
<1>2. CASE UdpClient!Report
  <2> USE <1>2 DEF UdpClient!Report
  <2>1. downedChan \in Seq(BOOLEAN) /\ downedChan # <<>>
    BY DEF UdpInv, UdpClient!TypeOK
  <2>2. /\ Tail(downedChan) \in Seq(BOOLEAN) /\ Len(Tail(downedChan)) = Len(downedChan) - 1
        /\ Len(downedChan) \in Nat \ {0} /\ Head(downedChan) \in BOOLEAN
        /\ Head(downedChan) = downedChan[1]
        /\ \A k \in 1..Len(Tail(downedChan)) : Tail(downedChan)[k] = downedChan[k + 1]
    BY <2>1, TailFacts, HeadTailProperties
  <2>3. UdpClient!TypeOK'
    BY <1>0, <2>2 DEF UdpInv, UdpClient!TypeOK
  <2>4. PlacesCounted'
    <3>1. /\ Len(downedChan') = Len(downedChan) - 1 /\ ~started' /\ ~starting'
          /\ UNCHANGED <<tasks, socketChan, connectsFailed>>
      BY <2>2
    <3>2. Len(tasks) + Len(socketChan) + Len(downedChan) <= 1 + connectsFailed
      BY <1>0, UdpFacts DEF UdpInv, PlacesCounted
    <3> HIDE DEF UdpClient!Report, UdpClient!CheckPortDisconnected
    <3> QED BY <2>2, <3>1, <3>2, UdpFacts DEF PlacesCounted
  <2>5. ASSUME connectsFailed = 0
        PROVE  ~started /\ starting /\ Head(downedChan) = firstStarted
    <3>1. ~started /\ starting
      BY <1>0, <2>2, <2>5, UdpFacts DEF UdpInv, PlacesCounted
    <3>2. 1 \in 1..Len(downedChan)
      BY <2>2
    <3> QED BY <1>0, <2>2, <2>5, <3>1, <3>2 DEF UdpInv, UdpReports
  <2>6. UdpReports'
    <3>1. ASSUME connectsFailed = 0, NEW k \in 1..Len(Tail(downedChan))
          PROVE  Tail(downedChan)[k] = firstStarted
      <4>1. k + 1 \in 1..Len(downedChan)
        BY <2>2
      <4> QED BY <1>0, <2>2, <3>1, <4>1 DEF UdpInv, UdpReports
    <3> QED BY <1>0, <3>1 DEF UdpInv, UdpReports
  <2>7. UdpClient!DownJustified
    BY <2>5, UdpFacts DEF UdpClient!DownJustified
  <2>8. LifeStep
    <3>1. CASE connectsFailed = 0
      BY <1>0, <2>5, <3>1, LifeDisconnect DEF SameNeed, Valid
    <3>2. CASE connectsFailed # 0
      BY <3>2, UdpVoid
    <3> QED BY <3>1, <3>2
  <2> QED BY <2>3, <2>4, <2>6, <2>7, <2>8 DEF UdpOK, UdpInv
<1>3. CASE UdpClient!PortUp
  BY <1>0, <1>3, UdpQuiet, UdpFacts
     DEF UdpClient!PortUp, UdpClient!flags, UdpInv, UdpClient!TypeOK
<1> QED BY <1>1, <1>2, <1>3

LEMMA UdpRest ==
    ASSUME UdpInv, SameNeed,
           UdpClient!EndFrame \/ UdpClient!SkipSystem \/ UdpClient!Silence \/ UdpClient!Pong
    PROVE  UdpOK
<1>0. stage \in UdpClient!Stages /\ late \in BOOLEAN /\ faults \in 0..MaxFaults /\ MaxFaults \in Nat
  BY UdpFacts DEF UdpInv, UdpClient!TypeOK
<1>1. stage' \in UdpClient!Stages /\ late' \in BOOLEAN
  BY <1>0 DEF UdpClient!EndFrame, UdpClient!SkipSystem, UdpClient!Silence, UdpClient!Pong,
     UdpClient!GoTo, UdpClient!Stages
<1>2. faults' \in 0..MaxFaults /\ faults <= faults'
  <2>1. faults' = faults \/ (faults < MaxFaults /\ faults' = faults + 1)
    BY DEF UdpClient!EndFrame, UdpClient!SkipSystem, UdpClient!Silence, UdpClient!Pong
  <2> QED BY <1>0, <2>1
<1> QED BY <1>1, <1>2, UdpQuiet DEF UdpClient!EndFrame, UdpClient!SkipSystem, UdpClient!Silence,
           UdpClient!Pong, UdpClient!flags, UdpClient!chans

LEMMA UdpClose ==
    ASSUME UdpInv, SameNeed, UdpClient!Close PROVE UdpOK
<1> USE DEF UdpClient!Close, UdpClient!flags
<1>1. \A S : <<>> \in Seq(S)
  BY EmptySeq
<1>2. tasks' \in Seq([phase : {"binding", "unconnected"}, first : BOOLEAN])
  BY <1>1 DEF UdpInv, UdpClient!TypeOK
<1>3. UdpClient!TypeOK'
  BY <1>1, <1>2 DEF UdpInv, UdpClient!TypeOK
<1>4. PlacesCounted' /\ UdpReports' /\ UdpClient!DownJustified
  BY DEF PlacesCounted, UdpReports, UdpClient!DownJustified
<1>5. LifeStep
  <2>1. CASE connectsFailed = 0
    BY <2>1, LifeClose DEF SameNeed, Valid
  <2>2. CASE connectsFailed # 0
    BY <2>2, UdpVoid
  <2> QED BY <2>1, <2>2
<1> QED BY <1>3, <1>4, <1>5 DEF UdpOK, UdpInv

UdpTasks == [phase : {"binding", "unconnected"}, first : BOOLEAN]

\* A task ends: one place less, and the others still report the same.
LEMMA UdpEnds ==
    ASSUME UdpInv, NEW i \in DOMAIN tasks, UdpClient!Ends(i)
    PROVE  /\ tasks' \in Seq(UdpTasks) /\ Len(tasks') = Len(tasks) - 1
           /\ alive /\ connectsFailed = 0 =>
                \A k \in 1..Len(tasks') : tasks'[k].first = firstStarted
<1>1. tasks \in Seq(UdpTasks) /\ i \in 1..Len(tasks)
  BY LenProperties DEF UdpInv, UdpClient!TypeOK, UdpTasks
<1>2. /\ tasks' \in Seq(UdpTasks) /\ Len(tasks') = Len(tasks) - 1
      /\ \A k \in 1..Len(tasks') : \E j \in 1..Len(tasks) : tasks'[k] = tasks[j]
  BY <1>1, EndsFacts DEF UdpClient!Ends
<1> QED BY <1>2 DEF UdpInv, UdpReports

LEMMA UdpFirst ==
    ASSUME UdpInv, NEW i \in DOMAIN tasks
    PROVE  /\ i \in 1..Len(tasks) /\ tasks \in Seq(UdpTasks) /\ tasks[i] \in UdpTasks
           /\ alive /\ connectsFailed = 0 => tasks[i].first = firstStarted
<1>1. tasks \in Seq(UdpTasks)
  BY DEF UdpInv, UdpClient!TypeOK, UdpTasks
<1>2. i \in 1..Len(tasks)
  BY <1>1, LenProperties
<1>3. tasks[i] \in UdpTasks
  BY <1>1, <1>2, ElementOfSeq
<1> QED BY <1>1, <1>2, <1>3 DEF UdpInv, UdpReports

\* The report it may leave.
LEMMA UdpDown ==
    ASSUME UdpInv, NEW i \in DOMAIN tasks, UdpClient!Down(i)
    PROVE  /\ downedChan' \in Seq(BOOLEAN)
           /\ alive => Len(downedChan') = Len(downedChan) + 1
           /\ alive /\ connectsFailed = 0 =>
                \A k \in 1..Len(downedChan') : downedChan'[k] = firstStarted
<1>1. downedChan \in Seq(BOOLEAN) /\ tasks[i].first \in BOOLEAN
  BY UdpFirst DEF UdpInv, UdpClient!TypeOK, UdpTasks
<1>2. CASE ~alive
  BY <1>1, <1>2 DEF UdpClient!Down
<1>3. CASE alive
  <2>1. downedChan' = Append(downedChan, tasks[i].first)
    BY <1>3 DEF UdpClient!Down
  <2>2. downedChan' \in Seq(BOOLEAN) /\ Len(downedChan') = Len(downedChan) + 1
    BY <1>1, <2>1, AppendFacts
  <2>3. ASSUME connectsFailed = 0
        PROVE  \A k \in 1..Len(downedChan') : downedChan'[k] = firstStarted
    <3>1. tasks[i].first = firstStarted /\ \A k \in 1..Len(downedChan) : downedChan[k] = firstStarted
      BY <1>3, <2>3, UdpFirst DEF UdpInv, UdpReports
    <3> QED BY <1>1, <2>1, <3>1, AppendFacts
  <2> QED BY <2>2, <2>3
<1> QED BY <1>2, <1>3

\* The socket it may hand over.
LEMMA UdpHandOver ==
    ASSUME UdpInv, NEW socket \in UdpClient!Sockets, UdpClient!HandOver(socket)
    PROVE  /\ socketChan' \in Seq(UdpClient!Sockets)
           /\ alive => Len(socketChan') = Len(socketChan) + 1
<1>1. socketChan \in Seq(UdpClient!Sockets)
  BY DEF UdpInv, UdpClient!TypeOK
<1> QED BY <1>1, AppendFacts DEF UdpClient!HandOver

\* Once a step of a task keeps the numbers and the reports, the rest follows.
LEMMA UdpTaskStep ==
    ASSUME UdpInv, SameNeed, UdpClient!TaskUnchanged,
           tasks' \in Seq(UdpTasks), socketChan' \in Seq(UdpClient!Sockets),
           downedChan' \in Seq(BOOLEAN), faults' \in 0..MaxFaults,
           connectsFailed' \in Nat, connectsFailed' <= faults', connectsFailed <= connectsFailed',
           alive => Len(tasks') + Len(socketChan') + Len(downedChan') - connectsFailed'
                      <= Len(tasks) + Len(socketChan) + Len(downedChan) - connectsFailed,
           alive /\ connectsFailed' = 0 =>
             /\ \A k \in 1..Len(tasks') : tasks'[k].first = firstStarted
             /\ \A k \in 1..Len(downedChan') : downedChan'[k] = firstStarted
    PROVE  UdpOK
<1> USE DEF UdpClient!TaskUnchanged, UdpClient!flags
<1>1. UdpClient!TypeOK'
  BY UdpFacts DEF UdpInv, UdpClient!TypeOK, UdpTasks
<1>2. PlacesCounted'
  <2>1. Len(tasks') \in Nat /\ Len(socketChan') \in Nat /\ Len(downedChan') \in Nat
    BY LenProperties
  <2> DEFINE own == IF started \/ ~starting THEN 1 ELSE 0
  <2>2. own' = own /\ own \in {0, 1}
    OBVIOUS
  <2>3. alive => Len(tasks) + Len(socketChan) + Len(downedChan) + own <= 1 + connectsFailed
    BY DEF UdpInv, PlacesCounted
  <2>4. alive' = alive
    OBVIOUS
  <2> HIDE DEF own, UdpClient!TaskUnchanged
  <2>5. alive => Len(tasks') + Len(socketChan') + Len(downedChan') + own' <= 1 + connectsFailed'
    <3>1. \A a, b, c, x, y, z, m, n, o \in Nat :
            a + b + c - m <= x + y + z - n /\ x + y + z + o <= 1 + n => a + b + c + o <= 1 + m
      OBVIOUS
    <3>2. own \in Nat /\ own' = own
      BY <2>2
    <3>3. /\ Len(tasks) \in Nat /\ Len(socketChan) \in Nat /\ Len(downedChan) \in Nat
          /\ connectsFailed \in Nat /\ connectsFailed' \in Nat
      BY UdpFacts
    <3> QED BY <2>1, <2>3, <3>1, <3>2, <3>3
  <2> QED BY <2>4, <2>5 DEF PlacesCounted, own
<1>3. UdpReports'
  BY DEF UdpReports
<1>4. LifeStep
  <2>1. CASE connectsFailed' = 0
    BY <2>1, LifeStutter, UdpFacts DEF SameNeed
  <2>2. CASE connectsFailed' # 0
    BY <2>2, LifeVoid
  <2> QED BY <2>1, <2>2
<1> QED BY <1>1, <1>2, <1>3, <1>4 DEF UdpOK, UdpInv, UdpClient!DownJustified

LEMMA UdpTask ==
    ASSUME UdpInv, SameNeed, NEW i \in DOMAIN tasks,
           \/ UdpClient!BindErr(i) \/ UdpClient!ConnectOk(i)
           \/ UdpClient!ConnectErr(i) \/ UdpClient!HandOverAnyway(i)
    PROVE  UdpOK
<1>0. /\ Len(tasks) \in Nat /\ Len(socketChan) \in Nat /\ Len(downedChan) \in Nat
      /\ socketChan \in Seq(UdpClient!Sockets) /\ downedChan \in Seq(BOOLEAN)
      /\ connectsFailed \in Nat /\ faults \in 0..MaxFaults /\ MaxFaults \in Nat
      /\ connectsFailed <= faults
  BY UdpFacts DEF UdpInv, UdpClient!TypeOK
<1>1. CASE UdpClient!BindErr(i)
  <2> USE DEF UdpClient!BindErr
  <2>1. /\ UdpClient!TaskUnchanged /\ UdpClient!Ends(i) /\ UdpClient!Down(i)
        /\ UNCHANGED <<socketChan, connectsFailed>> /\ faults < MaxFaults /\ faults' = faults + 1
    BY <1>1
  <2> HIDE DEF UdpClient!BindErr
  <2> QED BY <1>0, <2>1, UdpEnds, UdpDown, UdpTaskStep
<1>2. CASE UdpClient!ConnectOk(i) \/ UdpClient!HandOverAnyway(i)
  <2>1. /\ UdpClient!TaskUnchanged /\ UdpClient!Ends(i)
        /\ UdpClient!HandOver("connected") \/ UdpClient!HandOver("unconnected")
        /\ UNCHANGED <<downedChan, connectsFailed, faults>>
    BY <1>2 DEF UdpClient!ConnectOk, UdpClient!HandOverAnyway
  <2>2. socketChan' \in Seq(UdpClient!Sockets) /\ (alive => Len(socketChan') = Len(socketChan) + 1)
    BY <2>1, UdpHandOver DEF UdpClient!Sockets
  <2>3. alive /\ connectsFailed = 0 => \A k \in 1..Len(downedChan) : downedChan[k] = firstStarted
    BY DEF UdpInv, UdpReports
  <2>4. /\ tasks' \in Seq(UdpTasks) /\ Len(tasks') = Len(tasks) - 1
        /\ alive /\ connectsFailed = 0 =>
             \A k \in 1..Len(tasks') : tasks'[k].first = firstStarted
    BY <2>1, UdpEnds
  <2>5. alive => Len(tasks') + Len(socketChan') + Len(downedChan') - connectsFailed'
                   <= Len(tasks) + Len(socketChan) + Len(downedChan) - connectsFailed
    <3>1. downedChan' = downedChan /\ connectsFailed' = connectsFailed
      BY <2>1
    <3> QED BY <1>0, <2>2, <2>4, <3>1
  <2>6. connectsFailed' \in Nat /\ connectsFailed' <= faults' /\ connectsFailed <= connectsFailed'
        /\ faults' \in 0..MaxFaults /\ downedChan' \in Seq(BOOLEAN)
    BY <1>0, <2>1
  <2>7. alive /\ connectsFailed' = 0 =>
             /\ \A k \in 1..Len(tasks') : tasks'[k].first = firstStarted
             /\ \A k \in 1..Len(downedChan') : downedChan'[k] = firstStarted
    BY <2>1, <2>3, <2>4
  <2> QED BY <2>1, <2>2, <2>4, <2>5, <2>6, <2>7, UdpTaskStep
<1>3. CASE UdpClient!ConnectErr(i)
  <2>1. /\ UdpClient!TaskUnchanged /\ UdpClient!Down(i) /\ UNCHANGED socketChan
        /\ connectsFailed' = connectsFailed + 1 /\ faults < MaxFaults /\ faults' = faults + 1
    BY <1>3 DEF UdpClient!ConnectErr
  <2>2. tasks' \in Seq(UdpTasks) /\ (alive => Len(tasks') = Len(tasks))
    <3>1. CASE alive
      <4>1. tasks' = [tasks EXCEPT ![i] = [tasks[i] EXCEPT !.phase = "unconnected"]]
        BY <1>3, <3>1 DEF UdpClient!ConnectErr
      <4>2. [tasks[i] EXCEPT !.phase = "unconnected"] \in UdpTasks
        BY UdpFirst DEF UdpTasks
      <4> QED BY <4>1, <4>2, UdpFirst, ExceptSeq
    <3>2. CASE ~alive
      BY <1>3, <3>2, UdpEnds DEF UdpClient!ConnectErr
    <3> QED BY <3>1, <3>2
  <2> QED BY <1>0, <2>1, <2>2, UdpDown, UdpTaskStep
<1> QED BY <1>1, <1>2, <1>3

LEMMA UdpStep ==
    ASSUME UdpInv, SameNeed, UdpClient!Next PROVE UdpOK
BY UdpStartPorts, UdpDisconnected, UdpRest, UdpClose, UdpTask
   DEF UdpClient!Next, UdpClient!FrameStep, UdpClient!Task

-----------------------------------------------------------------------------
(* A server's UDP port. *)

Own(t) == t.port = port
OwnBinding == \E t \in receiveTasks : Own(t) /\ t.phase = "binding"
OwnReceiving == \E t \in receiveTasks : Own(t) /\ t.phase = "receiving"

\* A bind under way is the port's only task and all it waits for; so is a
\* report of one that failed. A port that is down and has a task receiving has
\* its socket in the channel.
OneBind ==
    alive =>
        /\ \A t, u \in receiveTasks : Own(t) /\ Own(u) /\ t.phase = "binding" => u = t
        /\ OwnBinding => ~started /\ starting /\ socketChan = <<>> /\ downedChan = <<>>
        /\ downedChan # <<>> =>
             /\ Len(downedChan) = 1 /\ downedChan[1] = firstStarted
             /\ ~started /\ starting /\ socketChan = <<>> /\ \A t \in receiveTasks : ~Own(t)
        /\ socketChan # <<>> /\ ~started => starting
        /\ OwnReceiving /\ ~started => socketChan # <<>>
        /\ \A t \in receiveTasks : Own(t) /\ t.phase = "binding" => t.first = firstStarted

\* The tasks are of this port and of earlier ones.
TasksKnown ==
    /\ IsFiniteSet(receiveTasks) /\ \A t \in receiveTasks : t.port <= port
    /\ ~alive => socketChan = <<>>

SrvInv ==
    /\ UdpServer!TypeOK /\ UdpServer!UpMeansReceiving /\ UdpServer!WaitingSocketsAlive
    /\ OneBind /\ TasksKnown

SrvOK == SrvInv' /\ UdpServer!NeverDownOnceUp /\ LifeStep

LEMMA SrvInit == UdpServer!Init => SrvInv
<1> SUFFICES ASSUME UdpServer!Init PROVE SrvInv OBVIOUS
<1> USE DEF UdpServer!Init
<1>1. \A S : <<>> \in Seq(S) /\ Len(<<>>) = 0
  BY EmptySeq
<1>2. UdpServer!TypeOK
  <2>1. socketChan \in Seq(Nat) /\ downedChan \in Seq(BOOLEAN)
    BY <1>1
  <2>2. port \in 1..MaxPorts /\ faults \in 0..MaxFaults
    BY LivesBoundsAssumption
  <2>3. told \in [event : {"nothing", "connected", "disconnected"}, was : BOOLEAN]
    OBVIOUS
  <2> QED BY <2>1, <2>2, <2>3 DEF UdpServer!TypeOK, UdpServer!Stages
<1>3. UdpServer!UpMeansReceiving /\ UdpServer!WaitingSocketsAlive
  BY <1>1 DEF UdpServer!UpMeansReceiving, UdpServer!WaitingSocketsAlive
<1>4. OneBind
  BY DEF OneBind, OwnBinding, OwnReceiving
<1>5. TasksKnown
  BY FS_EmptySet DEF TasksKnown
<1> QED BY <1>2, <1>3, <1>4, <1>5 DEF SrvInv

\* The image of a finite set is finite.
LEMMA ImageFinite ==
    ASSUME NEW S, IsFiniteSet(S), NEW T, NEW f \in [S -> T], \A y \in T : \E x \in S : f[x] = y
    PROVE  IsFiniteSet(T)
<1>1. f \in Surjection(S, T)
  BY DEF Surjection
<1> QED BY <1>1, FS_Surjection

\* There is a number that no task has.
LEMMA FreshIdNat ==
    ASSUME UdpServer!TypeOK, IsFiniteSet(receiveTasks)
    PROVE  UdpServer!FreshId \in Nat
<1> DEFINE A == {t.id : t \in receiveTasks}
           C == {socketChan[k] : k \in DOMAIN socketChan}
           I == UdpServer!IdsInUse
<1>1. IsFiniteSet(A)
  <2> DEFINE f == [t \in receiveTasks |-> t.id]
  <2>1. f \in [receiveTasks -> A] /\ \A y \in A : \E t \in receiveTasks : f[t] = y
    OBVIOUS
  <2> HIDE DEF f
  <2> QED BY <2>1, ImageFinite
<1>2. IsFiniteSet(C)
  <2>1. Len(socketChan) \in Nat /\ DOMAIN socketChan = 1..Len(socketChan)
        /\ socketChan \in [1..Len(socketChan) -> Nat]
    BY LenProperties DEF UdpServer!TypeOK
  <2>2. IsFiniteSet(DOMAIN socketChan)
    BY <2>1, FS_Interval
  <2>3. socketChan \in [DOMAIN socketChan -> C]
        /\ \A y \in C : \E k \in DOMAIN socketChan : socketChan[k] = y
    BY <2>1
  <2> QED BY <2>2, <2>3, ImageFinite
<1> HIDE DEF A, C
<1>3. I = (A \cup {udpSocket}) \cup C
  BY DEF UdpServer!IdsInUse, A, C
<1>4. IsFiniteSet(A \cup {udpSocket})
  BY <1>1, FS_AddElement
<1>5. IsFiniteSet(I) /\ Cardinality(I) \in Nat
  <2>1. IsFiniteSet((A \cup {udpSocket}) \cup C)
    BY <1>2, <1>4, FS_Union
  <2> QED BY <1>3, <2>1, FS_CardinalityType
<1> DEFINE R == 1..(Cardinality(I) + 1)
<1>6. \E i \in R : i \notin I
  <2>1. Cardinality(R) = Cardinality(I) + 1 /\ IsFiniteSet(R)
    BY <1>5, FS_Interval
  <2>2. ~(R \subseteq I)
    <3>1. SUFFICES ASSUME R \in SUBSET I PROVE FALSE
      OBVIOUS
    <3>2. Cardinality(R) <= Cardinality(I)
      BY <1>5, <3>1, FS_Subset
    <3> HIDE DEF R
    <3> QED BY <1>5, <2>1, <3>2
  <2> QED BY <2>2
<1>7. UdpServer!FreshId \in R
  <2>1. UdpServer!Cardinality(I) = Cardinality(I)
    BY DEF UdpServer!Cardinality, Cardinality
  <2> QED BY <1>6, <2>1 DEF UdpServer!FreshId
<1> QED BY <1>5, <1>7

\* Steps that leave the starts alone.
LEMMA SrvQuiet ==
    ASSUME SrvInv, SameNeed, UNCHANGED connectsFailed, stage' \in UdpServer!Stages,
           faults' \in 0..MaxFaults,
           UNCHANGED <<port, alive, started, starting, firstStarted, udpSocket, receiveTasks,
                       socketChan, downedChan, told>>
    PROVE  SrvOK
<1>1. UdpServer!TypeOK'
  BY DEF SrvInv, UdpServer!TypeOK, UdpServer!Tasks
<1>2. UdpServer!UpMeansReceiving' /\ UdpServer!WaitingSocketsAlive'
  BY DEF SrvInv, UdpServer!UpMeansReceiving, UdpServer!WaitingSocketsAlive
<1>3. OneBind' /\ TasksKnown'
  BY DEF SrvInv, OneBind, OwnBinding, OwnReceiving, Own, TasksKnown
<1>4. UdpServer!NeverDownOnceUp /\ LifeStep
  BY LifeStutter DEF SameNeed, UdpServer!NeverDownOnceUp
<1> QED BY <1>1, <1>2, <1>3, <1>4 DEF SrvOK, SrvInv

LEMMA SrvTakeSocket ==
    ASSUME SrvInv, SameNeed, Valid, UdpServer!StartPorts, UdpServer!TakeSocket
    PROVE  SrvOK
<1> USE DEF UdpServer!StartPorts, UdpServer!GoTo, UdpServer!TakeSocket
<1>0. alive /\ alive' /\ UNCHANGED <<port, faults, receiveTasks, downedChan>>
  OBVIOUS
<1>1. /\ socketChan \in Seq(Nat) /\ socketChan # <<>> /\ 1 \in DOMAIN socketChan
      /\ DOMAIN socketChan = 1..Len(socketChan)
  BY EmptySeq, LenProperties DEF SrvInv, UdpServer!TypeOK
<1>2. /\ udpSocket' = socketChan[1] /\ udpSocket' \in Nat /\ socketChan' \in Seq(Nat)
      /\ Len(socketChan') = Len(socketChan) - 1 /\ DOMAIN socketChan' = 1..Len(socketChan')
      /\ Len(socketChan) \in Nat /\ \A k \in 1..Len(socketChan') : socketChan'[k] = socketChan[k + 1]
  BY <1>1, TailFacts, HeadTailProperties, LenProperties
<1>3. UdpServer!TypeOK'
  BY <1>0, <1>2 DEF SrvInv, UdpServer!TypeOK, UdpServer!Tasks, UdpServer!Stages
<1>4. UdpServer!UpMeansReceiving'
  BY <1>0, <1>1, <1>2 DEF SrvInv, UdpServer!UpMeansReceiving, UdpServer!WaitingSocketsAlive
<1>5. UdpServer!WaitingSocketsAlive'
  <2>1. ASSUME NEW k \in DOMAIN socketChan'
        PROVE  k + 1 \in DOMAIN socketChan /\ socketChan'[k] = socketChan[k + 1]
    BY <1>1, <1>2, <2>1
  <2> QED BY <1>0, <2>1 DEF SrvInv, UdpServer!WaitingSocketsAlive
<1>6. starting /\ ~OwnBinding /\ downedChan = <<>>
  BY <1>0, <1>1 DEF SrvInv, OneBind
<1>7. OneBind'
  BY <1>0, <1>6 DEF OneBind, OwnBinding, OwnReceiving, Own
<1>8. TasksKnown'
  BY <1>0 DEF SrvInv, TasksKnown
<1>9. UdpServer!NeverDownOnceUp /\ LifeStep
  BY <1>0, <1>6, LifeConnect DEF UdpServer!NeverDownOnceUp
<1> QED BY <1>3, <1>4, <1>5, <1>7, <1>8, <1>9 DEF SrvOK, SrvInv

LEMMA SrvSpawnTask ==
    ASSUME SrvInv, SameNeed, Valid, UdpServer!StartPorts, UdpServer!SpawnTask
    PROVE  SrvOK
<1> USE DEF UdpServer!StartPorts, UdpServer!GoTo, UdpServer!SpawnTask, UdpServer!chans
<1> DEFINE new == UdpServer!NewTask
<1>0. /\ alive /\ alive' /\ ~started /\ ~starting /\ ~started' /\ starting'
      /\ UNCHANGED <<port, faults, firstStarted, udpSocket, socketChan, downedChan, told>>
      /\ socketChan = <<>> /\ receiveTasks' = receiveTasks \cup {new}
  OBVIOUS
<1>1. /\ new \in UdpServer!Tasks /\ new.port = port /\ new.phase = "binding"
      /\ new.first = firstStarted
  BY FreshIdNat DEF SrvInv, TasksKnown, UdpServer!TypeOK, UdpServer!Tasks, UdpServer!NewTask
<1> HIDE DEF new
<1>2. UdpServer!TypeOK'
  BY <1>0, <1>1 DEF SrvInv, UdpServer!TypeOK, UdpServer!Tasks, UdpServer!Stages
<1>3. UdpServer!UpMeansReceiving' /\ UdpServer!WaitingSocketsAlive'
  BY <1>0 DEF SrvInv, UdpServer!UpMeansReceiving, UdpServer!WaitingSocketsAlive
<1>4. downedChan = <<>> /\ \A t \in receiveTasks : ~Own(t)
  <2>1. downedChan = <<>> /\ ~OwnBinding /\ ~OwnReceiving
    BY <1>0 DEF SrvInv, OneBind
  <2>2. \A t \in receiveTasks : t.phase = "binding" \/ t.phase = "receiving"
    BY DEF SrvInv, UdpServer!TypeOK, UdpServer!Tasks
  <2> QED BY <2>1, <2>2 DEF OwnBinding, OwnReceiving
<1>5. OneBind'
  <2>1. \A t \in receiveTasks' : t.port = port => t = new
    BY <1>0, <1>4 DEF Own
  <2> QED BY <1>0, <1>1, <1>4, <2>1 DEF OneBind, OwnBinding, OwnReceiving, Own
<1>6. TasksKnown'
  <2>1. IsFiniteSet(receiveTasks \cup {new})
    BY FS_AddElement DEF SrvInv, TasksKnown
  <2>2. port <= port
    BY DEF SrvInv, UdpServer!TypeOK
  <2> QED BY <1>0, <1>1, <2>1, <2>2 DEF SrvInv, TasksKnown
<1>7. UdpServer!NeverDownOnceUp /\ LifeStep
  BY <1>0, LifeStart DEF UdpServer!NeverDownOnceUp
<1> QED BY <1>2, <1>3, <1>5, <1>6, <1>7 DEF SrvOK, SrvInv

LEMMA SrvPortDown ==
    ASSUME SrvInv, SameNeed, Valid, UdpServer!CheckPortDisconnected, UdpServer!PortDown
    PROVE  SrvOK
<1> USE DEF UdpServer!CheckPortDisconnected, UdpServer!GoTo, UdpServer!PortDown
<1>0. /\ alive /\ alive' /\ ~started' /\ ~starting'
      /\ UNCHANGED <<port, faults, receiveTasks, socketChan, firstStarted>>
  OBVIOUS
<1>1. /\ Len(downedChan) = 1 /\ downedChan[1] = firstStarted /\ ~started /\ starting
      /\ socketChan = <<>> /\ \A t \in receiveTasks : ~Own(t)
  BY <1>0 DEF SrvInv, OneBind
<1>2. /\ downedChan' \in Seq(BOOLEAN) /\ downedChan' = <<>>
      /\ told' = [event |-> "disconnected", was |-> firstStarted]
  <2>1. downedChan \in Seq(BOOLEAN) /\ downedChan # <<>>
    BY DEF SrvInv, UdpServer!TypeOK
  <2>2. /\ Tail(downedChan) \in Seq(BOOLEAN) /\ Len(Tail(downedChan)) = Len(downedChan) - 1
        /\ Head(downedChan) = downedChan[1]
        /\ (Tail(downedChan) = <<>> <=> Len(Tail(downedChan)) = 0)
    BY <2>1, TailFacts
  <2> QED BY <1>1, <2>2
<1>3. UdpServer!TypeOK'
  <2>1. stage' \in UdpServer!Stages /\ udpSocket' \in Nat \cup {NoSocket}
    BY DEF UdpServer!Stages
  <2>2. firstStarted \in BOOLEAN /\ started' \in BOOLEAN /\ starting' \in BOOLEAN
        /\ alive' \in BOOLEAN
    BY <1>0 DEF SrvInv, UdpServer!TypeOK
  <2>3. told' \in [event : {"nothing", "connected", "disconnected"}, was : BOOLEAN]
    BY <1>2, <2>2
  <2> HIDE DEF UdpServer!CheckPortDisconnected, UdpServer!PortDown
  <2> QED BY <1>0, <1>2, <2>1, <2>2, <2>3 DEF SrvInv, UdpServer!TypeOK, UdpServer!Tasks
<1>4. UdpServer!UpMeansReceiving' /\ UdpServer!WaitingSocketsAlive'
  BY <1>0 DEF SrvInv, UdpServer!UpMeansReceiving, UdpServer!WaitingSocketsAlive
<1>5. OneBind'
  BY <1>0, <1>1, <1>2 DEF OneBind, OwnBinding, OwnReceiving, Own
<1>6. TasksKnown'
  BY <1>0 DEF SrvInv, TasksKnown
<1>7. UdpServer!NeverDownOnceUp /\ LifeStep
  BY <1>0, <1>1, <1>2, LifeDisconnect DEF UdpServer!NeverDownOnceUp
<1> QED BY <1>3, <1>4, <1>5, <1>6, <1>7 DEF SrvOK, SrvInv

LEMMA SrvFrame ==
    ASSUME SrvInv, SameNeed, Valid, UdpServer!FrameStep PROVE SrvOK
<1>1. CASE UdpServer!StartPorts
  <2>1. CASE UdpServer!NothingToStart
    BY <1>1, <2>1, SrvQuiet DEF UdpServer!StartPorts, UdpServer!GoTo, UdpServer!NothingToStart,
       UdpServer!flags, UdpServer!chans, UdpServer!Stages, SrvInv, UdpServer!TypeOK, Valid
  <2> QED BY <1>1, <2>1, SrvTakeSocket, SrvSpawnTask DEF UdpServer!StartPorts
<1>2. CASE UdpServer!CheckPortDisconnected
  <2>1. CASE UdpServer!PortUp
    BY <1>2, <2>1, SrvQuiet DEF UdpServer!CheckPortDisconnected, UdpServer!GoTo, UdpServer!PortUp,
       UdpServer!flags, UdpServer!Stages, SrvInv, UdpServer!TypeOK, Valid
  <2> QED BY <1>2, <2>1, SrvPortDown DEF UdpServer!CheckPortDisconnected
<1>3. CASE UdpServer!EndFrame \/ UdpServer!SkipSystem
  BY <1>3, SrvQuiet DEF UdpServer!EndFrame, UdpServer!SkipSystem, UdpServer!GoTo, UdpServer!flags,
     UdpServer!chans, UdpServer!Stages, SrvInv, UdpServer!TypeOK, Valid
<1> QED BY <1>1, <1>2, <1>3 DEF UdpServer!FrameStep

LEMMA SrvClose ==
    ASSUME SrvInv, SameNeed, Valid, UdpServer!ClosePort \/ UdpServer!CloseConnection
    PROVE  SrvOK
<1> USE DEF UdpServer!ClosePort, UdpServer!CloseConnection, UdpServer!flags
<1>0. /\ ~alive' /\ socketChan' = <<>> /\ downedChan' = <<>> /\ udpSocket' = NoSocket
      /\ receiveTasks' \in {receiveTasks, {}}
      /\ UNCHANGED <<stage, port, started, starting, firstStarted, told, faults>>
      /\ alive' \in BOOLEAN
  OBVIOUS
<1> HIDE DEF UdpServer!ClosePort, UdpServer!CloseConnection
<1>1. \A S : <<>> \in Seq(S) /\ Len(<<>>) = 0
  BY EmptySeq
<1>2. UdpServer!TypeOK'
  <2>1. socketChan' \in Seq(Nat) /\ downedChan' \in Seq(BOOLEAN)
    BY <1>0, <1>1
  <2> QED BY <1>0, <2>1 DEF SrvInv, UdpServer!TypeOK, UdpServer!Tasks
<1>3. UdpServer!UpMeansReceiving' /\ UdpServer!WaitingSocketsAlive'
  BY <1>0, <1>1 DEF UdpServer!UpMeansReceiving, UdpServer!WaitingSocketsAlive
<1>4. OneBind'
  BY <1>0 DEF OneBind
<1>5. TasksKnown'
  BY <1>0, FS_EmptySet DEF SrvInv, TasksKnown
<1>6. UdpServer!NeverDownOnceUp /\ LifeStep
  BY <1>0, LifeClose DEF UdpServer!NeverDownOnceUp
<1> QED BY <1>2, <1>3, <1>4, <1>5, <1>6 DEF SrvOK, SrvInv

LEMMA SrvOpenPort ==
    ASSUME SrvInv, SameNeed, Valid, UdpServer!OpenPort PROVE SrvOK
<1>0. /\ ~alive /\ alive' /\ port' = port + 1 /\ port < MaxPorts
      /\ ~started' /\ ~starting' /\ firstStarted' = FALSE
      /\ udpSocket' = NoSocket /\ socketChan' = <<>> /\ downedChan' = <<>>
      /\ told' = [event |-> "nothing", was |-> FALSE]
      /\ UNCHANGED <<stage, receiveTasks, faults>>
      /\ alive' \in BOOLEAN /\ started' \in BOOLEAN /\ starting' \in BOOLEAN
  BY DEF UdpServer!OpenPort, UdpServer!NewPort
<1>1. \A S : <<>> \in Seq(S) /\ Len(<<>>) = 0
  BY EmptySeq
<1>2. port \in 1..MaxPorts /\ MaxPorts \in Nat /\ \A t \in receiveTasks : t.port \in 1..MaxPorts
  BY LivesBoundsAssumption DEF SrvInv, UdpServer!TypeOK, UdpServer!Tasks
<1>3. UdpServer!TypeOK'
  <2>1. socketChan' \in Seq(Nat) /\ downedChan' \in Seq(BOOLEAN) /\ port' \in 1..MaxPorts
    BY <1>0, <1>1, <1>2
  <2>2. told' \in [event : {"nothing", "connected", "disconnected"}, was : BOOLEAN]
    BY <1>0
  <2> QED BY <1>0, <2>1, <2>2 DEF SrvInv, UdpServer!TypeOK, UdpServer!Tasks
<1>4. UdpServer!UpMeansReceiving' /\ UdpServer!WaitingSocketsAlive'
  BY <1>0, <1>1 DEF UdpServer!UpMeansReceiving, UdpServer!WaitingSocketsAlive
<1>5. \A t \in receiveTasks : t.port # port + 1 /\ t.port <= port + 1
  BY <1>2 DEF SrvInv, TasksKnown
<1>6. OneBind'
  BY <1>0, <1>5 DEF OneBind, OwnBinding, OwnReceiving, Own
<1>7. TasksKnown'
  BY <1>0, <1>5 DEF SrvInv, TasksKnown
<1>8. UdpServer!NeverDownOnceUp
  BY <1>0, <1>2 DEF UdpServer!NeverDownOnceUp
<1>9. LifeStep
  BY <1>0, LifeReopen
<1> QED BY <1>3, <1>4, <1>6, <1>7, <1>8, <1>9 DEF SrvOK, SrvInv

\* A task that is not the port's own ends: nobody notices.
LEMMA SrvEndsForeign ==
    ASSUME SrvInv, SameNeed, Valid, NEW t \in receiveTasks, ~UdpServer!Mine(t),
           UdpServer!Ends(t), UdpServer!TaskUnchanged, UNCHANGED <<socketChan, downedChan>>,
           faults' \in 0..MaxFaults
    PROVE  SrvOK
<1> USE DEF UdpServer!TaskUnchanged, UdpServer!flags, UdpServer!Ends
<1>0. receiveTasks' = receiveTasks \ {t} /\ (alive => ~Own(t))
  BY DEF UdpServer!Mine, Own
<1>1. UdpServer!TypeOK'
  BY DEF SrvInv, UdpServer!TypeOK, UdpServer!Tasks
<1>2. UdpServer!UpMeansReceiving'
  BY <1>0 DEF SrvInv, UdpServer!UpMeansReceiving, Own
<1>3. UdpServer!WaitingSocketsAlive'
  <2>1. CASE alive
    BY <1>0, <2>1 DEF SrvInv, UdpServer!WaitingSocketsAlive, Own
  <2>2. CASE ~alive
    <3>1. socketChan' = <<>> /\ DOMAIN <<>> = 1..0
      BY <2>2 DEF SrvInv, TasksKnown
    <3> QED BY <3>1 DEF UdpServer!WaitingSocketsAlive
  <2> QED BY <2>1, <2>2
<1>4. OneBind'
  BY <1>0 DEF SrvInv, OneBind, OwnBinding, OwnReceiving, Own
<1>5. TasksKnown'
  BY <1>0, FS_RemoveElement DEF SrvInv, TasksKnown
<1>6. UdpServer!NeverDownOnceUp /\ LifeStep
  BY LifeStutter DEF UdpServer!NeverDownOnceUp, SameNeed, Valid
<1> QED BY <1>1, <1>2, <1>3, <1>4, <1>5, <1>6 DEF SrvOK, SrvInv

LEMMA SrvBindOk ==
    ASSUME SrvInv, SameNeed, Valid, NEW t \in receiveTasks, UdpServer!BindOk(t) PROVE SrvOK
<1>0. faults \in 0..MaxFaults /\ socketChan \in Seq(Nat) /\ receiveTasks \subseteq UdpServer!Tasks
  BY DEF SrvInv, UdpServer!TypeOK
<1>1. CASE ~UdpServer!Mine(t)
  BY <1>0, <1>1, SrvEndsForeign DEF UdpServer!BindOk
<1>2. CASE UdpServer!Mine(t)
  <2> DEFINE u == [t EXCEPT !.phase = "receiving"]
  <2>1. /\ alive /\ Own(t) /\ t.phase = "binding" /\ receiveTasks' = (receiveTasks \ {t}) \cup {u}
        /\ socketChan' = Append(socketChan, t.id) /\ UNCHANGED <<downedChan, faults>>
        /\ UNCHANGED <<stage, port, alive, started, starting, firstStarted, udpSocket, told>>
    BY <1>2 DEF UdpServer!BindOk, UdpServer!InPhase, UdpServer!Mine, UdpServer!Receives,
       UdpServer!TaskUnchanged, UdpServer!flags, Own
  <2>2. u \in UdpServer!Tasks /\ u.id = t.id /\ u.port = port /\ u.phase = "receiving"
        /\ t.id \in Nat /\ t \in UdpServer!Tasks
    BY <1>0, <2>1 DEF UdpServer!Tasks, Own
  <2> HIDE DEF u
  <2>3. /\ ~started /\ starting /\ socketChan = <<>> /\ downedChan = <<>>
        /\ \A v \in receiveTasks : Own(v) => v = t
    BY <2>1 DEF SrvInv, OneBind, OwnBinding
  <2>4. /\ socketChan' \in Seq(Nat) /\ socketChan' # <<>> /\ DOMAIN socketChan' = 1..1
        /\ socketChan'[1] = t.id
    <3>1. Len(<<>>) = 0
      BY EmptySeq
    <3> QED BY <1>0, <2>1, <2>2, <2>3, <3>1, AppendProperties, LenProperties
  <2>5. UdpServer!TypeOK'
    BY <1>0, <2>1, <2>2, <2>4 DEF SrvInv, UdpServer!TypeOK, UdpServer!Tasks
  <2>6. UdpServer!UpMeansReceiving' /\ UdpServer!WaitingSocketsAlive'
    BY <2>1, <2>2, <2>3, <2>4 DEF UdpServer!UpMeansReceiving, UdpServer!WaitingSocketsAlive
  <2>7. OneBind'
    <3>1. \A v \in receiveTasks' : v.port = port => v = u
      BY <2>1, <2>3 DEF Own
    <3> QED BY <2>1, <2>2, <2>3, <2>4, <3>1 DEF OneBind, OwnBinding, OwnReceiving, Own
  <2>8. TasksKnown'
    <3>1. IsFiniteSet(receiveTasks \ {t})
      BY FS_RemoveElement DEF SrvInv, TasksKnown
    <3>2. IsFiniteSet(receiveTasks')
      BY <2>1, <3>1, FS_AddElement
    <3>3. port <= port
      BY DEF SrvInv, UdpServer!TypeOK
    <3> QED BY <2>1, <2>2, <3>2, <3>3 DEF SrvInv, TasksKnown
  <2>9. UdpServer!NeverDownOnceUp /\ LifeStep
    BY <2>1, LifeStutter DEF UdpServer!NeverDownOnceUp, SameNeed, Valid
  <2> QED BY <2>5, <2>6, <2>7, <2>8, <2>9 DEF SrvOK, SrvInv
<1> QED BY <1>1, <1>2

LEMMA SrvBindErr ==
    ASSUME SrvInv, SameNeed, Valid, NEW t \in receiveTasks, UdpServer!BindErr(t) PROVE SrvOK
<1>0. /\ faults' \in 0..MaxFaults /\ receiveTasks \subseteq UdpServer!Tasks
      /\ downedChan \in Seq(BOOLEAN)
  BY LivesBoundsAssumption DEF UdpServer!BindErr, SrvInv, UdpServer!TypeOK
<1>1. CASE ~UdpServer!Mine(t)
  BY <1>0, <1>1, SrvEndsForeign DEF UdpServer!BindErr
<1>2. CASE UdpServer!Mine(t)
  <2>1. /\ alive /\ Own(t) /\ t.phase = "binding" /\ receiveTasks' = receiveTasks \ {t}
        /\ downedChan' = Append(downedChan, t.first) /\ UNCHANGED socketChan
        /\ UNCHANGED <<stage, port, alive, started, starting, firstStarted, udpSocket, told>>
    BY <1>2 DEF UdpServer!BindErr, UdpServer!InPhase, UdpServer!Mine, UdpServer!Ends,
       UdpServer!TaskUnchanged, UdpServer!flags, Own
  <2>2. /\ ~started /\ starting /\ socketChan = <<>> /\ downedChan = <<>>
        /\ t.first = firstStarted /\ \A v \in receiveTasks : Own(v) => v = t
    BY <2>1 DEF SrvInv, OneBind, OwnBinding
  <2>3. downedChan' \in Seq(BOOLEAN) /\ Len(downedChan') = 1 /\ downedChan'[1] = firstStarted
    <3>1. Len(<<>>) = 0 /\ t.first \in BOOLEAN
      BY <1>0, EmptySeq DEF UdpServer!Tasks
    <3> QED BY <1>0, <2>1, <2>2, <3>1, AppendProperties
  <2>4. UdpServer!TypeOK'
    BY <1>0, <2>1, <2>3 DEF SrvInv, UdpServer!TypeOK, UdpServer!Tasks
  <2>5. UdpServer!UpMeansReceiving' /\ UdpServer!WaitingSocketsAlive'
    <3>1. socketChan' = <<>> /\ DOMAIN <<>> = 1..0 /\ ~started'
      BY <2>1, <2>2
    <3> QED BY <3>1 DEF UdpServer!UpMeansReceiving, UdpServer!WaitingSocketsAlive
  <2>6. OneBind'
    <3>1. \A v \in receiveTasks' : v.port # port
      BY <2>1, <2>2 DEF Own
    <3> QED BY <2>1, <2>2, <2>3, <3>1 DEF OneBind, OwnBinding, OwnReceiving, Own
  <2>7. TasksKnown'
    BY <2>1, FS_RemoveElement DEF SrvInv, TasksKnown
  <2>8. UdpServer!NeverDownOnceUp /\ LifeStep
    BY <2>1, LifeStutter DEF UdpServer!NeverDownOnceUp, SameNeed, Valid
  <2> QED BY <2>4, <2>5, <2>6, <2>7, <2>8 DEF SrvOK, SrvInv
<1> QED BY <1>1, <1>2

LEMMA SrvRecvErr ==
    ASSUME SrvInv, SameNeed, Valid, NEW t \in receiveTasks, UdpServer!RecvErr(t) PROVE SrvOK
<1>0. /\ faults' \in 0..MaxFaults /\ receiveTasks \subseteq UdpServer!Tasks
      /\ socketChan \in Seq(Nat)
  BY LivesBoundsAssumption DEF UdpServer!RecvErr, SrvInv, UdpServer!TypeOK
<1>1. CASE ~UdpServer!Mine(t)
  BY <1>0, <1>1, SrvEndsForeign DEF UdpServer!RecvErr
<1>2. CASE UdpServer!Mine(t)
  <2>1. /\ alive /\ Own(t) /\ t.phase = "receiving"
        /\ receiveTasks' = (receiveTasks \ {t}) \cup {[t EXCEPT !.phase = "receiving"]}
        /\ socketChan' = Append(socketChan, t.id) /\ UNCHANGED downedChan
        /\ UNCHANGED <<stage, port, alive, started, starting, firstStarted, udpSocket, told>>
    BY <1>2 DEF UdpServer!RecvErr, UdpServer!InPhase, UdpServer!Mine, UdpServer!Receives,
       UdpServer!TaskUnchanged, UdpServer!flags, Own
  <2>2. receiveTasks' = receiveTasks /\ t.id \in Nat
    <3>1. [t EXCEPT !.phase = "receiving"] = t /\ t.id \in Nat
      BY <1>0, <2>1 DEF UdpServer!Tasks
    <3> QED BY <2>1, <3>1
  <2>3. /\ socketChan' \in Seq(Nat) /\ socketChan' # <<>>
        /\ \A k \in DOMAIN socketChan' :
             socketChan'[k] = t.id \/ (k \in DOMAIN socketChan /\ socketChan'[k] = socketChan[k])
    <3>1. DOMAIN socketChan = 1..Len(socketChan) /\ Len(socketChan) \in Nat
      BY <1>0, LenProperties
    <3>2. /\ socketChan' \in Seq(Nat) /\ socketChan' # <<>> /\ Len(socketChan') = Len(socketChan) + 1
          /\ \A k \in 1..Len(socketChan) : socketChan'[k] = socketChan[k]
          /\ socketChan'[Len(socketChan) + 1] = t.id
      BY <1>0, <2>1, <2>2, AppendProperties
    <3>3. DOMAIN socketChan' = 1..(Len(socketChan) + 1)
      BY <3>2, LenProperties
    <3> HIDE <2>1
    <3> QED BY <3>1, <3>2, <3>3
  <2>4. UdpServer!TypeOK'
    BY <1>0, <2>1, <2>2, <2>3 DEF SrvInv, UdpServer!TypeOK, UdpServer!Tasks
  <2>5. UdpServer!UpMeansReceiving'
    BY <2>1, <2>2 DEF SrvInv, UdpServer!UpMeansReceiving
  <2>6. UdpServer!WaitingSocketsAlive'
    BY <2>1, <2>2, <2>3 DEF SrvInv, UdpServer!WaitingSocketsAlive, Own
  <2>7. ~OwnBinding /\ downedChan = <<>>
    BY <2>1 DEF SrvInv, OneBind, OwnBinding
  <2>8. started \/ starting
    BY <2>1 DEF SrvInv, OneBind, OwnReceiving
  <2>9. OneBind'
    <3>1. alive' = alive /\ started' = started /\ starting' = starting /\ downedChan' = downedChan
          /\ port' = port
      BY <2>1
    <3>2. ~\E v \in receiveTasks' : v.port = port /\ v.phase = "binding"
      BY <2>2, <2>7 DEF OwnBinding, Own
    <3> QED BY <2>3, <2>7, <2>8, <3>1, <3>2 DEF OneBind, OwnBinding, OwnReceiving, Own
  <2>10. TasksKnown'
    BY <2>1, <2>2 DEF SrvInv, TasksKnown
  <2>11. UdpServer!NeverDownOnceUp /\ LifeStep
    BY <2>1, LifeStutter DEF UdpServer!NeverDownOnceUp, SameNeed, Valid
  <2> QED BY <2>4, <2>5, <2>6, <2>9, <2>10, <2>11 DEF SrvOK, SrvInv
<1> QED BY <1>1, <1>2

LEMMA SrvStep ==
    ASSUME SrvInv, SameNeed, Valid, UdpServer!Next PROVE SrvOK
BY SrvFrame, SrvClose, SrvOpenPort, SrvBindOk, SrvBindErr, SrvRecvErr
   DEF UdpServer!Next, UdpServer!Bind

-----------------------------------------------------------------------------
(* The theorems. *)

IInv ==
    /\ kind \in {"tcp_client", "udp_client", "udp_server"}
    /\ kind = "tcp_client" => TcpInv /\ connectsFailed = 0
    /\ kind = "udp_client" => UdpInv
    /\ kind = "udp_server" => SrvInv /\ connectsFailed = 0

\* What a step of a port does to what is said of it in two states.
StepOK ==
    /\ kind = "tcp_client" => TcpClient!DownJustified
    /\ kind = "udp_client" => UdpClient!DownJustified
    /\ kind = "udp_server" => UdpServer!NeverDownOnceUp

LEMMA InitInvariant == Init => IInv
BY TcpInit, UdpInit, SrvInit DEF Init, IInv, UdpClient!Init

LEMMA NextInvariant ==
    ASSUME IInv, Next PROVE IInv' /\ StepOK /\ LifeStep
<1>1. CASE AsTcpClient /\ TcpClient!Next
  <2>1. TcpInv /\ Valid /\ kind = "tcp_client" /\ kind' = kind
    BY <1>1 DEF IInv, AsTcpClient, Valid, ofUdpClient
  <2>2. TcpOK
    BY <1>1, <2>1, TcpStep
  <2> QED BY <2>1, <2>2 DEF TcpOK, IInv, StepOK, Valid
<1>2. CASE AsUdpClient /\ UdpClient!Next
  <2>1. UdpInv /\ SameNeed /\ kind = "udp_client" /\ kind' = kind
    BY <1>2 DEF IInv, AsUdpClient, SameNeed, ofTcp
  <2>2. UdpOK
    BY <1>2, <2>1, UdpStep
  <2> QED BY <2>1, <2>2 DEF UdpOK, IInv, StepOK
<1>3. CASE AsUdpServer /\ UdpServer!Next
  <2>1. SrvInv /\ Valid /\ SameNeed /\ kind = "udp_server" /\ kind' = kind
    BY <1>3 DEF IInv, AsUdpServer, Valid, SameNeed, ofTcp, ofUdpClient
  <2>2. SrvOK
    BY <1>3, <2>1, SrvStep
  <2> QED BY <2>1, <2>2 DEF SrvOK, IInv, StepOK, Valid
<1> QED BY <1>1, <1>2, <1>3 DEF Next

LEMMA StutterInvariant ==
    ASSUME IInv, UNCHANGED vars PROVE IInv' /\ LifeStep
<1> USE DEF vars, ofTcp, ofUdp, ofUdpClient, ofUdpServer
<1>1. kind = "tcp_client" => TcpInv'
  BY DEF IInv, TcpInv, TcpClient!TypeOK, TcpClient!OneStart, TcpReports
<1>2. kind = "udp_client" => UdpInv'
  BY DEF IInv, UdpInv, UdpClient!TypeOK, PlacesCounted, UdpReports
<1>3. kind = "udp_server" => SrvInv'
  BY DEF IInv, SrvInv, UdpServer!TypeOK, UdpServer!Tasks, UdpServer!UpMeansReceiving,
     UdpServer!WaitingSocketsAlive, OneBind, OwnBinding, OwnReceiving, Own, TasksKnown
<1>4. LifeStep
  BY LifeStutter
<1> QED BY <1>1, <1>2, <1>3, <1>4 DEF IInv

\* The inductive invariant of a port of any kind.
THEOREM Invariance == Spec => []IInv
<1>1. IInv /\ [Next]_vars => IInv'
  BY NextInvariant, StutterInvariant
<1> QED BY <1>1, InitInvariant, PTL DEF Spec

\* Of every kind of port one start is under way at a time and ends in exactly
\* one place; a client's UDP port has one socket, and one more for every
\* connect() that failed.
THEOREM LivesInvAlways == Spec => []LivesInv
<1>1. IInv => LivesInv
  <2>1. ASSUME UdpInv PROVE UdpClient!StraySocketsCounted
    BY <2>1, UdpFacts DEF UdpInv, PlacesCounted, UdpClient!StraySocketsCounted
  <2> QED BY <2>1 DEF IInv, TcpInv, UdpInv, SrvInv, LivesInv, TypeOK, OneStart, StraySocketsCounted
<1> QED BY <1>1, Invariance, PTL

\* A server's UDP port that is up has a task receiving on the socket it sends
\* with, and the sockets in its channel are those of tasks still receiving.
THEOREM SocketsReceiveAlways == Spec => []SocketsReceive
<1>1. IInv => SocketsReceive
  BY DEF IInv, SrvInv, SocketsReceive
<1> QED BY <1>1, Invariance, PTL

\* A client's port goes down for a reset stream, 120 seconds without a ping or
\* a failed connect() only; a server's UDP port, once up, not before it is closed.
THEOREM DownJustifiedAlways == Spec => DownJustified
<1>1. IInv /\ [Next]_vars => [StepOK]_vars
  BY NextInvariant
<1>2. Spec => [][StepOK]_vars
  BY <1>1, Invariance, PTL DEF Spec
<1> QED BY <1>2 DEF DownJustified, StepOK

\* A port of any kind takes only steps of PortLife - started when down,
\* connected or disconnected when starting, told what everUp says - until a
\* connect() of a client's UDP socket fails: the safety part of ImplementsPortLife.
THEOREM LivesPortLife == Spec => Life!Init /\ [][Life!Next]_(Life!vars)
<1>1. Init => Life!Init
  BY DEF Init, Life!Init, Life!Nothing, TcpClient!Init, UdpClient!Init
<1>2. IInv /\ [Next]_vars => LifeStep
  BY NextInvariant, StutterInvariant
<1>3. Spec => Life!Init /\ [][LifeStep]_(Life!vars)
  BY <1>1, <1>2, Invariance, PTL DEF Spec
<1> QED BY <1>3, <1>1, <1>2, Invariance, PTL DEF Spec, LifeStep
=============================================================================
