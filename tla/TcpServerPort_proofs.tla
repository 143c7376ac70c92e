------------------------ MODULE TcpServerPort_proofs ------------------------
(***************************************************************************)
(* Proofs about TcpServerPort, for every set of streams, every connection  *)
(* limit and every number of failures.                                     *)
(*                                                                         *)
(* The invariants of the runs are not inductive by themselves. IInv adds   *)
(* what the code relies on and never says: which keys of the session table *)
(* are own sessions and which were issued, that a stream nobody accepted   *)
(* is in no table, that a peer uuid belongs to one session uuid, and that  *)
(* a queued report still describes its session.                            *)
(***************************************************************************)
EXTENDS TcpServerPort, FiniteSetTheorems, SequenceTheorems, TLAPS

\* Which sessions the keys are: anonymous ones are the fresh uuid of their own
\* stream, authenticated ones were issued here or elsewhere.
KeysKnown ==
    /\ \A s \in DOMAIN peersConnected :
         IF peersConnected[s].peer = NoPeer
         THEN peersConnected[s].stream = s /\ s \notin issued
         ELSE s \in issued \cup Foreign
    /\ \A p \in DOMAIN peersAuthenticated : peersAuthenticated[p] \in issued \cup Foreign
    /\ accepted \cap issued = {}

\* A stream that was never accepted is nowhere.
IdleNowhere ==
    \A st \in accepted \cup issued \cup StreamsOf(peersConnected) : wire[st] # "idle"

\* A peer uuid belongs to the session uuid it was drawn with.
PeersMatch ==
    /\ \A s \in DOMAIN peersConnected : peersConnected[s].peer \in {NoPeer, PeerOf[s]}
    /\ \A p \in DOMAIN peersAuthenticated : PeerOf[peersAuthenticated[p]] = p

\* Reports wait only between listen_peers and check_peers_disconnected, and
\* carry the session's present peer.
ReportsCurrent ==
    /\ stage # "check_peers_disconnected" \/ ~alive => discChan = {}
    /\ \A d \in discChan : d[1] \in DOMAIN peersConnected
                           /\ d[2] = peersConnected[d[1]].peer
                           /\ wire[peersConnected[d[1]].stream] = "reset"

TablesInv == /\ KeysKnown /\ IdleNowhere /\ PeersMatch /\ ReportsCurrent
             /\ PermitsOwned /\ StreamOwnedOnce /\ PeerIndexed

IInv == TypeOK /\ OneTask /\ TablesInv

-----------------------------------------------------------------------------
(* The operators of SessionTable on typed tables. *)

IsTable(peers) == /\ DOMAIN peers \subseteq Sessions
                  /\ \A s \in DOMAIN peers : peers[s] \in Entries
IsIndex(index) == /\ DOMAIN index \subseteq Peers
                  /\ \A p \in DOMAIN index : index[p] \in Sessions

\* authenticate_peer keeps the types.
LEMMA AuthenticateType ==
    ASSUME NEW peers, NEW index, NEW cur \in DOMAIN peers, NEW p, NEW new,
           IsTable(peers), IsIndex(index), p \in Peers, new \in Sessions
    PROVE  /\ IsTable(AuthenticatedEntries(peers, cur, p, new))
           /\ IsIndex(AuthenticatedIndex(peers, index, cur, p, new))
<1> DEFINE e == [peers[cur] EXCEPT !.peer = p]
           r == Remove(peers, {cur})
<1>1. e \in Entries
  BY DEF IsTable, Entries
<1>2. DOMAIN r = DOMAIN peers \ {cur} /\ \A x \in DOMAIN r : r[x] = peers[x]
  BY DEF Remove, Restrict
<1>3. /\ AuthenticatedEntries(peers, cur, p, new) = Insert(r, new, e)
      /\ AuthenticatedIndex(peers, index, cur, p, new) = Insert(index, p, new)
  BY DEF AuthenticatedEntries, AuthenticatedIndex
<1> HIDE DEF e, r
<1> QED BY <1>1, <1>2, <1>3 DEF Insert, IsTable, IsIndex

\* Removing keys keeps the types.
LEMMA RemoveType ==
    ASSUME NEW peers, NEW index, NEW K, IsTable(peers), IsIndex(index)
    PROVE  IsTable(Remove(peers, K)) /\ IsIndex(Remove(index, K))
BY DEF Remove, Restrict, IsTable, IsIndex

\* The type invariant, with its conjuncts about the maps under their names.
LEMMA TypeParts ==
    TypeOK => IsTable(peersConnected) /\ IsIndex(peersAuthenticated)
BY DEF TypeOK, IsTable, IsIndex

-----------------------------------------------------------------------------
(* The sequences of the tasks and of their channels.                       *)

TaskRecords == [phase : Phases, first : BOOLEAN]

\* An index of a sequence, and what it leads to.
LEMMA ElementType ==
    ASSUME NEW S, NEW q \in Seq(S), NEW i \in DOMAIN q
    PROVE  i \in 1 .. Len(q) /\ q[i] \in S
BY LenProperties, ElementOfSeq

\* What is known of the task with a given number.
LEMMA TaskType ==
    ASSUME NEW q \in Seq(TaskRecords), NEW i \in DOMAIN q
    PROVE  i \in Nat /\ q[i].first \in BOOLEAN /\ q[i].phase \in Phases
<1>1. i \in 1 .. Len(q) /\ q[i] \in TaskRecords
  BY ElementType
<1>2. Len(q) \in Nat
  BY LenProperties
<1> QED BY <1>1, <1>2 DEF TaskRecords

\* A task moves to another phase.
LEMMA SetPhaseType ==
    ASSUME NEW q \in Seq(TaskRecords), NEW i \in DOMAIN q, NEW phase \in Phases
    PROVE  [q EXCEPT ![i].phase = phase] \in Seq(TaskRecords)
<1> DEFINE e == [q[i] EXCEPT !.phase = phase]
<1>1. i \in 1 .. Len(q) /\ q[i] \in TaskRecords
  BY ElementType
<1>2. e \in TaskRecords
  BY <1>1 DEF TaskRecords
<1>3. [q EXCEPT ![i].phase = phase] = [q EXCEPT ![i] = e]
  OBVIOUS
<1>4. [q EXCEPT ![i] = e] \in Seq(TaskRecords)
  BY <1>1, <1>2, ExceptSeq
<1> QED BY <1>3, <1>4

\* Every task under way is cancelled.
LEMMA CancelType ==
    ASSUME NEW q \in Seq(TaskRecords), NEW I
    PROVE  [i \in DOMAIN q |-> IF i \in I THEN [q[i] EXCEPT !.phase = "cancelled"] ELSE q[i]]
              \in Seq(TaskRecords)
<1> DEFINE g == [i \in DOMAIN q |->
                   IF i \in I THEN [q[i] EXCEPT !.phase = "cancelled"] ELSE q[i]]
<1>1. \A i \in DOMAIN q : q[i] \in TaskRecords
  BY ElementType
<1>2. \A i \in DOMAIN q : g[i] \in TaskRecords
  BY <1>1 DEF TaskRecords, Phases
<1>3. g = [i \in 1 .. Len(q) |-> g[i]] /\ Len(q) \in Nat /\ \A i \in 1 .. Len(q) : g[i] \in TaskRecords
  BY <1>2, LenProperties
<1> HIDE DEF g
<1> QED BY <1>3, IsASeq DEF g

\* A channel of a port that may be gone.
LEMMA SendType ==
    ASSUME NEW S, NEW q \in Seq(S), NEW e \in S
    PROVE  (IF alive THEN Append(q, e) ELSE q) \in Seq(S)
<1>1. Append(q, e) \in Seq(S)
  OBVIOUS
<1> QED BY <1>1, Zenon

-----------------------------------------------------------------------------
\* Every step keeps the types.
LEMMA TypeStep == TypeOK /\ [Next]_vars => TypeOK'
<1> SUFFICES ASSUME TypeOK, [Next]_vars PROVE TypeOK'
  OBVIOUS
<1> USE StreamsAssumption, PeerOfAssumption, BoundsAssumption
<1>t. IsTable(peersConnected) /\ IsIndex(peersAuthenticated)
  BY TypeParts
<1>q. tasks \in Seq(TaskRecords) /\ listenerChan \in Seq(Nat) /\ downedChan \in Seq(BOOLEAN)
  BY DEF TypeOK, TaskRecords
<1>1. CASE StartPorts
  <2>1. CASE TakeListener
    <3>1. listenerChan' \in Seq(Nat) /\ tcpListener' \in Nat
      BY <2>1, <1>q DEF TakeListener
    <3> QED
    BY <1>1, <2>1, <3>1 DEF TypeOK, StartPorts, GoTo, TakeListener, tableVars, Stages
  <2>2. CASE SpawnTask
    BY <1>1, <2>2 DEF TypeOK, StartPorts, GoTo, SpawnTask, tableVars, Stages, Phases
  <2>3. CASE NothingToStart
    BY <1>1, <2>3 DEF TypeOK, StartPorts, GoTo, NothingToStart, portVars, taskVars, tableVars, Stages
  <2> QED BY <1>1, <2>1, <2>2, <2>3 DEF StartPorts
<1>2. CASE CheckPeersConnected
  BY <1>2 DEF TypeOK, CheckPeersConnected, GoTo, portVars, taskVars, tableVars, Stages, Sessions, Entries
<1>3. CASE ListenPeers
  BY <1>3 DEF TypeOK, ListenPeers, GoTo, portVars, taskVars, tableVars, Stages, Broken, Entries
<1>4. CASE CheckPeersDisconnected
  <2>1. IsTable(peersConnected') /\ IsIndex(peersAuthenticated')
    BY <1>4, <1>t, RemoveType DEF CheckPeersDisconnected, DropSessions
  <2> QED
    BY <1>4, <2>1 DEF TypeOK, IsTable, IsIndex, CheckPeersDisconnected, DropSessions, GoTo, portVars, taskVars, Stages
<1>5. CASE CheckPortDisconnected
  <2>1. CASE PortDown
    <3>1. downedChan' \in Seq(BOOLEAN)
      BY <2>1, <1>q DEF PortDown
    <3> QED
      BY <1>5, <2>1, <3>1 DEF TypeOK, CheckPortDisconnected, PortDown, GoTo, tableVars, Stages, NoListener
  <2>2. CASE PortUp
    BY <1>5, <2>2 DEF TypeOK, CheckPortDisconnected, PortUp, GoTo, portVars, taskVars, tableVars, Stages
  <2> QED BY <1>5, <2>1, <2>2 DEF CheckPortDisconnected
<1>6. CASE EndFrame \/ SkipSystem
  BY <1>6 DEF TypeOK, EndFrame, SkipSystem, GoTo, portVars, taskVars, tableVars, Stages
<1>7. ASSUME NEW s \in Streams, AuthenticateNewPeer(s) PROVE TypeOK'
  <2>1. s \in DOMAIN peersConnected /\ s \in Sessions /\ PeerOf[s] \in Peers
    BY <1>7 DEF AuthenticateNewPeer, AnonymousSessions, Sessions, Peers
  <2>2. IsTable(peersConnected') /\ IsIndex(peersAuthenticated')
    BY <1>7, <1>t, <2>1, AuthenticateType DEF AuthenticateNewPeer
  <2> QED
    BY <1>7, <2>2 DEF TypeOK, IsTable, IsIndex, AuthenticateNewPeer, portVars, taskVars
<1>8. ASSUME NEW s \in Sessions, NEW t \in Sessions, AuthenticateAs(s, t) PROVE TypeOK'
  <2>1. s \in DOMAIN peersConnected /\ PeerOf[t] \in Peers
    BY <1>8 DEF AuthenticateAs, Peers
  <2>2. IsTable(peersConnected') /\ IsIndex(peersAuthenticated')
    BY <1>8, <1>t, <2>1, AuthenticateType DEF AuthenticateAs
  <2> QED
    BY <1>8, <2>2 DEF TypeOK, IsTable, IsIndex, AuthenticateAs, portVars, taskVars
<1>9. ASSUME NEW u, DisconnectPeerOrSession(u) PROVE TypeOK'
  <2>1. IsTable(peersConnected')
    BY <1>9, <1>t, RemoveType DEF DisconnectPeerOrSession, DropSessions
  <2> QED
    BY <1>9, <2>1 DEF TypeOK, IsTable, DisconnectPeerOrSession, DropSessions, portVars, taskVars
<1>10. CASE ClosePort
  <2>1. IsTable(peersConnected') /\ IsIndex(peersAuthenticated')
    BY <1>10 DEF ClosePort, DropPort, Empty, IsTable, IsIndex
  <2>3. listenerChan' \in Seq(Nat) /\ downedChan' \in Seq(BOOLEAN)
    BY <1>10 DEF ClosePort, DropPort
  <2> QED
    BY <1>10, <2>1, <2>3 DEF TypeOK, IsTable, IsIndex, ClosePort, DropPort, NoListener
<1>11. CASE CloseConnection
  <2>1. IsTable(peersConnected') /\ IsIndex(peersAuthenticated')
    BY <1>11 DEF CloseConnection, DropPort, Empty, IsTable, IsIndex
  <2>3. listenerChan' \in Seq(Nat) /\ downedChan' \in Seq(BOOLEAN)
    BY <1>11 DEF CloseConnection, DropPort
  <2>2. tasks' \in Seq(TaskRecords)
    BY <1>11, <1>q, CancelType DEF CloseConnection
  <2> QED
    BY <1>11, <2>1, <2>2, <2>3 DEF TypeOK, IsTable, IsIndex, CloseConnection, DropPort, NoListener, TaskRecords
<1>12. ASSUME NEW i \in DOMAIN tasks, BindOk(i) \/ BindErr(i) \/ AcceptErr(i) PROVE TypeOK'
  <2>1. ASSUME NEW phase \in Phases, SetPhase(i, phase) PROVE tasks' \in Seq(TaskRecords)
    BY <2>1, <1>q, SetPhaseType DEF SetPhase
  <2>2. i \in Nat /\ tasks[i].first \in BOOLEAN
    BY <1>q, TaskType
  <2>3. CASE BindOk(i)
    <3>1. tasks' \in Seq(TaskRecords)
      BY <2>1, <2>3 DEF BindOk, Phases
    <3>2. listenerChan' \in Seq(Nat)
      BY <2>2, <2>3, <1>q, SendType DEF BindOk
    <3> QED
      BY <2>3, <3>1, <3>2 DEF TypeOK, BindOk, TaskUnchanged, portVars, tableVars, TaskRecords
  <2>4. CASE BindErr(i)
    <3>1. tasks' \in Seq(TaskRecords)
      BY <2>1, <2>4 DEF BindErr, Phases
    <3>2. downedChan' \in Seq(BOOLEAN)
      BY <2>2, <2>4, <1>q, SendType DEF BindErr
    <3> QED
      BY <2>4, <3>1, <3>2 DEF TypeOK, BindErr, TaskUnchanged, portVars, tableVars, TaskRecords
  <2>5. CASE AcceptErr(i)
    <3>1. tasks' \in Seq(TaskRecords)
      BY <2>1, <2>5 DEF AcceptErr, Phases
    <3>2. downedChan' \in Seq(BOOLEAN)
      BY <2>2, <2>5, <1>q, SendType DEF AcceptErr
    <3> QED
      BY <2>5, <3>1, <3>2 DEF TypeOK, AcceptErr, TaskUnchanged, portVars, tableVars, TaskRecords
  <2> QED BY <1>12, <2>3, <2>4, <2>5
<1>13. ASSUME NEW i \in DOMAIN tasks, NEW st \in Streams,
              AcceptStream(i, st) \/ RefuseStream(i, st)
       PROVE  TypeOK'
  BY <1>13 DEF TypeOK, AcceptStream, RefuseStream, CanConnect,
               TaskUnchanged, portVars, taskVars, tableVars
<1>14. ASSUME NEW i \in DOMAIN tasks, NEW st \in Streams, AcceptForNobody(i, st) PROVE TypeOK'
  <2>1. tasks' \in Seq(TaskRecords)
    BY <1>14, <1>q, SetPhaseType DEF AcceptForNobody, SetPhase, Phases
  <2> QED
    BY <1>14, <2>1 DEF TypeOK, AcceptForNobody, TaskUnchanged, portVars, tableVars, TaskRecords
<1>15. ASSUME NEW st \in Streams, LeaveStream(st) PROVE TypeOK'
  BY <1>15 DEF TypeOK, LeaveStream, TaskUnchanged, portVars, taskVars, tableVars
<1>16. ASSUME NEW s \in Sessions, SessionGrowsOld(s) PROVE TypeOK'
  BY <1>16 DEF TypeOK, SessionGrowsOld, AnonymousSessions, Entries, portVars, taskVars
<1>17. CASE UNCHANGED vars
  BY <1>17 DEF TypeOK, vars, portVars, taskVars, tableVars
<1> QED
  BY <1>1, <1>2, <1>3, <1>4, <1>5, <1>6, <1>7, <1>8, <1>9, <1>10, <1>11, <1>12, <1>13,
     <1>14, <1>15, <1>16, <1>17
     DEF Next, FrameStep, AppCall, Bind, Accept, Remote

\* The initial state.
LEMMA InitIInv == Init => IInv
<1> SUFFICES ASSUME Init PROVE IInv
  OBVIOUS
<1>1. DOMAIN peersConnected = {} /\ DOMAIN peersAuthenticated = {}
  BY DEF Init, Empty
<1>2. DOMAIN tasks = {} /\ tasks \in Seq([phase : Phases, first : BOOLEAN])
      /\ listenerChan \in Seq(Nat) /\ downedChan \in Seq(BOOLEAN)
  BY DEF Init
<1>3. TypeOK
  <2>1. /\ stage \in Stages /\ alive \in BOOLEAN /\ started \in BOOLEAN
        /\ starting \in BOOLEAN /\ firstStarted \in BOOLEAN /\ tcpListener \in Nat
        /\ accepted = {} /\ discChan = {} /\ issued = {} /\ permits = {}
    BY DEF Init, Stages, NoListener
  <2>2. wire \in [Streams -> {"idle", "open", "fin", "reset", "dropped"}]
        /\ failures \in 0 .. MaxFailures
    BY BoundsAssumption DEF Init
  <2> QED BY <1>1, <1>2, <2>1, <2>2 DEF TypeOK
<1>4. OneTask
  BY <1>2 DEF Init, OneTask, Live
<1>5. KeysKnown /\ IdleNowhere /\ PeersMatch /\ ReportsCurrent
  BY <1>1 DEF Init, KeysKnown, IdleNowhere, PeersMatch, ReportsCurrent, StreamsOf
<1>6. PermitsOwned /\ StreamOwnedOnce /\ PeerIndexed
  BY <1>1 DEF Init, PermitsOwned, StreamOwnedOnce, PeerIndexed, StreamsOf
<1> QED BY <1>3, <1>4, <1>5, <1>6 DEF IInv, TablesInv

\* The types of all variables are as declared, in every behaviour.
THEOREM TypeCorrect == Spec => []TypeOK
<1>1. Init => TypeOK
  BY InitIInv DEF IInv
<1> QED BY <1>1, TypeStep, PTL DEF Spec

-----------------------------------------------------------------------------
(* One task at a time.                                                     *)

\* A task that changes phase stays under way or leaves the set.
LEMMA LiveSetPhase ==
    ASSUME TypeOK, NEW i \in Live, NEW phase, SetPhase(i, phase)
    PROVE  Live' = IF phase \in {"binding", "accepting"} THEN Live ELSE Live \ {i}
<1>1. /\ DOMAIN tasks' = DOMAIN tasks
      /\ tasks'[i].phase = phase
      /\ \A j \in DOMAIN tasks : j # i => tasks'[j] = tasks[j]
  <2>1. i \in DOMAIN tasks /\ tasks \in Seq(TaskRecords)
    BY DEF Live, TypeOK, TaskRecords
  <2>2. tasks[i] \in TaskRecords
    BY <2>1, ElementType
  <2> QED BY <2>1, <2>2 DEF SetPhase, TaskRecords
<1> QED BY <1>1 DEF Live

\* A report sent by the only task under way is the only one in the channel.
LEMMA ReportOnce ==
    ASSUME TypeOK, OneTask, alive, NEW i \in Live, NEW b \in BOOLEAN,
           Live' = Live \ {i}, downedChan' = Append(downedChan, b), started' = started,
           starting' = starting, alive' = alive
    PROVE  OneTask'
<1>1. downedChan = <<>> /\ Live = {i} /\ (started \/ starting)
  BY DEF OneTask
<1>2. downedChan' = <<b>>
  BY <1>1
<1> QED BY <1>1, <1>2 DEF OneTask

\* Every step keeps at most one task, and one report, for a port.
LEMMA OneTaskStep == TypeOK /\ OneTask /\ [Next]_vars => OneTask'
<1> SUFFICES ASSUME TypeOK, OneTask, [Next]_vars PROVE OneTask'
  OBVIOUS
<1>1. CASE StartPorts
  <2>1. CASE TakeListener
    BY <1>1, <2>1 DEF StartPorts, TakeListener, OneTask, Live
  <2>2. CASE SpawnTask
    <3>1. Live = {} /\ downedChan = <<>>
      BY <1>1, <2>2 DEF StartPorts, SpawnTask, OneTask
    <3>2. Live' \subseteq Live \cup {Len(tasks) + 1}
      <4>1. tasks \in Seq(TaskRecords)
        BY DEF TypeOK, TaskRecords
      <4>2. [phase |-> "binding", first |-> firstStarted] \in TaskRecords
        BY DEF TypeOK, TaskRecords, Phases
      <4>3. /\ DOMAIN tasks = 1 .. Len(tasks) /\ DOMAIN tasks' = 1 .. Len(tasks) + 1
            /\ \A j \in 1 .. Len(tasks) : tasks'[j] = tasks[j]
            /\ Len(tasks) \in Nat
        BY <2>2, <4>1, <4>2, AppendProperties, LenProperties DEF SpawnTask
      <4> QED BY <4>3 DEF Live
    <3> QED BY <1>1, <2>2, <3>1, <3>2 DEF SpawnTask, OneTask
  <2>3. CASE NothingToStart
    BY <1>1, <2>3 DEF StartPorts, NothingToStart, OneTask, Live, portVars, taskVars
  <2> QED BY <1>1, <2>1, <2>2, <2>3 DEF StartPorts
<1>2. CASE CheckPortDisconnected
  <2>1. CASE PortDown
    <3>1. Live = {} /\ Len(downedChan) = 1 /\ downedChan \in Seq(BOOLEAN)
      BY <1>2, <2>1 DEF CheckPortDisconnected, PortDown, OneTask, TypeOK
    <3>2. Tail(downedChan) = <<>>
      BY <2>1, <3>1, HeadTailProperties, EmptySeq DEF PortDown
    <3> QED BY <1>2, <2>1, <3>1, <3>2 DEF PortDown, OneTask, Live
  <2>2. CASE PortUp
    BY <1>2, <2>2 DEF CheckPortDisconnected, PortUp, OneTask, Live, portVars, taskVars
  <2> QED BY <1>2, <2>1, <2>2 DEF CheckPortDisconnected
<1>3. CASE ClosePort
  BY <1>3 DEF ClosePort, DropPort, OneTask, Live
<1>4. CASE CloseConnection
  <2>1. Live' \subseteq Live
    BY <1>4 DEF CloseConnection, Live
  <2> QED BY <1>4, <2>1 DEF CloseConnection, DropPort, OneTask
<1>5. ASSUME NEW i \in DOMAIN tasks, BindOk(i) PROVE OneTask'
  <2>1. Live' = Live
    BY <1>5, LiveSetPhase DEF BindOk
  <2> QED BY <1>5, <2>1 DEF BindOk, OneTask, TaskUnchanged, portVars
<1>6. ASSUME NEW i \in DOMAIN tasks, BindErr(i) \/ AcceptErr(i) PROVE OneTask'
  <2>1. i \in Live /\ Live' = Live \ {i}
    BY <1>6, LiveSetPhase DEF BindErr, AcceptErr
  <2>2. CASE alive
    <3>1. tasks[i].first \in BOOLEAN
      BY TaskType DEF TypeOK, TaskRecords
    <3> QED
      BY <1>6, <2>1, <2>2, <3>1, ReportOnce DEF BindErr, AcceptErr, TaskUnchanged, portVars
  <2>3. CASE ~alive
    BY <1>6, <2>1, <2>3 DEF BindErr, AcceptErr, TaskUnchanged, OneTask
  <2> QED BY <2>2, <2>3
<1>7. ASSUME NEW i \in DOMAIN tasks, NEW st \in Streams, AcceptForNobody(i, st) PROVE OneTask'
  <2>1. Live' = Live \ {i}
    BY <1>7, LiveSetPhase DEF AcceptForNobody, CanConnect
  <2> QED BY <1>7, <2>1 DEF AcceptForNobody, TaskUnchanged, OneTask
<1>8. ASSUME UNCHANGED <<alive, portVars, taskVars>> PROVE OneTask'
  BY <1>8 DEF OneTask, Live, portVars, taskVars
<1>9. CASE CheckPeersConnected \/ ListenPeers \/ CheckPeersDisconnected \/ EndFrame \/ SkipSystem
  BY <1>8, <1>9 DEF CheckPeersConnected, ListenPeers, CheckPeersDisconnected, EndFrame, SkipSystem
<1>10. ASSUME NEW s, NEW t, AuthenticateNewPeer(s) \/ AuthenticateAs(s, t) \/ DisconnectPeerOrSession(s)
                            \/ SessionGrowsOld(s) \/ LeaveStream(s)
       PROVE  OneTask'
  BY <1>8, <1>10 DEF AuthenticateNewPeer, AuthenticateAs, DisconnectPeerOrSession, SessionGrowsOld,
                    LeaveStream, TaskUnchanged
<1>11. ASSUME NEW i, NEW st, AcceptStream(i, st) \/ RefuseStream(i, st) PROVE OneTask'
  BY <1>8, <1>11 DEF AcceptStream, RefuseStream, TaskUnchanged
<1>12. CASE UNCHANGED vars
  BY <1>8, <1>12 DEF vars
<1> QED
  BY <1>1, <1>2, <1>3, <1>4, <1>5, <1>6, <1>7, <1>9, <1>10, <1>11, <1>12
     DEF Next, FrameStep, AppCall, Bind, Accept, Remote

\* However bind results, accept errors and frames interleave, one task at most
\* binds or accepts for the port, and it reports its end once.
THEOREM OneTaskAlways == Spec => []OneTask
<1>1. Init => TypeOK /\ OneTask
  BY InitIInv DEF IInv
<1> QED BY <1>1, TypeStep, OneTaskStep, PTL DEF Spec

-----------------------------------------------------------------------------
(* The session tables, the permits and the streams.                        *)

tablesView == <<alive, accepted, discChan, tableVars, permits, wire>>

\* A step that leaves the tables alone keeps their invariants.
LEMMA TablesFrame ==
    ASSUME TablesInv, UNCHANGED tablesView,
           stage' = stage \/ discChan = {}
    PROVE  TablesInv'
BY DEF TablesInv, tablesView, tableVars, KeysKnown, IdleNowhere, PeersMatch, ReportsCurrent,
       PermitsOwned, StreamOwnedOnce, PeerIndexed, StreamsOf

\* Every accepted stream becomes the session of its own fresh uuid; no key it
\* could overwrite is in the table.
LEMMA TablesConnected == TypeOK /\ TablesInv /\ CheckPeersConnected => TablesInv'
<1> SUFFICES ASSUME TypeOK, TablesInv, CheckPeersConnected PROVE TablesInv'
  OBVIOUS
<1>1. accepted \cap DOMAIN peersConnected = {}
  BY StreamsAssumption DEF TablesInv, KeysKnown, StreamOwnedOnce, StreamsOf, TypeOK
<1>2. /\ DOMAIN peersConnected' = DOMAIN peersConnected \cup accepted
      /\ \A s \in DOMAIN peersConnected : peersConnected'[s] = peersConnected[s]
      /\ \A s \in accepted : /\ peersConnected'[s].peer = NoPeer
                             /\ peersConnected'[s].stream = s
  BY <1>1 DEF CheckPeersConnected
<1>3. StreamsOf(peersConnected') = StreamsOf(peersConnected) \cup accepted
  BY <1>2 DEF StreamsOf
<1>4. UNCHANGED <<alive, discChan, peersAuthenticated, issued, permits, wire>> /\ accepted' = {}
      /\ discChan = {} /\ stage' # "check_peers_disconnected"
  BY DEF CheckPeersConnected, GoTo, TablesInv, ReportsCurrent
<1>5. KeysKnown'
  BY <1>2, <1>4 DEF TablesInv, KeysKnown
<1>6. IdleNowhere'
  BY <1>3, <1>4 DEF TablesInv, IdleNowhere
<1>7. PeersMatch' /\ ReportsCurrent'
  BY <1>2, <1>4 DEF TablesInv, PeersMatch, ReportsCurrent
<1>8. PermitsOwned'
  BY <1>3, <1>4 DEF TablesInv, PermitsOwned
<1>9. StreamOwnedOnce'
  BY <1>2, <1>3, <1>4 DEF TablesInv, StreamOwnedOnce, StreamsOf
<1>10. PeerIndexed'
  <2>1. \A s \in accepted : \A p \in DOMAIN peersAuthenticated : peersAuthenticated[p] # s
    BY StreamsAssumption DEF TablesInv, KeysKnown, TypeOK
  <2> QED BY <1>2, <1>4, <2>1 DEF TablesInv, PeerIndexed
<1> QED BY <1>5, <1>6, <1>7, <1>8, <1>9, <1>10 DEF TablesInv

\* Taking entries out of the table, with their permits, keeps what is said of
\* the entries that stay; an index that only loses peers of removed entries
\* still leads to every session that stays.
LEMMA TablesDropped ==
    ASSUME TypeOK, TablesInv, NEW K, DropSessions(K),
           DOMAIN peersAuthenticated' \subseteq DOMAIN peersAuthenticated,
           \A p \in DOMAIN peersAuthenticated' : peersAuthenticated'[p] = peersAuthenticated[p],
           \A s \in DOMAIN peersConnected \ K :
              peersConnected[s].peer \in DOMAIN peersAuthenticated =>
                 peersConnected[s].peer \in DOMAIN peersAuthenticated',
           UNCHANGED <<accepted, issued, wire>>, discChan' = {}
    PROVE  TablesInv'
<1>1. /\ DOMAIN peersConnected' = DOMAIN peersConnected \ K
      /\ \A s \in DOMAIN peersConnected' : peersConnected'[s] = peersConnected[s]
  BY DEF DropSessions, Remove, Restrict
<1>2. StreamsOf(peersConnected') \subseteq StreamsOf(peersConnected)
  BY <1>1 DEF StreamsOf
<1>3. KeysKnown'
  BY <1>1 DEF TablesInv, KeysKnown
<1>4. IdleNowhere'
  BY <1>2 DEF TablesInv, IdleNowhere
<1>5. PeersMatch' /\ ReportsCurrent'
  BY <1>1 DEF TablesInv, PeersMatch, ReportsCurrent
<1>6. StreamOwnedOnce'
  BY <1>1, <1>2 DEF TablesInv, StreamOwnedOnce
<1>7. PermitsOwned'
  <2> DEFINE gone == {peersConnected[s].stream : s \in K \cap DOMAIN peersConnected}
  <2>1. StreamsOf(peersConnected') = StreamsOf(peersConnected) \ gone
    BY <1>1 DEF StreamsOf, TablesInv, StreamOwnedOnce
  <2>2. accepted \cap gone = {}
    BY DEF TablesInv, StreamOwnedOnce, StreamsOf
  <2>3. permits' = permits \ gone
    BY DEF DropSessions
  <2> QED BY <2>1, <2>2, <2>3 DEF TablesInv, PermitsOwned
<1>8. PeerIndexed'
  BY <1>1 DEF TablesInv, PeerIndexed, PeersMatch
<1> QED BY <1>3, <1>4, <1>5, <1>6, <1>7, <1>8 DEF TablesInv

\* The sessions and peers of the reports belong together, so no session that
\* stays loses its index entry.
LEMMA TablesReported == TypeOK /\ TablesInv /\ CheckPeersDisconnected => TablesInv'
<1> SUFFICES ASSUME TypeOK, TablesInv, CheckPeersDisconnected PROVE TablesInv'
  OBVIOUS
<1> DEFINE K == Reported(discChan) \cup TimedOut(peersConnected)
<1>1. DropSessions(K) /\ UNCHANGED <<accepted, issued, wire>> /\ discChan' = {}
  BY DEF CheckPeersDisconnected
<1>2. /\ DOMAIN peersAuthenticated' = DOMAIN peersAuthenticated \ ReportedPeers(discChan)
      /\ \A p \in DOMAIN peersAuthenticated' : peersAuthenticated'[p] = peersAuthenticated[p]
  BY DEF CheckPeersDisconnected, Remove, Restrict
<1>3. ASSUME NEW s \in DOMAIN peersConnected \ K, peersConnected[s].peer \in DOMAIN peersAuthenticated
      PROVE  peersConnected[s].peer \notin ReportedPeers(discChan)
  <2>1. ASSUME NEW d \in discChan, d[2] = peersConnected[s].peer PROVE FALSE
    <3>1. d[1] \in DOMAIN peersConnected /\ peersConnected[d[1]].peer = peersConnected[s].peer
      BY <2>1 DEF TablesInv, ReportsCurrent
    <3>2. peersConnected[s].peer # NoPeer
      BY <1>3, PeerOfAssumption DEF TypeOK
    <3>3. d[1] = s
      BY <3>1, <3>2 DEF TablesInv, PeerIndexed
    <3> QED BY <3>3, <1>3 DEF Reported
  <2> QED BY <2>1 DEF ReportedPeers
<1> HIDE DEF K
<1> QED BY <1>1, <1>2, <1>3, TablesDropped

\* A session gets a peer and perhaps another key. The key is free: own sessions
\* that were issued, and foreign ones, are authenticated while they are there.
LEMMA TablesAuthenticated ==
    ASSUME TypeOK, TablesInv, NEW cur \in DOMAIN peersConnected, NEW new \in Sessions,
           new = cur \/ new \notin DOMAIN peersConnected,
           peersConnected' = AuthenticatedEntries(peersConnected, cur, PeerOf[new], new),
           peersAuthenticated' =
              AuthenticatedIndex(peersConnected, peersAuthenticated, cur, PeerOf[new], new),
           issued \subseteq issued', issued' \subseteq issued \cup {new},
           new \in issued' \cup Foreign,
           new \in issued' => new \notin accepted /\ wire[new] # "idle",
           discChan = {}, UNCHANGED <<accepted, discChan, permits, wire>>
    PROVE  TablesInv'
<1> DEFINE p == PeerOf[new]
<1>0. p \in Peers /\ p # NoPeer /\ IsTable(peersConnected) /\ IsIndex(peersAuthenticated)
  BY PeerOfAssumption, TypeParts DEF Peers
<1>1. /\ DOMAIN peersConnected' = (DOMAIN peersConnected \ {cur}) \cup {new}
      /\ peersConnected'[new].peer = p
      /\ peersConnected'[new].stream = peersConnected[cur].stream
      /\ \A s \in DOMAIN peersConnected' : s # new => peersConnected'[s] = peersConnected[s]
      /\ DOMAIN peersAuthenticated' = DOMAIN peersAuthenticated \cup {p}
      /\ peersAuthenticated'[p] = new
      /\ \A q \in DOMAIN peersAuthenticated' : q # p => peersAuthenticated'[q] = peersAuthenticated[q]
  <2> DEFINE e == [peersConnected[cur] EXCEPT !.peer = p]
             r == Remove(peersConnected, {cur})
  <2>1. e.peer = p /\ e.stream = peersConnected[cur].stream
    BY <1>0 DEF IsTable, Entries
  <2>2. DOMAIN r = DOMAIN peersConnected \ {cur} /\ \A x \in DOMAIN r : r[x] = peersConnected[x]
    BY DEF Remove, Restrict
  <2>3. peersConnected' = Insert(r, new, e) /\ peersAuthenticated' = Insert(peersAuthenticated, p, new)
    BY DEF AuthenticatedEntries, AuthenticatedIndex
  <2> HIDE DEF e, r, p
  <2> QED BY <2>1, <2>2, <2>3 DEF Insert
<1>2. StreamsOf(peersConnected') = StreamsOf(peersConnected)
  BY <1>1 DEF StreamsOf
<1>3. KeysKnown'
  BY <1>0, <1>1 DEF TablesInv, KeysKnown
<1>4. IdleNowhere'
  BY <1>2, StreamsAssumption DEF TablesInv, IdleNowhere
<1>5. PeersMatch' /\ ReportsCurrent'
  BY <1>1 DEF TablesInv, PeersMatch, ReportsCurrent
<1>6. PermitsOwned'
  BY <1>2 DEF TablesInv, PermitsOwned
<1>7. StreamOwnedOnce'
  BY <1>1, <1>2 DEF TablesInv, StreamOwnedOnce
<1>8. PeerIndexed'
  <2>1. ASSUME NEW s \in DOMAIN peersConnected', s # new, peersConnected[s].peer = p PROVE FALSE
    <3>1. s \in Sessions /\ peersConnected[s].peer = PeerOf[s]
      BY <2>1, <1>0, <1>1 DEF TablesInv, PeersMatch, TypeOK
    <3> QED BY <2>1, <3>1, PeerOfAssumption
  <2>2. ASSUME NEW q \in DOMAIN peersAuthenticated, q # p PROVE peersAuthenticated[q] # new
    BY <2>2 DEF TablesInv, PeersMatch
  <2> QED BY <1>0, <1>1, <2>1, <2>2 DEF TablesInv, PeerIndexed
<1> QED BY <1>3, <1>4, <1>5, <1>6, <1>7, <1>8 DEF TablesInv

\* Every step keeps the tables, the permits and the reports in agreement.
LEMMA TablesStep == TypeOK /\ TablesInv /\ [Next]_vars => TablesInv'
<1> SUFFICES ASSUME TypeOK, TablesInv, [Next]_vars PROVE TablesInv'
  OBVIOUS
<1>r. stage # "check_peers_disconnected" \/ ~alive => discChan = {}
  BY DEF TablesInv, ReportsCurrent
<1>1. CASE StartPorts \/ CheckPortDisconnected \/ EndFrame \/ SkipSystem
  <2>1. UNCHANGED tablesView /\ (stage # "check_peers_disconnected" \/ ~alive)
    BY <1>1 DEF StartPorts, CheckPortDisconnected, EndFrame, SkipSystem, GoTo, tablesView
  <2> QED BY <1>1, <1>r, <2>1, TablesFrame
<1>2. CASE CheckPeersConnected
  BY <1>2, TablesConnected
<1>3. CASE ListenPeers
  <2>1. /\ discChan' = {<<s, peersConnected[s].peer>> : s \in Broken}
        /\ stage' = "check_peers_disconnected"
        /\ UNCHANGED <<alive, accepted, tableVars, permits, wire>> /\ alive
    BY <1>3, <1>r DEF ListenPeers, GoTo
  <2>2. ReportsCurrent'
    BY <2>1 DEF ReportsCurrent, Broken, tableVars
  <2>3. KeysKnown' /\ IdleNowhere' /\ PeersMatch'
    BY <2>1 DEF TablesInv, KeysKnown, IdleNowhere, PeersMatch, tableVars
  <2>4. PermitsOwned' /\ StreamOwnedOnce' /\ PeerIndexed'
    BY <2>1 DEF TablesInv, PermitsOwned, StreamOwnedOnce, PeerIndexed, tableVars
  <2> QED BY <2>2, <2>3, <2>4 DEF TablesInv
<1>4. CASE CheckPeersDisconnected
  BY <1>4, TablesReported
<1>5. ASSUME NEW s \in Streams, AuthenticateNewPeer(s) PROVE TablesInv'
  <2>1. s \in DOMAIN peersConnected /\ s \in Sessions /\ s \notin accepted /\ wire[s] # "idle"
    BY <1>5 DEF AuthenticateNewPeer, AnonymousSessions, Sessions, TablesInv, KeysKnown, IdleNowhere,
                StreamOwnedOnce, StreamsOf
  <2> QED
    BY <1>5, <1>r, <2>1, TablesAuthenticated DEF AuthenticateNewPeer
<1>6. ASSUME NEW s \in Sessions, NEW t \in Sessions, AuthenticateAs(s, t) PROVE TablesInv'
  <2>1. t \notin DOMAIN peersConnected
    <3> SUFFICES ASSUME t \in DOMAIN peersConnected PROVE FALSE
      OBVIOUS
    <3>1. peersConnected[t].peer = NoPeer /\ t \in Foreign \cup issued
      BY <1>6 DEF AuthenticateAs, IsSessionAuthenticated
    <3>2. peersConnected[t].stream = t /\ t \notin issued
      BY <3>1 DEF TablesInv, KeysKnown
    <3>3. t \in Streams
      BY <3>2 DEF TypeOK, Entries
    <3> QED BY <3>1, <3>2, <3>3, StreamsAssumption
  <2>2. t \in issued => t \notin accepted /\ wire[t] # "idle"
    BY DEF TablesInv, KeysKnown, IdleNowhere
  <2>3. permits' = permits
    BY <1>6, <2>1 DEF AuthenticateAs
  <2> QED
    BY <1>6, <1>r, <2>1, <2>2, <2>3, TablesAuthenticated DEF AuthenticateAs
<1>7. ASSUME NEW u, DisconnectPeerOrSession(u) PROVE TablesInv'
  BY <1>7, <1>r, TablesDropped DEF DisconnectPeerOrSession
<1>8. CASE DropPort
  <2>1. /\ DOMAIN peersConnected' = {} /\ DOMAIN peersAuthenticated' = {}
        /\ accepted' = {} /\ discChan' = {} /\ permits' = {} /\ UNCHANGED <<issued, wire>>
    BY <1>8 DEF DropPort, Empty
  <2>2. StreamsOf(peersConnected') = {}
    BY <2>1 DEF StreamsOf
  <2> QED
    BY <2>1, <2>2 DEF TablesInv, KeysKnown, IdleNowhere, PeersMatch, ReportsCurrent,
                      PermitsOwned, StreamOwnedOnce, PeerIndexed
<1>9. ASSUME NEW i, BindOk(i) \/ BindErr(i) \/ AcceptErr(i) PROVE TablesInv'
  <2>1. UNCHANGED tablesView /\ UNCHANGED stage
    BY <1>9 DEF BindOk, BindErr, AcceptErr, TaskUnchanged, tablesView
  <2> QED BY <1>r, <2>1, TablesFrame
<1>10. ASSUME NEW i, NEW st \in Streams, AcceptStream(i, st) PROVE TablesInv'
  <2>1. /\ wire[st] = "idle" /\ wire'[st] = "open"
        /\ \A x \in Streams : x # st => wire'[x] = wire[x]
        /\ accepted' = accepted \cup {st}
        /\ permits' = IF Limited THEN permits \cup {st} ELSE permits
        /\ UNCHANGED <<stage, alive, discChan, tableVars>>
    BY <1>10 DEF AcceptStream, CanConnect, TaskUnchanged, TypeOK
  <2>2. st \notin StreamsOf(peersConnected) /\ st \notin issued
    BY <2>1 DEF TablesInv, IdleNowhere
  <2>3. \A x \in StreamsOf(peersConnected) : x \in Streams
    BY DEF StreamsOf, TypeOK, Entries
  <2>4. KeysKnown' /\ PeersMatch' /\ PeerIndexed'
    BY <2>1, <2>2 DEF TablesInv, KeysKnown, PeersMatch, PeerIndexed, tableVars
  <2>5. IdleNowhere'
    BY <2>1, <2>2, <2>3 DEF TablesInv, IdleNowhere, tableVars, TypeOK
  <2>6. ReportsCurrent'
    BY <2>1, <2>2 DEF TablesInv, ReportsCurrent, tableVars, TypeOK, Entries
  <2>7. PermitsOwned' /\ StreamOwnedOnce'
    BY <2>1, <2>2 DEF TablesInv, PermitsOwned, StreamOwnedOnce, tableVars
  <2> QED BY <2>4, <2>5, <2>6, <2>7 DEF TablesInv
<1>11. ASSUME NEW st \in Streams, NEW how \in {"fin", "reset", "dropped"},
              wire[st] \in {"idle", "open"}, wire' = [wire EXCEPT ![st] = how],
              UNCHANGED <<stage, alive, accepted, discChan, tableVars, permits>>
       PROVE  TablesInv'
  <2>1. \A x \in Streams : wire'[x] = IF x = st THEN how ELSE wire[x]
    BY <1>11 DEF TypeOK
  <2>2. \A x \in accepted \cup issued \cup StreamsOf(peersConnected) : x \in Streams
    BY DEF StreamsOf, TypeOK, Entries
  <2>3. KeysKnown' /\ PeersMatch' /\ PeerIndexed' /\ PermitsOwned' /\ StreamOwnedOnce'
    BY <1>11 DEF TablesInv, KeysKnown, PeersMatch, PeerIndexed, PermitsOwned, StreamOwnedOnce, tableVars
  <2>4. IdleNowhere'
    BY <1>11, <2>1, <2>2 DEF TablesInv, IdleNowhere, tableVars
  <2>5. ReportsCurrent'
    BY <1>11, <2>1 DEF TablesInv, ReportsCurrent, tableVars, TypeOK, Entries
  <2> QED BY <2>3, <2>4, <2>5 DEF TablesInv
<1>12. ASSUME NEW i, NEW st \in Streams, RefuseStream(i, st) \/ AcceptForNobody(i, st) PROVE TablesInv'
  BY <1>11, <1>12 DEF RefuseStream, AcceptForNobody, CanConnect, TaskUnchanged
<1>13. ASSUME NEW st \in Streams, LeaveStream(st) PROVE TablesInv'
  BY <1>11, <1>13 DEF LeaveStream, TaskUnchanged
<1>14. ASSUME NEW s, SessionGrowsOld(s) PROVE TablesInv'
  <2>1. /\ DOMAIN peersConnected' = DOMAIN peersConnected
        /\ \A t \in DOMAIN peersConnected : /\ peersConnected'[t].peer = peersConnected[t].peer
                                           /\ peersConnected'[t].stream = peersConnected[t].stream
        /\ UNCHANGED <<stage, alive, accepted, discChan, peersAuthenticated, issued, permits, wire>>
    BY <1>14 DEF SessionGrowsOld, TypeOK, Entries
  <2>2. StreamsOf(peersConnected') = StreamsOf(peersConnected)
    BY <2>1 DEF StreamsOf
  <2>3. KeysKnown' /\ PeersMatch' /\ ReportsCurrent'
    BY <2>1 DEF TablesInv, KeysKnown, PeersMatch, ReportsCurrent
  <2>4. IdleNowhere' /\ PermitsOwned'
    BY <2>1, <2>2 DEF TablesInv, IdleNowhere, PermitsOwned
  <2>5. StreamOwnedOnce' /\ PeerIndexed'
    BY <2>1, <2>2 DEF TablesInv, StreamOwnedOnce, PeerIndexed
  <2> QED BY <2>3, <2>4, <2>5 DEF TablesInv
<1>15. CASE UNCHANGED vars
  BY <1>r, <1>15, TablesFrame DEF vars, tablesView
<1> QED
  BY <1>1, <1>2, <1>3, <1>4, <1>5, <1>6, <1>7, <1>8, <1>9, <1>10, <1>12, <1>13, <1>14, <1>15
     DEF Next, FrameStep, AppCall, ClosePort, CloseConnection, Bind, Accept, Remote

\* The inductive invariant holds in every behaviour.
THEOREM Invariance == Spec => []IInv
<1>1. IInv /\ [Next]_vars => IInv'
  BY TypeStep, OneTaskStep, TablesStep DEF IInv
<1> QED BY InitIInv, <1>1, PTL DEF Spec

\* No permit of the semaphore leaks, whatever the order in which sessions are
\* reported, time out, move to another key or are disconnected.
THEOREM PermitsOwnedAlways == Spec => []PermitsOwned
<1>1. IInv => PermitsOwned
  BY DEF IInv, TablesInv
<1> QED BY Invariance, <1>1, PTL

\* The session table and the index of peers agree, and a stream belongs to one
\* session, for every set of sessions and every order of calls.
THEOREM TablesAgree == Spec => [](PeerIndexed /\ StreamOwnedOnce)
<1>1. IInv => PeerIndexed /\ StreamOwnedOnce
  BY DEF IInv, TablesInv
<1> QED BY Invariance, <1>1, PTL

-----------------------------------------------------------------------------
(* The connection limit.                                                   *)

PermitsBounded == Limited => Cardinality(permits) <= MaxConnections

\* Permits are only added one at a time, after try_acquire found one free.
LEMMA PermitsBoundedStep == TypeOK /\ PermitsBounded /\ [Next]_vars => PermitsBounded'
<1> SUFFICES ASSUME TypeOK, PermitsBounded, [Next]_vars, Limited
             PROVE  Cardinality(permits') <= MaxConnections
  BY DEF PermitsBounded
<1>f. IsFiniteSet(permits) /\ Cardinality(permits) \in Nat /\ MaxConnections \in Nat
  BY StreamsAssumption, BoundsAssumption, FS_Subset, FS_CardinalityType DEF TypeOK
<1>1. ASSUME permits' \subseteq permits PROVE Cardinality(permits') <= MaxConnections
  <2>1. Cardinality(permits') <= Cardinality(permits) /\ IsFiniteSet(permits')
    BY <1>f, <1>1, FS_Subset
  <2>2. Cardinality(permits') \in Nat
    BY <2>1, FS_CardinalityType
  <2> QED BY <1>f, <2>1, <2>2 DEF PermitsBounded
<1>2. ASSUME NEW i, NEW st, AcceptStream(i, st) PROVE Cardinality(permits') <= MaxConnections
  <2>1. Cardinality(permits) < MaxConnections /\ permits' = permits \cup {st}
    BY <1>2 DEF AcceptStream, PermitFree
  <2>2. st \in permits => permits' = permits
    BY <2>1
  <2>3. st \notin permits => Cardinality(permits') = Cardinality(permits) + 1
    BY <1>f, <2>1, FS_AddElement
  <2> QED BY <1>f, <2>1, <2>2, <2>3
<1>3. CASE FrameStep
  BY <1>1, <1>3 DEF FrameStep, StartPorts, CheckPeersConnected, ListenPeers, CheckPeersDisconnected,
                    DropSessions, CheckPortDisconnected, EndFrame, SkipSystem
<1>4. CASE AppCall
  BY <1>1, <1>4 DEF AppCall, AuthenticateNewPeer, AuthenticateAs, DisconnectPeerOrSession,
                    DropSessions, ClosePort, CloseConnection, DropPort
<1>5. CASE Bind \/ Remote
  BY <1>1, <1>5 DEF Bind, BindOk, BindErr, Remote, LeaveStream, SessionGrowsOld
<1>6. CASE Accept
  BY <1>1, <1>2, <1>6 DEF Accept, AcceptErr, RefuseStream, AcceptForNobody
<1>7. CASE UNCHANGED vars
  BY <1>1, <1>7 DEF vars
<1> QED BY <1>3, <1>4, <1>5, <1>6, <1>7 DEF Next

\* The server never holds more streams than max_connections allows, for every
\* limit and every set of streams.
THEOREM LimitHolds == Spec => []ConnectionLimit
<1>1. Init => PermitsBounded
  BY FS_EmptySet, BoundsAssumption DEF Init, PermitsBounded
<1>2. IInv => TypeOK
  BY DEF IInv
<1>3. IInv /\ PermitsBounded => ConnectionLimit
  BY DEF IInv, TablesInv, PermitsOwned, PermitsBounded, ConnectionLimit
<1> QED BY Invariance, PermitsBoundedStep, <1>1, <1>2, <1>3, PTL DEF Spec

-----------------------------------------------------------------------------
(* What check_peers_disconnected takes away.                               *)

\* Between listen_peers and the port check only that system removes sessions.
LEMMA DroppedSessions ==
    ASSUME IInv, [Next]_vars, stage = "check_peers_disconnected",
           NEW s \in DOMAIN peersConnected \ DOMAIN peersConnected'
    PROVE  /\ CheckPeersDisconnected
           /\ \/ <<s, peersConnected[s].peer>> \in discChan
                 /\ wire[peersConnected[s].stream] = "reset"
              \/ peersConnected[s].peer = NoPeer /\ peersConnected[s].late
<1>1. CheckPeersDisconnected
  <2>1. CASE UNCHANGED vars
    BY <2>1 DEF vars, tableVars
  <2>2. CASE FrameStep
    BY <2>2 DEF FrameStep, StartPorts, CheckPeersConnected, ListenPeers, CheckPortDisconnected,
                EndFrame, SkipSystem, GoTo, tableVars
  <2>3. CASE AppCall
    BY <2>3 DEF AppCall, AuthenticateNewPeer, AuthenticateAs, DisconnectPeerOrSession,
                ClosePort, CloseConnection, DropPort
  <2>4. CASE Bind \/ Accept
    BY <2>4 DEF Bind, BindOk, BindErr, Accept, AcceptErr, AcceptStream, RefuseStream,
                AcceptForNobody, TaskUnchanged, tableVars
  <2>5. CASE Remote
    BY <2>5 DEF Remote, LeaveStream, SessionGrowsOld, TaskUnchanged, tableVars
  <2> QED BY <2>1, <2>2, <2>3, <2>4, <2>5 DEF Next
<1>2. s \in Reported(discChan) \cup TimedOut(peersConnected)
  BY <1>1 DEF CheckPeersDisconnected, DropSessions, Remove, Restrict
<1>3. CASE s \in Reported(discChan)
  <2>1. PICK d \in discChan : d[1] = s
    BY <1>3 DEF Reported
  <2>2. d = <<d[1], d[2]>>
    BY DEF IInv, TypeOK
  <2> QED BY <1>1, <2>1, <2>2 DEF IInv, TablesInv, ReportsCurrent
<1>4. CASE s \in TimedOut(peersConnected)
  BY <1>1, <1>4 DEF TimedOut, AnonymousSessions
<1> QED BY <1>2, <1>3, <1>4

\* An authenticated session is only taken by a read error of its own stream.
THEOREM DropsJustified == Spec => OnlyBrokenOrAnonymousDropped
<1>1. IInv /\ [Next]_vars =>
        [stage = "check_peers_disconnected" =>
           \A s \in DOMAIN peersConnected \ DOMAIN peersConnected' :
              \/ wire[peersConnected[s].stream] = "reset"
              \/ peersConnected[s].peer = NoPeer /\ peersConnected[s].late]_vars
  BY DroppedSessions
<1> QED BY Invariance, <1>1, PTL DEF Spec, OnlyBrokenOrAnonymousDropped

\* The index forgets the peer of every session taken that way.
THEOREM DropsForgotten == Spec => DropClearsIndex
<1>1. ASSUME IInv, [Next]_vars, stage = "check_peers_disconnected",
             NEW s \in DOMAIN peersConnected \ DOMAIN peersConnected'
      PROVE  peersConnected[s].peer \notin DOMAIN peersAuthenticated'
  <2>1. DOMAIN peersAuthenticated' = DOMAIN peersAuthenticated \ ReportedPeers(discChan)
    BY <1>1, DroppedSessions DEF CheckPeersDisconnected, Remove, Restrict
  <2>2. CASE <<s, peersConnected[s].peer>> \in discChan
    BY <2>1, <2>2 DEF ReportedPeers
  <2>3. CASE peersConnected[s].peer = NoPeer
    BY <1>1, <2>1, <2>3, PeerOfAssumption DEF IInv, TypeOK
  <2> QED BY <1>1, <2>2, <2>3, DroppedSessions
<1>2. IInv /\ [Next]_vars =>
        [stage = "check_peers_disconnected" =>
           \A s \in DOMAIN peersConnected \ DOMAIN peersConnected' :
              peersConnected[s].peer \notin DOMAIN peersAuthenticated']_vars
  BY <1>1
<1> QED BY Invariance, <1>2, PTL DEF Spec, DropClearsIndex

-----------------------------------------------------------------------------
(* The listener of a started port, and what a report says of the past.     *)

\* The listener of a task that accepts, or that ended before it was taken.
Accepting(i) == i \in DOMAIN tasks /\ tasks[i].phase = "accepting"
EndedUnread(i) == i \in DOMAIN tasks /\ tasks[i].phase = "acceptFailedUnread" /\ Live = {}
HandedBy(i) == Accepting(i) \/ EndedUnread(i)

\* One listener waits at most, while the port is not up; and while a task binds
\* none waits.
Served ==
    alive =>
      /\ listenerChan = <<>> \/ \E i : listenerChan = <<i>> /\ ~started /\ HandedBy(i)
      /\ started /\ downedChan = <<>> => HandedBy(tcpListener)
      /\ \A i \in Live : tasks[i].phase = "binding" => ~started /\ listenerChan = <<>>

\* What the tasks' steps do to their phases.
LEMMA PhaseFacts ==
    ASSUME TypeOK, NEW i \in Live, NEW phase, SetPhase(i, phase)
    PROVE  /\ DOMAIN tasks' = DOMAIN tasks /\ i \in DOMAIN tasks
           /\ tasks'[i].phase = phase /\ tasks'[i].first = tasks[i].first
           /\ \A j \in DOMAIN tasks : j # i => tasks'[j] = tasks[j]
<1>1. i \in DOMAIN tasks /\ tasks \in Seq(TaskRecords)
  BY DEF Live, TypeOK, TaskRecords
<1>2. tasks[i] \in TaskRecords
  BY <1>1, ElementType
<1> QED BY <1>1, <1>2 DEF SetPhase, TaskRecords

\* A new task is the last of the sequence.
LEMMA SpawnFacts ==
    ASSUME TypeOK, SpawnTask
    PROVE  LET n == Len(tasks) + 1 IN
           /\ DOMAIN tasks' = DOMAIN tasks \cup {n} /\ n \notin DOMAIN tasks
           /\ tasks'[n] = [phase |-> "binding", first |-> firstStarted]
           /\ \A j \in DOMAIN tasks : tasks'[j] = tasks[j]
<1>1. tasks \in Seq(TaskRecords) /\ [phase |-> "binding", first |-> firstStarted] \in TaskRecords
  BY DEF TypeOK, TaskRecords, Phases
<1> QED BY <1>1, AppendProperties, LenProperties DEF SpawnTask

\* The steps that touch neither the port nor its tasks.
LEMMA PortFrame ==
    ASSUME [Next]_vars
    PROVE  \/ StartPorts \/ CheckPortDisconnected \/ ClosePort \/ CloseConnection
           \/ \E i \in DOMAIN tasks : BindOk(i) \/ BindErr(i) \/ AcceptErr(i)
                                      \/ \E st \in Streams : AcceptForNobody(i, st)
           \/ UNCHANGED <<alive, portVars, taskVars>>
<1>1. CASE FrameStep
  BY <1>1 DEF FrameStep, CheckPeersConnected, ListenPeers, CheckPeersDisconnected, EndFrame, SkipSystem
<1>2. CASE AppCall
  BY <1>2 DEF AppCall, AuthenticateNewPeer, AuthenticateAs, DisconnectPeerOrSession
<1>3. CASE Bind
  BY <1>3 DEF Bind
<1>4. CASE Accept
  BY <1>4 DEF Accept, AcceptStream, RefuseStream, TaskUnchanged
<1>5. CASE Remote
  BY <1>5 DEF Remote, LeaveStream, SessionGrowsOld, TaskUnchanged
<1>6. CASE UNCHANGED vars
  BY <1>6 DEF vars
<1> QED BY <1>1, <1>2, <1>3, <1>4, <1>5, <1>6 DEF Next

LEMMA ServedStep == TypeOK /\ OneTask /\ Served /\ [Next]_vars => Served'
<1> SUFFICES ASSUME TypeOK, OneTask, Served, [Next]_vars, alive' PROVE Served'
  BY DEF Served
<1>q. listenerChan \in Seq(Nat) /\ downedChan \in Seq(BOOLEAN)
  BY DEF TypeOK
<1>0. ASSUME UNCHANGED tasks
      PROVE  Live' = Live /\ \A i : HandedBy(i)' <=> HandedBy(i)
  BY <1>0 DEF HandedBy, Accepting, EndedUnread, Live
<1>1. CASE StartPorts
  <2>0. alive
    BY <1>1 DEF StartPorts
  <2>1. CASE TakeListener
    <3>1. PICK i : listenerChan = <<i>> /\ HandedBy(i)
      BY <2>0, <2>1 DEF TakeListener, Served
    <3>2. listenerChan' = <<>> /\ tcpListener' = i /\ HandedBy(i)' /\ Live' = Live
      BY <1>0, <2>1, <3>1 DEF TakeListener
    <3>3. \A j \in Live' : tasks'[j].phase # "binding"
      BY <2>0, <2>1, <3>1, <3>2 DEF TakeListener, Served
    <3> QED BY <3>2, <3>3 DEF Served
  <2>2. CASE SpawnTask
    BY <2>0, <2>2 DEF SpawnTask, Served
  <2>3. CASE NothingToStart
    BY <1>0, <2>0, <2>3 DEF NothingToStart, portVars, taskVars, Served
  <2> QED BY <1>1, <2>1, <2>2, <2>3 DEF StartPorts
<1>2. CASE CheckPortDisconnected
  <2>0. alive
    BY <1>2 DEF CheckPortDisconnected
  <2>1. CASE PortDown
    <3>1. UNCHANGED <<tasks, listenerChan>> /\ ~started'
      BY <2>1 DEF PortDown
    <3>2. Live = {}
      BY <2>0, <2>1 DEF PortDown, OneTask
    <3> QED BY <1>0, <2>0, <3>1, <3>2 DEF Served
  <2>2. CASE PortUp
    BY <1>0, <2>0, <2>2 DEF PortUp, portVars, taskVars, Served
  <2> QED BY <1>2, <2>1, <2>2 DEF CheckPortDisconnected
<1>3. CASE ClosePort \/ CloseConnection
  BY <1>3 DEF ClosePort, CloseConnection, DropPort
<1>4. ASSUME NEW i \in DOMAIN tasks, BindOk(i) PROVE Served'
  <2>0. /\ i \in Live /\ SetPhase(i, "accepting") /\ tasks[i].phase = "binding"
        /\ alive /\ UNCHANGED <<started, tcpListener, downedChan>>
    BY <1>4 DEF BindOk, TaskUnchanged, portVars
  <2>1. HandedBy(i)' /\ tasks'[i].phase = "accepting"
    BY <2>0, PhaseFacts DEF HandedBy, Accepting
  <2>2. ~started' /\ listenerChan' = <<i>>
    <3>1. ~started /\ listenerChan = <<>>
      BY <2>0 DEF Served
    <3> QED BY <1>4, <2>0, <3>1 DEF BindOk
  <2>3. \A j \in Live' : tasks'[j].phase # "binding"
    <3>1. Live' = Live
      BY <2>0, LiveSetPhase
    <3> QED BY <2>0, <2>1, <3>1 DEF OneTask
  <2> QED BY <2>1, <2>2, <2>3 DEF Served
<1>5. ASSUME NEW i \in DOMAIN tasks, BindErr(i) \/ AcceptErr(i) PROVE Served'
  <2>0. i \in Live /\ alive /\ UNCHANGED <<started, tcpListener, listenerChan>>
        /\ downedChan' # <<>>
    <3>1. tasks[i].first \in BOOLEAN
      BY TaskType DEF TypeOK, TaskRecords
    <3>2. i \in Live /\ alive /\ UNCHANGED <<started, tcpListener, listenerChan>>
          /\ downedChan' = IF alive THEN Append(downedChan, tasks[i].first) ELSE downedChan
      BY <1>5 DEF BindErr, AcceptErr, TaskUnchanged, portVars
    <3>3. Append(downedChan, tasks[i].first) # <<>>
      BY <1>q, <3>1, AppendProperties
    <3> QED BY <3>2, <3>3
  <2>1. PICK phase \in {"bindFailed", "acceptFailed", "acceptFailedUnread"} :
          /\ SetPhase(i, phase)
          /\ phase = "bindFailed" => tasks[i].phase = "binding"
          /\ phase = "acceptFailed" => listenerChan = <<>>
    BY <1>5 DEF BindErr, AcceptErr
  <2>2. /\ DOMAIN tasks' = DOMAIN tasks /\ tasks'[i].phase = phase
        /\ \A j \in DOMAIN tasks : j # i => tasks'[j] = tasks[j]
    BY <2>0, <2>1, PhaseFacts
  <2>3. Live' = {}
    <3>1. Live' = Live \ {i}
      BY <2>0, <2>1, LiveSetPhase
    <3> QED BY <2>0, <3>1 DEF OneTask
  <2>4. ASSUME NEW j, listenerChan = <<j>>, HandedBy(j) PROVE HandedBy(j)'
    <3>1. phase = "acceptFailedUnread"
      BY <2>0, <2>1, <2>4 DEF Served
    <3>2. j \in DOMAIN tasks' /\ tasks'[j].phase = "acceptFailedUnread"
      BY <2>0, <2>2, <2>4, <3>1 DEF HandedBy, Accepting, EndedUnread, Live, OneTask
    <3> QED BY <2>3, <3>2 DEF HandedBy, EndedUnread
  <2> QED BY <2>0, <2>3, <2>4 DEF Served
<1>6. ASSUME NEW i, NEW st, AcceptForNobody(i, st) PROVE FALSE
  BY <1>6 DEF AcceptForNobody, TaskUnchanged
<1>7. CASE UNCHANGED <<alive, portVars, taskVars>>
  BY <1>0, <1>7 DEF portVars, taskVars, Served
<1> QED BY <1>1, <1>2, <1>3, <1>4, <1>5, <1>6, <1>7, PortFrame

\* Every captured flag was true of the port when it was captured, and stays so.
FlagsCaptured ==
    /\ \A i \in DOMAIN tasks : tasks[i].first => firstStarted
    /\ WasConnectedSound

LEMMA FlagsStep == TypeOK /\ FlagsCaptured /\ [Next]_vars => FlagsCaptured'
<1> SUFFICES ASSUME TypeOK, FlagsCaptured, [Next]_vars PROVE FlagsCaptured'
  OBVIOUS
<1>q. downedChan \in Seq(BOOLEAN)
  BY DEF TypeOK
<1>0. ASSUME firstStarted => firstStarted',
             \A i \in DOMAIN tasks' : i \in DOMAIN tasks /\ tasks'[i].first = tasks[i].first,
             downedChan' = downedChan \/ downedChan' = <<>>
      PROVE  FlagsCaptured'
  BY <1>0 DEF FlagsCaptured, WasConnectedSound
<1>1. CASE StartPorts
  <2>1. CASE TakeListener
    BY <1>0, <2>1 DEF TakeListener
  <2>2. CASE SpawnTask
    <3>1. \A i \in DOMAIN tasks' : tasks'[i].first => firstStarted
      BY <2>2, SpawnFacts DEF FlagsCaptured
    <3> QED BY <2>2, <3>1 DEF SpawnTask, FlagsCaptured, WasConnectedSound
  <2>3. CASE NothingToStart
    BY <1>0, <2>3 DEF NothingToStart, portVars, taskVars
  <2> QED BY <1>1, <2>1, <2>2, <2>3 DEF StartPorts
<1>2. CASE CheckPortDisconnected
  <2>1. CASE PortDown
    <3>1. \A k \in DOMAIN downedChan' : k + 1 \in DOMAIN downedChan /\ downedChan'[k] = downedChan[k + 1]
      BY <1>q, <2>1 DEF PortDown
    <3> QED BY <2>1, <3>1 DEF PortDown, FlagsCaptured, WasConnectedSound
  <2>2. CASE PortUp
    BY <1>0, <2>2 DEF PortUp, portVars, taskVars
  <2> QED BY <1>2, <2>1, <2>2 DEF CheckPortDisconnected
<1>3. CASE ClosePort
  BY <1>0, <1>3 DEF ClosePort, DropPort
<1>4. CASE CloseConnection
  <2>1. \A i \in DOMAIN tasks' : i \in DOMAIN tasks /\ tasks'[i].first = tasks[i].first
    <3>1. \A i \in DOMAIN tasks : tasks[i] \in TaskRecords
      BY ElementType DEF TypeOK, TaskRecords
    <3> QED BY <1>4, <3>1 DEF CloseConnection, TaskRecords
  <2> QED BY <1>0, <1>4, <2>1 DEF CloseConnection, DropPort
<1>5. ASSUME NEW i \in DOMAIN tasks,
             BindOk(i) \/ BindErr(i) \/ AcceptErr(i) \/ \E st \in Streams : AcceptForNobody(i, st)
      PROVE  FlagsCaptured'
  <2>1. i \in Live /\ firstStarted' = firstStarted
    BY <1>5 DEF BindOk, BindErr, AcceptErr, AcceptForNobody, CanConnect, TaskUnchanged, portVars
  <2>2. \E phase : SetPhase(i, phase)
    BY <1>5 DEF BindOk, BindErr, AcceptErr, AcceptForNobody
  <2>3. \A j \in DOMAIN tasks' : j \in DOMAIN tasks /\ tasks'[j].first = tasks[j].first
    BY <2>1, <2>2, PhaseFacts
  <2>4. CASE downedChan' = downedChan
    BY <1>0, <2>1, <2>3, <2>4
  <2>5. CASE downedChan' = Append(downedChan, tasks[i].first)
    <3>1. tasks[i].first \in BOOLEAN
      BY TaskType DEF TypeOK, TaskRecords
    <3>2. \A k \in DOMAIN downedChan' : \/ k \in DOMAIN downedChan /\ downedChan'[k] = downedChan[k]
                                        \/ downedChan'[k] = tasks[i].first
      BY <1>q, <2>5, <3>1, LenProperties, AppendProperties
    <3> QED BY <2>1, <2>3, <3>2 DEF FlagsCaptured, WasConnectedSound
  <2> QED BY <1>5, <2>4, <2>5 DEF BindOk, BindErr, AcceptErr, AcceptForNobody
<1>6. CASE UNCHANGED <<alive, portVars, taskVars>>
  BY <1>0, <1>6 DEF portVars, taskVars
<1> QED BY <1>1, <1>2, <1>3, <1>4, <1>5, <1>6, PortFrame

\* A started port with no report waiting has a task that accepts on the listener
\* it holds, unless that task failed before its listener was taken: then there
\* is none.
THEOREM ListenerServedAlways == Spec => []ListenerServed
<1>1. Init => Served
  BY EmptySeq DEF Init, Served, Live
<1>2. IInv => TypeOK /\ OneTask
  BY DEF IInv
<1>3. Served => ListenerServed
  BY DEF Served, ListenerServed, HandedBy, Accepting, EndedUnread
<1> QED BY <1>1, <1>2, <1>3, Invariance, ServedStep, PTL DEF Spec

\* No port is said to have been connected that never was, whichever of its
\* starts the report is of.
THEOREM WasConnectedSoundAlways == Spec => []WasConnectedSound
<1>1. Init => FlagsCaptured
  BY DEF Init, FlagsCaptured, WasConnectedSound
<1>2. FlagsCaptured => WasConnectedSound
  BY DEF FlagsCaptured
<1> QED BY <1>1, <1>2, TypeCorrect, FlagsStep, PTL DEF Spec
=============================================================================
