---------------------------- MODULE TcpServerPort ----------------------------
(***************************************************************************)
(* The main TCP port of a server connection: the TcpServerPort structure,  *)
(* the tokio task each start() spawns, and the Bevy systems of             *)
(* ServerNetworkPlugin that drive the port once per frame.                 *)
(*                                                                         *)
(* Three kinds of actors interleave.                                       *)
(*   The frame loop runs the systems of the First schedule in the order    *)
(*   they are chained; "app" stands for the rest of the frame, where the   *)
(*   authentication systems and the application call the port.             *)
(*   A task of start() binds the address and then accepts streams. It      *)
(*   talks to the port only through unbounded channels and the semaphore.  *)
(*   The remote ends connect, close or reset their streams.                *)
(*                                                                         *)
(* A stream stands for one TCP connection; the session uuid that           *)
(* peers_connected() draws for it is identified with it. `Foreign' are     *)
(* session uuids handed out by another connection of the same server.      *)
(***************************************************************************)
EXTENDS Integers, Sequences, FiniteSets, SessionTable

CONSTANTS Streams,         \* TCP connections the remote ends may open
          Foreign,         \* sessions issued by the server's other connections
          PeerOf,          \* the peer uuid drawn together with a session uuid
          MaxConnections,  \* max_connections; 0 means no semaphore
          MaxFailures      \* bound: failed binds and failed accepts in a run

Sessions == Streams \cup Foreign
Peers == {PeerOf[s] : s \in Sessions}

ASSUME StreamsAssumption == IsFiniteSet(Streams) /\ Streams \cap Foreign = {}
ASSUME PeerOfAssumption ==
    /\ DOMAIN PeerOf = Sessions
    /\ \A s, t \in Sessions : PeerOf[s] = PeerOf[t] => s = t
    /\ NoPeer \notin Peers
    /\ Peers \cap Sessions = {}
ASSUME BoundsAssumption == MaxConnections \in Nat /\ MaxFailures \in Nat

NoListener == 0

VARIABLES
    stage,               \* next system of the frame
    alive,               \* the connection still holds the port (main_port)
    started, starting, firstStarted,
    tcpListener,         \* task whose listener the port holds, or NoListener
    tasks,               \* one entry per call of start(): phase, captured first_started
    listenerChan,        \* tcp_listener channel: ids of the tasks that bound
    downedChan,          \* connecting_downed channel: the first_started flags
    accepted,            \* peer_connected channel: streams not yet sessions
    discChan,            \* peer_disconnected channel: <<session, peer>>
    peersConnected, peersAuthenticated,
    issued,              \* own sessions for which a peer uuid was drawn
    permits,             \* streams holding a permit of the semaphore
    wire,                \* the stream as the remote end left it
    failures             \* bind and accept errors so far

portVars == <<started, starting, firstStarted, tcpListener>>
taskVars == <<tasks, listenerChan, downedChan>>
tableVars == <<peersConnected, peersAuthenticated, issued>>
vars == <<stage, alive, portVars, taskVars, accepted, discChan, tableVars,
          permits, wire, failures>>

Limited == MaxConnections > 0
Stages == {"start_ports", "check_peers_connected", "listen_peers",
           "check_peers_disconnected", "check_port_disconnected", "app"}
Phases == {"binding", "accepting", "bindFailed", "acceptFailed",
           "acceptFailedUnread", "sendFailed", "cancelled"}
Live == {i \in DOMAIN tasks : tasks[i].phase \in {"binding", "accepting"}}

\* The streams owned by the sessions of a table.
StreamsOf(peers) == {peers[s].stream : s \in DOMAIN peers}

Init ==
    /\ stage = "start_ports"
    /\ alive = TRUE
    /\ started = FALSE /\ starting = FALSE /\ firstStarted = FALSE
    /\ tcpListener = NoListener
    /\ tasks = <<>> /\ listenerChan = <<>> /\ downedChan = <<>>
    /\ accepted = {} /\ discChan = {}
    /\ peersConnected = Empty /\ peersAuthenticated = Empty
    /\ issued = {} /\ permits = {}
    /\ wire = [st \in Streams |-> "idle"]
    /\ failures = 0

-----------------------------------------------------------------------------
(* The systems of the First schedule, in the order of the chain. *)

GoTo(from, to) == stage = from /\ stage' = to

\* start_ports: started() takes a listener from the channel if there is one;
\* otherwise start() spawns a task unless one was started before.
TakeListener ==
    /\ ~started /\ listenerChan # <<>>
    /\ started' = TRUE /\ starting' = FALSE /\ firstStarted' = TRUE
    /\ tcpListener' = Head(listenerChan)
    /\ listenerChan' = Tail(listenerChan)
    /\ UNCHANGED <<tasks, downedChan>>

\* Variants with a bug: a second start while the first is under way; a task
\* that always reports that the port had been connected.
SpawnTaskTwice ==
    /\ ~started /\ listenerChan = <<>> /\ Len(tasks) <= MaxFailures
    /\ starting' = TRUE
    /\ tasks' = Append(tasks, [phase |-> "binding", first |-> firstStarted])
    /\ UNCHANGED <<started, firstStarted, tcpListener, listenerChan, downedChan>>

SpawnTaskFlagged ==
    /\ ~started /\ listenerChan = <<>> /\ ~starting
    /\ starting' = TRUE
    /\ tasks' = Append(tasks, [phase |-> "binding", first |-> TRUE])
    /\ UNCHANGED <<started, firstStarted, tcpListener, listenerChan, downedChan>>

SpawnTask ==
    /\ ~started /\ listenerChan = <<>> /\ ~starting
    /\ starting' = TRUE
    /\ tasks' = Append(tasks, [phase |-> "binding", first |-> firstStarted])
    /\ UNCHANGED <<started, firstStarted, tcpListener, listenerChan, downedChan>>

NothingToStart ==
    /\ started \/ (starting /\ listenerChan = <<>>)
    /\ UNCHANGED <<portVars, taskVars>>

StartPorts ==
    /\ alive /\ GoTo("start_ports", "check_peers_connected")
    /\ TakeListener \/ SpawnTask \/ NothingToStart
    /\ UNCHANGED <<alive, accepted, discChan, tableVars, permits, wire, failures>>

\* check_peers_connected: every accepted stream becomes an anonymous session.
CheckPeersConnected ==
    /\ alive /\ GoTo("check_peers_connected", "listen_peers")
    /\ peersConnected' =
         [s \in DOMAIN peersConnected \cup accepted |->
            IF s \in accepted THEN [stream |-> s, peer |-> NoPeer, late |-> FALSE]
            ELSE peersConnected[s]]
    /\ accepted' = {}
    /\ UNCHANGED <<alive, portVars, taskVars, discChan, peersAuthenticated, issued,
                   permits, wire, failures>>

\* listen_peers: a read error is queued with the session's peer. A stream the
\* remote end closed in order reads Ok(0): nothing is queued for it.
BrokenAnonymous ==
    {s \in AnonymousSessions(peersConnected) : wire[peersConnected[s].stream] = "reset"}

Broken == {s \in DOMAIN peersConnected : wire[peersConnected[s].stream] = "reset"}

ListenPeers ==
    /\ alive /\ GoTo("listen_peers", "check_peers_disconnected")
    /\ discChan' = discChan \cup {<<s, peersConnected[s].peer>> : s \in Broken}
    /\ UNCHANGED <<alive, portVars, taskVars, accepted, tableVars, permits, wire, failures>>

\* Variants with a bug: any session times out; none does; the index keeps the
\* peer; the permit of a dropped entry is lost.
TimedOutAny(peers) == {s \in DOMAIN peers : peers[s].late}
TimedOutNone(peers) == {}
ReportedNobody(disc) == {}
DropSessionsLeaking(keys) ==
    peersConnected' = Remove(peersConnected, keys) /\ UNCHANGED permits

\* What get_peers_disconnected() takes out of the tables: the sessions and
\* peers reported, and the anonymous sessions that are 120 seconds old.
Reported(disc) == {d[1] : d \in disc}
ReportedPeers(disc) == {d[2] : d \in disc}
TimedOut(peers) == {s \in AnonymousSessions(peers) : peers[s].late}

\* Removed entries are dropped, and with them their streams and permits.
DropSessions(keys) ==
    /\ peersConnected' = Remove(peersConnected, keys)
    /\ permits' = permits \ {peersConnected[s].stream : s \in keys \cap DOMAIN peersConnected}

CheckPeersDisconnected ==
    /\ alive /\ GoTo("check_peers_disconnected", "check_port_disconnected")
    /\ DropSessions(Reported(discChan) \cup TimedOut(peersConnected))
    /\ peersAuthenticated' = Remove(peersAuthenticated, ReportedPeers(discChan))
    /\ discChan' = {}
    /\ UNCHANGED <<alive, portVars, taskVars, accepted, issued, wire, failures>>

\* Variant with a bug: the port still believes a start is under way.
PortDownStillStarting ==
    /\ downedChan # <<>>
    /\ started' = FALSE
    /\ tcpListener' = NoListener
    /\ downedChan' = Tail(downedChan)
    /\ UNCHANGED <<starting, firstStarted, tasks, listenerChan>>

\* check_port_disconnected: disconnected() consumes at most one report.
PortDown ==
    /\ downedChan # <<>>
    /\ started' = FALSE /\ starting' = FALSE
    /\ tcpListener' = NoListener
    /\ downedChan' = Tail(downedChan)
    /\ UNCHANGED <<firstStarted, tasks, listenerChan>>

PortUp == downedChan = <<>> /\ UNCHANGED <<portVars, taskVars>>

CheckPortDisconnected ==
    /\ alive /\ GoTo("check_port_disconnected", "app")
    /\ PortDown \/ PortUp
    /\ UNCHANGED <<alive, accepted, discChan, tableVars, permits, wire, failures>>

EndFrame ==
    /\ GoTo("app", "start_ports")
    /\ UNCHANGED <<alive, portVars, taskVars, accepted, discChan, tableVars,
                   permits, wire, failures>>

\* A connection without its port: every system finds None and does nothing.
SkipSystem ==
    /\ ~alive /\ stage # "app"
    /\ stage' = "app"
    /\ UNCHANGED <<alive, portVars, taskVars, accepted, discChan, tableVars,
                   permits, wire, failures>>

-----------------------------------------------------------------------------
(* Calls of the rest of the frame: check_peer_authenticated, application.  *)

\* authenticate_peer(current, peer, None): the port is the main port of an
\* authentication connection and the session has no peer; the peer is new.
AuthenticateNewPeer(current) ==
    /\ alive /\ stage = "app"
    /\ current \in AnonymousSessions(peersConnected)
    /\ peersConnected' =
         AuthenticatedEntries(peersConnected, current, PeerOf[current], current)
    /\ peersAuthenticated' =
         AuthenticatedIndex(peersConnected, peersAuthenticated, current, PeerOf[current], current)
    /\ issued' = issued \cup {current}
    /\ UNCHANGED <<stage, alive, portVars, taskVars, accepted, discChan, permits,
                   wire, failures>>

\* authenticate_peer(current, peer, Some(session)): the client names a session
\* the server issued, and no authenticated session has that key in this port.
\* Nothing asks whether the current session already has a peer.
AuthenticateAs(current, session) ==
    /\ alive /\ stage = "app"
    /\ current \in DOMAIN peersConnected
    /\ session \in Foreign \cup issued
    /\ ~IsSessionAuthenticated(peersConnected, session)
    /\ peersConnected' =
         AuthenticatedEntries(peersConnected, current, PeerOf[session], session)
    /\ peersAuthenticated' =
         AuthenticatedIndex(peersConnected, peersAuthenticated, current, PeerOf[session], session)
    /\ permits' = permits \ {peersConnected[s].stream :
                               s \in ({session} \ {current}) \cap DOMAIN peersConnected}
    /\ UNCHANGED <<stage, alive, portVars, taskVars, accepted, discChan, issued,
                   wire, failures>>

\* disconnect_peer_or_session: the index keeps its entry, nothing is reported.
DisconnectPeerOrSession(uuid) ==
    /\ alive /\ stage = "app"
    /\ DisconnectKey(peersAuthenticated, uuid) \in DOMAIN peersConnected
    /\ DropSessions({DisconnectKey(peersAuthenticated, uuid)})
    /\ UNCHANGED <<stage, alive, portVars, taskVars, accepted, discChan,
                   peersAuthenticated, issued, wire, failures>>

\* The port is closed and dropped: its sessions and everything waiting in its
\* channels go with it.
DropPort ==
    /\ alive /\ stage = "app"
    /\ alive' = FALSE
    /\ tcpListener' = NoListener
    /\ peersConnected' = Empty /\ peersAuthenticated' = Empty
    /\ accepted' = {} /\ discChan' = {}
    /\ listenerChan' = <<>> /\ downedChan' = <<>>
    /\ permits' = {}
    /\ UNCHANGED <<stage, started, starting, firstStarted, issued, wire, failures>>

\* close_port(0): the connection keeps its runtime, so the task lives on.
ClosePort == DropPort /\ UNCHANGED tasks

\* close_connection: the runtime is dropped and cancels the tasks.
CloseConnection ==
    /\ DropPort
    /\ tasks' = [i \in DOMAIN tasks |->
                   IF i \in Live THEN [tasks[i] EXCEPT !.phase = "cancelled"] ELSE tasks[i]]

-----------------------------------------------------------------------------
(* The task spawned by start(), and the remote ends.                       *)

TaskUnchanged == UNCHANGED <<stage, alive, portVars, discChan, tableVars>>
SetPhase(i, phase) == tasks' = [tasks EXCEPT ![i].phase = phase]

\* The listener is handed to the port before the accept loop begins.
BindOk(i) ==
    /\ i \in Live /\ tasks[i].phase = "binding"
    /\ SetPhase(i, "accepting")
    /\ listenerChan' = IF alive THEN Append(listenerChan, i) ELSE listenerChan
    /\ UNCHANGED <<downedChan, accepted, permits, wire, failures>> /\ TaskUnchanged

BindErr(i) ==
    /\ i \in Live /\ tasks[i].phase = "binding" /\ failures < MaxFailures
    /\ SetPhase(i, "bindFailed")
    /\ downedChan' = IF alive THEN Append(downedChan, tasks[i].first) ELSE downedChan
    /\ failures' = failures + 1
    /\ UNCHANGED <<listenerChan, accepted, permits, wire>> /\ TaskUnchanged

\* accept() returns a stream: without a free permit it is dropped.
CanConnect(i, st) ==
    i \in Live /\ tasks[i].phase = "accepting" /\ st \in Streams /\ wire[st] = "idle"
PermitFree == ~Limited \/ Cardinality(permits) < MaxConnections

AcceptStream(i, st) ==
    /\ CanConnect(i, st) /\ PermitFree /\ alive
    /\ accepted' = accepted \cup {st}
    /\ permits' = IF Limited THEN permits \cup {st} ELSE permits
    /\ wire' = [wire EXCEPT ![st] = "open"]
    /\ UNCHANGED <<taskVars, failures>> /\ TaskUnchanged

RefuseStream(i, st) ==
    /\ CanConnect(i, st) /\ ~PermitFree
    /\ wire' = [wire EXCEPT ![st] = "dropped"]
    /\ UNCHANGED <<taskVars, accepted, permits, failures>> /\ TaskUnchanged

\* The port was dropped: the send fails and ends the task, the stream is lost.
AcceptForNobody(i, st) ==
    /\ CanConnect(i, st) /\ PermitFree /\ ~alive
    /\ SetPhase(i, "sendFailed")
    /\ wire' = [wire EXCEPT ![st] = "dropped"]
    /\ UNCHANGED <<listenerChan, downedChan, accepted, permits, failures>> /\ TaskUnchanged

\* accept() fails: the task reports and ends. The phase remembers whether the
\* port had taken the task's listener out of the channel by then.
AcceptErrUnreported(i) ==    \* variant with a bug: nobody hears of the failure
    /\ i \in Live /\ tasks[i].phase = "accepting" /\ failures < MaxFailures
    /\ SetPhase(i, IF listenerChan = <<>> THEN "acceptFailed" ELSE "acceptFailedUnread")
    /\ failures' = failures + 1
    /\ UNCHANGED <<listenerChan, downedChan, accepted, permits, wire>> /\ TaskUnchanged

AcceptErr(i) ==
    /\ i \in Live /\ tasks[i].phase = "accepting" /\ failures < MaxFailures
    /\ SetPhase(i, IF listenerChan = <<>> THEN "acceptFailed" ELSE "acceptFailedUnread")
    /\ downedChan' = IF alive THEN Append(downedChan, tasks[i].first) ELSE downedChan
    /\ failures' = failures + 1
    /\ UNCHANGED <<listenerChan, accepted, permits, wire>> /\ TaskUnchanged

\* The remote end closes (the port will read Ok(0)) or resets its stream.
LeaveStream(st) ==
    /\ wire[st] = "open" /\ st \in accepted \cup StreamsOf(peersConnected)
    /\ \E how \in {"fin", "reset"} : wire' = [wire EXCEPT ![st] = how]
    /\ UNCHANGED <<taskVars, accepted, permits, failures>> /\ TaskUnchanged

\* 120 seconds pass for an anonymous session.
SessionGrowsOld(s) ==
    /\ s \in AnonymousSessions(peersConnected) /\ ~peersConnected[s].late
    /\ peersConnected' = [peersConnected EXCEPT ![s].late = TRUE]
    /\ UNCHANGED <<stage, alive, portVars, taskVars, accepted, discChan,
                   peersAuthenticated, issued, permits, wire, failures>>

-----------------------------------------------------------------------------
FrameStep ==
    \/ StartPorts \/ CheckPeersConnected \/ ListenPeers
    \/ CheckPeersDisconnected \/ CheckPortDisconnected
    \/ EndFrame \/ SkipSystem

AppCall ==
    \/ \E s \in Streams : AuthenticateNewPeer(s)
    \/ \E s, t \in Sessions : AuthenticateAs(s, t)
    \/ \E u \in Sessions \cup Peers : DisconnectPeerOrSession(u)
    \/ ClosePort \/ CloseConnection

Bind == \E i \in DOMAIN tasks : BindOk(i) \/ BindErr(i)

Accept ==
    \E i \in DOMAIN tasks :
        \/ AcceptErr(i)
        \/ \E st \in Streams : AcceptStream(i, st) \/ RefuseStream(i, st) \/ AcceptForNobody(i, st)

Remote == (\E st \in Streams : LeaveStream(st)) \/ (\E s \in Sessions : SessionGrowsOld(s))

Next == FrameStep \/ AppCall \/ Bind \/ Accept \/ Remote

Spec == Init /\ [][Next]_vars

\* Bevy runs its schedules again and again, and the operating system answers
\* a bind; nothing makes clients connect, leave or authenticate.
FairSpec == Spec /\ WF_vars(FrameStep) /\ WF_vars(Bind)

-----------------------------------------------------------------------------
(* Properties.                                                             *)

Entries == [stream : Streams, peer : Peers \cup {NoPeer}, late : BOOLEAN]

\* The type of every variable.
TypeOK ==
    /\ stage \in Stages /\ alive \in BOOLEAN
    /\ started \in BOOLEAN /\ starting \in BOOLEAN /\ firstStarted \in BOOLEAN
    /\ tasks \in Seq([phase : Phases, first : BOOLEAN])
    /\ tcpListener \in Nat
    /\ listenerChan \in Seq(Nat) /\ downedChan \in Seq(BOOLEAN)
    /\ accepted \subseteq Streams
    /\ discChan \subseteq Sessions \X (Peers \cup {NoPeer})
    /\ DOMAIN peersConnected \subseteq Sessions
    /\ \A s \in DOMAIN peersConnected : peersConnected[s] \in Entries
    /\ DOMAIN peersAuthenticated \subseteq Peers
    /\ \A p \in DOMAIN peersAuthenticated : peersAuthenticated[p] \in Sessions
    /\ issued \subseteq Streams /\ permits \subseteq Streams
    /\ wire \in [Streams -> {"idle", "open", "fin", "reset", "dropped"}]
    /\ failures \in 0..MaxFailures

\* At most one task of start() binds or accepts at a time, it reports its end
\* at most once, and until the port has consumed the report it does not start
\* another: however bind results, accept errors and frames interleave, two
\* tasks never accept for one port and no report is taken for a later task's.
OneTask ==
    /\ \A i, j \in Live : i = j
    /\ alive /\ downedChan # <<>> => Live = {} /\ Len(downedChan) = 1
    /\ alive /\ (Live # {} \/ downedChan # <<>>) => started \/ starting

\* The semaphore's permits are exactly with the streams the server still
\* holds, queued or in a session: none leaks when a session is reported,
\* times out, is re-keyed or is disconnected, so a refusal means a full server.
PermitsOwned ==
    Limited => permits = accepted \cup StreamsOf(peersConnected)

\* The server never holds more streams than max_connections.
ConnectionLimit ==
    Limited => Cardinality(accepted \cup StreamsOf(peersConnected)) <= MaxConnections

\* A stream belongs to one session, and not before it left the queue.
StreamOwnedOnce ==
    /\ \A s, t \in DOMAIN peersConnected :
          peersConnected[s].stream = peersConnected[t].stream => s = t
    /\ accepted \cap StreamsOf(peersConnected) = {}

\* The two maps agree on every session that is there: an authenticated session
\* is the one its peer is indexed under, so a message for the peer reaches it,
\* and an index entry never leads to a session of another peer.
PeerIndexed ==
    \A s \in DOMAIN peersConnected :
        /\ peersConnected[s].peer # NoPeer =>
              /\ peersConnected[s].peer \in DOMAIN peersAuthenticated
              /\ peersAuthenticated[peersConnected[s].peer] = s
        /\ \A p \in DOMAIN peersAuthenticated :
              peersAuthenticated[p] = s => peersConnected[s].peer = p

\* A port that calls itself started, with no report of a failure waiting, has
\* a task accepting on the very listener it holds - unless just that task
\* failed before start_ports took its listener out of the channel, and its
\* report was consumed first: then nobody accepts, nor will, as start() sees a
\* started port.
ListenerServed ==
    alive /\ started /\ downedChan = <<>> =>
        /\ tcpListener \in DOMAIN tasks
        /\ \/ tasks[tcpListener].phase = "accepting"
           \/ tasks[tcpListener].phase = "acceptFailedUnread" /\ Live = {}

\* ServerPortDisconnected says was_connected only of a port that had been
\* reported connected. (The converse fails: the flag is captured by start().)
WasConnectedSound ==
    \A k \in DOMAIN downedChan : downedChan[k] => firstStarted

\* check_peers_disconnected takes a session only for a read error of its
\* stream, or for staying anonymous for 120 seconds: never a session that
\* authenticated, however late, on a sound stream.
OnlyBrokenOrAnonymousDropped ==
    [][stage = "check_peers_disconnected" =>
         \A s \in DOMAIN peersConnected \ DOMAIN peersConnected' :
            \/ wire[peersConnected[s].stream] = "reset"
            \/ peersConnected[s].peer = NoPeer /\ peersConnected[s].late]_vars

\* A session dropped for a read error leaves no index entry of its peer, which
\* is what makes AuthenticatedSessions forget it.
DropClearsIndex ==
    [][stage = "check_peers_disconnected" =>
         \A s \in DOMAIN peersConnected \ DOMAIN peersConnected' :
            peersConnected[s].peer \notin DOMAIN peersAuthenticated']_vars

\* A stream the remote end reset does not stay in the table.
ResetIsNoticed ==
    \A st \in Streams :
        (st \in StreamsOf(peersConnected) /\ wire[st] = "reset")
            ~> st \notin StreamsOf(peersConnected)

\* A session that stays anonymous too long is dropped or authenticates at last.
LateIsDropped ==
    \A s \in Streams :
        (s \in TimedOutAny(peersConnected) /\ s \in AnonymousSessions(peersConnected))
            ~> s \notin AnonymousSessions(peersConnected)

\* Nobody who is gone, or never says who they are, keeps a session: the two
\* ways in which the port itself ends one both come about.
SessionsEnd == ResetIsNoticed /\ LateIsDropped

\* Once binds and accepts stop failing the port is started and stays so: the
\* frame loop restarts it after every failure.
PortRecovers == <>[](alive => started)
=============================================================================
