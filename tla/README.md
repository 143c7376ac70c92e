# NetworkInator: TLA+ models, checks and proofs

NetworkInator is a networking crate for Bevy. A *connection* (server or client)
has one main port and any number of secondary ports; a *port* is a TCP or a UDP
endpoint; ports are driven once per frame by Bevy systems and do their waiting
in tokio tasks that answer through channels. On top of the ports, the messaging
plugin dispatches typed messages, and the authentication plugin gives each
remote end a *session* uuid and a *peer* uuid.

This directory holds the TLA+ modules that model it, the TLC configurations that
check them on small instances, and TLAPS proofs for arbitrary instances.
`PROJECT.json` maps each definition to the lines it models and lists the runs,
mutants, hazards and theorems.

Paths below are relative to `src/networkinator/src/`.

## 1. Inventory

| Component | State | Operations | Talks to |
|---|---|---|---|
| Server TCP port `server/ports/tcp.rs` | `started`, `starting`, `first_started`, listener; four unbounded channels; `peers_connected` (session -> stream, peer, buffer, permit), `peers_authenticated` (peer -> session) | `start`, `started`, `disconnected`, `peers_connected`, `listen_peers`, `get_peers_disconnected`, `authenticate_peer`, `disconnect_peer_or_session`, `send_message_to_peer`, `close` | its bind/accept task (channels, semaphore), the remote ends |
| Server UDP port `server/ports/udp.rs` | socket, session table with address and pong instants, index | the same trait; datagrams arrive through a receive task | its task, clients |
| Server frame systems `server/plugins/network.rs` | none | the chain of the `First` schedule, for port 0 and ports `1..=len` | all server ports |
| Connections `shared/plugins/network.rs` | main port, `secondary_ports` (number -> port), runtime, semaphore | `start_connection`, `open_secondary_port`, `close_port`, `close_connection`, `disconnect_peer_or_session` | application, systems |
| Authentication `shared/plugins/authentication.rs` | `AuthenticatedSessions`; on a client `LocalSessionUUID`, `LocalPeerUUID` | three chained server systems in `PreUpdate`, two chained client systems in `Update`, one for a local server | ports of both sides, messaging |
| Messaging `shared/plugins/messaging.rs` | registries type <-> message id | register, send, take messages off every port and dispatch them | ports, Bevy message queues |
| Client TCP port `client/ports/tcp.rs` | flags, stream halves, `authenticated`, read buffer | connect task, `listen_to_server`, `disconnected`, send | server |
| Client UDP port `client/ports/udp.rs` | flags, socket, ping and pong instants, `authenticated` | bind task, ping, pong, 120 s timeout | server |
| Client frame systems `client/plugins/network.rs` | none | `start_ports`, `start_listening_ports`, `ping_ports`, `check_port_disconnected` | client ports |
| TCP framing `shared/port_systems/read_writer_tcp.rs` | byte buffers | header encoding, extraction of whole messages | TCP ports |
| Session header `shared/port_systems/inject_extract_uuid.rs` | none | prepend / strip a uuid | UDP ports |
| Local server (parts of the client, connection and authentication code) | `local_connection` flags, the local peer | a client connection that has a server connection of its number becomes local; messages bypass the network; `authenticate_local_peer` | both sides' systems in one program |
| Derive macro, examples | none | | |

What is hard here, and what makes each part correct:

* **TCP server port.** Task, frame loop and remote ends interleave through
  channels; the port may fail and start again. Correct: one task per port, one
  report per failure, a restart after it; session table and index agree; every
  permit belongs to a stream that is still held; only broken or overdue sessions
  are dropped, and broken ones are forgotten by the index.
* **Port table.** New ports are numbered by `len + 1` and visited as `1..=len`.
  Correct while the numbers in use are `1..=len`: every open port is served and
  none is lost. A port closed below another one ends that.
* **Authentication.** Messages carry the session and the peer of the frame they
  were taken in and are read a frame later; sessions are re-keyed on resumption;
  streams break, clients reopen, the server kicks; datagrams are lost, repeated
  and reordered. Correct: the two ends agree on who is who, answers reach the
  client they name, no session is shared, and an undisturbed client is
  authenticated in the end.
* **Several connections.** One connection gives a client its session, the others
  learn of it; a check at the end of every frame forgets who is not connected
  everywhere it should be. Correct: one identity per client, on all connections.
* **Lives of the other ports.** The same start / started / disconnected protocol
  as the server's TCP port, each with a twist: a client's stream that becomes
  unneeded, a failed UDP connect that is reported and still yields a socket, a
  receive task that outlives its port. Correct: what the application is told
  agrees with what the port is, and a port that is down is started again.
* **UDP link.** Pings in both directions, 120 s time-outs on both sides, one
  datagram per session and frame, an address that is noted once. Correct: nobody
  gives up a peer that is there, and a link that was given up is mended.
* **Framing.** Headers that saturate, partial messages, a buffer kept across
  streams, sends that are tasks of their own. Correct: whole messages, once each.
* **Messaging.** Message ids drawn in the order of registration, in every program
  for itself. Correct: a message is dispatched as the type it was sent as.
* **Local server.** Two sides' systems in one program, in no fixed order.
  Correct: every local port is announced as authenticated, once.

`hazards` in `PROJECT.json` lists these one by one at their lines.

## 2. Plan

| Order | Module | Composes / refines | State |
|---|---|---|---|
| 1 | `SessionTable` | operators shared by 2, 4 and 6 | done |
| 2 | `TcpServerPort`, `TcpServerPort_proofs` | uses `SessionTable` | done, proved |
| 3 | `PortTable`, `PortRegistry`, `PortTable_proofs` | `PortTable` implements `PortRegistry` | done, proved |
| 4 | `Authentication`, `Authentication_proofs` | both programs' authentication systems over one connection; uses `SessionTable` | done, proved |
| 5 | `FrameFormat`, `Framing`, `MessageChannel`, `Framing_proofs` | the framed byte stream implements a channel of whole messages until its buffer is out of step; uses `FrameFormat` | done, proved |
| 6 | `TcpClientPort`, `UdpClientPort`, `UdpServerPort`, `PortLives`, `PortLife`, `PortLives_proofs` | `PortLives` is any one of the three and implements `PortLife` | done, proved |
| 7 | `UdpLink`, `UdpLink_proofs` | pings, time-outs and addresses of one UDP client and its session | done, proved |
| 8 | `AuthenticatedSessions`, `AuthenticatedSessions_proofs` | several connections | done, proved |
| 9 | `MessageRegistry`, `LocalServer`, `Messaging_proofs` (about both) | message ids of several programs; a program that is both sides | done, proved |

"Proved" means every safety invariant and every action property that a run of the
module checks, and the safety part of its refinement: this holds of every module now.
Liveness is model-checked everywhere.

## 3. The modules and the code

### SessionTable
The two hash maps of a server port as functions, with the operators TCP and UDP
ports share: `AuthenticatedEntries` and `AuthenticatedIndex` together are
`authenticate_peer`. `HashMap::insert` overwrites, `remove` of an absent key does
nothing.

### TcpServerPort
One main port with three kinds of actors.

* The frame loop. `stage` names the next system: `StartPorts`,
  `CheckPeersConnected`, `ListenPeers`, `CheckPeersDisconnected`,
  `CheckPortDisconnected`, then `app` for everything after `First`, in which
  `AuthenticateNewPeer`, `AuthenticateAs`, `DisconnectPeerOrSession`, `ClosePort`
  and `CloseConnection` may be called any number of times. Which call the
  authentication system makes depends on messages; this module allows every call
  whose guard on the port holds, `Authentication` models the messages.
* Each `start()` appends an entry to `tasks`: `BindOk`, `BindErr`,
  `AcceptStream`, `RefuseStream` (no permit), `AcceptForNobody` (port gone, the
  task ends) and `AcceptErr`. `listenerChan`, `downedChan`, `accepted` and
  `discChan` are the port's channels. `accepted` and `discChan` are sets: they
  are drained in one go into maps keyed by session, so their order is not seen.
* The remote ends: `LeaveStream` closes (`fin`) or resets a stream;
  `SessionGrowsOld` is the passing of 120 seconds for an anonymous session.

A session uuid is identified with the stream it was drawn for and `PeerOf` gives
the peer uuid drawn with it: fresh uuids never collide. `Foreign` stands for
session uuids of the server's other connections, which a client may name here.
A task is recorded as cancelled when the connection's runtime is dropped.

### PortTable, PortRegistry
`PortTable` is `secondary_ports` with `open_secondary_port`, `close_port`,
`close_port(0)`, `close_connection`, and a `Frame` whose loop visits `1..=len`.
`lastOnly` says, for the whole of a behaviour, whether the application closes its
ports last opened first. `PortRegistry` is what such an application may expect
(`orderly`; it promises nothing to others): open ports are served every frame and
leave only by being closed. `ImplementsRegistry` maps `open` to the ports in the
table.

### Authentication
A dedicated server and several clients over one authentication connection: main
TCP port 0 and, if `UseUdp`, UDP port 1.

* The server's frame is `First` (tables of both ports), `ReadMessage` for each
  dispatched message and `AllRead` (`check_peer_authenticated`),
  `AuthenticateUnreliablePorts`, `CheckConnected`
  (`check_authenticated_peers_are_connected`) and `TakeMessages`
  (`check_messages_from_client`), in the order of Bevy's schedules. The systems
  of `First` are one action: between them only tasks run, whose interleavings
  are `TcpServerPort`'s subject.
* A dispatched message keeps the session, and whether it was anonymous, as of
  `TakeMessages`; `ReadMessage` sees the tables of the next frame.
* A client is its stream, local session, the ports' `authenticated` flags and the
  one answer dispatched and not yet read. `Connect` stands for the whole of
  `start_ports`, the connect task and `started`. It spans at least two frames, so
  an answer dispatched before has been read by then (its guard on `event`).
* `s2c` and `c2s` are the messages in flight per stream; a set, because an equal
  message sent twice has no further effect than one sent once. `datagrams` only
  grows: a datagram may be delivered again, late or never. Of the datagrams of a
  session that arrived between two frames `get_peers_messages` keeps the last.
  `answers` works the same way from server to client. The address of a UDP
  session decides only whether an answer arrives, which it need not in any case.
* `Faults` switches on what may go wrong: `BreakStream`, overdue and silent
  sessions, `Reopen` (`close_connection` and `start_connection` by the client's
  application) and `Kick` (`disconnect_peer_or_session`).

### FrameFormat, Framing, MessageChannel
One direction of a TCP port. `FrameFormat` is how a message is laid out: `Header` is
`write_from_settings`, `HeaderValue` is `parse_value_from_bytes`, and `Extract` is
`extract_messages_from_buffer`, with a round of its loop for every message that is
`Whole`: it takes `First` out and goes on with `Rest`. A byte is a digit below `base`, so that a header that
cannot hold every length (255 in the code, 3 here) needs no long messages; the
header saturates as `number as u8` does. Each `Send` is a task that waits for the
lock (`TakeLock`) and writes its frame in pieces (`Write`); a frame of the receiver
reads at most `bufferSize` bytes (`ReadBytes`, `ReadNothing`, `NoticeReset`) and
then takes every whole message (`TakeMessages`). `keepsBuffer` tells a client's port, whose buffer
outlives its stream, from a server's session. `damaged` records the two events that
put a buffer out of step: a stream lost inside a message that stays in the buffer,
and a message too long for its header. `MessageChannel` is what the two ends may
expect until then: messages arrive whole and once, in the order their tasks got
the lock, which need not be the order they were sent in. The refinement parses the
bytes under way: `queue <- Extract(setting, buffer \o wire \o writing).messages`.

### TcpClientPort, UdpClientPort, UdpServerPort, PortLives, PortLife
A connection holds its ports as trait objects and its systems drive them without
knowing their kind. `PortLives` does the same: `kind` picks one of three modules,
which share the variables every port has. `PortLife` is what an application may
expect of any port: Connected and Disconnected events that agree with what the
port is, `was_connected` that is true iff it was, and a start after every failure.

* `TcpClientPort`: `start_ports`, `start_listening_ports` and
  `check_port_disconnected` on a main port, its connect task, its streams as the
  server leaves them, and `Host`, by which the application opens or closes a
  server connection of the same number (`unneeded` in `PortLife`).
* `UdpClientPort`: a task binds and then connects; `ConnectErr` reports and
  `HandOverAnyway` hands the socket over nevertheless. From the first such
  failure on `PortLife` promises nothing (`void`), and `StraySocketsCounted`,
  `DownJustified` and `EndsConnected` say what still holds.
* `UdpServerPort`: ports opened one after another on one address. Tasks are those
  of the connection's runtime: `ClosePort` leaves them, `CloseConnection` ends them.

### UdpLink
A client's UDP port and its session at the server, from the client's
authentication on the main port. A tick is a unit of time that is long against a
frame and a flight: in each tick both programs run at least a frame, and what is in
flight arrives or is lost before the next. An address matters only by whether
it is that of the client's present socket (`stale`). The `First` systems of a
program are one step, since nothing else touches the port between them. `entry` is
the session's record in `peers_connected`; `TakeDatagrams` keeps the address of the
first datagram and looks at the last one only, as `get_peers_messages` does.

### AuthenticatedSessions
Several connections, each seen as its main TCP port, and several clients. A session
is named by the stream it was drawn for and stands for its peer uuid as well
(drawn together, fresh). `known` and `reverse` are the two kinds of entries of
`AuthenticatedSessions.0`. One step of the server is one system; messages that one
run of `check_peer_authenticated` reads are applied together, since no two of a
frame come from one stream. A stream is opened and lost once, a connection started
and closed once: reconnections are `Authentication`'s subject.

### LocalServer
Connections `{1, 2}` of both sides in one program, each with port 0 and at most one
secondary port. The systems of `First` are not ordered among each other, nor are
they here; a schedule ends when each of its systems has run (`NextSchedule`).
The application opens and closes connections and ports in Update.

### MessageRegistry
Two programs, each a client, a dedicated or a local server with both registries.
`calls` records what each registered; `byType` and `byId` are the two maps. `Send`
takes a message to what the receiver's registry has under the number: the bytes of
another type may deserialize or not, and then `deserialize_message` panics.

Parameters that distinguish cases of one question (kind of buffer, faults, which
sides a program has) are a variable chosen in `Init` and never changed: `setting`,
or `lastOnly`, `kind`, `side`. One run then checks all cases, and their number is
the size of `Settings` in the MC module. The modules whose names begin with `MC`
only define constants for TLC.

Operators commented "variant with a bug" are not used by any specification; they
are the mutated forms that show each property can fail.

## 4. Runs

| Run | Instance | Shows |
|---|---|---|
| `tcp_port_safety` | 3 streams, 2 permits, 1 foreign session, 2 failures | tables, index and permits agree in every interleaving; who is dropped and why |
| `tcp_port_live` | 2 streams, 1 permit, 3 failures (4 tasks in turn), fairness | port and tasks agree about who is accepting; resets are noticed, overdue sessions go, the port recovers |
| `ports` | 4 ports, closed last opened first or in any order | the table implements the registry; losing and skipping ports happens only at a gap, and a gap stays |
| `auth_tcp` | 2 clients, 3 streams, faults | identity stays consistent at both ends |
| `auth_live` | 2 clients, 2 streams, UDP, pings, no faults, fairness | a client that connects is authenticated for good, unless a ping made the server panic; a client's UDP flag means an authenticated UDP session |
| `auth_unwrap` | 1 client, 1 stream, UDP, pings | violation: see Findings |
| `framing` | 3 messages, 2 streams, reads of 3 bytes; a server under a 2-digit big-endian header, a client under 1 byte | the byte stream implements the channel; what is garbled follows from a cut or from a length |
| `port_lives` | 3 kinds, 4 faults, 3 ports on the address | every kind lives as `PortLife` promises, exceptions named |
| `udp_link` | sound, chatty, lossy on a fixed and on a changing port number; 4 losses | who is given up and why, and what happens afterwards |
| `sessions` | 2 clients with 1 authentication connection and another; 1 client with 2 and another | one identity everywhere; two authentication connections undo each other |
| `local_server` | 2 numbers, 2 ports | every port is announced once, under which number; no other program is asked |
| `registry` | client with dedicated or local server, 3 types, 3 calls each | messages are dispatched as sent wherever the programs agree |

A property whose name ends in `Inv`, and `SessionsEnd`, `OnlyAtGap`, `SocketsReceive`,
`DownJustified`, `ComesBack` and `TwoUndoEachOther`, sum up several parts, each a
definition with a comment of its own; further mutants in `PROJECT.json` break the
parts one by one. What is proved for every instance and follows from a checked
property is not checked again (`ConnectionLimit`, `StreamOwnedOnce`,
`StaysContiguous`, `TypeOK` of `PortTable`).

Bounds, and why they are enough.

* `MaxFailures` bounds binds and accepts that fail; two let a port restart over
  the sessions of its first task and fail again, three make four tasks in turn,
  so a report can meet the task after next. Three streams against two permits make
  both a refusal and, after a drop, a reuse of a permit. A second session is needed
  for a re-keyed entry to overwrite another, a third for a bystander.
* Four ports give a gap with ports on both sides.
* In `Authentication` three streams let one of two clients reconnect once while the
  other is connected; nothing in the code counts further.
* `Framing`: bodies of 2, 3 and 4 digits, of which the last fits no header; their
  digits are such that a body parsed as frames yields whole messages and rests.
  Two streams give a buffer one past stream to be out of step with.
* `PortLives`: four faults fail a start, lose what came of the next, and strand two
  more; three ports on an address let a port meet a task that met a task.
* `UdpLink`: time-outs of three to five ticks against pings every one or two: two
  and more pings may be lost before a side gives up. Four losses suffice to end
  either side, with one to spare. The code's 10 s and 120 s differ only by how many
  losses that takes, which is `timeout` over `pingEvery`.
* `AuthenticatedSessions`: a second client shows identities that mix, a second
  authentication connection the mutual check; the third connection has no say.
* `MessageRegistry`: three types in three calls make every difference of two
  orders: a swap, an omission at any place, a repeat.

Deadlock is checked in all runs but two: in `sessions` every stream is used once and
in `registry` the calls end, so those may stop. `tcp_port_safety` and `auth_tcp` use
the symmetry of streams and clients, and check no liveness property.

`ListenerServed` states an exception the code has: `accept()` may fail after the
listener was sent and before `start_ports` took it. If `check_port_disconnected`
consumes the report first, `started()` then takes the dead task's listener, and the
port calls itself started with nobody accepting. It stays so until it is closed, as
`start()` sees a started port; `PortRecovers` speaks of `started` alone.

Observations made on the way (no comment, document or assertion of the
repository says otherwise, so they are not findings):

* A client that closes in order is never noticed by the server: `try_read`
  returns `Ok(0)` for ever, and an authenticated session keeps its permit.
* `authenticated` of a client TCP port outlives its stream: after a reconnect the
  client does not ask again, and the server drops it after 120 seconds.
  `ServerKnowsClient` therefore speaks of the stream the session was made for.
* A client that does ask again (its application reopened the connection) names its
  old session, which the server refuses while the old, half-closed stream is still
  authenticated and does not know any more once it is gone
  (`ForgottenForGood`).
* A peer the server kicked stays in the index, hence in `AuthenticatedSessions`,
  and may resume its session.
* A server with two authentication connections forgets every remote session in the
  frame it draws it in, for each connection's check wants to see it on both
  (`NeverOnTwo`, `TwoKnowNobody`).
* A client TCP port keeps its read buffer when its stream is replaced: half a
  message of the old stream shifts everything on the new one (`InStep`).
* A UDP client whose `connect()` fails is reported down and, one or two frames
  later, up on the unconnected socket, until 120 s without a ping
  (`StraySocketsCounted`, `EndsConnected`).
* `close_port` of a server's UDP port leaves its task receiving on the address, so
  that a port opened again on it fails to bind, frame after frame, until the
  connection is closed or a receive error ends the task (`StartsUnlessHeld`).
* The address of a UDP session is that of its first datagram: a client that had to
  reopen its socket on another port number hears nothing until the server gives
  the session up, gives up again itself, and so on (the third end in `Recovers`).
* A UDP session that the server gave up comes back without a peer with the next
  datagram; its client believes it is authenticated and does not ask, and the
  server panics in the lookup described under Findings (`PanicExplained`).
* Of a session's datagrams of one frame the last alone is looked at: an application
  that sends datagrams of its own can displace its client's pings, and the server
  gives up a client it hears all the time (`DroppedByDisplacedPing`).
* In a program that is both sides, client ports to other programs' servers are
  flagged authenticated by `authenticate_local_peer` and never ask for a session
  (`NeverAsksAnotherServer`), and secondary ports are announced as port 0
  (`SecondaryNamedByChanceOnly`). A connection that became local is not connected
  again after the server connection is closed (`ResetIsReplaced`).
* Programs that register messages in different orders dispatch each other's
  messages as other types, or panic in `deserialize` (`WrongByOrderOnly`).

## 5. Fairness

* `TcpServerPort`: weak fairness of `FrameStep` (Bevy runs its schedules again
  and again) and of `Bind` (the operating system answers a bind). None for
  clients, failures or application calls. Failures are bounded, so `PortRecovers`
  reads: after the last failure the port is started for good.
* `Authentication`: weak fairness of `ServerStep`, and for each client of
  `Connect`, `AuthenticatePort`, `ReceiveOnStream` and `CheckPortAuthenticated`.
  These are systems that run in every frame, and a TCP stream that delivers what
  was written as long as it does not break (`Faults = FALSE`). No fairness for
  datagrams.
* `Framing`: weak fairness of `Write` and `Receive` (the stream takes bytes, frames
  follow one another), strong fairness of each `TakeLock(m)`: tokio's `Mutex` is
  first come, first served, so no task waits for ever.
* `PortLives`: weak fairness of the frame's systems, of the task (the operating
  system answers a bind or connect), and of `Silence` on an unconnected socket: time
  passes, and nobody can answer there. Nothing is assumed of the application, and
  faults are bounded: properties speak of what follows the last one.
* `UdpLink`: weak fairness of both programs' frames, strong fairness of `Tick`: time
  passes although frames go on. Losses are bounded.
* `AuthenticatedSessions`: weak fairness of the server's systems and of clients that
  ask and take answers. `FairSpec` adds as assumptions that the application starts
  every connection, that clients reach an open one, and that no message waits for
  ever on a live stream.
* `LocalServer`: weak fairness of `Systems`: each schedule runs all its systems.
* `MessageRegistry`: none; no liveness is claimed.

## 6. Proofs

All by TLAPS, for arbitrary constants that satisfy the assumptions the modules
name:

| Module | Assumptions | They say |
|---|---|---|
| `TcpServerPort` | `StreamsAssumption`, `PeerOfAssumption`, `BoundsAssumption` | streams are finitely many; uuids are distinct; bounds are numbers |
| `PortTable` | `PortsAssumption` | ports are finitely many |
| `Framing` | `SettingsAssumption`, `BoundAssumption` | a header has at least one byte, a byte at least two values, a read takes at least one byte; different messages have different bodies |
| `Authentication` | `PeerOfAssumption`, `FlagsAssumption` | uuids and "none" are distinct; the switches are Boolean |
| `PortLives` | `LivesBoundsAssumption` | bounds are numbers |
| `UdpLink` | `LinkAssumption` | the time-out is longer than the interval between pings |
| `AuthenticatedSessions` | `SettingsAssumption`, `NamesAssumption` | authentication connections are connections, finitely many; "none" and the local session are no client's |
| `MessageRegistry` | `SidesAssumption`, `BoundAssumption` | a program is a client, a server or both |

`LocalServer` assumes nothing. None bounds how many clients, streams, sessions,
connections, ports, types, messages, failures or losses there are, nor how long a
message or a header is. Different messages have different bodies because a message in
`Framing` stands for the bytes it is.

Every module of proofs is laid out in the same way: an inductive invariant `IInv`
with the checked invariants or what they follow from, `InitInvariant` (or
`InitIInv`), a lemma for each action or group of actions, `Invariance`, and the
properties from it. The checked invariants are seldom inductive; what follows is
what each `IInv` adds to them, and why.

**TcpServerPort_proofs.** The invariants of the runs are not inductive: that the
index agrees with the table after a re-keying depends on which keys can be there
at all. `IInv` is `TypeOK`, `OneTask` and `TablesInv`, the latter adding to the
checked invariants

* `KeysKnown`: an anonymous session is keyed by its own stream and was not
  issued; authenticated keys and index entries are issued or foreign;
* `IdleNowhere`: a stream nobody accepted is in no table;
* `PeersMatch`: a peer uuid goes with the session uuid it was drawn with;
* `ReportsCurrent`: reports wait only between `listen_peers` and
  `check_peers_disconnected`, and still describe their session.

The last one is what makes `DropClearsIndex` true: no system between the two
re-keys a session. From `IInv` follow `TypeCorrect`, `OneTaskAlways`,
`PermitsOwnedAlways`, `TablesAgree` (`PeerIndexed` and `StreamOwnedOnce`), and
the action properties `DropsJustified` and `DropsForgotten`. `LimitHolds` needs
one more invariant, that at most `MaxConnections` permits are out.

`ListenerServedAlways` needs to know of which task each listener is. `Served` says
so: at most one listener waits, and only while the port is not up; it, and the one a
started port holds, is of the task that accepts or of one that ended before its
listener was taken, after which there is no task; while a task binds, nothing waits.
`WasConnectedSoundAlways` is about reports: what a task says of the port was true
when `start()` captured it (`FlagsCaptured`), and `first_started` is never set back.

**PortTable_proofs.** `IInv` is `TypeOK`, `NumberedOnce` and `StaysContiguous`.
`TableImplementsRegistry` shows that every step is a step of `PortRegistry` or a
stutter. Under `lastOnly` it is because the numbers are `1..len`, so that a new
port's number is free and the loop visits all of them (`OrderlyStep`); otherwise the
registry promises nothing. `LostOnlyAtGapAlways` and `UnservedOnlyAtGapAlways`, whose
conjunction is `OnlyAtGapAlways`, hold without that restriction.

**Framing_proofs.** Two layers. The first is about `FrameFormat`, whose operators are
recursive functions. No prover here has a rule of induction, so the module derives
what it needs: a set of numbers that has 0 and with each number the next has all of
them, since otherwise the numbers outside would have a least one (`Induction`, from
`WFMin`). A recursive function is one chosen by its equation, and satisfies that
equation only if some function does; `Recursion` and `BoundedRecursion` build one, and
`ExtractByRounds` builds the extraction as the limit of its first n rounds. From there:

* `HeaderRoundTrip`: what was written as a header is read back, in both orders, in
  every base and width, if the length fits. By induction over the bytes: after k of
  them the reader has the number without its last bytes.
* `ExtractInTwo`: taking messages from what has arrived and later from what was left
  with what came then is taking them at once. By induction over the length of what
  arrived first; `FirstOfLonger` says that bytes behind a whole message change nothing
  about it.
* `FrameRoundTrip`: of one frame comes its body, and nothing is left.

The second layer is the stream. `Ahead` is what the receiver will make of the bytes
in its buffer, on the wire and still to be written. With the lemmas above each step
does one thing to it: `LockTaken` appends a message, `BytesMoved` changes nothing,
`StreamCut` keeps the first messages, `Taken` removes the first ones. `FramingInv`
is not inductive, as it speaks of open streams only, and a client's buffer goes from
one stream to the next. `IInv` adds the moments between: while not `damaged`, `Ahead`
consists of messages that were sent, and of nothing else unless the stream was reset
and this was not noticed yet; a stream that is not open has nobody writing or waiting
to; without a stream nothing is on the wire. `FramingInvAlways` and
`FramingIsAChannel`, the safety part of `ImplementsChannel`, follow.
`WholeWhereAllFit` says that `damaged` excuses nothing else: at a server that is sent no
message too long for its header it never becomes true.

**Authentication_proofs.** The argument turns on the sessions that were ever given
(`Given`: known to the server, or named by an answer or a client). A session is
given once, in `NewSession`, to a stream that asked for one and nothing else.

* `EntriesInv`, `IndexInv`: a session goes with the peer drawn with it, a stream
  has one entry, under its own name while it is anonymous.
* `FreshInv`: a stream not accepted yet has not been heard of, so that its name
  cannot have been given.
* `GivenInv`: a session that was given is not anonymous any more, its stream asks
  for nothing else, and if sound it still has it. `WantsInv`: all messages of a
  stream want the same, namely what its client has. Both are needed since a message
  is read a frame after it was taken: without them a stream could be given a session
  and then resume another, or the reverse.
* `ClientsInv`: only one client holds a session - by its stream, its local session
  or an answer it has not read - and what the server says on a stream is about that
  stream's session or its client's.
* `HeldInv`: what datagrams name is some client's session. `UnreliableInv`: an
  anonymous UDP session of a known one is about to be authenticated by a message
  already dispatched, or has sent something that was no authentication message.
* `SoundInv`: without faults nothing of this is undone, which is what a client's
  flag for its UDP port rests on.

`AuthInvAlways` (`KnownWhileConnected`, `AnswerNamesReceiver`),
`IdentityNotSharedAlways`, `ServerKnowsClientAlways`, `NoPanicWithoutPingsAlways`,
`UdpFlagSoundAlways` and the action property `ForgottenForGoodAlways` follow.
For the last one: what a client has, it keeps (`SessionKept`), and a session the
server forgot stays given, so it is not anonymous and `NewSession`, the only way back
into `AuthenticatedSessions`, does not draw it (`OnlyNewKnown`).

**AuthenticatedSessions_proofs.** `IdsOwn`: a session is in use only at the client it
was drawn for. `Indexed`: a port's index is what its entries say. The rest is the
order of the frame: a message read in a frame was dispatched in the frame before, at
whose end `check_authenticated_peers_are_connected` had left as known only what every
open authentication connection has (`KnownEverywhere`). So a message that names a
known session finds no other authentication connection with a session or a message
(`NamesThere`), and no session gets to two of them (`NeverOnTwo`, part of
`TwoUndoEachOther`); with one authentication connection what it has stays known
(`KnownAllAlong`). `AnswersAgree` and `FlaggedOnceTold` give `FlagsAgree`.

**PortLives_proofs.** One inductive invariant for each kind of port, and for each of
its actions a lemma that shows three things at once: the invariant is kept, the port
goes down for a reason only, and the step is one of `PortLife` or a stutter. What all
three kinds need is that every start under way, and every report that waits, says of
`firstStarted` what the port still has (`TcpReports`, `UdpReports`, `OneBind`): that
makes a Disconnected event's `was_connected` right. `PlacesCounted` counts where a
UDP client's starts can be; each failed `connect()` adds one. `TasksKnown` gives a
server's UDP port a number no task of an earlier port has. `LivesPortLife` is the
safety part of `ImplementsPortLife`.

**UdpLink_proofs.** Nobody gives up a peer that is there because either side's clock
of pongs is bounded by the other side's clock of pings plus what the lost datagrams
cost, one interval each (`Slack`): `ServerPingsInTime` and `ClientPingsInTime`. Two
things complicate that: a ping in flight counts for the clock it will reset, and a
client whose port is not authenticated asks in every frame, by which it displaces its
own pings (`Pending`). All of it holds while `Good` does: fewer losses than a
time-out takes and no chatter, or no loss and no ping that was not looked at.
`Asking` and `NeverFails` are the ways in which the server cannot fail.

**Messaging_proofs.** Of `MessageRegistry`, `Numbered`: the number of a type is its
place in the order of its program's first calls, for which the types registered so far
are counted (`UpTo`). `Recorded`: programs that run register nothing, so that every
dispatch that happened could be repeated now.

Of `LocalServer`, the order of the schedules (its specification, `LocalSpec`, has names
of its own so that both can be extended): what Update opens, `authenticate_local_peer`
flags in the next First (`AuthenticatedOnTime`), before an answer can come in PreUpdate
or a message be written in Update (`StreamsAuthenticated`). `AnswersForAuthenticated` is
the place where a secondary port may take an answer meant for one that was closed.

**Model-checked only.**

* All liveness: `SessionsEnd`, `PortRecovers`, `ConnectedAuthenticates`, `ComesBack`,
  `Recovers`, `EveryConnection`, `Announced`, and the fairness parts of `PortLife` and
  `MessageChannel`. Fairness and ENABLED are out of the prover's reach.
* `NoUnwrapPanic` is false, see below.

## 7. Findings

`auth_unwrap`: `authenticate_unreliable_ports` looks a session up in
`AuthenticatedSessions.1` and unwraps the result
(`shared/plugins/authentication.rs:167`); nothing ever inserts into that map
(lines 203-204 and 81-82 insert into `.0`). The server panics as soon as a UDP
session is anonymous while the main port knows the peer of the same session: for
instance when the first datagram of a session that the server keeps is a ping
or an application message. `NoPanicWithoutPings` shows that
authentication messages alone do not lead there.

## 8. Not modelled

* TCP header types other than `U8`, `U16`, `U32`: writing them works, and
  `parse_value_from_bytes` answers them with `todo!()`; there is no behaviour to
  state. Hence the component TCP framing is "partly".
* A stream that the remote end closes in order, as a hazard: the code has no path
  that ends such a session (`try_read` gives `Ok(0)` for ever), so that no property
  could hold. The streams are in the models (`fin`), the consequence is listed above.
* Several reconnections, and kicks, over several connections at once:
  `AuthenticatedSessions` lets each stream live once, `Authentication` has them for
  one connection.
* Sessions of several clients on one UDP port with addresses: `Authentication` has
  the sessions, `UdpLink` the addresses of one. Sessions on a UDP port do not
  interact but through the tables that `Authentication` models.
* Serialisation, logging, hooks on streams and sockets: data the properties do not
  distinguish. Of the derive macro only that a generated `deserialize` may fail.
* The wasm32 variants of the traits (not `Send`, otherwise the same) and the examples
  (applications; read for the order of calls).
