--------------------------- MODULE Authentication ---------------------------
(***************************************************************************)
(* How clients and a dedicated server agree on sessions and peers: the     *)
(* systems of AuthenticationPlugin on both sides, over one authentication  *)
(* connection that has a main TCP port (0) and may have a UDP port (1).    *)
(*                                                                         *)
(* The server's frame runs its systems in the order of the schedules:      *)
(* First (the port tables), PreUpdate (the three authentication systems),  *)
(* Update (messages are taken off the ports). A message is dispatched with *)
(* the peer its session had when it was taken off; it is read one frame    *)
(* later, when the tables may have changed.                                *)
(*                                                                         *)
(* A client's systems, the application calls and the network interleave    *)
(* with that. A stream stands for a TCP connection, and the session uuid   *)
(* drawn for it is identified with it. TCP bytes are delivered unless the  *)
(* stream breaks; a datagram, once sent, may arrive any number of times.   *)
(***************************************************************************)
EXTENDS Naturals, FiniteSets, SessionTable

CONSTANTS Clients, Streams,
          PeerOf,      \* the peer uuid drawn together with a session
          None,        \* no session, no stream, no event (Option::None)
          UseUdp,      \* the connection has the UDP port
          Pings,       \* clients send other datagrams than authentication
          Faults       \* streams break, sessions age, the application acts

Sessions == Streams
Peers == {PeerOf[s] : s \in Sessions}
Ports == IF UseUdp THEN {0, 1} ELSE {0}

ASSUME PeerOfAssumption ==
    /\ DOMAIN PeerOf = Sessions
    /\ \A s, t \in Sessions : PeerOf[s] = PeerOf[t] => s = t
    /\ NoPeer \notin Peers /\ None \notin Streams \cup Peers
    /\ Peers \cap Sessions = {}
ASSUME FlagsAssumption == {UseUdp, Pings, Faults} \subseteq BOOLEAN

VARIABLES
    stage,        \* the server's next system
    panicked,     \* a system of the server panicked
    peers, index, \* the tables of each port (see SessionTable)
    known,        \* AuthenticatedSessions.0
    inbox,        \* AuthenticationMessages dispatched and not yet read
    waiting,      \* accepted streams that are not yet sessions
    wire,         \* state of each stream
    c2s,          \* authentication messages on their way to the server,
    buffered,     \* and in the internal_buffer of their session's entry
    s2c,          \* AuthenticatedFromServer messages on the streams
    datagrams,    \* datagrams the clients ever sent
    answers,      \* sessions the UDP port ever sent an AuthenticatedFromServer for
    client        \* per client: its port's stream, local session, port flags,
                  \* and the AuthenticatedFromServer it dispatched last

serverVars == <<stage, panicked, peers, index, known, inbox, waiting, buffered>>
netVars == <<wire, c2s, s2c, datagrams, answers>>
vars == <<serverVars, netVars, client>>

Stages == {"first", "check_peer_authenticated", "authenticate_unreliable_ports",
           "check_authenticated_peers_are_connected", "check_messages_from_client"}

StreamsOf(table) == {table[s].stream : s \in DOMAIN table}
Anonymous(stream) == [stream |-> stream, peer |-> NoPeer]

Init ==
    /\ stage = "first" /\ panicked = FALSE
    /\ peers = [i \in Ports |-> Empty] /\ index = [i \in Ports |-> Empty]
    /\ known = Empty /\ inbox = {} /\ waiting = {} /\ buffered = {}
    /\ wire = [st \in Streams |-> "idle"]
    /\ c2s = {} /\ s2c = {} /\ datagrams = {} /\ answers = {}
    /\ client = [c \in Clients |->
                   [stream |-> None, session |-> None, auth |-> {}, event |-> None]]

-----------------------------------------------------------------------------
(* The server's frame.                                                     *)

GoTo(from, to) == ~panicked /\ stage = from /\ stage' = to /\ UNCHANGED panicked

\* Variant with a bug: a session times out even if it authenticated.
OverdueAny(table) == SUBSET IF Faults THEN DOMAIN table ELSE {}

\* The sessions that may have been anonymous for 120 seconds.
Overdue(table) == SUBSET IF Faults THEN AnonymousSessions(table) ELSE {}

\* Variant with a bug: WouldBlock is an error like any other.
BrokenWouldBlock(table) ==
    {s \in DOMAIN table : /\ wire[table[s].stream] # "fin"
                          /\ \A m \in c2s : m.stream # table[s].stream}

\* The sessions whose stream a read fails on.
Broken(table) == {s \in DOMAIN table : wire[table[s].stream] = "reset"}

\* check_peers_connected, listen_peers and check_peers_disconnected: accepted
\* streams become sessions, bytes move into the entries' buffers, broken and
\* overdue sessions go. A UDP session goes after 120 seconds of silence, and
\* its index entry stays.
First ==
    /\ GoTo("first", "check_peer_authenticated")
    /\ \E late \in Overdue(peers[0]),
          silent \in SUBSET IF UseUdp /\ Faults THEN DOMAIN peers[1] ELSE {} :
         LET seated == [s \in DOMAIN peers[0] \cup waiting |->
                          IF s \in waiting THEN Anonymous(s) ELSE peers[0][s]]
             rest == Remove(seated, Broken(seated) \cup late)
         IN /\ peers' = [i \in Ports |-> IF i = 0 THEN rest ELSE Remove(peers[i], silent)]
            /\ index' = [index EXCEPT ![0] = Remove(@, {seated[s].peer : s \in Broken(seated)})]
            /\ buffered' = {m \in buffered \cup c2s : m.stream \in StreamsOf(rest)}
            /\ c2s' = {m \in c2s : m.stream \notin StreamsOf(seated)}
            /\ wire' = [st \in Streams |->
                          IF wire[st] = "open" /\ \E s \in late : seated[s].stream = st
                          THEN "closed" ELSE wire[st]]
    /\ waiting' = {}
    /\ UNCHANGED <<known, inbox, s2c, datagrams, answers, client>>

\* Variant with a bug: the answer goes to every session of the port.
ReachedAny(table, idx, peer) == DOMAIN table

\* The session a port's send_message_to_peer() writes to: none, or one.
Reached(table, idx, peer) ==
    {s \in DOMAIN table : peer \in DOMAIN idx /\ idx[peer] = s}

\* send_message(AuthenticatedFromServer{session, its peer}) on a port.
Answer(port, session) ==
    LET to == Reached(peers'[port], index'[port], known'[session])
    IN IF port = 0
       THEN /\ s2c' = s2c \cup {[stream |-> st, session |-> session] :
                                  st \in {x \in Streams : /\ wire[x] = "open"
                                                          /\ \E s \in to : peers'[0][s].stream = x}}
            /\ UNCHANGED answers
       ELSE /\ answers' = answers \cup {session : s \in to}
            /\ UNCHANGED s2c

SetTables(port, current, peer, new) ==
    /\ peers' = [peers EXCEPT ![port] = AuthenticatedEntries(@, current, peer, new)]
    /\ index' = [index EXCEPT ![port] =
                   AuthenticatedIndex(peers[port], @, current, peer, new)]

\* An anonymous session names a session the server knows and that is not
\* authenticated on this port: it becomes that session.
Resumable(m) ==
    m.want \in DOMAIN known /\ ~IsSessionAuthenticated(peers[m.port], m.want)

ResumeSession(m) ==
    /\ m.anonymous /\ Resumable(m)
    /\ UNCHANGED known
    /\ SetTables(m.port, m.session, known[m.want], m.want)
    /\ Answer(m.port, m.want)

\* Variant with a bug: any message that cannot be resumed asks for a session.
UnauthenticatedAny(m) == m.port = 0 /\ ~IsSessionAuthenticated(peers[0], m.session)

\* An anonymous session asks for a new one on the main port: a peer uuid is
\* drawn. The session may be gone by now: it is inserted all the same.
Unauthenticated(m) ==
    m.port = 0 /\ m.want = None /\ ~IsSessionAuthenticated(peers[0], m.session)

NewSession(m) ==
    /\ m.anonymous /\ Unauthenticated(m)
    /\ SetTables(0, m.session, PeerOf[m.session], m.session)
    /\ known' = Insert(Insert(known, m.session, PeerOf[m.session]),
                       PeerOf[m.session], m.session)
    /\ Answer(0, m.session)

\* A session that is already authenticated asks again.
RepeatAnswer(m) ==
    /\ ~m.anonymous /\ m.want \in DOMAIN known
    /\ UNCHANGED <<peers, index, known>>
    /\ Answer(m.port, m.want)

IgnoreMessage(m) ==
    /\ IF m.anonymous THEN ~Resumable(m) /\ ~Unauthenticated(m) ELSE m.want \notin DOMAIN known
    /\ UNCHANGED <<peers, index, known, s2c, answers>>

\* check_peer_authenticated: first every anonymous message, then the others.
ReadMessage(m) ==
    /\ ~panicked /\ stage = "check_peer_authenticated" /\ m \in inbox
    /\ m.anonymous \/ \A n \in inbox : ~n.anonymous
    /\ inbox' = inbox \ {m}
    /\ ResumeSession(m) \/ NewSession(m) \/ RepeatAnswer(m) \/ IgnoreMessage(m)
    /\ UNCHANGED <<stage, panicked, waiting, buffered, wire, c2s, datagrams, client>>

AllRead ==
    /\ inbox = {} /\ GoTo("check_peer_authenticated", "authenticate_unreliable_ports")
    /\ UNCHANGED <<peers, index, known, inbox, waiting, buffered, netVars, client>>

\* authenticate_unreliable_ports: an anonymous UDP session that the main port
\* knows the peer of is looked up in AuthenticatedSessions.1, and the result
\* unwrapped. No code inserts into that map.
Unreliable == IF UseUdp
              THEN {s \in AnonymousSessions(peers[1]) :
                      GetPeerUuidFromSession(peers[0], s) # NoPeer}
              ELSE {}

AuthenticateUnreliablePorts ==
    /\ ~panicked /\ stage = "authenticate_unreliable_ports"
    /\ IF Unreliable = {}
       THEN stage' = "check_authenticated_peers_are_connected" /\ UNCHANGED panicked
       ELSE panicked' = TRUE /\ UNCHANGED stage
    /\ UNCHANGED <<peers, index, known, inbox, waiting, buffered, netVars, client>>

\* Variant with a bug: the key is tested in place of the value.
RetainedByKey == {k \in DOMAIN known : IsPeerConnected(index[0], k)}

\* check_authenticated_peers_are_connected keeps the entries whose value is a
\* peer the main port has in its index.
Retained == {k \in DOMAIN known : IsPeerConnected(index[0], known[k])}

CheckConnected ==
    /\ GoTo("check_authenticated_peers_are_connected", "check_messages_from_client")
    /\ known' = Restrict(known, Retained)
    /\ UNCHANGED <<peers, index, inbox, waiting, buffered, netVars, client>>

\* check_messages_from_client: the messages of a TCP session are all taken; of
\* the datagrams of a UDP session that arrived since the last frame the last
\* one remains. A datagram of an unknown session makes an entry for it.
OnePerSession(ds) == \A d, e \in ds : d.session = e.session => d = e

\* Variant with a bug: every datagram makes a new entry.
HeardAnew(table, sessions) ==
    [s \in DOMAIN table \cup sessions |-> IF s \in sessions THEN Anonymous(None) ELSE table[s]]

Heard(table, sessions) ==
    [s \in DOMAIN table \cup sessions |->
       IF s \in DOMAIN table THEN table[s] ELSE Anonymous(None)]

TakenFrom(s) ==
    {[port |-> 0, session |-> s, want |-> m.want,
      anonymous |-> s \in AnonymousSessions(peers[0])] :
        m \in {x \in buffered : x.stream = peers[0][s].stream}}

TakeMessages ==
    /\ GoTo("check_messages_from_client", "first")
    /\ \E got \in {ds \in SUBSET datagrams : OnePerSession(ds)} :
         /\ peers' = [i \in Ports |->
                        IF i = 0 THEN peers[0] ELSE Heard(peers[1], {d.session : d \in got})]
         /\ inbox' =
              (UNION {TakenFrom(s) : s \in DOMAIN peers[0]})
              \cup
              {[port |-> 1, session |-> d.session, want |-> d.session,
                anonymous |-> d.session \in AnonymousSessions(peers'[1])] :
                 d \in {x \in got : x.auth}}
    /\ buffered' = {}
    /\ UNCHANGED <<index, known, waiting, netVars, client>>

-----------------------------------------------------------------------------
(* The clients.                                                            *)

ClientOnly == UNCHANGED serverVars

\* start_ports: a port without a stream connects, and goes on doing so. That
\* takes two frames: an answer dispatched before has been read by then.
Connect(c, st) ==
    /\ client[c].stream = None /\ client[c].event = None /\ wire[st] = "idle"
    /\ client' = [client EXCEPT ![c].stream = st]
    /\ wire' = [wire EXCEPT ![st] = "open"]
    /\ waiting' = waiting \cup {st}
    /\ UNCHANGED <<stage, panicked, peers, index, known, inbox, buffered, c2s, s2c,
                   datagrams, answers>>

\* authenticate_port: with no session the client asks for one on the main
\* port; with one, it names it on each port whose flag is not set.
AsksMain(c) == client[c].session = None \/ 0 \notin client[c].auth
AsksUdp(c) == UseUdp /\ client[c].session # None /\ 1 \notin client[c].auth

AuthenticatePort(c) ==
    /\ AsksMain(c) \/ AsksUdp(c)
    /\ c2s' = c2s \cup {[stream |-> st, want |-> client[c].session] :
                          st \in {x \in Streams : /\ x = client[c].stream /\ AsksMain(c)
                                                  /\ wire[x] = "open"}}
    /\ datagrams' = datagrams \cup
         (IF AsksUdp(c) THEN {[session |-> client[c].session, auth |-> TRUE]} ELSE {})
    /\ UNCHANGED <<wire, s2c, answers, client>> /\ ClientOnly

\* ping_ports, or a message of the application, on the UDP port.
SendDatagram(c) ==
    /\ UseUdp /\ Pings /\ client[c].session # None
    /\ datagrams' = datagrams \cup {[session |-> client[c].session, auth |-> FALSE]}
    /\ UNCHANGED <<wire, c2s, s2c, answers, client>> /\ ClientOnly

\* check_messages_from_server: an answer is dispatched; it is read before the
\* next one is.
ReceiveOnStream(c, m) ==
    /\ m \in s2c /\ m.stream = client[c].stream /\ client[c].event = None
    /\ client' = [client EXCEPT ![c].event = [port |-> 0, session |-> m.session]]
    /\ s2c' = s2c \ {m}
    /\ UNCHANGED <<wire, c2s, datagrams, answers>> /\ ClientOnly

ReceiveDatagram(c) ==
    /\ client[c].session \in answers /\ client[c].event = None
    /\ client' = [client EXCEPT ![c].event = [port |-> 1, session |-> client[c].session]]
    /\ UNCHANGED netVars /\ ClientOnly

\* check_port_authenticated: the local session and the port's flag are set,
\* whatever the connection's port is by now.
CheckPortAuthenticated(c) ==
    /\ client[c].event # None
    /\ client' = [client EXCEPT ![c].session = client[c].event.session,
                                ![c].auth = @ \cup {client[c].event.port},
                                ![c].event = None]
    /\ UNCHANGED netVars /\ ClientOnly

-----------------------------------------------------------------------------
(* What may go wrong, and what the applications may do.                    *)

LostWith(st) ==
    /\ c2s' = {m \in c2s : m.stream # st}
    /\ s2c' = {m \in s2c : m.stream # st}

\* A read error at whoever still holds the stream. The client's disconnected()
\* gives the stream up; its flags and its session stay as they are.
BreakStream(st) ==
    /\ Faults /\ wire[st] \in {"open", "fin", "closed"}
    /\ wire' = [wire EXCEPT ![st] = "reset"]
    /\ client' = [c \in Clients |->
                    IF client[c].stream = st THEN [client[c] EXCEPT !.stream = None]
                    ELSE client[c]]
    /\ LostWith(st)
    /\ UNCHANGED <<datagrams, answers>> /\ ClientOnly

\* The client's application closes the connection and starts it anew: new
\* ports, no flags, the same session. The server reads Ok(0) from the stream.
Reopen(c) ==
    /\ Faults /\ client[c].stream # None
    /\ client' = [client EXCEPT ![c].stream = None, ![c].auth = {}]
    /\ wire' = [wire EXCEPT ![client[c].stream] = IF @ = "open" THEN "fin" ELSE @]
    /\ s2c' = {m \in s2c : m.stream # client[c].stream}
    /\ UNCHANGED <<c2s, datagrams, answers>> /\ ClientOnly

\* disconnect_peer_or_session in the server's Update: the main port's index
\* keeps the peer, and a UDP port does nothing.
Kick(s) ==
    /\ Faults /\ ~panicked /\ s \in DOMAIN peers[0]
    /\ stage \in {"check_messages_from_client", "first"}
    /\ peers' = [peers EXCEPT ![0] = Remove(@, {s})]
    /\ wire' = [wire EXCEPT ![peers[0][s].stream] = IF @ = "open" THEN "closed" ELSE @]
    /\ UNCHANGED <<stage, panicked, index, known, inbox, waiting, buffered, c2s, s2c,
                   datagrams, answers, client>>

-----------------------------------------------------------------------------
ServerStep ==
    \/ First \/ (\E m \in inbox : ReadMessage(m)) \/ AllRead
    \/ AuthenticateUnreliablePorts \/ CheckConnected \/ TakeMessages

ClientStep(c) ==
    \/ \E st \in Streams : Connect(c, st)
    \/ AuthenticatePort(c)
    \/ \E m \in s2c : ReceiveOnStream(c, m)
    \/ ReceiveDatagram(c)
    \/ CheckPortAuthenticated(c)

Next ==
    \/ ServerStep
    \/ \E c \in Clients : ClientStep(c) \/ SendDatagram(c) \/ Reopen(c)
    \/ \E st \in Streams : BreakStream(st)
    \/ \E s \in Sessions : Kick(s)

Spec == Init /\ [][Next]_vars

\* Both programs run their frames for ever; a connecting client is accepted;
\* the systems of a client run in every frame, so none is starved by another.
FairSpec ==
    /\ Spec /\ WF_vars(ServerStep)
    /\ \A c \in Clients :
         /\ WF_vars(\E st \in Streams : Connect(c, st))
         /\ WF_vars(AuthenticatePort(c))
         /\ WF_vars(\E m \in s2c : ReceiveOnStream(c, m))
         /\ WF_vars(CheckPortAuthenticated(c))

-----------------------------------------------------------------------------
(* Properties.                                                             *)

Messages == [stream : Streams, want : Sessions \cup {None}]
Tables == UNION {[S -> [stream : Streams \cup {None}, peer : Peers \cup {NoPeer}]] : S \in SUBSET Sessions}
Events == [port : Ports, session : Sessions]

\* The type of every variable.
TypeOK ==
    /\ stage \in Stages /\ panicked \in BOOLEAN
    /\ DOMAIN peers = Ports /\ \A i \in Ports : peers[i] \in Tables
    /\ DOMAIN index = Ports
    /\ \A i \in Ports : /\ DOMAIN index[i] \subseteq Peers
                        /\ \A p \in DOMAIN index[i] : index[i][p] \in Sessions
    /\ DOMAIN known \subseteq Sessions \cup Peers
    /\ \A k \in DOMAIN known : /\ k \in Sessions => known[k] \in Peers
                               /\ k \in Peers => known[k] \in Sessions
    /\ inbox \subseteq [port : Ports, session : Sessions, want : Sessions \cup {None},
                        anonymous : BOOLEAN]
    /\ waiting \subseteq Streams
    /\ c2s \subseteq Messages /\ buffered \subseteq Messages
    /\ s2c \subseteq [stream : Streams, session : Sessions]
    /\ wire \in [Streams -> {"idle", "open", "fin", "closed", "reset"}]
    /\ datagrams \subseteq [session : Sessions, auth : BOOLEAN]
    /\ answers \subseteq Sessions
    /\ client \in [Clients -> [stream : Streams \cup {None}, session : Sessions \cup {None},
                               auth : SUBSET {0, 1}, event : Events \cup {None}]]

\* While a session is authenticated on the main port, AuthenticatedSessions
\* maps it to the same peer: the client's other ports can authenticate with it
\* whatever is dropped, kicked, resumed and forgotten around it.
KnownWhileConnected ==
    \A s \in AuthenticatedSessionsOf(peers[0]) :
        s \in DOMAIN known /\ known[s] = peers[0][s].peer

\* The answer on a stream names the session that the stream is in: however
\* sessions are resumed, a client never learns another's session.
AnswerNamesReceiver ==
    \A m \in s2c : \A s \in DOMAIN peers[0] :
        peers[0][s].stream = m.stream =>
            s = m.session /\ peers[0][s].peer = PeerOf[m.session]

\* What the server keeps, and what it says, agree about who is who.
AuthInv == TypeOK /\ KnownWhileConnected /\ AnswerNamesReceiver

\* Two clients never hold the same session.
IdentityNotShared ==
    \A c, d \in Clients :
        c # d /\ client[c].session # None => client[c].session # client[d].session

\* A client that is still on the stream its session was made for, and whose
\* stream is sound, is authenticated at the server in that very session. What
\* it believes after it connected again is another matter.
ServerKnowsClient ==
    \A c \in Clients :
        /\ client[c].session # None /\ client[c].stream = client[c].session
        /\ wire[client[c].stream] = "open"
        => /\ client[c].session \in AuthenticatedSessionsOf(peers[0])
           /\ peers[0][client[c].session].stream = client[c].stream

\* A session that a client holds and the server has forgotten is never known
\* again: asking for it is in vain, and the client never asks for another.
ForgottenForGood ==
    [][\A c \in Clients :
         client[c].session # None /\ client[c].session \notin DOMAIN known =>
            /\ client'[c].session = client[c].session
            /\ client[c].session \notin DOMAIN known']_vars

\* The server only panics on a UDP session of which a client sent something else
\* than an authentication message: sessions that only authenticate are given
\* their peer before authenticate_unreliable_ports looks.
NoPanicWithoutPings ==
    panicked =>
        \E d \in datagrams : ~d.auth /\ d.session \in AnonymousSessions(peers[1])

\* As long as nothing breaks, a client whose UDP flag is set has an authenticated
\* session on the server's UDP port, of the peer it has on the main port, in
\* whatever order, and however often, its datagrams arrive.
UdpFlagSound ==
    UseUdp /\ ~Faults =>
        \A c \in Clients : 1 \in client[c].auth =>
            /\ IsSessionAuthenticated(peers[1], client[c].session)
            /\ peers[1][client[c].session].peer = peers[0][client[c].session].peer

\* The unwrap() in authenticate_unreliable_ports finds a value.
NoUnwrapPanic == ~panicked

\* A client and the server agree on the session the client's stream is in.
InSession(c) ==
    /\ 0 \in client[c].auth
    /\ client[c].session \in AuthenticatedSessionsOf(peers[0])
    /\ peers[0][client[c].session].stream = client[c].stream

\* While nothing breaks (Faults = FALSE), a client that connects is authenticated
\* for good, at both ends and in the same session, unless the server panicked.
ConnectedAuthenticates ==
    \A c \in Clients : client[c].stream # None ~> [](InSession(c) \/ panicked)
=============================================================================
