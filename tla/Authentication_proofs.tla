----------------------- MODULE Authentication_proofs -----------------------
(***************************************************************************)
(* Proofs about how clients and a dedicated server agree on sessions, for  *)
(* every set of clients and of streams. The argument turns on the sessions *)
(* that were ever given (Given): a session is given once, to a stream that *)
(* asked for one and for nothing else; so whoever has its name, has it     *)
(* from the client that asked on that stream.                              *)
(***************************************************************************)
EXTENDS Authentication, TLAPS

\* The session was given: the server knows it, or somebody has its name.
Given(s) ==
    \/ s \in DOMAIN known \/ PeerOf[s] \in DOMAIN index[0]
    \/ s \in AuthenticatedSessionsOf(peers[0])
    \/ \E m \in s2c : m.session = s
    \/ \E c \in Clients : \/ client[c].session = s
                          \/ client[c].event # None /\ client[c].event.session = s

\* Some client has it as its session.
Held(s) == \E c \in Clients : client[c].session = s

\* An authentication message of the stream wants w and has not been read.
Wants(st, w) ==
    \/ \E m \in c2s \cup buffered : m.stream = st /\ m.want = w
    \/ \E m \in inbox : m.port = 0 /\ m.anonymous /\ m.session = st /\ m.want = w

\* Whoever is on the stream has no session, or the one of the stream and the
\* flag of the main port.
AskedForSession(c, st) ==
    client[c].session = None \/ (client[c].session = st /\ 0 \in client[c].auth)

-----------------------------------------------------------------------------
(* The inductive invariant.                                                *)

\* Who is who at the server. On the main port, every stream has one entry, under
\* its own name as long as it is anonymous; the index has every peer.
EntriesInv ==
    /\ \A i \in Ports : \A s \in DOMAIN peers[i] : peers[i][s].peer \in {NoPeer, PeerOf[s]}
    /\ \A s \in DOMAIN peers[0] : peers[0][s].stream \in Streams
    /\ \A s \in AnonymousSessions(peers[0]) : peers[0][s].stream = s
    /\ \A s, t \in DOMAIN peers[0] : peers[0][s].stream = peers[0][t].stream => s = t
IndexInv ==
    /\ \A i \in Ports : \A p \in DOMAIN index[i] : p = PeerOf[index[i][p]]
    /\ \A s \in DOMAIN known \cap Sessions : known[s] = PeerOf[s]
    /\ \A s \in AuthenticatedSessionsOf(peers[0]) : PeerOf[s] \in DOMAIN index[0]
    /\ \A p \in DOMAIN index[0] :
         index[0][p] \in DOMAIN peers[0] => peers[0][index[0][p]].peer = p
TablesInv == EntriesInv /\ IndexInv

\* A stream that is not accepted yet has not been heard of.
FreshInv ==
    \A st \in Streams :
      /\ wire[st] = "idle" \/ st \in waiting =>
           /\ ~Given(st) /\ st \notin DOMAIN peers[0] /\ st \notin StreamsOf(peers[0])
           /\ \A m \in buffered \cup s2c : m.stream # st
           /\ \A m \in inbox : m.port = 0 => m.session # st
      /\ wire[st] = "idle" =>
           /\ st \notin waiting /\ \A m \in c2s : m.stream # st
           /\ \A c \in Clients : client[c].stream # st

\* A session that was given is not anonymous; its stream asked for a session and
\* for nothing else; and as long as the stream is sound the session is its.
GivenInv ==
    \A s \in Streams : Given(s) =>
      /\ s \notin AnonymousSessions(peers[0])
      /\ \A m \in c2s \cup buffered : m.stream = s => m.want = None
      /\ \A m \in inbox : m.port = 0 /\ m.anonymous => m.session # s
      /\ \A c \in Clients : client[c].stream = s => AskedForSession(c, s)
      /\ wire[s] = "open" => s \in DOMAIN peers[0] /\ peers[0][s].stream = s

\* The messages of a stream all want the same, what its client has.
WantsInv ==
    /\ \A st \in Streams : \A v, w \in Sessions \cup {None} : Wants(st, v) /\ Wants(st, w) => v = w
    /\ \A c \in Clients : \A st \in Streams : client[c].stream = st =>
         /\ Wants(st, None) => AskedForSession(c, st)
         /\ \A w \in Sessions : Wants(st, w) => client[c].session = w
    /\ \A m \in inbox : m.port = 0 /\ m.anonymous /\ m.want = None /\ wire[m.session] = "open" =>
         m.session \in DOMAIN peers[0] /\ peers[0][m.session].stream = m.session

\* One client has the name of a session, by its stream, its local session or the
\* answer it has not read; and what the server does on a stream is about that
\* stream's session or its client's.
Holds(c, s) ==
    \/ client[c].stream = s \/ client[c].session = s
    \/ client[c].event # None /\ client[c].event.session = s

ClientsInv ==
    /\ \A c, d \in Clients : \A s \in Sessions : Holds(c, s) /\ Holds(d, s) => c = d
    /\ \A c \in Clients : client[c].event # None =>
         \/ client[c].session = client[c].event.session
         \/ /\ client[c].session = None /\ client[c].event.port = 0
            /\ client[c].stream \in {None, client[c].event.session}
    /\ \A c \in Clients : \A s \in DOMAIN peers[0] :
         peers[0][s].stream = client[c].stream => s \in {client[c].stream, client[c].session}
    /\ \A c \in Clients : \A m \in s2c :
         m.stream = client[c].stream => m.session \in {m.stream, client[c].session}

\* What is said by datagram is said of a session that a client holds.
HeldInv ==
    /\ \A d \in datagrams : Held(d.session)
    /\ \A m \in inbox : m.port = 1 => m.want = m.session /\ Held(m.session)
    /\ UseUdp => \A s \in DOMAIN peers[1] : Held(s)
    /\ datagrams # {} \/ answers # {} => UseUdp

\* A UDP session of a client that is known has its peer, is about to get it, or
\* sent something else.
SentOther(s) == \E d \in datagrams : ~d.auth /\ d.session = s
AboutToResume(s) ==
    /\ stage \in {"first", "check_peer_authenticated"}
    /\ [port |-> 1, session |-> s, want |-> s, anonymous |-> TRUE] \in inbox
UnreliableInv ==
    UseUdp => \A s \in AnonymousSessions(peers[1]) :
      SentOther(s) \/ s \notin DOMAIN known \/ AboutToResume(s)

\* Nothing breaks: who was given a session stays on its stream, and the UDP port
\* forgets nothing.
SoundInv ==
    UseUdp /\ ~Faults =>
      /\ \A st \in Streams : wire[st] \in {"idle", "open"}
      /\ \A c \in Clients : client[c].session \in {None, client[c].stream}
      /\ \A c \in Clients : client[c].event # None => client[c].event.session = client[c].stream
      /\ \A p \in DOMAIN index[1] :
           index[1][p] \in DOMAIN peers[1] /\ peers[1][index[1][p]].peer = p
      /\ \A s \in answers : IsSessionAuthenticated(peers[1], s)
      /\ \A c \in Clients : 1 \in client[c].auth => client[c].session \in answers
      /\ \A c \in Clients : client[c].event # None /\ client[c].event.port = 1 =>
           client[c].event.session \in answers

IInv ==
    /\ TypeOK /\ TablesInv /\ FreshInv /\ GivenInv /\ WantsInv /\ ClientsInv
    /\ KnownWhileConnected /\ AnswerNamesReceiver
    /\ HeldInv /\ UnreliableInv /\ NoPanicWithoutPings /\ SoundInv

-----------------------------------------------------------------------------
(* Names, ports and tables.                                                *)

Entry == [stream : Streams \cup {None}, peer : Peers \cup {NoPeer}]
IsTable(t) ==
    /\ DOMAIN t \subseteq Sessions /\ t = [s \in DOMAIN t |-> t[s]]
    /\ \A s \in DOMAIN t : t[s] \in Entry

\* Uuids of sessions and peers and "none" are told apart.
LEMMA Names ==
    /\ \A s \in Sessions : PeerOf[s] \in Peers
    /\ \A s, t \in Sessions : PeerOf[s] = PeerOf[t] => s = t
    /\ NoPeer \notin Peers /\ None \notin Sessions /\ None \notin Peers
    /\ \A s \in Sessions : s \notin Peers
    /\ Sessions = Streams
BY PeerOfAssumption DEF Peers, Sessions

LEMMA PortNames ==
    /\ 0 \in Ports /\ (UseUdp => 1 \in Ports)
    /\ \A i \in Ports : i = 0 \/ (i = 1 /\ UseUdp)
BY DEF Ports

\* A table is a function from sessions to entries.
LEMMA TableElim == ASSUME NEW t \in Tables PROVE IsTable(t)
<1>1. PICK S \in SUBSET Sessions : t \in [S -> Entry]
  BY DEF Tables, Entry
<1> QED BY <1>1 DEF IsTable

LEMMA TableIntro == ASSUME NEW t, IsTable(t) PROVE t \in Tables
<1>1. t \in [DOMAIN t -> Entry] /\ DOMAIN t \in SUBSET Sessions
  BY DEF IsTable
<1> QED BY <1>1 DEF Tables, Entry

\* An entry's fields.
LEMMA EntryFields ==
    ASSUME NEW e \in Entry
    PROVE  /\ e.stream \in Streams \cup {None} /\ e.peer \in Peers \cup {NoPeer}
           /\ \A p \in Peers : /\ [e EXCEPT !.peer = p] \in Entry
                               /\ [e EXCEPT !.peer = p].peer = p
                               /\ [e EXCEPT !.peer = p].stream = e.stream
BY DEF Entry

\* The types of the tables, as the steps use them.
LEMMA TableTypes ==
    ASSUME TypeOK
    PROVE  /\ \A i \in Ports : IsTable(peers[i])
           /\ \A i \in Ports : \A s \in DOMAIN peers[i] :
                /\ s \in Sessions /\ peers[i][s] \in Entry
                /\ peers[i][s].stream \in Streams \cup {None}
                /\ peers[i][s].peer \in Peers \cup {NoPeer}
<1>1. \A i \in Ports : IsTable(peers[i])
  BY TableElim DEF TypeOK
<1>2. \A i \in Ports : \A s \in DOMAIN peers[i] : s \in Sessions /\ peers[i][s] \in Entry
  BY <1>1 DEF IsTable
<1> QED BY <1>1, <1>2, EntryFields

\* authenticate_peer makes u and jdx of t and idx: the entry of the session cur is
\* the session new's, and the peer p's.
Moved(t, idx, u, jdx, cur, p, new) ==
    /\ IsTable(u) /\ DOMAIN u = (DOMAIN t \ {cur}) \cup {new}
    /\ u[new].stream = t[cur].stream /\ u[new].peer = p
    /\ \A s \in DOMAIN t \ {cur} : s # new => u[s] = t[s]
    /\ DOMAIN jdx = DOMAIN idx \cup {p} /\ jdx[p] = new
    /\ \A q \in DOMAIN idx : q # p => jdx[q] = idx[q]

LEMMA AuthenticateFacts ==
    ASSUME NEW t, NEW idx, NEW cur \in DOMAIN t, NEW p \in Peers, NEW new \in Sessions, IsTable(t)
    PROVE  Moved(t, idx, AuthenticatedEntries(t, cur, p, new),
                 AuthenticatedIndex(t, idx, cur, p, new), cur, p, new)
<1> DEFINE e == [t[cur] EXCEPT !.peer = p]
           r == Remove(t, {cur})
<1>1. e \in Entry /\ e.stream = t[cur].stream /\ e.peer = p
  BY EntryFields DEF IsTable
<1>2. IsTable(r) /\ DOMAIN r = DOMAIN t \ {cur} /\ \A x \in DOMAIN r : r[x] = t[x]
  BY DEF Remove, Restrict, IsTable
<1>3. /\ AuthenticatedEntries(t, cur, p, new) = Insert(r, new, e)
      /\ AuthenticatedIndex(t, idx, cur, p, new) = Insert(idx, p, new)
  BY DEF AuthenticatedEntries, AuthenticatedIndex
<1> HIDE DEF e, r
<1>4. /\ IsTable(Insert(r, new, e)) /\ DOMAIN Insert(r, new, e) = DOMAIN r \cup {new}
      /\ Insert(r, new, e)[new] = e
      /\ \A x \in DOMAIN r : x # new => Insert(r, new, e)[x] = r[x]
  BY <1>1, <1>2 DEF Insert, IsTable
<1>5. /\ DOMAIN Insert(idx, p, new) = DOMAIN idx \cup {p} /\ Insert(idx, p, new)[p] = new
      /\ \A q \in DOMAIN idx : q # p => Insert(idx, p, new)[q] = idx[q]
  BY DEF Insert
<1> QED BY <1>1, <1>2, <1>3, <1>4, <1>5 DEF Moved

-----------------------------------------------------------------------------
(* The clients.                                                            *)

LEMMA ClientTypes ==
    ASSUME TypeOK, NEW c \in Clients
    PROVE  /\ client[c].stream \in Streams \cup {None}
           /\ client[c].session \in Sessions \cup {None}
           /\ client[c].auth \subseteq {0, 1}
           /\ client[c].event # None => client[c].event.port \in Ports /\ client[c].event.session \in Sessions
           /\ DOMAIN client = Clients
BY DEF TypeOK, Events

\* What no client can disturb.
LEMMA ServerUnchanged ==
    ASSUME IInv, UNCHANGED serverVars
    PROVE  /\ TablesInv' /\ KnownWhileConnected'
           /\ \A i \in Ports : peers'[i] = peers[i] /\ index'[i] = index[i]
           /\ AuthenticatedSessionsOf(peers'[0]) = AuthenticatedSessionsOf(peers[0])
           /\ AnonymousSessions(peers'[0]) = AnonymousSessions(peers[0])
BY DEF IInv, serverVars, TablesInv, EntriesInv, IndexInv, KnownWhileConnected

\* One client has a stream, and has the session of its stream.
LEMMA OneHolder ==
    ASSUME IInv, NEW c \in Clients, NEW d \in Clients, NEW s \in Streams,
           Holds(c, s), Holds(d, s)
    PROVE  c = d
BY DEF IInv, ClientsInv, Sessions

LEMMA AuthenticatePortStep ==
    ASSUME IInv, NEW c \in Clients, AuthenticatePort(c)
    PROVE  IInv'
<1> DEFINE st == client[c].stream
           want == client[c].session
           asks == st \in Streams /\ AsksMain(c) /\ wire[st] = "open"
<1>1. /\ c2s \subseteq c2s'
      /\ \A m \in c2s' : m \in c2s \/ (asks /\ m = [stream |-> st, want |-> want])
      /\ datagrams \subseteq datagrams'
      /\ \A d \in datagrams' : d \in datagrams \/ (AsksUdp(c) /\ d = [session |-> want, auth |-> TRUE])
      /\ UNCHANGED <<wire, s2c, answers, client, serverVars>>
  BY DEF AuthenticatePort, ClientOnly
<1>2. want \in Sessions \cup {None} /\ (AsksUdp(c) => want \in Sessions) /\ None \notin Streams
  BY ClientTypes, Names DEF IInv, AsksUdp
<1>3. \A s \in Streams : Given(s)' <=> Given(s)
  BY <1>1 DEF Given, serverVars
<1>4. TypeOK'
  <2>1. c2s' \subseteq Messages
    BY <1>1, <1>2 DEF IInv, TypeOK, Messages
  <2>2. datagrams' \subseteq [session : Sessions, auth : BOOLEAN]
    <3>1. datagrams \subseteq [session : Sessions, auth : BOOLEAN]
      BY DEF IInv, TypeOK
    <3>2. AsksUdp(c) => [session |-> want, auth |-> TRUE] \in [session : Sessions, auth : BOOLEAN]
      BY <1>2
    <3> HIDE DEF want
    <3> QED BY <1>1, <3>1, <3>2
  <2> QED BY <1>1, <2>1, <2>2 DEF IInv, TypeOK, serverVars
<1>5. FreshInv'
  BY <1>1, <1>3 DEF IInv, FreshInv, serverVars
<1>6. GivenInv'
  <2> SUFFICES ASSUME NEW s \in Streams, Given(s)
               PROVE  /\ s \notin AnonymousSessions(peers[0])
                      /\ \A m \in c2s' \cup buffered : m.stream = s => m.want = None
                      /\ \A m \in inbox : m.port = 0 /\ m.anonymous => m.session # s
                      /\ \A d \in Clients : client[d].stream = s => AskedForSession(d, s)
                      /\ wire[s] = "open" => s \in DOMAIN peers[0] /\ peers[0][s].stream = s
    BY <1>1, <1>3 DEF GivenInv, AskedForSession, serverVars
  <2>1. asks /\ st = s => want = None
    BY <1>2 DEF IInv, GivenInv, AskedForSession, AsksMain
  <2> QED BY <1>1, <2>1 DEF IInv, GivenInv
<1>7. WantsInv'
  <2>1. \A x \in Streams : \A w : Wants(x, w)' => Wants(x, w) \/ (asks /\ x = st /\ w = want)
    BY <1>1 DEF Wants, serverVars
  <2>2. asks => \A w \in Sessions \cup {None} : Wants(st, w) => w = want
    <3> SUFFICES ASSUME asks, NEW w \in Sessions \cup {None}, Wants(st, w) PROVE w = want
      OBVIOUS
    <3>1. CASE w = None
      BY <1>2, <3>1 DEF IInv, WantsInv, AskedForSession, AsksMain
    <3>2. CASE w \in Sessions
      BY <3>2 DEF IInv, WantsInv
    <3> QED BY <3>1, <3>2
  <2>3. \A x \in Streams : \A v, w \in Sessions \cup {None} : Wants(x, v)' /\ Wants(x, w)' => v = w
    BY <2>1, <2>2 DEF IInv, WantsInv
  <2>4. \A d \in Clients : asks /\ client[d].stream = st => d = c
    BY OneHolder DEF Holds
  <2>5. \A d \in Clients : \A x \in Streams : client[d].stream = x =>
          /\ Wants(x, None)' => AskedForSession(d, x)
          /\ \A w \in Sessions : Wants(x, w)' => client[d].session = w
    BY <2>1, <2>4, Names DEF IInv, WantsInv, AskedForSession
  <2> QED BY <1>1, <2>3, <2>5 DEF IInv, WantsInv, AskedForSession, serverVars
<1>8. ClientsInv' /\ AnswerNamesReceiver'
  BY <1>1 DEF IInv, ClientsInv, AnswerNamesReceiver, Holds, serverVars
<1>9. HeldInv'
  BY <1>1, <1>2 DEF IInv, HeldInv, Held, AsksUdp, serverVars
<1>10. UnreliableInv' /\ NoPanicWithoutPings'
  BY <1>1 DEF IInv, UnreliableInv, NoPanicWithoutPings, SentOther, AboutToResume, serverVars
<1>11. SoundInv'
  BY <1>1 DEF IInv, SoundInv, serverVars
<1> QED BY <1>1, <1>4, <1>5, <1>6, <1>7, <1>8, <1>9, <1>10, <1>11, ServerUnchanged DEF IInv

LEMMA SendDatagramStep ==
    ASSUME IInv, NEW c \in Clients, SendDatagram(c)
    PROVE  IInv'
<1>1. /\ datagrams' = datagrams \cup {[session |-> client[c].session, auth |-> FALSE]}
      /\ client[c].session \in Sessions /\ UseUdp
      /\ UNCHANGED <<wire, c2s, s2c, answers, client, serverVars>>
  BY ClientTypes DEF SendDatagram, ClientOnly, IInv
<1>2. \A s \in Streams : Given(s)' <=> Given(s)
  BY <1>1 DEF Given, serverVars
<1>3. TypeOK'
  <2>1. [session |-> client[c].session, auth |-> FALSE] \in [session : Sessions, auth : BOOLEAN]
    BY <1>1
  <2>2. datagrams' \subseteq [session : Sessions, auth : BOOLEAN]
    BY <1>1, <2>1 DEF IInv, TypeOK
  <2> QED BY <1>1, <2>2 DEF IInv, TypeOK, serverVars
<1>4. FreshInv' /\ GivenInv'
  BY <1>1, <1>2 DEF IInv, FreshInv, GivenInv, AskedForSession, serverVars
<1>5. WantsInv' /\ ClientsInv' /\ AnswerNamesReceiver'
  BY <1>1 DEF IInv, WantsInv, Wants, ClientsInv, AnswerNamesReceiver, Holds, AskedForSession, serverVars
<1>6. HeldInv'
  BY <1>1 DEF IInv, HeldInv, Held, serverVars
<1>7. UnreliableInv' /\ NoPanicWithoutPings'
  BY <1>1 DEF IInv, UnreliableInv, NoPanicWithoutPings, SentOther, AboutToResume, serverVars
<1>8. SoundInv'
  BY <1>1 DEF IInv, SoundInv, serverVars
<1> QED BY <1>1, <1>3, <1>4, <1>5, <1>6, <1>7, <1>8, ServerUnchanged DEF IInv

LEMMA ReceiveOnStreamStep ==
    ASSUME IInv, NEW c \in Clients, NEW m \in s2c, ReceiveOnStream(c, m)
    PROVE  IInv'
<1> DEFINE e == [port |-> 0, session |-> m.session]
<1>1. /\ m.stream = client[c].stream /\ client[c].event = None
      /\ client' = [client EXCEPT ![c].event = e]
      /\ s2c' = s2c \ {m}
      /\ UNCHANGED <<wire, c2s, datagrams, answers, serverVars>>
  BY DEF ReceiveOnStream, ClientOnly
<1>2. m.stream \in Streams /\ m.session \in Sessions /\ e \in Events /\ e.session = m.session /\ e.port = 0
  BY PortNames DEF IInv, TypeOK, Events
<1> HIDE DEF e
<1>3. /\ DOMAIN client' = Clients /\ DOMAIN client = Clients
      /\ \A d \in Clients : /\ client'[d].stream = client[d].stream
                            /\ client'[d].session = client[d].session
                            /\ client'[d].auth = client[d].auth
                            /\ d # c => client'[d].event = client[d].event
      /\ client'[c].event = e
  BY <1>1 DEF IInv, TypeOK
<1>4. m.session \in {client[c].stream, client[c].session}
  BY <1>1 DEF IInv, ClientsInv
<1>5. Given(m.session)
  BY DEF Given
<1>6. \A s \in Streams : Given(s)' => Given(s)
  BY <1>1, <1>2, <1>3, <1>5 DEF Given, serverVars
<1>7. TypeOK'
  <2>1. client' \in [Clients -> [stream : Streams \cup {None}, session : Sessions \cup {None},
                               auth : SUBSET {0, 1}, event : Events \cup {None}]]
    BY <1>1, <1>2 DEF IInv, TypeOK
  <2> QED BY <1>1, <2>1 DEF IInv, TypeOK, serverVars
<1>8. FreshInv'
  BY <1>1, <1>3, <1>6 DEF IInv, FreshInv, serverVars
<1>9. GivenInv'
  BY <1>1, <1>3, <1>6 DEF IInv, GivenInv, AskedForSession, serverVars
<1>10. WantsInv'
  <2>1. \A x, w : Wants(x, w)' <=> Wants(x, w)
    BY <1>1 DEF Wants, serverVars
  <2>2. \A d \in Clients, x \in Streams : AskedForSession(d, x)' <=> AskedForSession(d, x)
    BY <1>3 DEF AskedForSession
  <2> QED BY <1>1, <1>3, <2>1, <2>2 DEF IInv, WantsInv, serverVars
<1>11. ClientsInv'
  <2>1. \A d \in Clients, s \in Sessions : Holds(d, s)' => Holds(d, s)
    BY <1>2, <1>3, <1>4 DEF Holds
  <2>2. \A d \in Clients : client'[d].event # None =>
         \/ client'[d].session = client'[d].event.session
         \/ /\ client'[d].session = None /\ client'[d].event.port = 0
            /\ client'[d].stream \in {None, client'[d].event.session}
    <3>1. CASE m.session = client[c].session
      BY <1>2, <1>3, <3>1 DEF IInv, ClientsInv
    <3>2. CASE m.session = client[c].stream
      <4>1. AskedForSession(c, m.session)
        BY <1>2, <1>5, <3>2, Names DEF IInv, GivenInv
      <4> QED BY <1>2, <1>3, <3>2, <4>1 DEF IInv, ClientsInv, AskedForSession
    <3> QED BY <1>4, <3>1, <3>2
  <2> QED BY <1>1, <1>3, <2>1, <2>2 DEF IInv, ClientsInv, serverVars
<1>12. AnswerNamesReceiver' /\ UnreliableInv' /\ NoPanicWithoutPings'
  BY <1>1 DEF IInv, AnswerNamesReceiver, UnreliableInv, NoPanicWithoutPings, SentOther, AboutToResume, serverVars
<1>13. HeldInv'
  BY <1>1, <1>3 DEF IInv, HeldInv, Held, serverVars
<1>14. SoundInv'
  BY <1>1, <1>2, <1>3, <1>4, Names DEF IInv, SoundInv, serverVars
<1> QED BY <1>1, <1>7, <1>8, <1>9, <1>10, <1>11, <1>12, <1>13, <1>14, ServerUnchanged DEF IInv

LEMMA ReceiveDatagramStep ==
    ASSUME IInv, NEW c \in Clients, ReceiveDatagram(c)
    PROVE  IInv'
<1> DEFINE e == [port |-> 1, session |-> client[c].session]
<1>1. /\ client[c].session \in answers /\ client[c].event = None
      /\ client' = [client EXCEPT ![c].event = e]
      /\ UNCHANGED <<netVars, serverVars>>
  BY DEF ReceiveDatagram, ClientOnly
<1>2. client[c].session \in Sessions /\ e.session = client[c].session /\ e.port = 1
  BY <1>1 DEF IInv, TypeOK
<1>3. UseUdp
  BY <1>1 DEF IInv, HeldInv
<1>4. e \in Events
  BY <1>2, <1>3, PortNames DEF Events
<1> HIDE DEF e
<1>5. /\ DOMAIN client' = Clients /\ DOMAIN client = Clients
      /\ \A d \in Clients : /\ client'[d].stream = client[d].stream
                            /\ client'[d].session = client[d].session
                            /\ client'[d].auth = client[d].auth
                            /\ d # c => client'[d].event = client[d].event
      /\ client'[c].event = e
  BY <1>1 DEF IInv, TypeOK
<1>6. \A s \in Streams : Given(s)' => Given(s)
  BY <1>1, <1>2, <1>5 DEF Given, serverVars, netVars
<1>7. TypeOK'
  <2>1. client' \in [Clients -> [stream : Streams \cup {None}, session : Sessions \cup {None},
                               auth : SUBSET {0, 1}, event : Events \cup {None}]]
    BY <1>1, <1>4 DEF IInv, TypeOK
  <2> QED BY <1>1, <2>1 DEF IInv, TypeOK, serverVars, netVars
<1>8. FreshInv'
  BY <1>1, <1>5, <1>6 DEF IInv, FreshInv, serverVars, netVars
<1>9. GivenInv'
  BY <1>1, <1>5, <1>6 DEF IInv, GivenInv, AskedForSession, serverVars, netVars
<1>10. WantsInv'
  <2>1. \A x, w : Wants(x, w)' <=> Wants(x, w)
    BY <1>1 DEF Wants, serverVars, netVars
  <2>2. \A d \in Clients, x \in Streams : AskedForSession(d, x)' <=> AskedForSession(d, x)
    BY <1>5 DEF AskedForSession
  <2> QED BY <1>1, <1>5, <2>1, <2>2 DEF IInv, WantsInv, serverVars, netVars
<1>11. ClientsInv'
  <2>1. \A d \in Clients, s \in Sessions : Holds(d, s)' => Holds(d, s)
    BY <1>2, <1>5 DEF Holds
  <2> QED BY <1>1, <1>2, <1>5, <2>1 DEF IInv, ClientsInv, serverVars, netVars
<1>12. AnswerNamesReceiver' /\ UnreliableInv' /\ NoPanicWithoutPings'
  BY <1>1 DEF IInv, AnswerNamesReceiver, UnreliableInv, NoPanicWithoutPings, SentOther,
              AboutToResume, serverVars, netVars
<1>13. HeldInv'
  BY <1>1, <1>5 DEF IInv, HeldInv, Held, serverVars, netVars
<1>14. SoundInv'
  BY <1>1, <1>2, <1>5, Names DEF IInv, SoundInv, serverVars, netVars
<1> QED BY <1>1, <1>7, <1>8, <1>9, <1>10, <1>11, <1>12, <1>13, <1>14, ServerUnchanged DEF IInv

LEMMA CheckPortAuthenticatedStep ==
    ASSUME IInv, NEW c \in Clients, CheckPortAuthenticated(c)
    PROVE  IInv'
<1> DEFINE e == client[c].event
<1>1. /\ e # None
      /\ client' = [client EXCEPT ![c].session = e.session, ![c].auth = @ \cup {e.port}, ![c].event = None]
      /\ UNCHANGED <<netVars, serverVars>>
  BY DEF CheckPortAuthenticated, ClientOnly
<1>2. e.session \in Sessions /\ e.port \in {0, 1} /\ e.port \in Ports
  BY <1>1, ClientTypes, PortNames DEF IInv
<1>3. /\ DOMAIN client' = Clients /\ DOMAIN client = Clients
      /\ \A d \in Clients : /\ client'[d].stream = client[d].stream
                            /\ d # c => client'[d] = client[d]
      /\ client'[c].session = e.session
      /\ client'[c].auth = client[c].auth \cup {e.port}
      /\ client'[c].event = None
  BY <1>1 DEF IInv, TypeOK
<1>4. \/ client[c].session = e.session
      \/ /\ client[c].session = None /\ e.port = 0 /\ client[c].stream \in {None, e.session}
  BY <1>1 DEF IInv, ClientsInv
<1>5. TypeOK'
  <2>1. client' \in [Clients -> [stream : Streams \cup {None}, session : Sessions \cup {None},
                               auth : SUBSET {0, 1}, event : Events \cup {None}]]
    BY <1>1, <1>2 DEF IInv, TypeOK
  <2> QED BY <1>1, <2>1 DEF IInv, TypeOK, serverVars, netVars
<1> HIDE DEF e
<1>6. \A s \in Streams : Given(s)' => Given(s)
  BY <1>1, <1>2, <1>3 DEF e, Given, serverVars, netVars
<1>7. \A d \in Clients, x \in Streams :
        AskedForSession(d, x) /\ client[d].stream = x => AskedForSession(d, x)'
  BY <1>2, <1>3, <1>4, Names DEF AskedForSession
<1>8. FreshInv'
  BY <1>1, <1>3, <1>6 DEF IInv, FreshInv, serverVars, netVars
<1>9. GivenInv'
  BY <1>1, <1>3, <1>6, <1>7 DEF IInv, GivenInv, serverVars, netVars
<1>10. WantsInv'
  <2>1. \A x, w : Wants(x, w)' <=> Wants(x, w)
    BY <1>1 DEF Wants, serverVars, netVars
  <2>2. \A d \in Clients : \A s \in Sessions : client[d].session = s => client'[d].session = s
    BY <1>3, <1>4, Names
  <2> QED BY <1>1, <1>3, <1>7, <2>1, <2>2 DEF IInv, WantsInv, serverVars, netVars
<1>11. ClientsInv'
  <2>1. \A d \in Clients, s \in Sessions : Holds(d, s)' => Holds(d, s)
    BY <1>1, <1>2, <1>3, Names DEF e, Holds
  <2>2. \A d \in Clients : \A s \in Sessions : client[d].session = s => client'[d].session = s
    BY <1>3, <1>4, Names
  <2>3. \A s \in DOMAIN peers[0] : s \in Sessions
    BY TableTypes, PortNames DEF IInv
  <2>4. \A m \in s2c : m.session \in Sessions
    BY DEF IInv, TypeOK
  <2> QED BY <1>1, <1>3, <2>1, <2>2, <2>3, <2>4 DEF IInv, ClientsInv, serverVars, netVars
<1>12. AnswerNamesReceiver' /\ UnreliableInv' /\ NoPanicWithoutPings'
  BY <1>1 DEF IInv, AnswerNamesReceiver, UnreliableInv, NoPanicWithoutPings, SentOther,
              AboutToResume, serverVars, netVars
<1>13. HeldInv'
  <2>1. \A s \in Sessions : Held(s) => Held(s)'
    BY <1>3, <1>4, Names DEF Held
  <2>2. \A d \in datagrams : d.session \in Sessions
    BY DEF IInv, TypeOK
  <2>3. \A m \in inbox : m.session \in Sessions
    BY DEF IInv, TypeOK
  <2>4. UseUdp => \A s \in DOMAIN peers[1] : s \in Sessions
    BY TableTypes, PortNames DEF IInv
  <2> QED BY <1>1, <2>1, <2>2, <2>3, <2>4 DEF IInv, HeldInv, serverVars, netVars
<1>14. SoundInv'
  <2> SUFFICES ASSUME UseUdp, ~Faults PROVE SoundInv' BY DEF SoundInv
  <2>1. /\ e.session = client[c].stream
        /\ e.port = 1 => e.session \in answers
        /\ 1 \in client[c].auth => client[c].session \in answers
    BY <1>1 DEF IInv, SoundInv, e
  <2>2. 1 \in client'[c].auth => e.session \in answers
    <3>1. client[c].session \in answers => client[c].session \in Sessions
      BY DEF IInv, TypeOK
    <3> QED BY <1>3, <1>4, <2>1, <3>1, Names
  <2> QED BY <1>1, <1>3, <2>1, <2>2 DEF IInv, SoundInv, serverVars, netVars
<1> QED BY <1>1, <1>5, <1>8, <1>9, <1>10, <1>11, <1>12, <1>13, <1>14, ServerUnchanged DEF IInv

LEMMA BreakStreamStep ==
    ASSUME IInv, NEW st \in Streams, BreakStream(st)
    PROVE  IInv'
<1>1. /\ Faults /\ wire[st] # "idle" /\ wire' = [wire EXCEPT ![st] = "reset"]
      /\ client' = [c \in Clients |-> IF client[c].stream = st THEN [client[c] EXCEPT !.stream = None]
                                      ELSE client[c]]
      /\ c2s' \subseteq c2s /\ s2c' \subseteq s2c
      /\ UNCHANGED <<datagrams, answers, serverVars>>
  BY DEF BreakStream, LostWith, ClientOnly
<1>2. /\ \A x \in Streams : x # st => wire'[x] = wire[x]
      /\ wire'[st] = "reset"
  BY <1>1 DEF IInv, TypeOK
<1>3. \A c \in Clients : /\ client'[c].stream \in {None, client[c].stream}
                         /\ client'[c].session = client[c].session
                         /\ client'[c].auth = client[c].auth
                         /\ client'[c].event = client[c].event
  BY <1>1 DEF IInv, TypeOK
<1>4. \A s \in Streams : Given(s)' => Given(s)
  BY <1>1, <1>3 DEF Given, serverVars
<1>5. TypeOK'
  <2>1. client' \in [Clients -> [stream : Streams \cup {None}, session : Sessions \cup {None},
                               auth : SUBSET {0, 1}, event : Events \cup {None}]]
    BY <1>1 DEF IInv, TypeOK
  <2>2. wire' \in [Streams -> {"idle", "open", "fin", "closed", "reset"}]
    BY <1>1 DEF IInv, TypeOK
  <2>3. c2s' \subseteq Messages /\ s2c' \subseteq [stream : Streams, session : Sessions]
    BY <1>1 DEF IInv, TypeOK
  <2> QED BY <1>1, <2>1, <2>2, <2>3 DEF IInv, TypeOK, serverVars
<1>6. FreshInv'
  BY <1>1, <1>2, <1>3, <1>4, Names DEF IInv, FreshInv, serverVars
<1>7. GivenInv'
  BY <1>1, <1>2, <1>3, <1>4, Names DEF IInv, GivenInv, AskedForSession, serverVars
<1>8. WantsInv'
  <2>1. \A x, w : Wants(x, w)' => Wants(x, w)
    BY <1>1 DEF Wants, serverVars
  <2>2. \A c \in Clients, x \in Streams : AskedForSession(c, x)' <=> AskedForSession(c, x)
    BY <1>3 DEF AskedForSession
  <2>3. \A m \in inbox : m.session \in Streams
    BY DEF IInv, TypeOK, Sessions
  <2> QED BY <1>1, <1>2, <1>3, <2>1, <2>2, <2>3, Names DEF IInv, WantsInv, serverVars
<1>9. ClientsInv'
  <2>1. \A d \in Clients, s \in Sessions : Holds(d, s)' => Holds(d, s)
    BY <1>3, Names DEF Holds
  <2>2. \A s \in DOMAIN peers[0] : peers[0][s].stream \in Streams
    BY DEF IInv, TablesInv, EntriesInv, IndexInv
  <2>3. \A m \in s2c : m.stream \in Streams
    BY DEF IInv, TypeOK
  <2> QED BY <1>1, <1>3, <2>1, <2>2, <2>3, Names DEF IInv, ClientsInv, serverVars
<1>10. AnswerNamesReceiver' /\ UnreliableInv' /\ NoPanicWithoutPings'
  BY <1>1 DEF IInv, AnswerNamesReceiver, UnreliableInv, NoPanicWithoutPings, SentOther,
              AboutToResume, serverVars
<1>11. HeldInv' /\ SoundInv'
  BY <1>1, <1>3 DEF IInv, HeldInv, Held, SoundInv, serverVars
<1> QED BY <1>1, <1>5, <1>6, <1>7, <1>8, <1>9, <1>10, <1>11, ServerUnchanged DEF IInv

LEMMA ReopenStep ==
    ASSUME IInv, NEW c \in Clients, Reopen(c)
    PROVE  IInv'
<1> DEFINE st == client[c].stream
<1>1. /\ Faults /\ st \in Streams
      /\ client' = [client EXCEPT ![c].stream = None, ![c].auth = {}]
      /\ wire' = [wire EXCEPT ![st] = IF @ = "open" THEN "fin" ELSE @]
      /\ s2c' \subseteq s2c
      /\ UNCHANGED <<c2s, datagrams, answers, serverVars>>
  BY ClientTypes DEF Reopen, ClientOnly, IInv
<1>2. /\ Faults /\ s2c' \subseteq s2c
       /\ UNCHANGED <<c2s, datagrams, answers, serverVars>>
  BY <1>1
<1>3. /\ wire' \in [Streams -> {"idle", "open", "fin", "closed", "reset"}]
      /\ \A x \in Streams : /\ wire'[x] = "open" => wire[x] = "open"
                            /\ wire'[x] = "idle" => wire[x] = "idle"
  BY <1>1 DEF IInv, TypeOK
<1>4. /\ DOMAIN client = Clients /\ DOMAIN client' = Clients
      /\ \A d \in Clients : d # c => client'[d] = client[d]
      /\ client'[c] = [client[c] EXCEPT !.stream = None, !.auth = {}]
  BY <1>1 DEF IInv, TypeOK
<1>5. \A d \in Clients : /\ client'[d].stream \in {None, client[d].stream}
                         /\ client'[d].session = client[d].session
                         /\ client'[d].event = client[d].event
                         /\ client'[d].stream # None => client'[d].auth = client[d].auth
  <2>1. client'[c].stream = None /\ client'[c].session = client[c].session /\ client'[c].event = client[c].event
    <3>1. client[c] \in [stream : Streams \cup {None}, session : Sessions \cup {None},
                        auth : SUBSET {0, 1}, event : Events \cup {None}]
      BY DEF IInv, TypeOK
    <3> QED BY <1>4, <3>1
  <2> QED BY <1>4, <2>1
<1>6. TypeOK'
  <2>1. client' \in [Clients -> [stream : Streams \cup {None}, session : Sessions \cup {None},
                               auth : SUBSET {0, 1}, event : Events \cup {None}]]
    <3> DEFINE R == [stream : Streams \cup {None}, session : Sessions \cup {None},
                     auth : SUBSET {0, 1}, event : Events \cup {None}]
    <3>1. client \in [Clients -> R]
      BY DEF IInv, TypeOK
    <3>2. \A r \in R : [r EXCEPT !.stream = None, !.auth = {}] \in R
      OBVIOUS
    <3>3. client' = [client EXCEPT ![c] = [client[c] EXCEPT !.stream = None, !.auth = {}]]
      BY <1>1
    <3> HIDE DEF R
    <3>4. [client[c] EXCEPT !.stream = None, !.auth = {}] \in R
      BY <3>1, <3>2
    <3>5. client' \in [Clients -> R]
      BY <3>1, <3>3, <3>4
    <3> QED BY <3>5 DEF R
  <2>2. s2c' \subseteq [stream : Streams, session : Sessions]
    BY <1>1 DEF IInv, TypeOK
  <2> QED BY <1>1, <1>3, <2>1, <2>2 DEF IInv, TypeOK, serverVars
<1> HIDE DEF st
<1>7. \A s \in Streams : Given(s)' => Given(s)
  BY <1>2, <1>5 DEF Given, serverVars
<1>8. FreshInv'
  BY <1>2, <1>3, <1>5, <1>7, Names DEF IInv, FreshInv, serverVars
<1>9. GivenInv'
  BY <1>2, <1>3, <1>5, <1>7, Names DEF IInv, GivenInv, AskedForSession, serverVars
<1>10. WantsInv'
  <2>1. \A x, w : Wants(x, w)' => Wants(x, w)
    BY <1>2 DEF Wants, serverVars
  <2>2. \A m \in inbox : m.session \in Streams
    BY DEF IInv, TypeOK, Sessions
  <2> QED BY <1>2, <1>3, <1>5, <2>1, <2>2, Names DEF IInv, WantsInv, AskedForSession, serverVars
<1>11. ClientsInv'
  <2>1. \A d \in Clients, s \in Sessions : Holds(d, s)' => Holds(d, s)
    BY <1>5, Names DEF Holds
  <2>2. \A s \in DOMAIN peers[0] : peers[0][s].stream \in Streams
    BY DEF IInv, TablesInv, EntriesInv, IndexInv
  <2>3. \A m \in s2c : m.stream \in Streams
    BY DEF IInv, TypeOK
  <2> QED BY <1>2, <1>5, <2>1, <2>2, <2>3, Names DEF IInv, ClientsInv, serverVars
<1>12. AnswerNamesReceiver' /\ UnreliableInv' /\ NoPanicWithoutPings'
  BY <1>2 DEF IInv, AnswerNamesReceiver, UnreliableInv, NoPanicWithoutPings, SentOther,
              AboutToResume, serverVars
<1>13. HeldInv' /\ SoundInv'
  BY <1>2, <1>5 DEF IInv, HeldInv, Held, SoundInv, serverVars
<1> QED BY <1>2, <1>6, <1>8, <1>9, <1>10, <1>11, <1>12, <1>13, ServerUnchanged DEF IInv

LEMMA ConnectStep ==
    ASSUME IInv, NEW c \in Clients, NEW st \in Streams, Connect(c, st)
    PROVE  IInv'
<1>1. /\ client[c].stream = None /\ client[c].event = None /\ wire[st] = "idle"
      /\ client' = [client EXCEPT ![c].stream = st]
      /\ wire' = [wire EXCEPT ![st] = "open"]
      /\ waiting' = waiting \cup {st}
      /\ UNCHANGED <<stage, panicked, peers, index, known, inbox, buffered, c2s, s2c, datagrams, answers>>
  BY DEF Connect
<1>2. /\ ~Given(st) /\ st \notin DOMAIN peers[0] /\ st \notin StreamsOf(peers[0])
      /\ \A m \in c2s \cup buffered \cup s2c : m.stream # st
      /\ \A m \in inbox : m.port = 0 => m.session # st
      /\ \A d \in Clients : client[d].stream # st
  BY <1>1 DEF IInv, FreshInv
<1>3. /\ \A x \in Streams : x # st => wire'[x] = wire[x]
      /\ wire'[st] = "open"
  BY <1>1 DEF IInv, TypeOK
<1>4. \A d \in Clients : /\ d # c => client'[d] = client[d]
                         /\ client'[d].session = client[d].session
                         /\ client'[d].auth = client[d].auth
                         /\ client'[d].event = client[d].event
  BY <1>1 DEF IInv, TypeOK
<1>5. client'[c].stream = st
  BY <1>1 DEF IInv, TypeOK
<1>6. TypeOK'
  <2>1. client' \in [Clients -> [stream : Streams \cup {None}, session : Sessions \cup {None},
                               auth : SUBSET {0, 1}, event : Events \cup {None}]]
    BY <1>1 DEF IInv, TypeOK
  <2>2. wire' \in [Streams -> {"idle", "open", "fin", "closed", "reset"}] /\ waiting' \subseteq Streams
    BY <1>1 DEF IInv, TypeOK
  <2> QED BY <1>1, <2>1, <2>2 DEF IInv, TypeOK
<1>7. \A s \in Streams : Given(s)' <=> Given(s)
  BY <1>1, <1>4 DEF Given
<1>8. FreshInv'
  BY <1>1, <1>2, <1>3, <1>4, <1>5, <1>7 DEF IInv, FreshInv
<1>9. GivenInv'
  BY <1>1, <1>2, <1>3, <1>4, <1>5, <1>7 DEF IInv, GivenInv, AskedForSession
<1>10. WantsInv'
  <2>1. \A x, w : Wants(x, w)' <=> Wants(x, w)
    BY <1>1 DEF Wants
  <2>2. \A w : ~Wants(st, w)
    BY <1>2 DEF Wants
  <2>3. \A m \in inbox : m.session \in Streams
    BY DEF IInv, TypeOK, Sessions
  <2> QED BY <1>1, <1>2, <1>3, <1>4, <1>5, <2>1, <2>2, <2>3 DEF IInv, WantsInv, AskedForSession
<1>11. ClientsInv'
  <2>1. \A d \in Clients, s \in Sessions : Holds(d, s)' => Holds(d, s) \/ (d = c /\ s = st)
    BY <1>4, <1>5 DEF Holds
  <2>2. \A d \in Clients : ~Holds(d, st)
    BY <1>2, Names DEF Holds, Given
  <2>3. \A d, f \in Clients : \A s \in Sessions : (Holds(d, s) /\ Holds(f, s))' => d = f
    BY <2>1, <2>2 DEF IInv, ClientsInv
  <2>4. \A s \in DOMAIN peers[0] : peers[0][s].stream # st
    BY <1>2 DEF StreamsOf
  <2>5. \A d \in Clients : client'[d].event # None =>
         \/ client'[d].session = client'[d].event.session
         \/ /\ client'[d].session = None /\ client'[d].event.port = 0
            /\ client'[d].stream \in {None, client'[d].event.session}
    BY <1>1, <1>4 DEF IInv, ClientsInv
  <2> QED BY <1>1, <1>2, <1>4, <1>5, <2>3, <2>4, <2>5 DEF IInv, ClientsInv
<1>12. TablesInv' /\ KnownWhileConnected' /\ AnswerNamesReceiver'
  BY <1>1 DEF IInv, TablesInv, EntriesInv, IndexInv, KnownWhileConnected, AnswerNamesReceiver
<1>13. UnreliableInv' /\ NoPanicWithoutPings'
  BY <1>1 DEF IInv, UnreliableInv, NoPanicWithoutPings, SentOther, AboutToResume
<1>14. HeldInv'
  BY <1>1, <1>4 DEF IInv, HeldInv, Held
<1>15. SoundInv'
  BY <1>1, <1>3, <1>4, <1>5 DEF IInv, SoundInv
<1> QED BY <1>6, <1>8, <1>9, <1>10, <1>11, <1>12, <1>13, <1>14, <1>15 DEF IInv

-----------------------------------------------------------------------------
(* The server's frame.                                                     *)

LEMMA KickStep ==
    ASSUME IInv, NEW k \in Sessions, Kick(k)
    PROVE  IInv'
<1> DEFINE st == peers[0][k].stream
<1>1. /\ Faults /\ k \in DOMAIN peers[0]
      /\ peers' = [peers EXCEPT ![0] = Remove(@, {k})]
      /\ wire' = [wire EXCEPT ![st] = IF @ = "open" THEN "closed" ELSE @]
  BY DEF Kick
<1>2. /\ Faults
      /\ UNCHANGED <<stage, panicked, index, known, inbox, waiting, buffered, c2s, s2c, datagrams,
                     answers, client>>
  BY DEF Kick
<1>3. st \in Streams
  BY <1>1 DEF IInv, TablesInv, EntriesInv, IndexInv
<1>4. /\ wire' \in [Streams -> {"idle", "open", "fin", "closed", "reset"}]
      /\ \A x \in Streams : /\ wire'[x] = "open" => wire[x] = "open" /\ x # st
                            /\ wire'[x] = "idle" => wire[x] = "idle"
  BY <1>1, <1>3 DEF IInv, TypeOK
<1>5. /\ DOMAIN peers = Ports /\ DOMAIN peers' = Ports
      /\ peers'[0] = Remove(peers[0], {k})
      /\ \A i \in Ports : i # 0 => peers'[i] = peers[i]
  BY <1>1, PortNames DEF IInv, TypeOK
<1>6. /\ DOMAIN peers'[0] = DOMAIN peers[0] \ {k}
      /\ \A s \in DOMAIN peers[0] : s # k => peers'[0][s] = peers[0][s]
      /\ IsTable(peers'[0])
  BY <1>5, TableTypes, PortNames DEF Remove, Restrict, IsTable, IInv
<1>7. TypeOK'
  <2>1. \A i \in Ports : peers'[i] \in Tables
    BY <1>5, <1>6, TableIntro DEF IInv, TypeOK
  <2> QED BY <1>2, <1>4, <1>5, <2>1 DEF IInv, TypeOK
<1> HIDE DEF st
<1>8. /\ AnonymousSessions(peers'[0]) \subseteq AnonymousSessions(peers[0])
      /\ AuthenticatedSessionsOf(peers'[0]) \subseteq AuthenticatedSessionsOf(peers[0])
      /\ StreamsOf(peers'[0]) \subseteq StreamsOf(peers[0])
  BY <1>6 DEF AnonymousSessions, AuthenticatedSessionsOf, StreamsOf
<1>9. \A s \in Streams : Given(s)' => Given(s)
  BY <1>2, <1>8 DEF Given
<1>10. TablesInv'
  <2>1. \A i \in Ports : \A s \in DOMAIN peers'[i] : peers'[i][s].peer \in {NoPeer, PeerOf[s]}
    BY <1>5, <1>6, PortNames DEF IInv, TablesInv, EntriesInv, IndexInv
  <2>2. \A s \in DOMAIN peers'[0] : s \in DOMAIN peers[0] /\ peers'[0][s] = peers[0][s]
    BY <1>6
  <2>3. EntriesInv'
    <3>1. \A s \in AnonymousSessions(peers'[0]) : peers'[0][s].stream = s
      BY <1>6, <1>8 DEF IInv, TablesInv, EntriesInv, AnonymousSessions
    <3>2. \A s \in DOMAIN peers'[0] : peers'[0][s].stream \in Streams
      BY <2>2 DEF IInv, TablesInv, EntriesInv
    <3>3. \A s, t \in DOMAIN peers'[0] : peers'[0][s].stream = peers'[0][t].stream => s = t
      BY <2>2 DEF IInv, TablesInv, EntriesInv
    <3> QED BY <2>1, <3>1, <3>2, <3>3 DEF EntriesInv
  <2>4. IndexInv'
    <3>1. \A q \in DOMAIN index[0] :
            index[0][q] \in DOMAIN peers'[0] => peers'[0][index[0][q]].peer = q
      BY <2>2 DEF IInv, TablesInv, IndexInv
    <3>2. \A s \in AuthenticatedSessionsOf(peers'[0]) : PeerOf[s] \in DOMAIN index[0]
      BY <1>8 DEF IInv, TablesInv, IndexInv
    <3> QED BY <1>2, <3>1, <3>2 DEF IInv, TablesInv, IndexInv
  <2> QED BY <2>3, <2>4 DEF TablesInv
<1>11. FreshInv'
  BY <1>2, <1>4, <1>6, <1>8, <1>9 DEF IInv, FreshInv
<1>12. GivenInv'
  <2> SUFFICES ASSUME NEW s \in Streams, Given(s)
               PROVE  /\ s \notin AnonymousSessions(peers'[0])
                      /\ \A m \in c2s \cup buffered : m.stream = s => m.want = None
                      /\ \A m \in inbox : m.port = 0 /\ m.anonymous => m.session # s
                      /\ \A c \in Clients : client[c].stream = s => AskedForSession(c, s)
                      /\ wire'[s] = "open" => s \in DOMAIN peers'[0] /\ peers'[0][s].stream = s
    BY <1>2, <1>9 DEF GivenInv, AskedForSession
  <2>1. wire'[s] = "open" => s \in DOMAIN peers'[0] /\ peers'[0][s].stream = s
    BY <1>4, <1>6 DEF IInv, GivenInv, st
  <2> QED BY <1>8, <2>1 DEF IInv, GivenInv
<1>13. WantsInv'
  <2>1. \A x, w : Wants(x, w)' <=> Wants(x, w)
    BY <1>2 DEF Wants
  <2>2. \A m \in inbox : m.session \in Streams
    BY DEF IInv, TypeOK, Sessions
  <2>3. \A s \in Streams : s \in DOMAIN peers[0] /\ peers[0][s].stream = s /\ wire'[s] = "open" =>
          s \in DOMAIN peers'[0] /\ peers'[0][s].stream = s
    BY <1>4, <1>6 DEF st
  <2> QED BY <1>2, <1>4, <2>1, <2>2, <2>3 DEF IInv, WantsInv, AskedForSession
<1>14. ClientsInv' /\ AnswerNamesReceiver'
  BY <1>2, <1>6 DEF IInv, ClientsInv, AnswerNamesReceiver, Holds
<1>15. KnownWhileConnected'
  BY <1>2, <1>6, <1>8 DEF IInv, KnownWhileConnected, AuthenticatedSessionsOf
<1>16. UseUdp => peers'[1] = peers[1]
  BY <1>5, PortNames
<1>17. UnreliableInv'
  BY <1>2, <1>16 DEF IInv, UnreliableInv, SentOther, AboutToResume
<1>18. NoPanicWithoutPings'
  BY DEF Kick, NoPanicWithoutPings
<1>19. HeldInv' /\ SoundInv'
  BY <1>2, <1>16 DEF IInv, HeldInv, Held, SoundInv
<1> QED BY <1>7, <1>10, <1>11, <1>12, <1>13, <1>14, <1>15, <1>17, <1>18, <1>19 DEF IInv

LEMMA AllReadStep == IInv /\ AllRead => IInv'
<1> SUFFICES ASSUME IInv, AllRead PROVE IInv' OBVIOUS
<1>1. /\ inbox = {} /\ stage' = "authenticate_unreliable_ports"
      /\ UNCHANGED <<panicked, peers, index, known, inbox, waiting, buffered, netVars, client>>
  BY DEF AllRead, GoTo
<1>2. TypeOK'
  BY <1>1 DEF IInv, TypeOK, Stages, netVars
<1>3. \A s \in Streams : Given(s)' <=> Given(s)
  BY <1>1 DEF Given, netVars
<1>4. FreshInv' /\ GivenInv'
  BY <1>1, <1>3 DEF IInv, FreshInv, GivenInv, AskedForSession, netVars
<1>5. WantsInv' /\ ClientsInv'
  BY <1>1 DEF IInv, WantsInv, Wants, ClientsInv, Holds, AskedForSession, netVars
<1>6. TablesInv' /\ KnownWhileConnected' /\ AnswerNamesReceiver'
  BY <1>1 DEF IInv, TablesInv, EntriesInv, IndexInv, KnownWhileConnected, AnswerNamesReceiver, netVars
<1>7. HeldInv' /\ SoundInv' /\ NoPanicWithoutPings'
  BY <1>1 DEF IInv, HeldInv, Held, SoundInv, NoPanicWithoutPings, netVars
<1>8. UnreliableInv'
  BY <1>1 DEF IInv, UnreliableInv, SentOther, AboutToResume, netVars
<1> QED BY <1>2, <1>4, <1>5, <1>6, <1>7, <1>8 DEF IInv

LEMMA AuthenticateUnreliablePortsStep == IInv /\ AuthenticateUnreliablePorts => IInv'
<1> SUFFICES ASSUME IInv, AuthenticateUnreliablePorts PROVE IInv' OBVIOUS
<1>1. /\ ~panicked /\ stage = "authenticate_unreliable_ports"
      /\ stage' \in {"check_authenticated_peers_are_connected", "authenticate_unreliable_ports"}
      /\ panicked' \in BOOLEAN /\ (panicked' => Unreliable # {})
      /\ UNCHANGED <<peers, index, known, inbox, waiting, buffered, netVars, client>>
  <2>1. CASE Unreliable = {}
    BY <2>1 DEF AuthenticateUnreliablePorts, IInv, TypeOK
  <2>2. CASE Unreliable # {}
    BY <2>2 DEF AuthenticateUnreliablePorts
  <2> QED BY <2>1, <2>2
<1>2. TypeOK'
  <2>1. stage' \in Stages
    BY <1>1 DEF Stages
  <2>2. panicked' \in BOOLEAN
    BY <1>1
  <2>3. UNCHANGED <<peers, index, known, inbox, waiting, buffered, netVars, client>>
    BY <1>1
  <2> QED BY <2>1, <2>2, <2>3 DEF IInv, TypeOK, netVars
<1>3. \A s \in Streams : Given(s)' <=> Given(s)
  BY <1>1 DEF Given, netVars
<1>4. FreshInv' /\ GivenInv'
  BY <1>1, <1>3 DEF IInv, FreshInv, GivenInv, AskedForSession, netVars
<1>5. WantsInv' /\ ClientsInv'
  BY <1>1 DEF IInv, WantsInv, Wants, ClientsInv, Holds, AskedForSession, netVars
<1>6. TablesInv' /\ KnownWhileConnected' /\ AnswerNamesReceiver'
  BY <1>1 DEF IInv, TablesInv, EntriesInv, IndexInv, KnownWhileConnected, AnswerNamesReceiver, netVars
<1>7. HeldInv' /\ SoundInv'
  BY <1>1 DEF IInv, HeldInv, Held, SoundInv, netVars
<1>8. UnreliableInv'
  BY <1>1 DEF IInv, UnreliableInv, SentOther, AboutToResume, netVars
<1>9. NoPanicWithoutPings'
  <2> SUFFICES ASSUME panicked'
               PROVE  \E d \in datagrams : ~d.auth /\ d.session \in AnonymousSessions(peers[1])
    BY <1>1 DEF NoPanicWithoutPings, netVars
  <2>1. PICK s \in Unreliable : TRUE
    BY <1>1
  <2>2. UseUdp /\ s \in AnonymousSessions(peers[1]) /\ s \in AuthenticatedSessionsOf(peers[0])
    BY <2>1 DEF Unreliable, GetPeerUuidFromSession, AuthenticatedSessionsOf, AnonymousSessions
  <2>3. s \in DOMAIN known /\ ~AboutToResume(s)
    BY <1>1, <2>2 DEF IInv, KnownWhileConnected, AboutToResume
  <2> QED BY <2>2, <2>3 DEF IInv, UnreliableInv, SentOther
<1> QED BY <1>2, <1>4, <1>5, <1>6, <1>7, <1>8, <1>9 DEF IInv

LEMMA CheckConnectedStep == IInv /\ CheckConnected => IInv'
<1> SUFFICES ASSUME IInv, CheckConnected PROVE IInv' OBVIOUS
<1>1. /\ ~panicked /\ stage' = "check_messages_from_client"
      /\ known' = Restrict(known, Retained)
      /\ UNCHANGED <<panicked, peers, index, inbox, waiting, buffered, netVars, client>>
  BY DEF CheckConnected, GoTo
<1>2. /\ DOMAIN known' = Retained /\ Retained \subseteq DOMAIN known
      /\ \A k \in DOMAIN known' : known'[k] = known[k]
  BY <1>1 DEF Restrict, Retained
<1>3. TypeOK'
  BY <1>1, <1>2 DEF IInv, TypeOK, Stages, netVars
<1>4. \A s \in Streams : Given(s)' => Given(s)
  BY <1>1, <1>2 DEF Given, netVars
<1>5. FreshInv' /\ GivenInv'
  BY <1>1, <1>4 DEF IInv, FreshInv, GivenInv, AskedForSession, netVars
<1>6. WantsInv' /\ ClientsInv' /\ AnswerNamesReceiver'
  BY <1>1 DEF IInv, WantsInv, Wants, ClientsInv, AnswerNamesReceiver, Holds, AskedForSession, netVars
<1>7. TablesInv'
  BY <1>1, <1>2 DEF IInv, TablesInv, EntriesInv, IndexInv
<1>8. KnownWhileConnected'
  <2> SUFFICES ASSUME NEW s \in AuthenticatedSessionsOf(peers[0])
               PROVE  s \in DOMAIN known' /\ known'[s] = peers[0][s].peer
    BY <1>1 DEF KnownWhileConnected
  <2>1. s \in DOMAIN known /\ known[s] = peers[0][s].peer
    BY DEF IInv, KnownWhileConnected
  <2>2. PeerOf[s] \in DOMAIN index[0] /\ peers[0][s].peer = PeerOf[s]
    BY PortNames DEF IInv, TablesInv, IndexInv, EntriesInv, AuthenticatedSessionsOf, AnonymousSessions
  <2> QED BY <1>2, <2>1, <2>2 DEF Retained, IsPeerConnected
<1>9. HeldInv' /\ SoundInv' /\ NoPanicWithoutPings'
  BY <1>1 DEF IInv, HeldInv, Held, SoundInv, NoPanicWithoutPings, netVars
<1>10. UnreliableInv'
  <2>1. stage = "check_authenticated_peers_are_connected"
    BY DEF CheckConnected, GoTo
  <2> QED BY <1>1, <1>2, <2>1 DEF IInv, UnreliableInv, SentOther, AboutToResume, netVars
<1> QED BY <1>3, <1>5, <1>6, <1>7, <1>8, <1>9, <1>10 DEF IInv

\* What TakeMessages dispatches.
LEMMA Dispatched ==
    ASSUME IInv, NEW got \in SUBSET datagrams,
           inbox' = (UNION {TakenFrom(s) : s \in DOMAIN peers[0]})
                    \cup {[port |-> 1, session |-> d.session, want |-> d.session,
                           anonymous |-> d.session \in AnonymousSessions(peers'[1])] :
                            d \in {x \in got : x.auth}}
    PROVE  /\ \A m \in inbox' :
                \/ /\ m.port = 0 /\ m.session \in DOMAIN peers[0]
                   /\ m.anonymous => m.session \in AnonymousSessions(peers[0])
                   /\ \E x \in buffered : x.stream = peers[0][m.session].stream /\ m.want = x.want
                \/ m.port = 1 /\ m.want = m.session /\ \E d \in got : m.session = d.session
           /\ \A m \in inbox' : m \in [port : Ports, session : Sessions, want : Sessions \cup {None},
                                       anonymous : BOOLEAN]
           /\ \A d \in got : d.auth /\ d.session \in AnonymousSessions(peers'[1]) =>
                [port |-> 1, session |-> d.session, want |-> d.session, anonymous |-> TRUE] \in inbox'
<1> DEFINE b(s) == s \in AnonymousSessions(peers[0])
           c(s) == s \in AnonymousSessions(peers'[1])
           Taken(s) == {[port |-> 0, session |-> s, want |-> x.want, anonymous |-> b(s)] :
                          x \in {y \in buffered : y.stream = peers[0][s].stream}}
           Datagrams == {[port |-> 1, session |-> d.session, want |-> d.session,
                          anonymous |-> c(d.session)] : d \in {x \in got : x.auth}}
<1>1. /\ \A s \in DOMAIN peers[0] : s \in Sessions
      /\ \A x \in buffered : x.want \in Sessions \cup {None}
      /\ \A d \in got : d.session \in Sessions /\ UseUdp
  BY TableTypes, PortNames DEF IInv, TypeOK, Messages, HeldInv
<1>2. /\ \A s : b(s) \in BOOLEAN /\ (b(s) => s \in AnonymousSessions(peers[0]))
      /\ \A s : c(s) \in BOOLEAN /\ (s \in AnonymousSessions(peers'[1]) => c(s) = TRUE)
  OBVIOUS
<1>3. inbox' = (UNION {Taken(s) : s \in DOMAIN peers[0]}) \cup Datagrams
  BY DEF TakenFrom
<1> HIDE DEF b, c
<1>4. ASSUME NEW m \in inbox'
      PROVE  \/ \E s \in DOMAIN peers[0] : m \in Taken(s)
             \/ m \in Datagrams
  <2> HIDE DEF Taken, Datagrams
  <2> QED BY <1>3, <1>4
<1>5. ASSUME NEW m \in inbox'
      PROVE  \/ /\ m.port = 0 /\ m.session \in DOMAIN peers[0]
                /\ m.anonymous => m.session \in AnonymousSessions(peers[0])
                /\ \E x \in buffered : x.stream = peers[0][m.session].stream /\ m.want = x.want
             \/ m.port = 1 /\ m.want = m.session /\ \E d \in got : m.session = d.session
  BY <1>2, <1>4
<1>6. ASSUME NEW m \in inbox'
      PROVE  m \in [port : Ports, session : Sessions, want : Sessions \cup {None}, anonymous : BOOLEAN]
  BY <1>1, <1>2, <1>4, PortNames
<1>7. ASSUME NEW d \in got, d.auth, d.session \in AnonymousSessions(peers'[1])
      PROVE  [port |-> 1, session |-> d.session, want |-> d.session, anonymous |-> TRUE] \in inbox'
  <2>1. c(d.session) = TRUE
    BY <1>2, <1>7
  <2>2. [port |-> 1, session |-> d.session, want |-> d.session, anonymous |-> c(d.session)] \in Datagrams
    BY <1>7
  <2> HIDE DEF Datagrams
  <2>3. Datagrams \subseteq inbox'
    BY <1>3
  <2> QED BY <2>1, <2>2, <2>3
<1> QED BY <1>5, <1>6, <1>7

LEMMA TakeMessagesStep == IInv /\ TakeMessages => IInv'
<1> SUFFICES ASSUME IInv, TakeMessages PROVE IInv' OBVIOUS
<1>1. PICK got \in SUBSET datagrams :
        /\ peers' = [i \in Ports |->
                       IF i = 0 THEN peers[0] ELSE Heard(peers[1], {d.session : d \in got})]
        /\ inbox' = (UNION {TakenFrom(s) : s \in DOMAIN peers[0]})
                    \cup {[port |-> 1, session |-> d.session, want |-> d.session,
                           anonymous |-> d.session \in AnonymousSessions(peers'[1])] :
                            d \in {x \in got : x.auth}}
  BY DEF TakeMessages
<1>2. /\ ~panicked /\ stage = "check_messages_from_client" /\ stage' = "first" /\ buffered' = {}
      /\ UNCHANGED <<panicked, index, known, waiting, netVars, client>>
  BY DEF TakeMessages, GoTo
<1>3. /\ DOMAIN peers' = Ports /\ peers'[0] = peers[0]
      /\ UseUdp => peers'[1] = Heard(peers[1], {d.session : d \in got})
  BY <1>1, PortNames
<1>4. UseUdp =>
        /\ DOMAIN peers'[1] = DOMAIN peers[1] \cup {d.session : d \in got}
        /\ \A s \in DOMAIN peers[1] : peers'[1][s] = peers[1][s]
        /\ \A s \in DOMAIN peers'[1] \ DOMAIN peers[1] : peers'[1][s] = Anonymous(None)
        /\ IsTable(peers'[1])
  <2> SUFFICES ASSUME UseUdp
               PROVE  /\ DOMAIN peers'[1] = DOMAIN peers[1] \cup {d.session : d \in got}
                      /\ \A s \in DOMAIN peers[1] : peers'[1][s] = peers[1][s]
                      /\ \A s \in DOMAIN peers'[1] \ DOMAIN peers[1] : peers'[1][s] = Anonymous(None)
                      /\ IsTable(peers'[1])
    OBVIOUS
  <2>1. {d.session : d \in got} \subseteq Sessions
    BY DEF IInv, TypeOK
  <2>2. Anonymous(None) \in Entry
    BY DEF Anonymous, Entry
  <2>3. IsTable(peers[1])
    BY TableTypes, PortNames DEF IInv
  <2> DEFINE S == {d.session : d \in got}
  <2>4. S \subseteq Sessions /\ peers'[1] = Heard(peers[1], S)
    BY <1>3, <2>1
  <2> HIDE DEF S
  <2>5. /\ DOMAIN peers'[1] = DOMAIN peers[1] \cup S
        /\ \A s \in DOMAIN peers[1] : peers'[1][s] = peers[1][s]
        /\ \A s \in DOMAIN peers'[1] \ DOMAIN peers[1] : peers'[1][s] = Anonymous(None)
    BY <2>4 DEF Heard
  <2>6. IsTable(peers'[1])
    BY <2>2, <2>3, <2>4 DEF Heard, IsTable
  <2> QED BY <2>5, <2>6 DEF S
<1>5. /\ \A m \in inbox' :
           \/ /\ m.port = 0 /\ m.session \in DOMAIN peers[0]
              /\ m.anonymous => m.session \in AnonymousSessions(peers[0])
              /\ \E x \in buffered : x.stream = peers[0][m.session].stream /\ m.want = x.want
           \/ m.port = 1 /\ m.want = m.session /\ \E d \in got : m.session = d.session
      /\ \A m \in inbox' : m \in [port : Ports, session : Sessions, want : Sessions \cup {None},
                                  anonymous : BOOLEAN]
      /\ \A d \in got : d.auth /\ d.session \in AnonymousSessions(peers'[1]) =>
           [port |-> 1, session |-> d.session, want |-> d.session, anonymous |-> TRUE] \in inbox'
  BY <1>1, Dispatched
<1>6. TypeOK'
  <2>1. \A i \in Ports : peers'[i] \in Tables
    <3>1. IsTable(peers'[0])
      BY <1>3, TableTypes, PortNames DEF IInv
    <3> QED BY <1>4, <3>1, TableIntro, PortNames
  <2>2. inbox' \subseteq [port : Ports, session : Sessions, want : Sessions \cup {None},
                          anonymous : BOOLEAN]
    BY <1>5
  <2> QED BY <1>2, <1>3, <2>1, <2>2 DEF IInv, TypeOK, Stages, netVars
<1>7. \A s \in Streams : Given(s)' <=> Given(s)
  BY <1>2, <1>3 DEF Given, netVars
<1>8. \A m \in inbox' : m.port = 0 /\ m.anonymous =>
        /\ m.session \in AnonymousSessions(peers[0]) /\ peers[0][m.session].stream = m.session
        /\ \E x \in buffered : x.stream = m.session /\ m.want = x.want
  BY <1>5 DEF IInv, TablesInv, EntriesInv
<1>9. TablesInv' /\ KnownWhileConnected' /\ AnswerNamesReceiver'
  <2>1. UseUdp => \A s \in DOMAIN peers'[1] : peers'[1][s].peer \in {NoPeer, PeerOf[s]}
    BY <1>4, PortNames DEF IInv, TablesInv, EntriesInv, Anonymous
  <2>2. \A i \in Ports : \A s \in DOMAIN peers'[i] : peers'[i][s].peer \in {NoPeer, PeerOf[s]}
    BY <1>3, <2>1, PortNames DEF IInv, TablesInv, EntriesInv
  <2>3. EntriesInv'
    BY <1>3, <2>2 DEF IInv, TablesInv, EntriesInv
  <2>4. IndexInv'
    BY <1>2, <1>3 DEF IInv, TablesInv, IndexInv
  <2> QED BY <1>2, <1>3, <2>3, <2>4 DEF IInv, TablesInv, KnownWhileConnected, AnswerNamesReceiver, netVars
<1>10. FreshInv'
  <2>1. \A m \in inbox' : m.port = 0 => m.session \in DOMAIN peers[0]
    BY <1>5
  <2> QED BY <1>2, <1>3, <1>7, <2>1 DEF IInv, FreshInv, netVars
<1>11. GivenInv'
  BY <1>2, <1>3, <1>7, <1>8 DEF IInv, GivenInv, AskedForSession, netVars
<1>12. WantsInv'
  <2>1. \A x, w : Wants(x, w)' => Wants(x, w)
    BY <1>2, <1>8 DEF Wants, netVars
  <2> QED BY <1>2, <1>3, <1>8, <2>1 DEF IInv, WantsInv, AskedForSession, AnonymousSessions, netVars
<1>13. ClientsInv'
  BY <1>2, <1>3 DEF IInv, ClientsInv, Holds, netVars
<1>14. HeldInv'
  <2>1. \A d \in got : Held(d.session)
    BY DEF IInv, HeldInv
  <2>2. \A s : Held(s)' <=> Held(s)
    BY <1>2 DEF Held
  <2>3. \A m \in inbox' : m.port = 1 => m.want = m.session /\ Held(m.session)
    BY <1>5, <2>1
  <2>4. UseUdp => \A s \in DOMAIN peers'[1] : Held(s)
    BY <1>4, <2>1 DEF IInv, HeldInv
  <2> QED BY <1>2, <2>2, <2>3, <2>4 DEF IInv, HeldInv, netVars
<1>15. UnreliableInv'
  <2> SUFFICES ASSUME UseUdp, NEW s \in AnonymousSessions(peers'[1])
               PROVE  SentOther(s) \/ s \notin DOMAIN known
                      \/ [port |-> 1, session |-> s, want |-> s, anonymous |-> TRUE] \in inbox'
    BY <1>2 DEF UnreliableInv, SentOther, AboutToResume, netVars
  <2>1. CASE s \in DOMAIN peers[1]
    <3>1. s \in AnonymousSessions(peers[1])
      BY <1>4, <2>1 DEF AnonymousSessions
    <3> QED BY <1>2, <3>1 DEF IInv, UnreliableInv, AboutToResume
  <2>2. CASE s \notin DOMAIN peers[1]
    <3>1. PICK d \in got : s = d.session
      BY <1>4, <2>2 DEF AnonymousSessions
    <3> QED BY <1>5, <3>1 DEF SentOther
  <2> QED BY <2>1, <2>2
<1>16. NoPanicWithoutPings'
  BY <1>2 DEF NoPanicWithoutPings
<1>17. SoundInv'
  BY <1>2, <1>4 DEF IInv, SoundInv, IsSessionAuthenticated, netVars
<1> QED BY <1>6, <1>9, <1>10, <1>11, <1>12, <1>13, <1>14, <1>15, <1>16, <1>17 DEF IInv

LEMMA FirstStep == IInv /\ First => IInv'
<1> SUFFICES ASSUME IInv, First PROVE IInv' OBVIOUS
<1> DEFINE seated == [s \in DOMAIN peers[0] \cup waiting |->
                        IF s \in waiting THEN Anonymous(s) ELSE peers[0][s]]
           broken == Broken(seated)
<1>1. PICK late \in Overdue(peers[0]),
           silent \in SUBSET IF UseUdp /\ Faults THEN DOMAIN peers[1] ELSE {} :
        LET rest == Remove(seated, broken \cup late)
        IN /\ peers' = [i \in Ports |-> IF i = 0 THEN rest ELSE Remove(peers[i], silent)]
           /\ index' = [index EXCEPT ![0] = Remove(@, {seated[s].peer : s \in broken})]
           /\ buffered' = {m \in buffered \cup c2s : m.stream \in StreamsOf(rest)}
           /\ c2s' = {m \in c2s : m.stream \notin StreamsOf(seated)}
           /\ wire' = [st \in Streams |->
                         IF wire[st] = "open" /\ \E s \in late : seated[s].stream = st
                         THEN "closed" ELSE wire[st]]
  BY DEF First
<1>2. /\ ~panicked /\ stage = "first" /\ stage' = "check_peer_authenticated" /\ waiting' = {}
      /\ UNCHANGED <<panicked, known, inbox, s2c, datagrams, answers, client>>
  BY DEF First, GoTo
<1>3. /\ waiting \subseteq Sessions
      /\ \A s \in waiting : /\ ~Given(s) /\ s \notin DOMAIN peers[0] /\ s \notin StreamsOf(peers[0])
                            /\ \A m \in buffered \cup s2c : m.stream # s
                            /\ \A m \in inbox : m.port = 0 => m.session # s
  BY DEF IInv, TypeOK, FreshInv, Sessions
<1>4. /\ DOMAIN seated = DOMAIN peers[0] \cup waiting
      /\ \A s \in waiting : seated[s].stream = s /\ seated[s].peer = NoPeer
      /\ \A s \in DOMAIN peers[0] : seated[s] = peers[0][s]
      /\ IsTable(seated)
  <2>1. \A s \in waiting : Anonymous(s) \in Entry /\ s \in Sessions /\ s \notin DOMAIN peers[0]
    BY <1>3 DEF Anonymous, Entry, Sessions
  <2>2. IsTable(peers[0])
    BY TableTypes, PortNames DEF IInv
  <2> QED BY <2>1, <2>2 DEF Anonymous, IsTable
<1>5. /\ late \subseteq AnonymousSessions(peers[0]) /\ (~Faults => late = {} /\ silent = {})
      /\ UseUdp => silent \subseteq DOMAIN peers[1]
  BY <1>1 DEF Overdue
<1>6. /\ broken \subseteq DOMAIN seated
      /\ \A s \in DOMAIN seated : s \in broken <=> wire[seated[s].stream] = "reset"
  BY DEF Broken
<1> DEFINE gone == {seated[s].peer : s \in broken}
           rest == Remove(seated, broken \cup late)
<1>7. /\ DOMAIN peers' = Ports /\ peers'[0] = rest
      /\ UseUdp => peers'[1] = Remove(peers[1], silent)
  BY <1>1, PortNames
<1>8. /\ DOMAIN index' = Ports /\ index'[0] = Remove(index[0], gone)
      /\ \A i \in Ports : i # 0 => index'[i] = index[i]
  BY <1>1, PortNames DEF IInv, TypeOK
<1>9. /\ wire' = [st \in Streams |->
                    IF wire[st] = "open" /\ \E s \in late : seated[s].stream = st
                    THEN "closed" ELSE wire[st]]
      /\ c2s' \subseteq c2s /\ buffered' \subseteq buffered \cup c2s
  BY <1>1
<1> HIDE DEF seated, broken, rest, gone
<1>10. /\ wire' \in [Streams -> {"idle", "open", "fin", "closed", "reset"}]
       /\ \A x \in Streams : /\ wire'[x] = "open" => wire[x] = "open" /\ \A s \in late : seated[s].stream # x
                             /\ wire'[x] = "idle" => wire[x] = "idle"
                             /\ late = {} => wire'[x] = wire[x]
  BY <1>9 DEF IInv, TypeOK
<1>11. /\ DOMAIN peers'[0] = (DOMAIN peers[0] \cup waiting) \ (broken \cup late)
       /\ \A s \in DOMAIN peers'[0] : peers'[0][s] = seated[s]
       /\ IsTable(peers'[0])
  BY <1>4, <1>7 DEF rest, Remove, Restrict, IsTable
<1>12. UseUdp => /\ DOMAIN peers'[1] = DOMAIN peers[1] \ silent
                 /\ \A s \in DOMAIN peers'[1] : peers'[1][s] = peers[1][s]
                 /\ IsTable(peers'[1])
  BY <1>7, TableTypes, PortNames DEF Remove, Restrict, IsTable, IInv
<1>13. /\ DOMAIN index'[0] = DOMAIN index[0] \ gone
       /\ \A q \in DOMAIN index'[0] : index'[0][q] = index[0][q]
  BY <1>8 DEF Remove, Restrict
<1>14. TypeOK'
  <2>1. \A i \in Ports : peers'[i] \in Tables
    BY <1>11, <1>12, TableIntro, PortNames
  <2>2. \A i \in Ports : /\ DOMAIN index'[i] \subseteq Peers
                         /\ \A q \in DOMAIN index'[i] : index'[i][q] \in Sessions
    BY <1>8, <1>13 DEF IInv, TypeOK
  <2>3. c2s' \subseteq Messages /\ buffered' \subseteq Messages
    BY <1>9 DEF IInv, TypeOK
  <2> QED BY <1>2, <1>7, <1>8, <1>10, <2>1, <2>2, <2>3 DEF IInv, TypeOK, Stages
\* What is authenticated was, what is anonymous was or is new.
<1>15. \A s \in DOMAIN peers'[0] :
         \/ s \in waiting /\ peers'[0][s].stream = s /\ peers'[0][s].peer = NoPeer
         \/ s \in DOMAIN peers[0] /\ s \notin waiting /\ peers'[0][s] = peers[0][s]
  BY <1>3, <1>4, <1>11
<1>16. /\ AuthenticatedSessionsOf(peers'[0]) \subseteq AuthenticatedSessionsOf(peers[0])
       /\ AnonymousSessions(peers'[0]) \subseteq AnonymousSessions(peers[0]) \cup waiting
       /\ StreamsOf(peers'[0]) \subseteq StreamsOf(peers[0]) \cup waiting
  BY <1>15 DEF AuthenticatedSessionsOf, AnonymousSessions, StreamsOf
<1>17. \A s \in Streams : Given(s)' => Given(s)
  BY <1>2, <1>13, <1>16 DEF Given
\* A session whose stream is open stays, unless it was anonymous too long.
<1>18. \A s \in DOMAIN peers[0] : wire[peers[0][s].stream] = "open" /\ s \notin late =>
         s \in DOMAIN peers'[0] /\ peers'[0][s] = peers[0][s]
  BY <1>3, <1>4, <1>6, <1>11
<1>19. EntriesInv'
  <2>1. UseUdp => \A s \in DOMAIN peers'[1] : peers'[1][s].peer \in {NoPeer, PeerOf[s]}
    BY <1>12, PortNames DEF IInv, TablesInv, EntriesInv
  <2>2. \A s \in DOMAIN peers'[0] : peers'[0][s].peer \in {NoPeer, PeerOf[s]}
    BY <1>15, PortNames DEF IInv, TablesInv, EntriesInv
  <2>3. \A i \in Ports : \A s \in DOMAIN peers'[i] : peers'[i][s].peer \in {NoPeer, PeerOf[s]}
    BY <2>1, <2>2, PortNames
  <2>4. \A s \in DOMAIN peers'[0] : peers'[0][s].stream \in Streams
    BY <1>3, <1>15 DEF IInv, TablesInv, EntriesInv, Sessions
  <2>5. \A s \in AnonymousSessions(peers'[0]) : peers'[0][s].stream = s
    BY <1>15 DEF IInv, TablesInv, EntriesInv, AnonymousSessions
  <2>6. \A s, t \in DOMAIN peers'[0] : peers'[0][s].stream = peers'[0][t].stream => s = t
    <3> SUFFICES ASSUME NEW s \in DOMAIN peers'[0], NEW t \in DOMAIN peers'[0],
                        peers'[0][s].stream = peers'[0][t].stream
                 PROVE  s = t
      OBVIOUS
    <3>1. \A u \in DOMAIN peers[0] : peers[0][u].stream \notin waiting
      BY <1>3 DEF StreamsOf
    <3> QED BY <1>15, <3>1 DEF IInv, TablesInv, EntriesInv
  <2> QED BY <2>3, <2>4, <2>5, <2>6 DEF EntriesInv
<1>20. IndexInv'
  <2>1. \A i \in Ports : \A p \in DOMAIN index'[i] : p = PeerOf[index'[i][p]]
    BY <1>8, <1>13 DEF IInv, TablesInv, IndexInv
  <2>2. ASSUME NEW s \in AuthenticatedSessionsOf(peers'[0])
        PROVE  PeerOf[s] \in DOMAIN index'[0]
    <3>1. s \in AuthenticatedSessionsOf(peers[0]) /\ s \in Sessions /\ s \notin broken
      BY <1>11, <1>16 DEF AuthenticatedSessionsOf, IsTable
    <3>2. PeerOf[s] \in DOMAIN index[0]
      BY <3>1 DEF IInv, TablesInv, IndexInv
    <3>3. \A t \in broken : t \in Sessions /\ seated[t].peer \in {NoPeer, PeerOf[t]}
      BY <1>3, <1>4, <1>6, PortNames DEF IInv, TablesInv, EntriesInv, IsTable
    <3>4. PeerOf[s] \notin gone
      BY <3>1, <3>3, Names DEF gone
    <3> QED BY <1>13, <3>2, <3>4
  <2>3. ASSUME NEW p \in DOMAIN index'[0], index'[0][p] \in DOMAIN peers'[0]
        PROVE  peers'[0][index'[0][p]].peer = p
    <3>1. p \in DOMAIN index[0] /\ index'[0][p] = index[0][p] /\ p = PeerOf[index[0][p]]
      BY <1>13, <2>3, PortNames DEF IInv, TablesInv, IndexInv
    <3>2. index[0][p] \notin waiting
      BY <1>3, <3>1 DEF Given
    <3> QED BY <1>15, <2>3, <3>1, <3>2 DEF IInv, TablesInv, IndexInv
  <2> QED BY <1>2, <2>1, <2>2, <2>3 DEF IInv, TablesInv, IndexInv
<1>21. FreshInv'
  <2> SUFFICES ASSUME NEW st \in Streams, wire'[st] = "idle"
               PROVE  /\ ~Given(st)' /\ st \notin DOMAIN peers'[0] /\ st \notin StreamsOf(peers'[0])
                      /\ \A m \in buffered' \cup s2c \cup c2s' : m.stream # st
                      /\ \A m \in inbox : m.port = 0 => m.session # st
                      /\ \A c \in Clients : client[c].stream # st
    BY <1>2 DEF FreshInv
  <2>1. wire[st] = "idle"
    BY <1>10
  <2>2. st \notin waiting
    BY <2>1 DEF IInv, FreshInv
  <2> QED BY <1>9, <1>11, <1>16, <1>17, <2>1, <2>2 DEF IInv, FreshInv
<1>22. GivenInv'
  <2> SUFFICES ASSUME NEW s \in Streams, Given(s)
               PROVE  /\ s \notin AnonymousSessions(peers'[0])
                      /\ \A m \in c2s' \cup buffered' : m.stream = s => m.want = None
                      /\ \A m \in inbox : m.port = 0 /\ m.anonymous => m.session # s
                      /\ \A c \in Clients : client[c].stream = s => AskedForSession(c, s)
                      /\ wire'[s] = "open" => s \in DOMAIN peers'[0] /\ peers'[0][s].stream = s
    BY <1>2, <1>17 DEF GivenInv, AskedForSession
  <2>1. s \notin waiting /\ s \notin late /\ s \notin AnonymousSessions(peers[0])
    BY <1>3, <1>5 DEF IInv, GivenInv
  <2>2. wire'[s] = "open" => s \in DOMAIN peers'[0] /\ peers'[0][s].stream = s
    BY <1>10, <1>18, <2>1 DEF IInv, GivenInv
  <2> QED BY <1>9, <1>16, <2>1, <2>2 DEF IInv, GivenInv
<1>23. WantsInv'
  <2>1. \A x, w : Wants(x, w)' => Wants(x, w)
    BY <1>2, <1>9 DEF Wants
  <2>2. \A m \in inbox : m.session \in Streams
    BY DEF IInv, TypeOK, Sessions
  <2>3. \A s \in Streams : s \in DOMAIN peers[0] /\ peers[0][s].stream = s /\ wire'[s] = "open" =>
          s \in DOMAIN peers'[0] /\ peers'[0][s].stream = s
    <3>1. \A s \in DOMAIN peers[0] : seated[s] = peers[0][s]
      BY <1>4
    <3> QED BY <1>10, <1>18, <3>1
  <2> QED BY <1>2, <1>10, <2>1, <2>2, <2>3 DEF IInv, WantsInv, AskedForSession
<1>24. ClientsInv'
  BY <1>2, <1>15 DEF IInv, ClientsInv, Holds
<1>25. KnownWhileConnected'
  BY <1>2, <1>15, <1>16 DEF IInv, KnownWhileConnected, AuthenticatedSessionsOf, AnonymousSessions
<1>26. AnswerNamesReceiver'
  BY <1>2, <1>3, <1>15 DEF IInv, AnswerNamesReceiver
<1>27. HeldInv' /\ NoPanicWithoutPings'
  BY <1>2, <1>12 DEF IInv, HeldInv, Held, NoPanicWithoutPings
<1>28. UnreliableInv'
  <2>1. UseUdp => AnonymousSessions(peers'[1]) \subseteq AnonymousSessions(peers[1])
    BY <1>12 DEF AnonymousSessions
  <2> QED BY <1>2, <2>1 DEF IInv, UnreliableInv, SentOther, AboutToResume
<1>29. SoundInv'
  <2> SUFFICES ASSUME UseUdp, ~Faults PROVE SoundInv' BY DEF SoundInv
  <2>1. DOMAIN peers'[1] = DOMAIN peers[1] /\ \A s \in DOMAIN peers[1] : peers'[1][s] = peers[1][s]
    BY <1>5, <1>12
  <2>2. index'[1] = index[1]
    BY <1>8, PortNames
  <2> QED BY <1>2, <1>5, <1>10, <2>1, <2>2 DEF IInv, SoundInv, IsSessionAuthenticated
<1> QED BY <1>14, <1>19, <1>20, <1>21, <1>22, <1>23, <1>24, <1>25, <1>26, <1>27, <1>28, <1>29
        DEF IInv, TablesInv

-----------------------------------------------------------------------------
(* check_peer_authenticated.                                               *)

\* What a message that is read leaves as it is.
Reads(m) ==
    /\ m \in inbox /\ ~panicked /\ stage = "check_peer_authenticated" /\ inbox' = inbox \ {m}
    /\ UNCHANGED <<stage, panicked, waiting, buffered, wire, c2s, datagrams, client>>

LEMMA ReadsFacts ==
    ASSUME IInv, NEW m, Reads(m)
    PROVE  /\ m.port \in Ports /\ m.session \in Sessions /\ m.session \in Streams
           /\ m.want \in Sessions \cup {None} /\ m.anonymous \in BOOLEAN
           /\ \A x, w : Wants(x, w)' => Wants(x, w)
           /\ \A s : Held(s)' <=> Held(s)
           /\ \A s : SentOther(s)' <=> SentOther(s)
           /\ \A s : AboutToResume(s) =>
                AboutToResume(s)' \/ (m.port = 1 /\ m.anonymous /\ m.session = s /\ m.want = s)
           /\ \A c \in Clients, x \in Streams : AskedForSession(c, x)' <=> AskedForSession(c, x)
           /\ NoPanicWithoutPings'
<1>1. /\ m.port \in Ports /\ m.session \in Sessions /\ m.session \in Streams
      /\ m.want \in Sessions \cup {None} /\ m.anonymous \in BOOLEAN
  BY DEF IInv, TypeOK, Reads, Sessions
<1>2. \A x, w : Wants(x, w)' => Wants(x, w)
  BY DEF Wants, Reads
<1>3. /\ \A s : Held(s)' <=> Held(s)
      /\ \A s : SentOther(s)' <=> SentOther(s)
      /\ \A c \in Clients, x \in Streams : AskedForSession(c, x)' <=> AskedForSession(c, x)
  BY DEF Held, SentOther, AskedForSession, Reads
<1>4. \A s : AboutToResume(s) =>
         AboutToResume(s)' \/ (m.port = 1 /\ m.anonymous /\ m.session = s /\ m.want = s)
  BY DEF AboutToResume, Reads
<1>5. NoPanicWithoutPings'
  BY DEF NoPanicWithoutPings, Reads
<1> QED BY <1>1, <1>2, <1>3, <1>4, <1>5

\* What is answered on the main port, and on the UDP port.
LEMMA MainAnswer ==
    ASSUME NEW x, Answer(0, x)
    PROVE  /\ UNCHANGED answers
           /\ \A n \in s2c' \ s2c :
                /\ n.session = x /\ n.stream \in Streams
                /\ \E s \in DOMAIN peers'[0] :
                     /\ known'[x] \in DOMAIN index'[0] /\ index'[0][known'[x]] = s
                     /\ peers'[0][s].stream = n.stream
<1>1. /\ UNCHANGED answers
      /\ s2c' = s2c \cup {[stream |-> st, session |-> x] :
                   st \in {y \in Streams : /\ wire[y] = "open"
                                           /\ \E s \in Reached(peers'[0], index'[0], known'[x]) :
                                                peers'[0][s].stream = y}}
  BY DEF Answer
<1>2. \A s \in Reached(peers'[0], index'[0], known'[x]) :
        s \in DOMAIN peers'[0] /\ known'[x] \in DOMAIN index'[0] /\ index'[0][known'[x]] = s
  BY DEF Reached
<1> QED BY <1>1, <1>2

LEMMA UdpAnswer ==
    ASSUME NEW x, Answer(1, x)
    PROVE  /\ UNCHANGED s2c
           /\ answers \subseteq answers'
           /\ \A n \in answers' \ answers :
                /\ n = x
                /\ \E s \in DOMAIN peers'[1] :
                     known'[x] \in DOMAIN index'[1] /\ index'[1][known'[x]] = s
<1>1. /\ UNCHANGED s2c
      /\ answers' = answers \cup {x : s \in Reached(peers'[1], index'[1], known'[x])}
  BY DEF Answer
<1>2. \A s \in Reached(peers'[1], index'[1], known'[x]) :
        s \in DOMAIN peers'[1] /\ known'[x] \in DOMAIN index'[1] /\ index'[1][known'[x]] = s
  BY DEF Reached
<1> QED BY <1>1, <1>2

\* A message that changes no table: it is answered, or nothing comes of it.
LEMMA ReadQuietly ==
    ASSUME IInv, NEW m, Reads(m), UNCHANGED known,
           DOMAIN peers' = Ports, DOMAIN index' = Ports,
           \A i \in Ports : peers'[i] = peers[i] /\ index'[i] = index[i],
           \A n \in s2c' \ s2c :
             /\ n \in [stream : Streams, session : Sessions]
             /\ n.session \in DOMAIN peers[0] /\ peers[0][n.session].stream = n.stream
             /\ peers[0][n.session].peer = PeerOf[n.session]
             /\ n.session \in DOMAIN known,
           answers \subseteq answers', answers' # answers => UseUdp,
           \A n \in answers' \ answers : n \in Sessions /\ (Faults \/ IsSessionAuthenticated(peers[1], n)),
           m.port = 1 /\ m.anonymous => m.want \notin DOMAIN known \/ m.session \notin AnonymousSessions(peers[1])
    PROVE  IInv'
<1>1. /\ peers'[0] = peers[0] /\ index'[0] = index[0]
      /\ UseUdp => peers'[1] = peers[1] /\ index'[1] = index[1]
  BY PortNames
<1>2. \A s \in Streams : Given(s)' => Given(s)
  BY <1>1 DEF Given, Reads
<1>3. TypeOK'
  <2>1. answers' \subseteq Sessions /\ s2c' \subseteq [stream : Streams, session : Sessions]
    BY <1>1 DEF IInv, TypeOK
  <2> QED BY <1>1, <2>1 DEF IInv, TypeOK, Reads
<1>4. TablesInv' /\ KnownWhileConnected'
  BY <1>1 DEF IInv, TablesInv, EntriesInv, IndexInv, KnownWhileConnected
<1>5. FreshInv'
  BY <1>1, <1>2 DEF IInv, FreshInv, Reads, StreamsOf
<1>6. GivenInv'
  BY <1>1, <1>2 DEF IInv, GivenInv, AskedForSession, Reads
<1>7. WantsInv'
  BY <1>1, ReadsFacts DEF IInv, WantsInv, Reads
<1>8. ClientsInv'
  <2>1. \A c \in Clients : \A n \in s2c' :
          n.stream = client[c].stream => n.session \in {n.stream, client[c].session}
    BY <1>1 DEF IInv, ClientsInv
  <2> QED BY <1>1, <2>1 DEF IInv, ClientsInv, Holds, Reads
<1>9. AnswerNamesReceiver'
  BY <1>1 DEF IInv, AnswerNamesReceiver, TablesInv, EntriesInv
<1>10. HeldInv'
  BY <1>1, ReadsFacts DEF IInv, HeldInv, Reads
<1>11. UnreliableInv'
  <2> SUFFICES ASSUME UseUdp, NEW s \in AnonymousSessions(peers[1]), s \in DOMAIN known,
                      AboutToResume(s)
               PROVE  AboutToResume(s)'
    BY <1>1, ReadsFacts DEF IInv, UnreliableInv
  <2> QED BY ReadsFacts
<1>12. SoundInv'
  BY <1>1 DEF IInv, SoundInv, Reads
<1> QED BY <1>3, <1>4, <1>5, <1>6, <1>7, <1>8, <1>9, <1>10, <1>11, <1>12, ReadsFacts DEF IInv

LEMMA IgnoreMessageStep ==
    ASSUME IInv, NEW m, Reads(m), IgnoreMessage(m)
    PROVE  IInv'
<1>1. UNCHANGED <<peers, index, known, s2c, answers>>
  BY DEF IgnoreMessage
<1>2. m.port = 1 /\ m.anonymous => m.want \notin DOMAIN known \/ m.session \notin AnonymousSessions(peers[1])
  <2> SUFFICES ASSUME m.port = 1, m.anonymous, m.want \in DOMAIN known
               PROVE  m.session \notin AnonymousSessions(peers[1])
    OBVIOUS
  <2>1. IsSessionAuthenticated(peers[1], m.want)
    BY DEF IgnoreMessage, Resumable
  <2>2. m.want = m.session
    BY DEF IInv, HeldInv, Reads
  <2> QED BY <2>1, <2>2 DEF IsSessionAuthenticated, AnonymousSessions
<1>3. DOMAIN peers = Ports /\ DOMAIN index = Ports
  BY DEF IInv, TypeOK
<1> QED BY <1>1, <1>2, <1>3, ReadQuietly

LEMMA RepeatAnswerStep ==
    ASSUME IInv, NEW m, Reads(m), RepeatAnswer(m)
    PROVE  IInv'
<1> DEFINE w == m.want
<1>1. ~m.anonymous /\ w \in DOMAIN known /\ Answer(m.port, w) /\ UNCHANGED <<peers, index, known>>
  BY DEF RepeatAnswer
<1>2. w \in Sessions /\ known[w] = PeerOf[w] /\ DOMAIN peers = Ports /\ DOMAIN index = Ports
  BY <1>1, ReadsFacts, Names DEF IInv, TypeOK, TablesInv, IndexInv
<1>3. \A i \in Ports : known[w] \in DOMAIN index[i] => index[i][known[w]] = w
  BY <1>2, Names DEF IInv, TablesInv, IndexInv, TypeOK
<1>4. CASE m.port = 0
  <2>1. Answer(0, w)
    BY <1>1, <1>4
  <2>2. \A n \in s2c' \ s2c :
          /\ n.session = w /\ n.stream \in Streams
          /\ w \in DOMAIN peers[0] /\ known[w] \in DOMAIN index[0]
          /\ peers[0][w].stream = n.stream
    BY <1>1, <1>3, <2>1, MainAnswer, PortNames
  <2>3. \A n \in s2c' \ s2c : peers[0][w].peer = PeerOf[w]
    BY <1>2, <1>3, <2>2, PortNames DEF IInv, TablesInv, IndexInv
  <2>4. UNCHANGED answers
    BY <2>1, MainAnswer
  <2>5. s2c' \subseteq [stream : Streams, session : Sessions]
    BY <2>1, <1>2 DEF Answer, IInv, TypeOK
  <2> QED BY <1>1, <1>2, <1>4, <2>2, <2>3, <2>4, <2>5, ReadQuietly
<1>5. CASE m.port = 1
  <2>1. Answer(1, w) /\ UseUdp
    BY <1>1, <1>5, ReadsFacts, PortNames
  <2>2. \A n \in answers' \ answers : n = w /\ w \in DOMAIN peers[1] /\ known[w] \in DOMAIN index[1]
    BY <1>1, <1>3, <2>1, UdpAnswer, PortNames
  <2>3. UNCHANGED s2c /\ answers \subseteq answers'
    BY <2>1, UdpAnswer
  <2>4. \A n \in answers' \ answers : Faults \/ IsSessionAuthenticated(peers[1], n)
    <3> SUFFICES ASSUME NEW n \in answers' \ answers, ~Faults
                 PROVE  IsSessionAuthenticated(peers[1], n)
      OBVIOUS
    <3>1. n = w /\ w \in DOMAIN peers[1] /\ known[w] \in DOMAIN index[1] /\ index[1][known[w]] = w
      BY <1>3, <2>1, <2>2, PortNames
    <3>2. peers[1][w].peer = PeerOf[w]
      BY <1>2, <2>1, <3>1 DEF IInv, SoundInv
    <3> QED BY <1>2, <3>1, <3>2, Names DEF IsSessionAuthenticated
  <2>5. \A n \in answers' \ answers : n \in Sessions
    BY <1>2, <2>2
  <2> QED BY <1>1, <1>2, <2>1, <2>3, <2>4, <2>5, ReadQuietly
<1> QED BY <1>4, <1>5, ReadsFacts, PortNames

LEMMA NewSessionStep ==
    ASSUME IInv, NEW m, Reads(m), NewSession(m)
    PROVE  IInv'
<1> DEFINE s == m.session
           p == PeerOf[s]
<1>1. /\ m.anonymous /\ m.port = 0 /\ m.want = None
      /\ ~IsSessionAuthenticated(peers[0], s)
      /\ SetTables(0, s, p, s) /\ Answer(0, s)
      /\ known' = Insert(Insert(known, s, p), p, s)
  BY DEF NewSession, Unauthenticated
<1>2. s \in Sessions /\ s \in Streams /\ p \in Peers /\ s \notin Peers /\ s # p /\ m \in inbox
  BY ReadsFacts, Names DEF Reads
<1>3. ~Given(s)
  BY <1>1, <1>2 DEF IInv, GivenInv
<1>4. /\ DOMAIN known' = DOMAIN known \cup {s, p} /\ known'[s] = p /\ known'[p] = s
      /\ \A k \in DOMAIN known : k # s /\ k # p => known'[k] = known[k]
  BY <1>1, <1>2 DEF Insert
<1>5. /\ DOMAIN peers' = Ports /\ DOMAIN index' = Ports
      /\ peers'[0] = AuthenticatedEntries(peers[0], s, p, s)
      /\ index'[0] = AuthenticatedIndex(peers[0], index[0], s, p, s)
      /\ \A i \in Ports : i # 0 => peers'[i] = peers[i] /\ index'[i] = index[i]
  BY <1>1, PortNames DEF SetTables, IInv, TypeOK
<1>6. /\ DOMAIN peers'[0] = DOMAIN peers[0] /\ IsTable(peers'[0])
      /\ \A t \in DOMAIN peers[0] : t # s => peers'[0][t] = peers[0][t]
      /\ s \in DOMAIN peers[0] => /\ peers'[0][s].peer = p /\ peers'[0][s].stream = peers[0][s].stream
                                  /\ peers[0][s].peer = NoPeer /\ peers[0][s].stream = s
      /\ p \notin DOMAIN index[0]
      /\ \A q \in DOMAIN index[0] : q \in DOMAIN index'[0] /\ index'[0][q] = index[0][q]
      /\ s \in DOMAIN peers[0] => DOMAIN index'[0] = DOMAIN index[0] \cup {p} /\ index'[0][p] = s
      /\ s \notin DOMAIN peers[0] => peers'[0] = peers[0] /\ index'[0] = index[0]
  <2>1. p \notin DOMAIN index[0] /\ IsTable(peers[0])
    BY <1>3, TableTypes, PortNames DEF Given, IInv
  <2>2. CASE s \notin DOMAIN peers[0]
    BY <1>5, <2>1, <2>2 DEF AuthenticatedEntries, AuthenticatedIndex
  <2>3. CASE s \in DOMAIN peers[0]
    <3>1. peers[0][s].peer = NoPeer /\ peers[0][s].stream = s
      BY <1>1, <2>3 DEF IsSessionAuthenticated, IInv, TablesInv, EntriesInv, AnonymousSessions
    <3> HIDE DEF p
    <3>2. Moved(peers[0], index[0], peers'[0], index'[0], s, p, s)
      BY <1>2, <1>5, <2>1, <2>3, AuthenticateFacts
    <3> QED BY <2>1, <2>3, <3>1, <3>2 DEF Moved
  <2> QED BY <2>2, <2>3
<1>7. /\ UNCHANGED answers
      /\ \A n \in s2c' \ s2c : n.session = s /\ n.stream = s /\ s \in DOMAIN peers[0]
  <2>1. \A n \in s2c' \ s2c :
          /\ n.session = s /\ n.stream \in Streams
          /\ \E t \in DOMAIN peers'[0] : /\ p \in DOMAIN index'[0] /\ index'[0][p] = t
                                         /\ peers'[0][t].stream = n.stream
    BY <1>1, <1>4, MainAnswer
  <2>2. UNCHANGED answers
    BY <1>1, MainAnswer
  <2> HIDE DEF p
  <2> QED BY <1>6, <2>1, <2>2
<1>8. /\ s2c \subseteq s2c' /\ s2c' \subseteq [stream : Streams, session : Sessions]
  BY <1>1, <1>2 DEF Answer, IInv, TypeOK
<1> HIDE DEF p
<1>9. /\ AnonymousSessions(peers'[0]) = AnonymousSessions(peers[0]) \ {s}
      /\ AuthenticatedSessionsOf(peers'[0]) \subseteq AuthenticatedSessionsOf(peers[0]) \cup {s}
      /\ StreamsOf(peers'[0]) = StreamsOf(peers[0])
  BY <1>2, <1>6, Names DEF AnonymousSessions, AuthenticatedSessionsOf, StreamsOf
<1>10. \A t \in Streams : Given(t)' => Given(t) \/ t = s
  <2>1. \A t \in Streams : t \in DOMAIN known' => t \in DOMAIN known \/ t = s
    BY <1>2, <1>4, Names
  <2>2. \A t \in Streams : PeerOf[t] \in DOMAIN index'[0] => PeerOf[t] \in DOMAIN index[0] \/ t = s
    BY <1>2, <1>6, Names DEF p
  <2>3. \A t \in Streams : (\E n \in s2c' : n.session = t) => (\E n \in s2c : n.session = t) \/ t = s
    BY <1>7
  <2> QED BY <1>9, <2>1, <2>2, <2>3 DEF Given, Reads
<1>11. TypeOK'
  <2>1. \A i \in Ports : peers'[i] \in Tables
    BY <1>5, <1>6, TableIntro DEF IInv, TypeOK
  <2>2. \A i \in Ports : /\ DOMAIN index'[i] \subseteq Peers
                         /\ \A q \in DOMAIN index'[i] : index'[i][q] \in Sessions
    BY <1>2, <1>5, <1>6 DEF IInv, TypeOK
  <2>3. /\ DOMAIN known' \subseteq Sessions \cup Peers
        /\ \A k \in DOMAIN known' : /\ k \in Sessions => known'[k] \in Peers
                                    /\ k \in Peers => known'[k] \in Sessions
    BY <1>2, <1>4, Names DEF IInv, TypeOK
  <2> QED BY <1>5, <1>7, <1>8, <2>1, <2>2, <2>3 DEF IInv, TypeOK, Reads
<1>12. EntriesInv'
  <2>1. \A i \in Ports : \A t \in DOMAIN peers'[i] : peers'[i][t].peer \in {NoPeer, PeerOf[t]}
    BY <1>5, <1>6, PortNames DEF p, IInv, TablesInv, EntriesInv
  <2>2. \A t \in DOMAIN peers'[0] : t \in DOMAIN peers[0] /\ peers'[0][t].stream = peers[0][t].stream
    BY <1>6
  <2> QED BY <1>9, <2>1, <2>2 DEF IInv, TablesInv, EntriesInv, AnonymousSessions
<1>13. IndexInv'
  <2>1. \A i \in Ports : \A q \in DOMAIN index'[i] : q = PeerOf[index'[i][q]]
    BY <1>5, <1>6, PortNames DEF p, IInv, TablesInv, IndexInv
  <2>2. \A t \in DOMAIN known' \cap Sessions : known'[t] = PeerOf[t]
    BY <1>2, <1>4, Names DEF p, IInv, TablesInv, IndexInv
  <2>3. \A t \in AuthenticatedSessionsOf(peers'[0]) : PeerOf[t] \in DOMAIN index'[0]
    BY <1>6, <1>9 DEF p, IInv, TablesInv, IndexInv, AuthenticatedSessionsOf
  <2>4. ASSUME NEW q \in DOMAIN index'[0], index'[0][q] \in DOMAIN peers'[0]
        PROVE  peers'[0][index'[0][q]].peer = q
    <3>1. CASE q = p
      BY <1>6, <2>4, <3>1
    <3>2. CASE q # p
      <4>1. q \in DOMAIN index[0] /\ index'[0][q] = index[0][q]
        BY <1>6, <3>2
      <4>2. index[0][q] # s
        BY <3>2, <4>1, PortNames DEF p, IInv, TablesInv, IndexInv
      <4> QED BY <1>6, <2>4, <4>1, <4>2 DEF IInv, TablesInv, IndexInv
    <3> QED BY <3>1, <3>2
  <2> QED BY <2>1, <2>2, <2>3, <2>4 DEF IndexInv
<1>14. FreshInv'
  <2>1. \A st \in Streams : wire[st] = "idle" \/ st \in waiting => st # s
    BY <1>1, <1>2 DEF IInv, FreshInv
  <2> QED BY <1>6, <1>7, <1>9, <1>10, <2>1 DEF IInv, FreshInv, Reads
<1>15. GivenInv'
  <2> SUFFICES ASSUME NEW t \in Streams, Given(t) \/ t = s
               PROVE  /\ t \notin AnonymousSessions(peers'[0])
                      /\ \A n \in c2s \cup buffered : n.stream = t => n.want = None
                      /\ \A n \in inbox' : n.port = 0 /\ n.anonymous => n.session # t
                      /\ \A c \in Clients : client[c].stream = t => AskedForSession(c, t)
                      /\ wire[t] = "open" => t \in DOMAIN peers'[0] /\ peers'[0][t].stream = t
    BY <1>10, ReadsFacts DEF GivenInv, Reads
  <2>1. CASE Given(t)
    BY <1>3, <1>6, <1>9, <2>1 DEF IInv, GivenInv, Reads
  <2>2. CASE t = s
    <3>1. Wants(s, None)
      BY <1>1, <1>2 DEF Wants
    <3>2. \A n \in c2s \cup buffered : n.stream = s => n.want = None
      <4>1. \A n \in c2s \cup buffered : n.want \in Sessions \cup {None} /\ (n.stream = s => Wants(s, n.want))
        BY DEF IInv, TypeOK, Messages, Wants
      <4> QED BY <1>2, <3>1, <4>1 DEF IInv, WantsInv
    <3>3. \A n \in inbox' : n.port = 0 /\ n.anonymous => n.session # s
      <4> SUFFICES ASSUME NEW n \in inbox, n.port = 0, n.anonymous, n.session = s PROVE n = m
        BY DEF Reads
      <4>1. n.want \in Sessions \cup {None} /\ Wants(s, n.want)
        BY DEF IInv, TypeOK, Wants
      <4>2. n.want = None
        BY <1>2, <3>1, <4>1 DEF IInv, WantsInv
      <4> QED BY <1>1, <1>2, <4>2 DEF IInv, TypeOK
    <3>4. \A c \in Clients : client[c].stream = s => AskedForSession(c, s)
      BY <1>2, <3>1 DEF IInv, WantsInv
    <3>5. wire[s] = "open" => s \in DOMAIN peers'[0] /\ peers'[0][s].stream = s
      BY <1>1, <1>2, <1>6 DEF IInv, WantsInv
    <3> QED BY <1>9, <2>2, <3>2, <3>3, <3>4, <3>5
  <2> QED BY <2>1, <2>2
<1>16. WantsInv'
  <2>1. \A t \in DOMAIN peers[0] : t \in DOMAIN peers'[0] /\ peers'[0][t].stream = peers[0][t].stream
    BY <1>6
  <2> QED BY <2>1, ReadsFacts DEF IInv, WantsInv, Reads
<1>17. ClientsInv'
  <2>1. \A t \in DOMAIN peers'[0] : t \in DOMAIN peers[0] /\ peers'[0][t].stream = peers[0][t].stream
    BY <1>6
  <2> QED BY <1>7, <2>1 DEF IInv, ClientsInv, Holds, Reads
<1>18. KnownWhileConnected'
  <2> SUFFICES ASSUME NEW t \in AuthenticatedSessionsOf(peers'[0])
               PROVE  t \in DOMAIN known' /\ known'[t] = peers'[0][t].peer
    BY DEF KnownWhileConnected
  <2>1. CASE t = s
    BY <1>4, <1>6, <2>1 DEF AuthenticatedSessionsOf
  <2>2. CASE t # s
    <3>1. t \in AuthenticatedSessionsOf(peers[0]) /\ t \in DOMAIN peers[0] /\ t \in Sessions
      BY <1>9, <2>2, TableTypes, PortNames DEF AuthenticatedSessionsOf, IInv
    <3> QED BY <1>2, <1>4, <1>6, <2>2, <3>1, Names DEF IInv, KnownWhileConnected
  <2> QED BY <2>1, <2>2
<1>19. AnswerNamesReceiver'
  <2> SUFFICES ASSUME NEW n \in s2c', NEW t \in DOMAIN peers'[0], peers'[0][t].stream = n.stream
               PROVE  t = n.session /\ peers'[0][t].peer = PeerOf[n.session]
    BY DEF AnswerNamesReceiver
  <2>1. t \in DOMAIN peers[0] /\ peers[0][t].stream = n.stream
    BY <1>6
  <2>2. CASE n \in s2c
    <3>1. t = n.session /\ peers[0][t].peer = PeerOf[n.session]
      BY <2>1, <2>2 DEF IInv, AnswerNamesReceiver
    <3>2. t # s
      BY <1>3, <2>2, <3>1 DEF Given
    <3> QED BY <1>6, <2>1, <3>1, <3>2
  <2>3. CASE n \notin s2c
    BY <1>6, <1>7, <2>1, <2>3 DEF p, IInv, TablesInv, EntriesInv
  <2> QED BY <2>2, <2>3
<1>20. HeldInv'
  <2>1. UseUdp => peers'[1] = peers[1]
    BY <1>5, PortNames
  <2> QED BY <1>7, <2>1, ReadsFacts DEF IInv, HeldInv, Reads
<1>21. UnreliableInv'
  <2>1. UseUdp => peers'[1] = peers[1]
    BY <1>5, PortNames
  <2> SUFFICES ASSUME UseUdp, NEW t \in AnonymousSessions(peers[1]), t \in DOMAIN known'
               PROVE  SentOther(t) \/ AboutToResume(t)'
    BY <2>1, ReadsFacts DEF UnreliableInv
  <2>2. Held(t) /\ t \in Sessions
    BY TableTypes, PortNames DEF IInv, HeldInv, AnonymousSessions
  <2>3. t # s
    BY <1>3, <2>2 DEF Held, Given
  <2>4. t \in DOMAIN known
    BY <1>2, <1>4, <2>2, <2>3, Names
  <2> QED BY <1>1, <2>4, ReadsFacts DEF IInv, UnreliableInv
<1>22. SoundInv'
  <2>1. UseUdp => peers'[1] = peers[1] /\ index'[1] = index[1]
    BY <1>5, PortNames
  <2> QED BY <1>7, <2>1 DEF IInv, SoundInv, Reads
<1> QED BY <1>11, <1>12, <1>13, <1>14, <1>15, <1>16, <1>17, <1>18, <1>19, <1>20, <1>21, <1>22,
           ReadsFacts DEF IInv, TablesInv

LEMMA ResumeOnMainPort ==
    ASSUME IInv, NEW m, Reads(m), ResumeSession(m), m.port = 0
    PROVE  IInv'
<1> DEFINE s == m.session
           w == m.want
           p == PeerOf[w]
<1>1. /\ m.anonymous /\ w \in DOMAIN known /\ ~IsSessionAuthenticated(peers[0], w)
      /\ UNCHANGED known /\ SetTables(0, s, known[w], w) /\ Answer(0, w)
  BY DEF ResumeSession, Resumable
<1>2. /\ w \in Sessions /\ w \in Streams /\ s \in Sessions /\ s \in Streams /\ m \in inbox
      /\ known[w] = p /\ p \in Peers /\ Given(w)
  <2>1. s \in Sessions /\ w \in Sessions /\ m \in inbox
    BY <1>1, ReadsFacts, Names DEF IInv, TypeOK, Reads
  <2>2. known[w] = p /\ p \in Peers /\ Given(w)
    BY <1>1, <2>1, Names DEF IInv, TablesInv, IndexInv, Given
  <2> QED BY <2>1, <2>2 DEF Sessions
<1>3. Wants(s, w)
  BY <1>1, <1>2 DEF Wants
<1>4. /\ ~Given(s) /\ s # w /\ w \notin DOMAIN peers[0]
      /\ s \in DOMAIN peers[0] => peers[0][s].peer = NoPeer /\ peers[0][s].stream = s
  <2>1. ~Given(s)
    BY <1>1, <1>2 DEF IInv, GivenInv
  <2>2. w \notin DOMAIN peers[0]
    BY <1>1, <1>2 DEF IInv, GivenInv, IsSessionAuthenticated, AnonymousSessions
  <2>3. s \in DOMAIN peers[0] => peers[0][s].peer = NoPeer /\ peers[0][s].stream = s
    BY <2>1 DEF Given, AuthenticatedSessionsOf, AnonymousSessions, IInv, TablesInv, EntriesInv
  <2> QED BY <1>2, <2>1, <2>2, <2>3
<1>5. /\ DOMAIN peers' = Ports /\ DOMAIN index' = Ports
      /\ peers'[0] = AuthenticatedEntries(peers[0], s, p, w)
      /\ index'[0] = AuthenticatedIndex(peers[0], index[0], s, p, w)
      /\ \A i \in Ports : i # 0 => peers'[i] = peers[i] /\ index'[i] = index[i]
  BY <1>1, <1>2, PortNames DEF SetTables, IInv, TypeOK
<1>6. UseUdp => peers'[1] = peers[1] /\ index'[1] = index[1]
  BY <1>5, PortNames
<1>7. CASE s \notin DOMAIN peers[0]
  <2>1. peers'[0] = peers[0] /\ index'[0] = index[0]
    BY <1>5, <1>7 DEF AuthenticatedEntries, AuthenticatedIndex
  <2>2. \A i \in Ports : peers'[i] = peers[i] /\ index'[i] = index[i]
    BY <1>5, <2>1
  <2>3. UNCHANGED <<s2c, answers>>
    <3>1. UNCHANGED answers /\ s2c \subseteq s2c'
      BY <1>1, MainAnswer DEF Answer
    <3>2. \A n \in s2c' \ s2c : \E t \in DOMAIN peers[0] : p \in DOMAIN index[0] /\ index[0][p] = t
      BY <1>1, <1>2, <2>1, MainAnswer
    <3>3. p \in DOMAIN index[0] => index[0][p] = w
      BY <1>2, Names, PortNames DEF IInv, TablesInv, IndexInv, TypeOK
    <3>4. s2c' \ s2c = {}
      BY <1>4, <3>2, <3>3
    <3> QED BY <3>1, <3>4
  <2> QED BY <1>1, <1>5, <2>2, <2>3, ReadQuietly
<1>8. CASE s \in DOMAIN peers[0]
  <2> HIDE DEF p
  <2>1. IsTable(peers[0])
    BY TableTypes, PortNames DEF IInv
  <2>2. Moved(peers[0], index[0], peers'[0], index'[0], s, p, w)
    BY <1>2, <1>5, <1>8, <2>1, AuthenticateFacts
  <2>3. /\ DOMAIN peers'[0] = (DOMAIN peers[0] \ {s}) \cup {w} /\ IsTable(peers'[0])
        /\ peers'[0][w].stream = s /\ peers'[0][w].peer = p
        /\ \A t \in DOMAIN peers[0] : t # s => peers'[0][t] = peers[0][t]
        /\ DOMAIN index'[0] = DOMAIN index[0] \cup {p} /\ index'[0][p] = w
        /\ \A q \in DOMAIN index[0] : q # p => index'[0][q] = index[0][q]
    BY <1>4, <1>8, <2>2 DEF Moved
  <2>4. \A t \in DOMAIN peers'[0] :
          \/ t = w
          \/ t # w /\ t # s /\ t \in DOMAIN peers[0] /\ peers'[0][t] = peers[0][t]
    BY <1>4, <2>3
  <2>5. p # NoPeer
    BY <1>2, Names
  <2>6. /\ AnonymousSessions(peers'[0]) \subseteq AnonymousSessions(peers[0])
        /\ AuthenticatedSessionsOf(peers'[0]) \subseteq AuthenticatedSessionsOf(peers[0]) \cup {w}
        /\ StreamsOf(peers'[0]) \subseteq StreamsOf(peers[0])
    <3>1. s \in StreamsOf(peers[0])
      BY <1>4, <1>8 DEF StreamsOf
    <3> QED BY <2>3, <2>4, <2>5, <3>1 DEF AnonymousSessions, AuthenticatedSessionsOf, StreamsOf
  <2>7. /\ UNCHANGED answers
        /\ \A n \in s2c' \ s2c : n.session = w /\ n.stream = s
    <3>1. known'[w] = p
      BY <1>1, <1>2
    <3>2. UNCHANGED answers
      BY <1>1, MainAnswer
    <3>3. \A n \in s2c' \ s2c :
            /\ n.session = w
            /\ \E t \in DOMAIN peers'[0] : /\ p \in DOMAIN index'[0] /\ index'[0][p] = t
                                           /\ peers'[0][t].stream = n.stream
      BY <1>1, <3>1, MainAnswer
    <3> QED BY <2>3, <3>2, <3>3
  <2>8. s2c \subseteq s2c' /\ s2c' \subseteq [stream : Streams, session : Sessions]
    BY <1>1, <1>2 DEF Answer, IInv, TypeOK
  <2>9. \A t \in Streams : Given(t)' => Given(t)
    <3>1. \A t \in Streams : PeerOf[t] \in DOMAIN index'[0] => PeerOf[t] \in DOMAIN index[0] \/ t = w
      BY <1>2, <2>3, Names DEF p
    <3>2. \A t \in Streams : (\E n \in s2c' : n.session = t) => (\E n \in s2c : n.session = t) \/ t = w
      BY <2>7
    <3>3. \A t \in Streams : Given(t)' => Given(t) \/ t = w
      BY <1>1, <2>6, <3>1, <3>2 DEF Given, Reads
    <3> QED BY <1>2, <3>3
  <2>10. TypeOK'
    <3>1. \A i \in Ports : peers'[i] \in Tables
      BY <1>5, <2>3, TableIntro DEF IInv, TypeOK
    <3>2. \A i \in Ports : /\ DOMAIN index'[i] \subseteq Peers
                           /\ \A q \in DOMAIN index'[i] : index'[i][q] \in Sessions
      BY <1>2, <1>5, <2>3 DEF IInv, TypeOK
    <3> QED BY <1>1, <1>5, <2>7, <2>8, <3>1, <3>2 DEF IInv, TypeOK, Reads
  <2>11. EntriesInv'
    <3>1. \A i \in Ports : \A t \in DOMAIN peers'[i] : peers'[i][t].peer \in {NoPeer, PeerOf[t]}
      BY <1>5, <2>3, <2>4, PortNames DEF p, IInv, TablesInv, EntriesInv
    <3>2. \A t \in DOMAIN peers'[0] : peers'[0][t].stream \in Streams
      BY <1>2, <2>3, <2>4 DEF IInv, TablesInv, EntriesInv
    <3>3. \A t \in AnonymousSessions(peers'[0]) : peers'[0][t].stream = t
      BY <2>3, <2>4, <2>5 DEF IInv, TablesInv, EntriesInv, AnonymousSessions
    <3>4. \A t \in DOMAIN peers[0] : peers[0][t].stream = s => t = s
      BY <1>4, <1>8 DEF IInv, TablesInv, EntriesInv
    <3>5. \A t, u \in DOMAIN peers'[0] : peers'[0][t].stream = peers'[0][u].stream => t = u
      BY <2>3, <2>4, <3>4 DEF IInv, TablesInv, EntriesInv
    <3> QED BY <3>1, <3>2, <3>3, <3>5 DEF EntriesInv
  <2>12. IndexInv'
    <3>1. \A i \in Ports : \A q \in DOMAIN index'[i] : q = PeerOf[index'[i][q]]
      BY <1>5, <2>3, PortNames DEF p, IInv, TablesInv, IndexInv
    <3>2. \A t \in AuthenticatedSessionsOf(peers'[0]) : PeerOf[t] \in DOMAIN index'[0]
      BY <2>3, <2>6 DEF p, IInv, TablesInv, IndexInv
    <3>3. ASSUME NEW q \in DOMAIN index'[0], index'[0][q] \in DOMAIN peers'[0]
          PROVE  peers'[0][index'[0][q]].peer = q
      <4>1. CASE q = p
        BY <2>3, <4>1
      <4>2. CASE q # p
        <5>1. q \in DOMAIN index[0] /\ index'[0][q] = index[0][q]
          BY <2>3, <4>2
        <5>2. index[0][q] # w
          BY <4>2, <5>1, PortNames DEF p, IInv, TablesInv, IndexInv
        <5> QED BY <2>4, <3>3, <5>1, <5>2 DEF IInv, TablesInv, IndexInv
      <4> QED BY <4>1, <4>2
    <3> QED BY <1>1, <3>1, <3>2, <3>3 DEF IInv, TablesInv, IndexInv
  <2>13. FreshInv'
    <3>1. \A st \in Streams : wire[st] = "idle" \/ st \in waiting => st # s /\ st # w
      BY <1>1, <1>2, ReadsFacts DEF IInv, FreshInv
    <3> QED BY <2>4, <2>6, <2>7, <2>9, <3>1 DEF IInv, FreshInv, Reads
  <2>14. GivenInv'
    <3> SUFFICES ASSUME NEW t \in Streams, Given(t)
                 PROVE  /\ t \notin AnonymousSessions(peers'[0])
                        /\ \A n \in c2s \cup buffered : n.stream = t => n.want = None
                        /\ \A n \in inbox' : n.port = 0 /\ n.anonymous => n.session # t
                        /\ \A c \in Clients : client[c].stream = t => AskedForSession(c, t)
                        /\ wire[t] = "open" => t \in DOMAIN peers'[0] /\ peers'[0][t].stream = t
      BY <2>9, ReadsFacts DEF GivenInv, Reads
    <3>1. wire[t] = "open" => t \in DOMAIN peers'[0] /\ peers'[0][t].stream = t
      BY <1>4, <2>3 DEF IInv, GivenInv
    <3> QED BY <2>6, <3>1 DEF IInv, GivenInv, Reads
  <2>15. WantsInv'
    <3>1. \A n \in inbox : n.port = 0 /\ n.anonymous /\ n.want = None => n.session # s /\ n.session \in Streams
      <4> SUFFICES ASSUME NEW n \in inbox, n.port = 0, n.anonymous, n.want = None, n.session = s PROVE FALSE
        BY DEF IInv, TypeOK, Sessions
      <4>1. Wants(s, None)
        BY DEF Wants
      <4> QED BY <1>2, <1>3, <4>1, Names DEF IInv, WantsInv
    <3>2. \A t \in DOMAIN peers[0] : t # s => t \in DOMAIN peers'[0] /\ peers'[0][t] = peers[0][t]
      BY <2>3
    <3>3. \A n \in inbox' : n.port = 0 /\ n.anonymous /\ n.want = None /\ wire'[n.session] = "open" =>
            n.session \in DOMAIN peers'[0] /\ peers'[0][n.session].stream = n.session
      BY <3>1, <3>2 DEF IInv, WantsInv, Reads
    <3> QED BY <3>3, ReadsFacts DEF IInv, WantsInv, Reads
  <2>16. ClientsInv'
    <3>1. \A c \in Clients : client[c].stream = s => client[c].session = w
      BY <1>2, <1>3 DEF IInv, WantsInv
    <3>2. \A c \in Clients : \A t \in DOMAIN peers'[0] :
            peers'[0][t].stream = client[c].stream => t \in {client[c].stream, client[c].session}
      BY <2>3, <2>4, <3>1 DEF IInv, ClientsInv
    <3>3. \A c \in Clients : \A n \in s2c' :
            n.stream = client[c].stream => n.session \in {n.stream, client[c].session}
      BY <2>7, <3>1 DEF IInv, ClientsInv
    <3> QED BY <3>2, <3>3 DEF IInv, ClientsInv, Holds, Reads
  <2>17. KnownWhileConnected'
    BY <1>1, <1>2, <2>3, <2>4, <2>6 DEF IInv, KnownWhileConnected, AuthenticatedSessionsOf
  <2>18. AnswerNamesReceiver'
    <3> SUFFICES ASSUME NEW n \in s2c', NEW t \in DOMAIN peers'[0], peers'[0][t].stream = n.stream
                 PROVE  t = n.session /\ peers'[0][t].peer = PeerOf[n.session]
      BY DEF AnswerNamesReceiver
    <3>1. n \in s2c => n.stream # s
      BY <1>2, <1>4, <1>8, Names DEF IInv, AnswerNamesReceiver, TypeOK
    <3>2. CASE n \in s2c
      BY <2>3, <2>4, <3>1, <3>2 DEF IInv, AnswerNamesReceiver
    <3>3. CASE n \notin s2c
      <4>1. \A u \in DOMAIN peers[0] : peers[0][u].stream = s => u = s
        BY <1>4, <1>8 DEF IInv, TablesInv, EntriesInv
      <4> QED BY <2>3, <2>4, <2>7, <3>3, <4>1 DEF p
    <3> QED BY <3>2, <3>3
  <2>19. HeldInv'
    BY <1>6, <2>7, ReadsFacts DEF IInv, HeldInv, Reads
  <2>20. UnreliableInv'
    BY <1>1, <1>6, ReadsFacts DEF IInv, UnreliableInv
  <2>21. SoundInv'
    BY <1>6, <2>7 DEF IInv, SoundInv, Reads
  <2> QED BY <2>10, <2>11, <2>12, <2>13, <2>14, <2>15, <2>16, <2>17, <2>18, <2>19, <2>20, <2>21,
             ReadsFacts DEF IInv, TablesInv
<1> QED BY <1>7, <1>8

LEMMA ResumeOnUdpPort ==
    ASSUME IInv, NEW m, Reads(m), ResumeSession(m), m.port = 1
    PROVE  IInv'
<1> DEFINE s == m.session
           p == PeerOf[s]
<1>1. /\ m.anonymous /\ s = m.want /\ s \in DOMAIN known /\ ~IsSessionAuthenticated(peers[1], s)
      /\ UNCHANGED known /\ SetTables(1, s, known[s], s) /\ Answer(1, s)
  <2>1. m.want = s
    BY DEF IInv, HeldInv, Reads
  <2> QED BY <2>1 DEF ResumeSession, Resumable
<1>2. /\ s \in Sessions /\ UseUdp /\ 1 \in Ports /\ known[s] = p /\ p \in Peers /\ p # NoPeer /\ m \in inbox
  <2>1. s \in Sessions /\ UseUdp /\ 1 \in Ports /\ m \in inbox
    BY ReadsFacts, PortNames DEF Reads
  <2> QED BY <1>1, <2>1, Names DEF IInv, TablesInv, IndexInv
<1>3. /\ DOMAIN peers' = Ports /\ DOMAIN index' = Ports
      /\ peers'[1] = AuthenticatedEntries(peers[1], s, p, s)
      /\ index'[1] = AuthenticatedIndex(peers[1], index[1], s, p, s)
      /\ \A i \in Ports : i # 1 => peers'[i] = peers[i] /\ index'[i] = index[i]
  BY <1>1, <1>2 DEF SetTables, IInv, TypeOK
<1>4. peers'[0] = peers[0] /\ index'[0] = index[0]
  BY <1>3, PortNames
<1>5. UNCHANGED s2c /\ answers \subseteq answers'
  BY <1>1, UdpAnswer
<1>6. \A n \in answers' \ answers :
        n = s /\ \E t \in DOMAIN peers'[1] : p \in DOMAIN index'[1] /\ index'[1][p] = t
  BY <1>1, <1>2, UdpAnswer
<1>7. CASE s \notin DOMAIN peers[1]
  <2>1. peers'[1] = peers[1] /\ index'[1] = index[1]
    BY <1>3, <1>7 DEF AuthenticatedEntries, AuthenticatedIndex
  <2>2. \A i \in Ports : peers'[i] = peers[i] /\ index'[i] = index[i]
    BY <1>3, <2>1
  <2>3. p \in DOMAIN index[1] => index[1][p] = s
    BY <1>2, Names DEF IInv, TablesInv, IndexInv, TypeOK
  <2>4. answers' \ answers = {}
    BY <1>6, <1>7, <2>1, <2>3
  <2>5. m.session \notin AnonymousSessions(peers[1])
    BY <1>7 DEF AnonymousSessions
  <2>6. UNCHANGED answers
    BY <1>5, <2>4
  <2> QED BY <1>1, <1>3, <1>5, <2>2, <2>5, <2>6, ReadQuietly
<1>8. CASE s \in DOMAIN peers[1]
  <2> HIDE DEF p
  <2>1. IsTable(peers[1])
    BY <1>2, TableTypes DEF IInv
  <2>2. Moved(peers[1], index[1], peers'[1], index'[1], s, p, s)
    BY <1>2, <1>3, <1>8, <2>1, AuthenticateFacts
  <2>3. /\ DOMAIN peers'[1] = DOMAIN peers[1] /\ IsTable(peers'[1])
        /\ peers'[1][s].peer = p
        /\ \A t \in DOMAIN peers[1] : t # s => peers'[1][t] = peers[1][t]
        /\ DOMAIN index'[1] = DOMAIN index[1] \cup {p} /\ index'[1][p] = s
        /\ \A q \in DOMAIN index[1] : q # p => index'[1][q] = index[1][q]
    BY <1>8, <2>2 DEF Moved
  <2>4. \A t \in Streams : Given(t)' => Given(t)
    BY <1>1, <1>4, <1>5 DEF Given, Reads
  <2>5. answers' \subseteq answers \cup {s}
    BY <1>6
  <2>6. TypeOK'
    <3>1. \A i \in Ports : peers'[i] \in Tables
      BY <1>3, <2>3, TableIntro DEF IInv, TypeOK
    <3>2. \A i \in Ports : /\ DOMAIN index'[i] \subseteq Peers
                           /\ \A q \in DOMAIN index'[i] : index'[i][q] \in Sessions
      BY <1>2, <1>3, <2>3 DEF IInv, TypeOK
    <3>3. answers' \subseteq Sessions
      BY <1>2, <2>5 DEF IInv, TypeOK
    <3> QED BY <1>1, <1>3, <1>5, <3>1, <3>2, <3>3 DEF IInv, TypeOK, Reads
  <2>7. EntriesInv'
    <3>1. \A i \in Ports : \A t \in DOMAIN peers'[i] : peers'[i][t].peer \in {NoPeer, PeerOf[t]}
      BY <1>2, <1>3, <2>3 DEF p, IInv, TablesInv, EntriesInv
    <3> QED BY <1>4, <3>1 DEF IInv, TablesInv, EntriesInv
  <2>8. IndexInv'
    <3>1. \A i \in Ports : \A q \in DOMAIN index'[i] : q = PeerOf[index'[i][q]]
      BY <1>2, <1>3, <2>3 DEF p, IInv, TablesInv, IndexInv
    <3> QED BY <1>1, <1>4, <3>1 DEF IInv, TablesInv, IndexInv
  <2>9. FreshInv'
    BY <1>4, <1>5, <2>4 DEF IInv, FreshInv, Reads
  <2>10. GivenInv'
    BY <1>4, <2>4, ReadsFacts DEF IInv, GivenInv, Reads
  <2>11. WantsInv'
    BY <1>4, ReadsFacts DEF IInv, WantsInv, Reads
  <2>12. ClientsInv' /\ AnswerNamesReceiver'
    BY <1>4, <1>5 DEF IInv, ClientsInv, AnswerNamesReceiver, Holds, Reads
  <2>13. KnownWhileConnected'
    BY <1>1, <1>4 DEF IInv, KnownWhileConnected
  <2>14. HeldInv'
    BY <1>2, <2>3, ReadsFacts DEF IInv, HeldInv, Reads
  <2>15. UnreliableInv'
    <3>1. AnonymousSessions(peers'[1]) \subseteq AnonymousSessions(peers[1]) \ {s}
      BY <1>2, <2>3 DEF AnonymousSessions
    <3> QED BY <1>1, <3>1, ReadsFacts DEF IInv, UnreliableInv
  <2>16. SoundInv'
    <3> SUFFICES ASSUME UseUdp, ~Faults PROVE SoundInv' BY DEF SoundInv
    <3>1. \A q \in DOMAIN index'[1] :
            index'[1][q] \in DOMAIN peers'[1] /\ peers'[1][index'[1][q]].peer = q
      <4> SUFFICES ASSUME NEW q \in DOMAIN index'[1]
                   PROVE  index'[1][q] \in DOMAIN peers'[1] /\ peers'[1][index'[1][q]].peer = q
        OBVIOUS
      <4>1. CASE q = p
        BY <1>8, <2>3, <4>1
      <4>2. CASE q # p
        <5>1. q \in DOMAIN index[1] /\ index'[1][q] = index[1][q]
          BY <2>3, <4>2
        <5>2. index[1][q] # s
          BY <1>2, <4>2, <5>1 DEF p, IInv, TablesInv, IndexInv
        <5> QED BY <2>3, <5>1, <5>2 DEF IInv, SoundInv
      <4> QED BY <4>1, <4>2
    <3>2. IsSessionAuthenticated(peers'[1], s)
      BY <1>2, <1>8, <2>3 DEF IsSessionAuthenticated
    <3>3. \A t \in answers' : IsSessionAuthenticated(peers'[1], t)
      <4> SUFFICES ASSUME NEW t \in answers', t # s PROVE IsSessionAuthenticated(peers'[1], t)
        BY <3>2
      <4>1. IsSessionAuthenticated(peers[1], t)
        BY <2>5 DEF IInv, SoundInv
      <4> QED BY <2>3, <4>1 DEF IsSessionAuthenticated
    <3> QED BY <1>5, <3>1, <3>3 DEF IInv, SoundInv, Reads
  <2> QED BY <2>6, <2>7, <2>8, <2>9, <2>10, <2>11, <2>12, <2>13, <2>14, <2>15, <2>16, ReadsFacts
          DEF IInv, TablesInv
<1> QED BY <1>7, <1>8

LEMMA ReadMessageStep ==
    ASSUME IInv, NEW m \in inbox, ReadMessage(m)
    PROVE  IInv'
<1>1. Reads(m)
  BY DEF ReadMessage, Reads
<1>2. CASE ResumeSession(m)
  BY <1>1, <1>2, ReadsFacts, PortNames, ResumeOnMainPort, ResumeOnUdpPort
<1>3. CASE NewSession(m) \/ RepeatAnswer(m) \/ IgnoreMessage(m)
  BY <1>1, <1>3, NewSessionStep, RepeatAnswerStep, IgnoreMessageStep
<1> QED BY <1>2, <1>3 DEF ReadMessage

-----------------------------------------------------------------------------
(* The theorems.                                                           *)

LEMMA InitInvariant == Init => IInv
<1> SUFFICES ASSUME Init PROVE IInv OBVIOUS
<1> USE DEF Init
<1>1. /\ DOMAIN peers = Ports /\ DOMAIN index = Ports /\ DOMAIN Empty = {}
      /\ \A i \in Ports : peers[i] = Empty /\ index[i] = Empty
      /\ peers[0] = Empty /\ index[0] = Empty /\ (UseUdp => peers[1] = Empty /\ index[1] = Empty)
  BY PortNames DEF Empty
<1>2. \A c \in Clients : /\ client[c].stream = None /\ client[c].session = None
                         /\ client[c].auth = {} /\ client[c].event = None
  OBVIOUS
<1>3. TypeOK
  <2>1. IsTable(Empty)
    BY DEF Empty, IsTable
  <2>2. \A i \in Ports : peers[i] \in Tables
    BY <1>1, <2>1, TableIntro
  <2>3. client \in [Clients -> [stream : Streams \cup {None}, session : Sessions \cup {None},
                               auth : SUBSET {0, 1}, event : Events \cup {None}]]
    OBVIOUS
  <2> QED BY <1>1, <2>2, <2>3 DEF TypeOK, Stages
<1>4. \A s \in Streams : ~Given(s)
  BY <1>1, <1>2, Names DEF Given, AuthenticatedSessionsOf
<1>5. \A x, w : ~Wants(x, w)
  BY DEF Wants
<1>6. TablesInv /\ KnownWhileConnected /\ AnswerNamesReceiver
  BY <1>1 DEF TablesInv, EntriesInv, IndexInv, KnownWhileConnected, AnswerNamesReceiver,
              AnonymousSessions, AuthenticatedSessionsOf
<1>7. FreshInv /\ GivenInv
  BY <1>1, <1>2, <1>4, Names DEF FreshInv, GivenInv, StreamsOf
<1>8. WantsInv
  BY <1>5 DEF WantsInv
<1>9. ClientsInv
  BY <1>1, <1>2, Names DEF ClientsInv, Holds
<1>10. HeldInv /\ UnreliableInv /\ NoPanicWithoutPings
  BY <1>1 DEF HeldInv, UnreliableInv, NoPanicWithoutPings, AnonymousSessions
<1>11. SoundInv
  BY <1>1, <1>2 DEF SoundInv
<1> QED BY <1>3, <1>6, <1>7, <1>8, <1>9, <1>10, <1>11 DEF IInv

\* A step that changes nothing.
LEMMA Stutter == IInv /\ UNCHANGED vars => IInv'
<1> SUFFICES ASSUME IInv, UNCHANGED vars PROVE IInv' OBVIOUS
<1>1. UNCHANGED <<serverVars, netVars, client>>
  BY DEF vars
<1>2. \A s \in Streams : Given(s)' <=> Given(s)
  BY <1>1 DEF Given, serverVars, netVars
<1>3. TypeOK'
  BY <1>1 DEF IInv, TypeOK, serverVars, netVars
<1>4. FreshInv' /\ GivenInv'
  BY <1>1, <1>2 DEF IInv, FreshInv, GivenInv, AskedForSession, serverVars, netVars
<1>5. WantsInv' /\ ClientsInv' /\ AnswerNamesReceiver'
  BY <1>1 DEF IInv, WantsInv, Wants, ClientsInv, AnswerNamesReceiver, Holds, AskedForSession,
              serverVars, netVars
<1>6. HeldInv' /\ UnreliableInv' /\ NoPanicWithoutPings' /\ SoundInv'
  BY <1>1 DEF IInv, HeldInv, Held, UnreliableInv, NoPanicWithoutPings, SentOther, AboutToResume,
              SoundInv, serverVars, netVars
<1> QED BY <1>1, <1>3, <1>4, <1>5, <1>6, ServerUnchanged DEF IInv

LEMMA StepInvariant == IInv /\ [Next]_vars => IInv'
<1> SUFFICES ASSUME IInv, [Next]_vars PROVE IInv' OBVIOUS
<1>1. CASE ServerStep
  BY <1>1, FirstStep, ReadMessageStep, AllReadStep, AuthenticateUnreliablePortsStep,
     CheckConnectedStep, TakeMessagesStep DEF ServerStep
<1>2. ASSUME NEW c \in Clients, ClientStep(c) \/ SendDatagram(c) \/ Reopen(c) PROVE IInv'
  BY <1>2, ConnectStep, AuthenticatePortStep, ReceiveOnStreamStep, ReceiveDatagramStep,
     CheckPortAuthenticatedStep, SendDatagramStep, ReopenStep DEF ClientStep
<1>3. ASSUME NEW st \in Streams, BreakStream(st) PROVE IInv'
  BY <1>3, BreakStreamStep
<1>4. ASSUME NEW s \in Sessions, Kick(s) PROVE IInv'
  BY <1>4, KickStep
<1>5. CASE UNCHANGED vars
  BY <1>5, Stutter
<1> QED BY <1>1, <1>2, <1>3, <1>4, <1>5 DEF Next

\* The invariant holds in every state that clients and server can reach.
THEOREM Invariance == Spec => []IInv
<1> QED BY InitInvariant, StepInvariant, PTL DEF Spec

\* AuthenticatedSessions has every session that is authenticated on the main
\* port, and an answer on a stream names the session that the stream is in.
THEOREM AuthInvAlways == Spec => []AuthInv
<1>1. IInv => AuthInv
  BY DEF IInv, AuthInv
<1> QED BY <1>1, Invariance, PTL

\* However streams break, sessions are resumed and answers cross, no two clients
\* ever have the same session.
THEOREM IdentityNotSharedAlways == Spec => []IdentityNotShared
<1>1. IInv => IdentityNotShared
  <2> SUFFICES ASSUME IInv, NEW c \in Clients, NEW d \in Clients, c # d,
                      client[c].session # None, client[c].session = client[d].session
               PROVE  FALSE
    BY DEF IdentityNotShared
  <2>1. client[c].session \in Streams
    BY ClientTypes, Names DEF IInv
  <2> QED BY <2>1, OneHolder DEF Holds
<1> QED BY <1>1, Invariance, PTL

\* A client on the sound stream that its session was made for is authenticated
\* at the server in that session.
THEOREM ServerKnowsClientAlways == Spec => []ServerKnowsClient
<1>1. IInv => ServerKnowsClient
  <2> SUFFICES ASSUME IInv, NEW c \in Clients, client[c].session # None,
                      client[c].stream = client[c].session, wire[client[c].stream] = "open"
               PROVE  /\ client[c].session \in AuthenticatedSessionsOf(peers[0])
                      /\ peers[0][client[c].session].stream = client[c].stream
    BY DEF ServerKnowsClient
  <2>1. client[c].session \in Streams /\ Given(client[c].session)
    BY ClientTypes, Names DEF IInv, Given
  <2> QED BY <2>1 DEF IInv, GivenInv, AuthenticatedSessionsOf
<1> QED BY <1>1, Invariance, PTL

\* The server only panics in authenticate_unreliable_ports on a UDP session of
\* which a client sent something else than an authentication message.
THEOREM NoPanicWithoutPingsAlways == Spec => []NoPanicWithoutPings
<1>1. IInv => NoPanicWithoutPings
  BY DEF IInv
<1> QED BY <1>1, Invariance, PTL

\* While nothing breaks, a client's UDP flag means an authenticated UDP session of
\* its peer, in whatever order and however often datagrams arrive.
THEOREM UdpFlagSoundAlways == Spec => []UdpFlagSound
<1>1. IInv => UdpFlagSound
  <2> SUFFICES ASSUME IInv, UseUdp, ~Faults, NEW c \in Clients, 1 \in client[c].auth
               PROVE  /\ IsSessionAuthenticated(peers[1], client[c].session)
                      /\ peers[1][client[c].session].peer = peers[0][client[c].session].peer
    BY DEF UdpFlagSound
  <2> DEFINE s == client[c].session
  <2>1. s \in answers /\ s \in Streams /\ s = client[c].stream /\ wire[s] \in {"idle", "open"}
    BY ClientTypes, Names DEF IInv, SoundInv, TypeOK
  <2>2. IsSessionAuthenticated(peers[1], s) /\ peers[1][s].peer = PeerOf[s]
    BY <2>1, PortNames DEF IInv, SoundInv, TablesInv, EntriesInv, IsSessionAuthenticated
  <2>3. Given(s) /\ wire[s] = "open"
    BY <2>1 DEF IInv, FreshInv, Given
  <2>4. s \in DOMAIN peers[0] /\ s \notin AnonymousSessions(peers[0])
    BY <2>1, <2>3 DEF IInv, GivenInv
  <2>5. peers[0][s].peer = PeerOf[s]
    BY <2>4, PortNames DEF IInv, TablesInv, EntriesInv, AnonymousSessions
  <2> QED BY <2>2, <2>5
<1> QED BY <1>1, Invariance, PTL

\* A client that has a session keeps it, whatever answers arrive late.
LEMMA SessionKept ==
    ASSUME IInv, [Next]_vars, NEW c \in Clients, client[c].session # None
    PROVE  client'[c].session = client[c].session
<1>1. ASSUME NEW d \in Clients, CheckPortAuthenticated(d)
      PROVE  client'[c].session = client[c].session
  <2>1. client' = [client EXCEPT ![d].session = client[d].event.session,
                                 ![d].auth = @ \cup {client[d].event.port},
                                 ![d].event = None]
    BY <1>1 DEF CheckPortAuthenticated
  <2>2. client[d].session = client[d].event.session \/ client[d].session = None
    BY <1>1 DEF CheckPortAuthenticated, IInv, ClientsInv
  <2>3. client'[d].session = client[d].event.session /\ (d # c => client'[c] = client[c])
    BY <2>1 DEF IInv, TypeOK
  <2> QED BY <2>2, <2>3
<1>2. ASSUME NEW d \in Clients, NEW st \in Streams, Connect(d, st)
      PROVE  client'[c].session = client[c].session
  BY <1>2 DEF Connect, IInv, TypeOK
<1>3. ASSUME NEW d \in Clients, NEW m \in s2c, ReceiveOnStream(d, m)
      PROVE  client'[c].session = client[c].session
  BY <1>3 DEF ReceiveOnStream, IInv, TypeOK
<1>4. ASSUME NEW d \in Clients, ReceiveDatagram(d)
      PROVE  client'[c].session = client[c].session
  BY <1>4 DEF ReceiveDatagram, IInv, TypeOK
<1>5. ASSUME NEW st \in Streams, BreakStream(st)
      PROVE  client'[c].session = client[c].session
  BY <1>5 DEF BreakStream, IInv, TypeOK
<1>6. ASSUME NEW d \in Clients, Reopen(d)
      PROVE  client'[c].session = client[c].session
  <2>1. /\ client' = [client EXCEPT ![d].stream = None, ![d].auth = {}]
        /\ DOMAIN client = Clients
        /\ client[d] \in [stream : Streams \cup {None}, session : Sessions \cup {None},
                          auth : SUBSET {0, 1}, event : Events \cup {None}]
    BY <1>6 DEF Reopen, IInv, TypeOK
  <2>2. client'[d] = [client[d] EXCEPT !.stream = None, !.auth = {}] /\ (d # c => client'[c] = client[c])
    BY <2>1
  <2> QED BY <2>1, <2>2
<1>7. CASE ServerStep \/ (\E d \in Clients : AuthenticatePort(d) \/ SendDatagram(d))
            \/ (\E s \in Sessions : Kick(s)) \/ UNCHANGED vars
  <2>1. UNCHANGED client
    BY <1>7 DEF ServerStep, First, ReadMessage, AllRead, AuthenticateUnreliablePorts, CheckConnected,
                TakeMessages, AuthenticatePort, SendDatagram, Kick, vars
  <2> QED BY <2>1
<1> QED BY <1>1, <1>2, <1>3, <1>4, <1>5, <1>6, <1>7 DEF Next, ClientStep

\* AuthenticatedSessions only ever gets a session that nobody was given before.
LEMMA OnlyNewKnown ==
    ASSUME IInv, [Next]_vars, NEW s \in Sessions, Given(s), s \notin DOMAIN known
    PROVE  s \notin DOMAIN known'
<1>1. ASSUME NEW m \in inbox, ReadMessage(m)
      PROVE  s \notin DOMAIN known'
  <2>1. Reads(m)
    BY <1>1 DEF ReadMessage, Reads
  <2>2. CASE NewSession(m)
    <3>1. m.session # s /\ m.session \in Sessions
      BY <2>1, <2>2, ReadsFacts, Names DEF NewSession, Unauthenticated, IInv, GivenInv, Reads
    <3>2. DOMAIN known' = DOMAIN known \cup {m.session, PeerOf[m.session]}
      BY <2>2 DEF NewSession, Insert
    <3> QED BY <3>1, <3>2, Names
  <2>3. CASE ~NewSession(m)
    BY <1>1, <2>3 DEF ReadMessage, ResumeSession, RepeatAnswer, IgnoreMessage
  <2> QED BY <2>2, <2>3
<1>2. CASE CheckConnected
  BY <1>2 DEF CheckConnected, Restrict, Retained
<1>3. CASE First \/ AllRead \/ AuthenticateUnreliablePorts \/ TakeMessages
            \/ (\E k \in Sessions : Kick(k))
            \/ (\E c \in Clients, st \in Streams : Connect(c, st)) \/ UNCHANGED vars
  BY <1>3 DEF First, AllRead, AuthenticateUnreliablePorts, TakeMessages, Kick, Connect, vars, serverVars
<1>4. CASE UNCHANGED serverVars
  BY <1>4 DEF serverVars
<1>5. ASSUME NEW c \in Clients,
             AuthenticatePort(c) \/ (\E m \in s2c : ReceiveOnStream(c, m)) \/ ReceiveDatagram(c)
             \/ CheckPortAuthenticated(c) \/ SendDatagram(c) \/ Reopen(c)
      PROVE  UNCHANGED serverVars
  BY <1>5 DEF AuthenticatePort, ReceiveOnStream, ReceiveDatagram, CheckPortAuthenticated,
              SendDatagram, Reopen, ClientOnly
<1>6. ASSUME NEW st \in Streams, BreakStream(st)
      PROVE  UNCHANGED serverVars
  BY <1>6 DEF BreakStream, ClientOnly
<1> QED BY <1>1, <1>2, <1>3, <1>4, <1>5, <1>6 DEF Next, ServerStep, ClientStep

\* A session that a client has and the server forgot is never known again, and
\* the client keeps asking for it.
THEOREM ForgottenForGoodAlways == Spec => ForgottenForGood
<1>1. IInv /\ [Next]_vars =>
        [\A c \in Clients :
           client[c].session # None /\ client[c].session \notin DOMAIN known =>
              /\ client'[c].session = client[c].session
              /\ client[c].session \notin DOMAIN known']_vars
  <2> SUFFICES ASSUME IInv, [Next]_vars, NEW c \in Clients,
                      client[c].session # None, client[c].session \notin DOMAIN known
               PROVE  /\ client'[c].session = client[c].session
                      /\ client[c].session \notin DOMAIN known'
    OBVIOUS
  <2>1. client[c].session \in Sessions /\ Given(client[c].session)
    BY ClientTypes DEF IInv, Given
  <2> QED BY <2>1, SessionKept, OnlyNewKnown
<1> QED BY <1>1, Invariance, PTL DEF Spec, ForgottenForGood
=============================================================================
