----------------------- MODULE AuthenticatedSessions -----------------------
(***************************************************************************)
(* The sessions a server knows, over several connections at once: which    *)
(* connection gives a client its session, how the others learn of it, and  *)
(* when AuthenticatedSessions forgets it. Authentication.tla looks at one  *)
(* connection in more detail; here a connection is its main TCP port.      *)
(*                                                                         *)
(* Each client opens one stream to each connection, once, and a connection *)
(* is started once. A session is named by the stream it was drawn for, and *)
(* stands for its peer uuid as well.                                       *)
(***************************************************************************)
EXTENDS FiniteSets, Naturals

CONSTANTS Settings,      \* settings to choose from, each a record of
                         \*   clients, connections: who and what there is
                         \*   auth: connections started with authentication_connection = true
                         \*   hasLocal: the server is a local one
                         \*   faults: streams break and connections are closed
          None,          \* no session (Option::None)
          LocalSession   \* session and peer of a local server's own client

AllClients == UNION {st.clients : st \in Settings}
AllConnections == UNION {st.connections : st \in Settings}

ASSUME SettingsAssumption ==
    \A st \in Settings : /\ st.auth \subseteq st.connections /\ IsFiniteSet(st.connections)
                         /\ {st.hasLocal, st.faults} \subseteq BOOLEAN
ASSUME NamesAssumption ==
    {None, LocalSession} \cap (AllClients \X AllConnections) = {} /\ None # LocalSession

VARIABLES
    setting,  \* never changes
    stage,    \* next step of the server's frame
    conn,     \* per connection: "new", "open" or "closed"
    stream,   \* per stream: "new", "live" (in peers_connected) or "gone"
    session,  \* per stream: the session its entry is kept under, None if anonymous
    index,    \* per connection: the peers of peers_authenticated
    known,    \* AuthenticatedSessions.0, entries from a session to its peer,
    reverse,  \* and entries from a peer to its session
    sent,     \* AuthenticationMessages on their way
    inbox,    \* AuthenticationMessages dispatched and not read
    answers,  \* AuthenticatedFromServer messages on their way
    told,     \* per client: LocalSessionUUID
    flags     \* per client: connections whose port is authenticated

vars == <<setting, stage, conn, stream, session, index, known, reverse, sent, inbox, answers, told, flags>>

Clients == setting.clients
Connections == setting.connections
AuthConnections == setting.auth
HasLocal == setting.hasLocal
Faults == setting.faults
Streams == Clients \X Connections
Sessions == Streams

Init ==
    /\ setting \in Settings
    /\ stage = "first"
    /\ conn = [c \in Connections |-> "new"]
    /\ stream = [s \in Streams |-> "new"] /\ session = [s \in Streams |-> None]
    /\ index = [c \in Connections |-> {}]
    /\ known = {} /\ reverse = {}
    /\ sent = {} /\ inbox = {} /\ answers = {}
    /\ told = [cl \in Clients |-> None] /\ flags = [cl \in Clients |-> {}]

Open == {c \in Connections : conn[c] = "open"}
At(c) == Clients \X {c}

\* The stream a connection has a session's entry for: none, or one.
Holding(c, id) == {s \in At(c) : stream[s] = "live" /\ session[s] = id}

GoTo(from, to) == stage = from /\ stage' = to
ServerOnly == UNCHANGED <<setting, sent, told, flags>>

-----------------------------------------------------------------------------
(* The server's frame. *)

\* authenticate_local_peer draws the local session once; the port tables lose
\* the streams that broke and gain those that were accepted.
First ==
    /\ GoTo("first", "check_peer_authenticated")
    /\ \E broken \in SUBSET IF Faults THEN {s \in Streams : stream[s] = "live"} ELSE {},
          accepted \in SUBSET {s \in Streams : stream[s] = "new" /\ s[2] \in Open} :
         /\ stream' = [s \in Streams |-> IF s \in broken THEN "gone"
                                         ELSE IF s \in accepted THEN "live" ELSE stream[s]]
         /\ index' = [c \in Connections |-> index[c] \ {session[s] : s \in broken \cap At(c)}]
    /\ known' = IF HasLocal /\ LocalSession \notin known THEN known \cup {LocalSession} ELSE known
    /\ reverse' = IF HasLocal /\ LocalSession \notin known
                  THEN reverse \cup {LocalSession} ELSE reverse
    /\ UNCHANGED <<conn, session, inbox, answers>> /\ ServerOnly

\* Variant with a bug: only an authentication connection takes a session that
\* is named.
NamesOnAuthentication(m) ==
    /\ m.anonymous /\ m.to[2] \in Open \cap AuthConnections
    /\ m.names \in known /\ Holding(m.to[2], m.names) = {}

\* Variants with a bug: a session is named without a look at what is known; a
\* stream stays under the session it was drawn.
NamesUnchecked(m) == m.anonymous /\ m.to[2] \in Open
OwnSession(m) == m.to

\* A message that gives a session, one that names the session it got before,
\* and one of a stream that has its peer already. The main TCP port alone is
\* looked at, so is_port_authenticate_able and is_main_port hold.
Draws(m) ==
    /\ m.anonymous /\ m.names = None
    /\ m.to[2] \in Open \cap AuthConnections /\ Holding(m.to[2], m.to) = {}
Names(m) ==
    /\ m.anonymous /\ m.to[2] \in Open
    /\ m.names \in known /\ Holding(m.to[2], m.names) = {}
Named(m) == m.names
Asked(m) == ~m.anonymous /\ m.to[2] \in Open /\ m.names \in known

\* authenticate_peer and send_message, for the messages of a frame: who is seated
\* under which session, and who is written to (whoever has the peer there).
CheckPeerAuthenticated ==
    /\ GoTo("check_peer_authenticated", "check_authenticated_peers_are_connected")
    /\ LET drawn == {m \in inbox : Draws(m)}
           named == {m \in inbox : Names(m)}
           given == {<<m.to, m.to>> : m \in drawn} \cup {<<m.to, Named(m)>> : m \in named}
           seats == {g \in given : stream[g[1]] = "live"}
           written == given \cup {<<m.to, m.names>> : m \in {x \in inbox : Asked(x)}}
       IN /\ session' = [s \in Streams |->
                           IF \E g \in seats : g[1] = s
                           THEN (CHOOSE g \in seats : g[1] = s)[2] ELSE session[s]]
          /\ index' = [c \in Connections |->
                         index[c] \cup {g[2] : g \in {x \in seats : x[1] \in At(c)}}]
          /\ known' = known \cup {m.to : m \in drawn}
          /\ reverse' = reverse \cup {m.to : m \in drawn}
          /\ answers' = answers \cup
               {a \in [from : Streams, id : {w[2] : w \in written}] :
                  /\ stream[a.from] = "live" /\ session'[a.from] = a.id
                  /\ \E w \in written : w[1][2] = a.from[2] /\ w[2] = a.id}
    /\ inbox' = {}
    /\ UNCHANGED <<conn, stream>> /\ ServerOnly

\* Variants with a bug: one authentication connection that knows the peer is
\* enough; every connection counts.
KeptByAny(peer) ==
    peer = LocalSession \/ Open \cap AuthConnections = {}
      \/ \E c \in Open \cap AuthConnections : peer \in index[c]
KeptByAll(peer) == peer = LocalSession \/ \A c \in Open : peer \in index[c]

\* The value of an entry that stays. The value of a reverse entry is a session
\* uuid, which no port has as a peer.
Kept(peer) == peer = LocalSession \/ \A c \in Open \cap AuthConnections : peer \in index[c]

CheckAuthenticatedPeersAreConnected ==
    /\ GoTo("check_authenticated_peers_are_connected", "update")
    /\ known' = {s \in known : Kept(s)}
    /\ reverse' = IF Open \cap AuthConnections = {} THEN reverse ELSE {}
    /\ UNCHANGED <<conn, stream, session, index, inbox, answers>> /\ ServerOnly

\* Update: messages are dispatched, anonymous or not; then the application may
\* start and close connections (earlier in Update would only take messages away).
Dispatch ==
    /\ GoTo("update", "first")
    /\ \E taken \in SUBSET {m \in sent : stream[m.to] = "live"} :
         /\ inbox' = {[to |-> m.to, names |-> m.names, anonymous |-> session[m.to] = None] :
                        m \in taken}
         /\ sent' = sent \ taken
    /\ UNCHANGED <<setting, conn, stream, session, index, known, reverse, answers, told, flags>>

StartConnection(c) ==
    /\ stage = "first" /\ conn[c] = "new"
    /\ conn' = [conn EXCEPT ![c] = "open"]
    /\ UNCHANGED <<stage, stream, session, index, known, reverse, inbox, answers>> /\ ServerOnly

CloseConnection(c) ==
    /\ Faults /\ stage = "first" /\ conn[c] = "open"
    /\ conn' = [conn EXCEPT ![c] = "closed"]
    /\ stream' = [s \in Streams |-> IF s \in At(c) THEN "gone" ELSE stream[s]]
    /\ index' = [index EXCEPT ![c] = {}]
    /\ UNCHANGED <<stage, session, known, reverse, inbox, answers>> /\ ServerOnly

-----------------------------------------------------------------------------
(* The clients. *)

\* authenticate_port: without a session, the authentication connections are
\* asked for one; with one, every port that is not authenticated names it. A
\* repetition of what is still on its way is left out.
Ask(cl, c) ==
    /\ cl \in Clients /\ c \in Connections
    /\ IF told[cl] = None THEN c \in AuthConnections ELSE c \notin flags[cl]
    /\ conn[c] = "open" /\ stream[<<cl, c>>] # "gone"
    /\ ~\E m \in sent : m.to = <<cl, c>>
    /\ sent' = sent \cup {[to |-> <<cl, c>>, names |-> told[cl]]}
    /\ UNCHANGED <<setting, stage, conn, stream, session, index, known, reverse, inbox, answers, told, flags>>

\* check_port_authenticated.
TakeAnswer(a) ==
    /\ answers' = answers \ {a}
    /\ told' = [told EXCEPT ![a.from[1]] = a.id]
    /\ flags' = [flags EXCEPT ![a.from[1]] = @ \cup {a.from[2]}]
    /\ UNCHANGED <<setting, stage, conn, stream, session, index, known, reverse, sent, inbox>>

Server == First \/ CheckPeerAuthenticated \/ CheckAuthenticatedPeersAreConnected \/ Dispatch

Next ==
    \/ Server
    \/ \E c \in Connections : StartConnection(c) \/ CloseConnection(c)
    \/ \E cl \in Clients, c \in Connections : Ask(cl, c)
    \/ \E a \in answers : TakeAnswer(a)

Spec == Init /\ [][Next]_vars

\* The server's frames follow one another, clients ask and take answers. The
\* application starts every connection, every client reaches it in the end, and
\* a message does not wait for ever on a stream that lives.
Reached(s) == conn[s[2]] = "open" => stream[s] # "new"
Delivered(s) == stream[s] = "live" => \A m \in sent : m.to # s

FairSpec ==
    /\ Spec /\ WF_vars(Server)
    /\ \A c \in AllConnections : []<>(c \in Connections => conn[c] # "new")
    /\ \A s \in AllClients \X AllConnections :
         /\ WF_vars(Ask(s[1], s[2]))
         /\ []<>(s \in Streams => Reached(s) /\ Delivered(s))
         /\ WF_vars(\E a \in answers : a.from = s /\ TakeAnswer(a))

-----------------------------------------------------------------------------
(* Properties. *)

\* The type of every variable.
TypeOK ==
    /\ setting \in Settings
    /\ stage \in {"first", "check_peer_authenticated",
                  "check_authenticated_peers_are_connected", "update"}
    /\ conn \in [Connections -> {"new", "open", "closed"}]
    /\ stream \in [Streams -> {"new", "live", "gone"}]
    /\ session \in [Streams -> Sessions \cup {None}]
    /\ index \in [Connections -> SUBSET Sessions]
    /\ known \cup reverse \subseteq Sessions \cup {LocalSession}
    /\ sent \subseteq [to : Streams, names : Sessions \cup {None}]
    /\ inbox \subseteq [to : Streams, names : Sessions \cup {None}, anonymous : BOOLEAN]
    /\ answers \subseteq [from : Streams, id : Sessions]
    /\ told \in [Clients -> Sessions \cup {None}]
    /\ flags \in [Clients -> SUBSET Connections]

\* With one authentication connection a client has one identity: whatever
\* connections the server has it on, it is by the session its authentication
\* stream was drawn, and by no other client's.
OneIdentity ==
    Cardinality(AuthConnections) = 1 =>
      \A s \in Streams : session[s] # None => session[s] \in {s[1]} \X AuthConnections

\* A client that believes that it is authenticated on a connection is told the
\* identity the server has for it there, as long as its stream lives.
FlagsAgree ==
    Cardinality(AuthConnections) = 1 =>
      \A s \in Streams : s[2] \in flags[s[1]] /\ stream[s] = "live" =>
        session[s] = told[s[1]] /\ session[s] \in index[s[2]]

\* A client that is authenticated where it got its session keeps being known,
\* so that its other connections and its UDP ports can be authenticated.
KnownWhileConnected ==
    Cardinality(AuthConnections) = 1 =>
      \A c \in AuthConnections : stage = "update" /\ conn[c] = "open" => index[c] \subseteq known

\* The invariant: types, one identity each, and a server that remembers it.
SessionsInv == TypeOK /\ OneIdentity /\ KnownWhileConnected

\* No session is ever on two authentication connections: while both are open a
\* session is forgotten in the frame it is given in, for the other connection
\* does not have it yet, and so it cannot be named there.
NeverOnTwo ==
    \A s, t \in Streams :
      /\ {s[2], t[2]} \subseteq AuthConnections /\ s # t
      /\ stream[s] = "live" /\ stream[t] = "live" /\ session[s] # None
      => session[s] # session[t]

\* After a frame's check nobody is known to a server with two open
\* authentication connections but the local client.
TwoKnowNobody ==
    stage = "update" /\ Cardinality(Open \cap AuthConnections) > 1
      => known \subseteq {LocalSession}

\* So two authentication connections undo each other.
TwoUndoEachOther == NeverOnTwo /\ TwoKnowNobody

\* Where nothing breaks, a client of a server with one authentication connection
\* is at last authenticated on all of its connections.
EveryConnection ==
    \A cl \in AllClients :
      <>[](cl \in Clients /\ ~Faults /\ Cardinality(AuthConnections) = 1 => flags[cl] = Connections)
=============================================================================
