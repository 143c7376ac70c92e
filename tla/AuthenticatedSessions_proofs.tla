-------------------- MODULE AuthenticatedSessions_proofs --------------------
(***************************************************************************)
(* Proofs about the sessions a server knows, for every set of clients and  *)
(* of connections, and every choice of authentication connections among    *)
(* them. A session is in use only at the client it was drawn for (IdsOwn), *)
(* a port's index is what its entries say (Indexed), and the frame decides *)
(* what a message may find known: it was dispatched in the frame before,   *)
(* and check_authenticated_peers_are_connected ran first (NamesThere).     *)
(***************************************************************************)
EXTENDS AuthenticatedSessions, FiniteSetTheorems, TLAPS

\* A session in use is of the client it was drawn for on an authentication
\* connection, and that stream has had a session since.
HasId(cl, id) == id # None => id \in {cl} \X AuthConnections /\ session[id] # None

IdsOwn ==
    /\ \A s \in Streams : HasId(s[1], session[s])
    /\ \A cl \in Clients : HasId(cl, told[cl])
    /\ \A m \in sent \cup inbox : HasId(m.to[1], m.names)
    /\ \A a \in answers : HasId(a.from[1], a.id)

\* A stream lives on an open connection; one that was not accepted yet has no
\* session and is authenticated nowhere; a connection not started has no peer.
StreamsInv ==
    /\ \A s \in Streams : stream[s] = "live" => conn[s[2]] = "open"
    /\ \A s \in Streams : stream[s] = "new" => session[s] = None /\ s[2] \notin flags[s[1]]
    /\ \A a \in answers : stream[a.from] # "new"
    /\ \A c \in Connections : conn[c] = "new" => index[c] = {}

\* peers_authenticated has the sessions of the entries and no others.
Indexed ==
    /\ \A s \in Streams : stream[s] = "live" /\ session[s] # None => session[s] \in index[s[2]]
    /\ \A c \in Connections : \A id \in index[c] :
         \E s \in Streams : s[2] = c /\ stream[s] = "live" /\ session[s] = id

\* One message per stream, read in the frame after it was dispatched in.
MailInv ==
    /\ \A m, n \in sent : m.to = n.to => m = n
    /\ \A m, n \in inbox : m.to = n.to => m = n
    /\ \A m \in inbox : m.anonymous => session[m.to] = None
    /\ stage \in {"check_authenticated_peers_are_connected", "update"} => inbox = {}

\* After a frame's check a session that is known is on every open
\* authentication connection.
KnownEverywhere ==
    stage = "update" =>
      \A id \in known : id = LocalSession \/ \A c \in Open \cap AuthConnections : id \in index[c]

\* So if a message to an authentication connection names a known session, no
\* other authentication connection has an authenticated stream or a message.
NamesThere ==
    \A m \in inbox : m.to[2] \in AuthConnections /\ m.names \in known =>
      /\ \A t \in Streams : t[2] \in AuthConnections /\ stream[t] = "live" /\ session[t] # None
                            => t[2] = m.to[2]
      /\ \A n \in inbox : n.to[2] \in AuthConnections => n.to[2] = m.to[2]

\* What KnownWhileConnected says of the end of a frame holds all along it.
KnownAllAlong ==
    Cardinality(AuthConnections) = 1 =>
      \A c \in AuthConnections : conn[c] = "open" => index[c] \subseteq known

\* What clients were told, or will be, of a stream that lives.
AnswersAgree ==
    \A a \in answers : stream[a.from] = "live" => session[a.from] = a.id
FlaggedOnceTold ==
    \A s \in Streams : s[2] \in flags[s[1]] =>
      /\ told[s[1]] # None
      /\ stream[s] = "live" => session[s] # None

IInv ==
    /\ TypeOK /\ IdsOwn /\ StreamsInv /\ Indexed /\ MailInv /\ NeverOnTwo
    /\ KnownEverywhere /\ NamesThere /\ KnownAllAlong /\ AnswersAgree /\ FlaggedOnceTold

-----------------------------------------------------------------------------
(* The names of a setting. *)

\* The authentication connections are connections, and no stream or session has
\* the name None or LocalSession.
LEMMA SettingFacts ==
    ASSUME TypeOK
    PROVE  /\ AuthConnections \subseteq Connections /\ IsFiniteSet(AuthConnections)
           /\ None \notin Sessions /\ LocalSession \notin Sessions /\ None # LocalSession
           /\ None \notin known
           /\ \A s \in Streams : s[1] \in Clients /\ s[2] \in Connections /\ s = <<s[1], s[2]>>
           /\ \A c, s : s \in At(c) <=> s \in Clients \X {c}
           /\ \A c \in Connections : \A s : s \in At(c) <=> s \in Streams /\ s[2] = c
<1>1. setting \in Settings
  BY DEF TypeOK
<1>2. AuthConnections \subseteq Connections /\ IsFiniteSet(Connections)
  BY <1>1, SettingsAssumption DEF AuthConnections, Connections
<1>3. IsFiniteSet(AuthConnections)
  BY <1>2, FS_Subset
<1>4. Sessions \subseteq AllClients \X AllConnections
  BY <1>1 DEF Sessions, Streams, Clients, Connections, AllClients, AllConnections
<1>5. None \notin Sessions /\ LocalSession \notin Sessions /\ None # LocalSession
  BY <1>4, NamesAssumption
<1>6. None \notin known
  BY <1>5 DEF TypeOK
<1>7. \A s \in Streams : s[1] \in Clients /\ s[2] \in Connections /\ s = <<s[1], s[2]>>
  BY DEF Streams
<1>8. \A c \in Connections : \A s : s \in At(c) <=> s \in Streams /\ s[2] = c
  BY DEF At, Streams
<1> QED BY <1>2, <1>3, <1>5, <1>6, <1>7, <1>8 DEF At

\* A step that keeps the setting keeps all that is read off it.
LEMMA SameSetting ==
    ASSUME UNCHANGED setting
    PROVE  /\ Clients' = Clients /\ Connections' = Connections /\ Streams' = Streams
           /\ AuthConnections' = AuthConnections /\ Sessions' = Sessions
           /\ HasLocal' = HasLocal /\ Faults' = Faults
BY DEF Clients, Connections, AuthConnections, Streams, Sessions, HasLocal, Faults

LEMMA InitInvariant == Init => IInv
<1> SUFFICES ASSUME Init PROVE IInv OBVIOUS
<1> USE DEF Init
<1>1. TypeOK
  BY DEF TypeOK, Sessions
<1>2. IdsOwn
  BY DEF IdsOwn, HasId
<1>3. StreamsInv
  <2>1. \A s \in Streams : s[1] \in Clients /\ s[2] \in Connections
    BY DEF Streams
  <2> QED BY <2>1 DEF StreamsInv
<1>4. Indexed /\ MailInv /\ NeverOnTwo /\ KnownEverywhere /\ NamesThere
  BY DEF Indexed, MailInv, NeverOnTwo, KnownEverywhere, NamesThere
<1>5. KnownAllAlong
  <2>1. AuthConnections \subseteq Connections
    BY <1>1, SettingFacts
  <2> QED BY <2>1 DEF KnownAllAlong
<1>6. AnswersAgree /\ FlaggedOnceTold
  <2>1. \A s \in Streams : s[1] \in Clients
    BY DEF Streams
  <2> QED BY <2>1 DEF AnswersAgree, FlaggedOnceTold
<1> QED BY <1>1, <1>2, <1>3, <1>4, <1>5, <1>6 DEF IInv

-----------------------------------------------------------------------------
(* The server's frame. *)

LEMMA FirstStep == IInv /\ First => IInv'
<1> SUFFICES ASSUME IInv, First PROVE IInv' OBVIOUS
<1>1. PICK broken \in SUBSET {s \in Streams : stream[s] = "live"},
           accepted \in SUBSET {s \in Streams : stream[s] = "new" /\ s[2] \in Open} :
        /\ stream' = [s \in Streams |-> IF s \in broken THEN "gone"
                                        ELSE IF s \in accepted THEN "live" ELSE stream[s]]
        /\ index' = [c \in Connections |-> index[c] \ {session[s] : s \in broken \cap At(c)}]
  BY DEF First
<1>2. /\ stage = "first" /\ stage' = "check_peer_authenticated"
      /\ UNCHANGED <<setting, conn, session, inbox, answers, sent, told, flags>>
      /\ known \subseteq known' /\ known' \subseteq known \cup {LocalSession}
      /\ reverse' \subseteq reverse \cup {LocalSession}
  BY DEF First, GoTo, ServerOnly
<1>s. /\ Clients' = Clients /\ Connections' = Connections /\ Streams' = Streams
      /\ AuthConnections' = AuthConnections /\ Sessions' = Sessions
  BY <1>2, SameSetting
<1>t. TypeOK
  BY DEF IInv
<1>3. \A s \in Streams : /\ stream'[s] = "live" => stream[s] = "live" \/ s \in accepted
                         /\ stream'[s] = "live" => s \notin broken
                         /\ stream'[s] = "new" => stream[s] = "new"
                         /\ stream[s] = "live" /\ s \notin broken => stream'[s] = "live"
                         /\ s \in accepted => stream[s] = "new" /\ session[s] = None
                         /\ s[1] \in Clients /\ s[2] \in Connections
  BY <1>1, <1>t, SettingFacts DEF IInv, StreamsInv
<1>4. TypeOK'
  <2>1. stream' \in [Streams' -> {"new", "live", "gone"}]
    BY <1>1, <1>s DEF IInv, TypeOK
  <2>2. index' \in [Connections' -> SUBSET Sessions']
    BY <1>1, <1>s DEF IInv, TypeOK
  <2>3. known' \cup reverse' \subseteq Sessions \cup {LocalSession}
    BY <1>2 DEF IInv, TypeOK
  <2> QED BY <1>2, <1>s, <2>1, <2>2, <2>3 DEF IInv, TypeOK
<1>5. IdsOwn'
  BY <1>2, <1>s DEF IInv, IdsOwn, HasId
<1>6. StreamsInv'
  <2>1. \A s \in Streams : stream'[s] = "live" => conn[s[2]] = "open"
    BY <1>1, <1>3 DEF IInv, StreamsInv, Open
  <2>2. \A s \in Streams : stream'[s] = "new" => session[s] = None /\ s[2] \notin flags[s[1]]
    BY <1>3 DEF IInv, StreamsInv
  <2>3. \A a \in answers : stream'[a.from] # "new"
    <3>1. \A a \in answers : a.from \in Streams
      BY <1>t DEF TypeOK
    <3> QED BY <1>3, <3>1 DEF IInv, StreamsInv
  <2>4. \A c \in Connections : conn[c] = "new" => index'[c] = {}
    BY <1>1 DEF IInv, StreamsInv
  <2> QED BY <1>2, <1>s, <2>1, <2>2, <2>3, <2>4 DEF StreamsInv
<1>7. Indexed'
  <2>1. ASSUME NEW s \in Streams, stream'[s] = "live", session[s] # None
        PROVE  session[s] \in index'[s[2]]
    <3>1. stream[s] = "live" /\ session[s] \in index[s[2]] /\ s \notin broken
      BY <1>3, <2>1 DEF IInv, Indexed
    <3>2. ASSUME NEW t \in broken \cap At(s[2]), session[t] = session[s] PROVE FALSE
      <4>1. t \in Streams /\ t[2] = s[2]
        BY <1>3, <1>t, <3>2, SettingFacts
      <4>2. t[1] = s[1]
        BY <2>1, <3>2, <4>1 DEF IInv, IdsOwn, HasId
      <4>3. t = s
        BY <1>t, <4>1, <4>2, SettingFacts
      <4> QED BY <3>1, <3>2, <4>3
    <3> QED BY <1>1, <1>3, <3>1, <3>2
  <2>2. ASSUME NEW c \in Connections, NEW id \in index'[c]
        PROVE  \E s \in Streams : s[2] = c /\ stream'[s] = "live" /\ session[s] = id
    <3>1. id \in index[c] /\ id \notin {session[s] : s \in broken \cap At(c)}
      BY <1>1, <2>2
    <3>2. PICK s \in Streams : s[2] = c /\ stream[s] = "live" /\ session[s] = id
      BY <3>1 DEF IInv, Indexed
    <3>3. s \notin broken
      BY <1>t, <3>1, <3>2, SettingFacts
    <3> QED BY <1>3, <3>2, <3>3
  <2> QED BY <1>2, <1>s, <2>1, <2>2 DEF Indexed
<1>8. MailInv'
  BY <1>2 DEF IInv, MailInv
<1>9. NeverOnTwo'
  BY <1>2, <1>3, <1>s DEF IInv, NeverOnTwo
<1>10. KnownEverywhere'
  BY <1>2 DEF KnownEverywhere
<1>11. NamesThere'
  <2>1. ASSUME NEW m \in inbox, m.names \in known' PROVE m.names \in known
    <3>1. m.names \in Sessions \cup {None}
      BY <1>t DEF TypeOK
    <3> QED BY <1>2, <1>t, <2>1, <3>1, SettingFacts
  <2>2. \A t \in Streams : stream'[t] = "live" /\ session[t] # None => stream[t] = "live"
    BY <1>3
  <2> QED BY <1>2, <1>s, <2>1, <2>2 DEF IInv, NamesThere
<1>12. KnownAllAlong'
  <2>1. \A c \in AuthConnections : c \in Connections /\ index'[c] \subseteq index[c]
    BY <1>1, <1>t, SettingFacts
  <2> QED BY <1>2, <1>s, <2>1 DEF IInv, KnownAllAlong
<1>13. AnswersAgree'
  <2>1. \A a \in answers : a.from \in Streams /\ stream[a.from] # "new"
    BY <1>t DEF TypeOK, IInv, StreamsInv
  <2> QED BY <1>2, <1>3, <2>1 DEF IInv, AnswersAgree
<1>14. FlaggedOnceTold'
  BY <1>2, <1>3, <1>s DEF IInv, FlaggedOnceTold, StreamsInv
<1> QED BY <1>4, <1>5, <1>6, <1>7, <1>8, <1>9, <1>10, <1>11, <1>12, <1>13, <1>14 DEF IInv

\* The stream gets a session from a message, drawn for it or named.
Seated(s) ==
    /\ s \in Streams /\ stream[s] = "live" /\ session[s] = None
    /\ \E m \in inbox : m.to = s /\ \/ Draws(m) /\ session'[s] = s
                                    \/ Names(m) /\ session'[s] = m.names

\* What check_peer_authenticated does to the sessions, the indexes and what is
\* known: a stream is seated at most once, for it has one message.
LEMMA Seating ==
    ASSUME IInv, CheckPeerAuthenticated
    PROVE  /\ stage' = "check_authenticated_peers_are_connected" /\ inbox' = {}
           /\ UNCHANGED <<setting, conn, stream, sent, told, flags>>
           /\ TypeOK'
           /\ \A s \in Streams : session'[s] = session[s] \/ Seated(s)
           /\ \A s : Seated(s) => /\ session'[s] \in index'[s[2]] /\ session'[s] \in known'
           /\ \A c \in Connections : index[c] \subseteq index'[c]
           /\ \A c \in Connections : \A id \in index'[c] :
                id \in index[c] \/ \E s : Seated(s) /\ s[2] = c /\ session'[s] = id
           /\ known \subseteq known'
           /\ \A a \in answers' : a \in answers \/ /\ stream[a.from] = "live"
                                                   /\ session'[a.from] = a.id
<1> DEFINE drawn == {m \in inbox : Draws(m)}
           named == {m \in inbox : Names(m)}
           given == {<<m.to, m.to>> : m \in drawn} \cup {<<m.to, Named(m)>> : m \in named}
           seats == {g \in given : stream[g[1]] = "live"}
           written == given \cup {<<m.to, m.names>> : m \in {x \in inbox : Asked(x)}}
<1>1. /\ stage' = "check_authenticated_peers_are_connected" /\ inbox' = {}
      /\ UNCHANGED <<setting, conn, stream, sent, told, flags>>
  BY DEF CheckPeerAuthenticated, GoTo, ServerOnly
<1>2. /\ session' = [s \in Streams |->
                       IF \E g \in seats : g[1] = s
                       THEN (CHOOSE g \in seats : g[1] = s)[2] ELSE session[s]]
      /\ index' = [c \in Connections |->
                     index[c] \cup {g[2] : g \in {x \in seats : x[1] \in At(c)}}]
      /\ known' = known \cup {m.to : m \in drawn}
      /\ reverse' = reverse \cup {m.to : m \in drawn}
      /\ answers' = answers \cup
           {a \in [from : Streams, id : {w[2] : w \in written}] :
              /\ stream[a.from] = "live" /\ session'[a.from] = a.id
              /\ \E w \in written : w[1][2] = a.from[2] /\ w[2] = a.id}
  BY DEF CheckPeerAuthenticated
<1>s. /\ Clients' = Clients /\ Connections' = Connections /\ Streams' = Streams
      /\ AuthConnections' = AuthConnections /\ Sessions' = Sessions
  BY <1>1, SameSetting
<1>t. TypeOK
  BY DEF IInv
<1>f. /\ None \notin known /\ LocalSession \notin Sessions
      /\ \A c \in Connections : \A s : s \in At(c) <=> s \in Streams /\ s[2] = c
      /\ \A s \in Streams : s[2] \in Connections
  BY <1>t, SettingFacts
\* A seat is the seat of one message, and of its stream.
<1>3. \A m \in inbox : /\ m.to \in Streams /\ m.names \in Sessions \cup {None}
                       /\ Draws(m) => m.names = None /\ m.anonymous
                       /\ Names(m) => m.names \in known /\ m.names \in Sessions /\ m.anonymous
                       /\ Asked(m) => m.names \in Sessions
                       /\ ~(Draws(m) /\ Names(m))
                       /\ m.anonymous => session[m.to] = None
  <2>1. ASSUME NEW m \in inbox
        PROVE  m.to \in Streams /\ m.names \in Sessions \cup {None}
               /\ (m.anonymous => session[m.to] = None)
    BY <1>t, <2>1 DEF TypeOK, IInv, MailInv
  <2> QED BY <1>f, <2>1 DEF Draws, Names, Asked
<1>4. \A g \in given : \E m \in inbox : /\ g[1] = m.to
                                        /\ \/ Draws(m) /\ g[2] = m.to
                                           \/ Names(m) /\ g[2] = m.names
  <2> SUFFICES ASSUME NEW g \in given
               PROVE  \E m \in inbox : /\ g[1] = m.to
                                       /\ \/ Draws(m) /\ g[2] = m.to
                                          \/ Names(m) /\ g[2] = m.names
    OBVIOUS
  <2>1. CASE \E m \in drawn : g = <<m.to, m.to>>
    BY <2>1
  <2>2. CASE \E m \in named : g = <<m.to, Named(m)>>
    BY <2>2 DEF Named
  <2> QED BY <2>1, <2>2
<1>5. \A g \in given : g[1] \in Streams /\ g[2] \in Sessions /\ session[g[1]] = None
                       /\ g = <<g[1], g[2]>>
  <2>1. \A g \in given : g = <<g[1], g[2]>>
    OBVIOUS
  <2> HIDE DEF given
  <2>2. \A m \in inbox : Draws(m) \/ Names(m) => session[m.to] = None
    BY <1>3
  <2> QED BY <1>3, <1>4, <2>1, <2>2 DEF Sessions
<1>6. \A g, h \in given : g[1] = h[1] => g[2] = h[2]
  <2> SUFFICES ASSUME NEW g \in given, NEW h \in given, g[1] = h[1] PROVE g[2] = h[2]
    OBVIOUS
  <2>1. PICK m \in inbox : /\ g[1] = m.to
                           /\ ((Draws(m) /\ g[2] = m.to) \/ (Names(m) /\ g[2] = m.names))
    BY <1>4
  <2>2. PICK n \in inbox : /\ h[1] = n.to
                           /\ ((Draws(n) /\ h[2] = n.to) \/ (Names(n) /\ h[2] = n.names))
    BY <1>4
  <2>3. m = n
    BY <2>1, <2>2 DEF IInv, MailInv
  <2> QED BY <1>3, <2>1, <2>2, <2>3
<1>7. \A w \in written : w[2] \in Sessions
  <2>1. \A m \in inbox : Asked(m) => <<m.to, m.names>>[2] \in Sessions
    BY <1>3
  <2> QED BY <1>5, <2>1
<1>8. seats \subseteq given /\ \A g \in seats : stream[g[1]] = "live"
  OBVIOUS
<1>9. \A m \in drawn : m.to \in Streams /\ <<m.to, m.to>> \in given
  BY <1>3
<1>k. \A g \in given : g[2] \in known'
  <2>1. \A m \in drawn : m.to \in known'
    BY <1>2
  <2>2. \A m \in inbox : Draws(m) => m.to \in known'
    BY <2>1
  <2> HIDE DEF drawn, given
  <2>3. known \subseteq known'
    BY <1>2
  <2> QED BY <1>3, <1>4, <2>2, <2>3
<1>n. /\ known' \subseteq known \cup Sessions /\ reverse' \subseteq reverse \cup Sessions
      /\ known \subseteq known'
  BY <1>2, <1>9 DEF Sessions
<1>a. \A a \in answers' : a \in answers \/ /\ a \in [from : Streams, id : Sessions]
                                           /\ stream[a.from] = "live" /\ session'[a.from] = a.id
  <2> HIDE DEF written
  <2>1. {w[2] : w \in written} \subseteq Sessions
    BY <1>7
  <2> QED BY <1>2, <2>1
<1> HIDE DEF drawn, named, given, seats, written
<1>10. \A s \in Streams :
         \/ session'[s] = session[s] /\ ~\E g \in seats : g[1] = s
         \/ \E g \in seats : g[1] = s /\ session'[s] = g[2]
  BY <1>2
<1>11. \A g \in seats : session'[g[1]] = g[2]
  BY <1>5, <1>6, <1>8, <1>10
<1>12. \A g \in seats : Seated(g[1])
  BY <1>4, <1>5, <1>8, <1>11 DEF Seated
<1>13. \A s \in Streams : session'[s] = session[s] \/ Seated(s)
  BY <1>10, <1>12
<1>14. \A s : Seated(s) => \E g \in seats : g[1] = s
  <2> SUFFICES ASSUME NEW s, Seated(s) PROVE \E g \in seats : g[1] = s
    OBVIOUS
  <2>1. PICK m \in inbox : m.to = s /\ (Draws(m) \/ Names(m))
    BY DEF Seated
  <2>2. \E g \in given : g[1] = s
    <3>1. CASE Draws(m)
      <4>1. <<m.to, m.to>> \in given
        BY <3>1 DEF given, drawn
      <4> QED BY <2>1, <4>1
    <3>2. CASE Names(m)
      <4>1. <<m.to, Named(m)>> \in given
        BY <3>2 DEF given, named
      <4> QED BY <2>1, <4>1
    <3> QED BY <2>1, <3>1, <3>2
  <2> QED BY <2>2 DEF seats, Seated
<1>15. \A c \in Connections : \A id :
         id \in index'[c] <=> id \in index[c] \/ \E g \in seats : g[1] \in At(c) /\ g[2] = id
  BY <1>2
<1>16. \A s : Seated(s) => session'[s] \in index'[s[2]] /\ session'[s] \in known'
  <2> SUFFICES ASSUME NEW s, Seated(s)
               PROVE  session'[s] \in index'[s[2]] /\ session'[s] \in known'
    OBVIOUS
  <2>1. PICK g \in seats : g[1] = s
    BY <1>14
  <2>2. session'[s] = g[2] /\ s \in Streams /\ s[2] \in Connections /\ s \in At(s[2])
    BY <1>11, <1>f, <2>1 DEF Seated
  <2> QED BY <1>8, <1>15, <1>k, <2>1, <2>2
<1>17. \A c \in Connections : \A id \in index'[c] :
         id \in index[c] \/ \E s : Seated(s) /\ s[2] = c /\ session'[s] = id
  BY <1>11, <1>12, <1>15, <1>f
<1>18. \A c \in Connections : index[c] \subseteq index'[c]
  BY <1>15
<1>19. TypeOK'
  <2>1. session' \in [Streams -> Sessions \cup {None}]
    <3>1. \A s \in Streams : session'[s] \in Sessions \cup {None}
      BY <1>t, <1>5, <1>8, <1>10 DEF TypeOK
    <3> QED BY <1>2, <3>1
  <2>2. index' \in [Connections -> SUBSET Sessions]
    <3>1. \A c \in Connections : index'[c] \in SUBSET Sessions
      BY <1>t, <1>5, <1>8, <1>15 DEF TypeOK
    <3> QED BY <1>2, <3>1
  <2>3. answers' \subseteq [from : Streams, id : Sessions]
    BY <1>t, <1>a DEF TypeOK
  <2> QED BY <1>1, <1>n, <1>s, <1>t, <2>1, <2>2, <2>3 DEF TypeOK
<1> QED BY <1>1, <1>13, <1>16, <1>17, <1>18, <1>19, <1>n, <1>a

LEMMA CheckPeerStep == IInv /\ CheckPeerAuthenticated => IInv'
<1> SUFFICES ASSUME IInv, CheckPeerAuthenticated PROVE IInv' OBVIOUS
<1> DEFINE HasNow(cl, id) == id # None => id \in {cl} \X AuthConnections /\ session'[id] # None
<1>1. /\ stage' = "check_authenticated_peers_are_connected" /\ inbox' = {}
      /\ UNCHANGED <<setting, conn, stream, sent, told, flags>>
      /\ TypeOK'
      /\ \A s \in Streams : session'[s] = session[s] \/ Seated(s)
      /\ \A s : Seated(s) => /\ session'[s] \in index'[s[2]] /\ session'[s] \in known'
      /\ \A c \in Connections : index[c] \subseteq index'[c]
      /\ \A c \in Connections : \A id \in index'[c] :
           id \in index[c] \/ \E s : Seated(s) /\ s[2] = c /\ session'[s] = id
      /\ known \subseteq known'
      /\ \A a \in answers' : a \in answers \/ /\ stream[a.from] = "live"
                                              /\ session'[a.from] = a.id
  BY Seating
<1>s. /\ Clients' = Clients /\ Connections' = Connections /\ Streams' = Streams
      /\ AuthConnections' = AuthConnections /\ Sessions' = Sessions
  BY <1>1, SameSetting
<1>t. TypeOK
  BY DEF IInv
<1>f. /\ AuthConnections \subseteq Connections
      /\ None \notin Sessions /\ None \notin known
      /\ \A s \in Streams : s[1] \in Clients /\ s[2] \in Connections /\ s = <<s[1], s[2]>>
  BY <1>t, SettingFacts
\* Who has a session keeps it.
<1>2. \A s \in Streams : session[s] # None => session'[s] = session[s]
  BY <1>1 DEF Seated
<1>3. \A cl \in Clients : \A id : HasId(cl, id) => HasNow(cl, id)
  <2> SUFFICES ASSUME NEW cl \in Clients, NEW id, HasId(cl, id), id # None
               PROVE  id \in {cl} \X AuthConnections /\ session'[id] # None
    OBVIOUS
  <2>1. id \in {cl} \X AuthConnections /\ session[id] # None
    BY DEF HasId
  <2>2. id \in Streams
    BY <1>f, <2>1 DEF Streams
  <2> QED BY <1>2, <2>1, <2>2
\* The session of a stream that is seated is its own, or the one its message
\* names.
<1>4. \A s : Seated(s) => s \in Streams /\ stream[s] = "live" /\ session[s] = None
  BY DEF Seated
<1>5. \A s \in Streams : HasNow(s[1], session'[s])
  <2> SUFFICES ASSUME NEW s \in Streams, Seated(s) PROVE HasNow(s[1], session'[s])
    BY <1>1, <1>3, <1>f DEF IInv, IdsOwn
  <2>1. PICK m \in inbox : /\ m.to = s
                           /\ ((Draws(m) /\ session'[s] = s) \/ (Names(m) /\ session'[s] = m.names))
    BY DEF Seated
  <2>2. CASE Draws(m) /\ session'[s] = s
    <3>1. s \in {s[1]} \X AuthConnections
      BY <1>f, <2>1, <2>2 DEF Draws
    <3>2. session'[s] # None
      BY <1>f, <2>2 DEF Sessions
    <3> QED BY <2>2, <3>1, <3>2
  <2>3. CASE Names(m) /\ session'[s] = m.names
    <3>1. HasId(s[1], m.names)
      BY <2>1 DEF IInv, IdsOwn
    <3> QED BY <1>3, <1>f, <2>3, <3>1
  <2> QED BY <2>1, <2>2, <2>3
<1>6. IdsOwn'
  <2>1. \A cl \in Clients : HasNow(cl, told[cl])
    BY <1>3 DEF IInv, IdsOwn
  <2>2. \A m \in sent : HasNow(m.to[1], m.names)
    <3>1. \A m \in sent : m.to \in Streams
      BY <1>t DEF TypeOK
    <3> QED BY <1>3, <1>f, <3>1 DEF IInv, IdsOwn
  <2>3. \A a \in answers' : HasNow(a.from[1], a.id)
    <3>1. \A a \in answers' : a.from \in Streams
      BY <1>1, <1>s DEF TypeOK
    <3>2. \A a \in answers : HasId(a.from[1], a.id)
      BY DEF IInv, IdsOwn
    <3> QED BY <1>1, <1>3, <1>5, <1>f, <3>1, <3>2
  <2>4. \A m \in sent' \cup inbox' : HasNow(m.to[1], m.names)
    BY <1>1, <2>2
  <2> QED BY <1>1, <1>5, <1>s, <2>1, <2>3, <2>4 DEF IdsOwn, HasId
<1> HIDE DEF HasNow
<1>7. StreamsInv'
  <2>1. \A s \in Streams : stream[s] = "new" => session'[s] = None
    BY <1>1, <1>4 DEF IInv, StreamsInv
  <2>2. \A a \in answers' : stream[a.from] # "new"
    BY <1>1 DEF IInv, StreamsInv
  <2>3. \A c \in Connections : conn[c] = "new" => index'[c] = {}
    BY <1>1, <1>4 DEF IInv, StreamsInv
  <2> QED BY <1>1, <1>s, <2>1, <2>2, <2>3 DEF IInv, StreamsInv
<1>8. Indexed'
  <2>1. \A s \in Streams :
          stream[s] = "live" /\ session'[s] # None => session'[s] \in index'[s[2]]
    BY <1>1, <1>f DEF IInv, Indexed
  <2>2. ASSUME NEW c \in Connections, NEW id \in index'[c]
        PROVE  \E s \in Streams : s[2] = c /\ stream[s] = "live" /\ session'[s] = id
    <3>1. CASE id \in index[c]
      <4>1. PICK s \in Streams : s[2] = c /\ stream[s] = "live" /\ session[s] = id
        BY <3>1 DEF IInv, Indexed
      <4>2. id # None
        BY <1>t, <1>f, <3>1 DEF TypeOK
      <4> QED BY <1>2, <4>1, <4>2
    <3>2. CASE \E s : Seated(s) /\ s[2] = c /\ session'[s] = id
      BY <1>4, <3>2
    <3> QED BY <1>1, <2>2, <3>1, <3>2
  <2> QED BY <1>1, <1>s, <2>1, <2>2 DEF Indexed
<1>9. MailInv' /\ KnownEverywhere' /\ NamesThere'
  <2>1. MailInv'
    BY <1>1 DEF IInv, MailInv
  <2>2. KnownEverywhere'
    BY <1>1 DEF KnownEverywhere
  <2>3. NamesThere'
    BY <1>1 DEF NamesThere
  <2> QED BY <2>1, <2>2, <2>3
<1>10. NeverOnTwo'
  \* A session that was just given is on no other authentication connection.
  <2>1. ASSUME NEW s \in Streams, NEW t \in Streams, s # t,
               s[2] \in AuthConnections, t[2] \in AuthConnections,
               stream[t] = "live", Seated(s), session'[s] = session'[t], session'[s] # None
        PROVE  FALSE
    <3>1. PICK m \in inbox : /\ m.to = s
                             /\ ((Draws(m) /\ session'[s] = s) \/ (Names(m) /\ session'[s] = m.names))
      BY <2>1 DEF Seated
    <3>2. s[1] = t[1]
      BY <1>5, <2>1 DEF HasNow
    <3>3. s[2] # t[2]
      BY <1>f, <2>1, <3>2
    <3>4. CASE ~Seated(t)
      <4>1. session[t] = session'[s] /\ HasId(t[1], session[t])
        BY <1>1, <2>1, <3>4 DEF IInv, IdsOwn
      <4>2. session[session'[s]] # None
        BY <2>1, <4>1 DEF HasId
      <4>3. Names(m) /\ session'[s] = m.names
        BY <1>4, <2>1, <3>1, <4>2
      <4> QED BY <2>1, <3>1, <3>3, <4>1, <4>3 DEF IInv, NamesThere, Names
    <3>5. CASE Seated(t)
      <4>1. PICK n \in inbox : /\ n.to = t
                               /\ ((Draws(n) /\ session'[t] = t) \/ (Names(n) /\ session'[t] = n.names))
        BY <3>5 DEF Seated
      <4>2. HasId(s[1], m.names) /\ HasId(t[1], n.names)
        BY <3>1, <4>1 DEF IInv, IdsOwn
      <4>3. session[s] = None /\ session[t] = None
        BY <1>4, <2>1, <3>5
      <4>4. CASE Names(m) /\ session'[s] = m.names
        BY <2>1, <3>1, <3>3, <4>1, <4>4 DEF IInv, NamesThere, Names
      <4>5. CASE Names(n) /\ session'[t] = n.names
        BY <2>1, <3>1, <3>3, <4>1, <4>5 DEF IInv, NamesThere, Names
      <4>6. CASE session'[s] = s /\ session'[t] = t
        BY <2>1, <4>6
      <4> QED BY <3>1, <4>1, <4>4, <4>5, <4>6
    <3> QED BY <3>4, <3>5
  <2>2. ASSUME NEW s \in Streams, NEW t \in Streams, s # t,
               s[2] \in AuthConnections, t[2] \in AuthConnections,
               stream[s] = "live", stream[t] = "live", session'[s] # None
        PROVE  session'[s] # session'[t]
    <3>1. CASE Seated(s) \/ Seated(t)
      BY <2>1, <2>2, <3>1
    <3>2. CASE ~Seated(s) /\ ~Seated(t)
      BY <1>1, <2>2, <3>2 DEF IInv, NeverOnTwo
    <3> QED BY <3>1, <3>2
  <2> QED BY <1>1, <1>s, <2>2 DEF NeverOnTwo
<1>11. KnownAllAlong'
  <2> SUFFICES ASSUME Cardinality(AuthConnections) = 1, NEW c \in AuthConnections,
                      conn[c] = "open",
                      NEW id \in index'[c]
               PROVE  id \in known'
    BY <1>1, <1>s DEF KnownAllAlong
  <2>1. c \in Connections /\ index[c] \subseteq known
    BY <1>f DEF IInv, KnownAllAlong
  <2> QED BY <1>1, <2>1
<1>12. AnswersAgree'
  <2>1. \A a \in answers : a.from \in Streams /\ a.id # None
    BY <1>t, <1>f DEF TypeOK
  <2> QED BY <1>1, <1>2, <2>1 DEF IInv, AnswersAgree
<1>13. FlaggedOnceTold'
  BY <1>1, <1>2, <1>s DEF IInv, FlaggedOnceTold
<1> QED BY <1>1, <1>6, <1>7, <1>8, <1>9, <1>10, <1>11, <1>12, <1>13 DEF IInv

LEMMA CheckConnectedStep == IInv /\ CheckAuthenticatedPeersAreConnected => IInv'
<1> SUFFICES ASSUME IInv, CheckAuthenticatedPeersAreConnected PROVE IInv' OBVIOUS
<1>1. /\ stage = "check_authenticated_peers_are_connected" /\ stage' = "update"
      /\ known' = {s \in known : Kept(s)} /\ reverse' \subseteq reverse
      /\ UNCHANGED <<setting, conn, stream, session, index, inbox, answers, sent, told, flags>>
  BY DEF CheckAuthenticatedPeersAreConnected, GoTo, ServerOnly
<1>2. inbox = {}
  BY <1>1 DEF IInv, MailInv
<1>s. /\ Clients' = Clients /\ Connections' = Connections /\ Streams' = Streams
      /\ AuthConnections' = AuthConnections /\ Sessions' = Sessions /\ Open' = Open
  BY <1>1, SameSetting DEF Open
<1>3. TypeOK'
  <2>1. known' \subseteq known
    BY <1>1
  <2> QED BY <1>1, <1>s, <2>1 DEF IInv, TypeOK
<1>4. IdsOwn' /\ StreamsInv'
  BY <1>1, <1>s DEF IInv, IdsOwn, HasId, StreamsInv
<1>5. Indexed' /\ NeverOnTwo'
  BY <1>1, <1>s DEF IInv, Indexed, NeverOnTwo
<1>6. MailInv' /\ NamesThere'
  BY <1>1, <1>2, <1>s DEF IInv, MailInv, NamesThere
<1>7. KnownEverywhere'
  BY <1>1, <1>s DEF KnownEverywhere, Kept
<1>8. KnownAllAlong'
  <2> SUFFICES ASSUME Cardinality(AuthConnections) = 1, NEW c \in AuthConnections,
                      conn[c] = "open",
                      NEW id \in index[c]
               PROVE  id \in known'
    BY <1>1, <1>s DEF KnownAllAlong
  <2>1. \E x : AuthConnections = {x}
    BY SettingFacts, FS_Singleton DEF IInv
  <2>2. \A d \in Open \cap AuthConnections : d = c
    BY <2>1
  <2>3. id \in known
    BY DEF IInv, KnownAllAlong
  <2> QED BY <1>1, <2>2, <2>3 DEF Kept
<1>9. AnswersAgree' /\ FlaggedOnceTold'
  BY <1>1, <1>s DEF IInv, AnswersAgree, FlaggedOnceTold
<1> QED BY <1>3, <1>4, <1>5, <1>6, <1>7, <1>8, <1>9 DEF IInv

LEMMA DispatchStep == IInv /\ Dispatch => IInv'
<1> SUFFICES ASSUME IInv, Dispatch PROVE IInv' OBVIOUS
<1>1. PICK taken \in SUBSET {m \in sent : stream[m.to] = "live"} :
        /\ inbox' = {[to |-> m.to, names |-> m.names, anonymous |-> session[m.to] = None] :
                       m \in taken}
        /\ sent' = sent \ taken
  BY DEF Dispatch
<1>2. /\ stage = "update" /\ stage' = "first"
      /\ UNCHANGED <<setting, conn, stream, session, index, known, reverse, answers, told, flags>>
  BY DEF Dispatch, GoTo
<1>s. /\ Clients' = Clients /\ Connections' = Connections /\ Streams' = Streams
      /\ AuthConnections' = AuthConnections /\ Sessions' = Sessions
  BY <1>2, SameSetting
<1>t. TypeOK
  BY DEF IInv
\* What is dispatched comes from a stream that lives.
<1>3. \A m \in inbox' :
        \E x \in sent : /\ m.to = x.to /\ m.names = x.names
                        /\ m.anonymous = (session[x.to] = None) /\ stream[x.to] = "live"
  BY <1>1
<1>4. TypeOK'
  <2>1. inbox' \subseteq [to : Streams, names : Sessions \cup {None}, anonymous : BOOLEAN]
    <3>1. \A m \in taken : m.to \in Streams /\ m.names \in Sessions \cup {None}
      BY <1>1, <1>t DEF TypeOK
    <3>2. \A m \in taken : (session[m.to] = None) \in BOOLEAN
      OBVIOUS
    <3>3. \A m \in taken :
            [to |-> m.to, names |-> m.names, anonymous |-> session[m.to] = None]
              \in [to : Streams, names : Sessions \cup {None}, anonymous : BOOLEAN]
      BY <3>1, <3>2
    <3> QED BY <1>1, <3>3
  <2>2. sent' \subseteq [to : Streams, names : Sessions \cup {None}]
    BY <1>1, <1>t DEF TypeOK
  <2> QED BY <1>t, <1>2, <1>s, <2>1, <2>2 DEF TypeOK
<1>5. IdsOwn'
  <2>1. \A m \in sent' \cup inbox' : HasId(m.to[1], m.names)
    BY <1>1, <1>3 DEF IInv, IdsOwn
  <2> QED BY <1>2, <1>s, <2>1 DEF IInv, IdsOwn, HasId
<1>6. StreamsInv'
  BY <1>2, <1>s DEF IInv, StreamsInv
<1>7. Indexed' /\ NeverOnTwo'
  BY <1>2, <1>s DEF IInv, Indexed, NeverOnTwo
<1>8. MailInv'
  <2>1. \A m, n \in sent' : m.to = n.to => m = n
    BY <1>1 DEF IInv, MailInv
  <2>2. \A m, n \in inbox' : m.to = n.to => m = n
    <3> SUFFICES ASSUME NEW x \in taken, NEW y \in taken, x.to = y.to PROVE x = y
      BY <1>1
    <3> QED BY <1>1 DEF IInv, MailInv
  <2>3. \A m \in inbox' : m.anonymous => session[m.to] = None
    BY <1>3
  <2> QED BY <1>2, <2>1, <2>2, <2>3 DEF MailInv
<1>9. KnownEverywhere'
  BY <1>2 DEF KnownEverywhere
<1>10. NamesThere'
  \* A known session is at every open authentication connection, so at one.
  <2>1. ASSUME NEW m \in inbox', m.to[2] \in AuthConnections, m.names \in known,
               NEW c \in AuthConnections, conn[c] = "open"
        PROVE  c = m.to[2]
    <3>1. PICK x \in sent : m.to = x.to /\ m.names = x.names /\ stream[x.to] = "live"
      BY <1>3
    <3>2. m.to \in Streams /\ m.names # LocalSession /\ m.names # None
      BY <1>t, <2>1, <3>1, SettingFacts DEF TypeOK
    <3>3. {c, m.to[2]} \subseteq Open \cap AuthConnections
      BY <1>t, <2>1, <3>1, <3>2, SettingFacts DEF IInv, StreamsInv, Open
    <3>4. m.names \in index[c] /\ m.names \in index[m.to[2]]
      BY <1>2, <2>1, <3>2, <3>3 DEF IInv, KnownEverywhere
    <3>5. PICK s \in Streams : s[2] = c /\ stream[s] = "live" /\ session[s] = m.names
      BY <3>3, <3>4 DEF IInv, Indexed, Open
    <3>6. PICK t \in Streams : t[2] = m.to[2] /\ stream[t] = "live" /\ session[t] = m.names
      BY <3>3, <3>4 DEF IInv, Indexed, Open
    <3>7. s = t
      BY <2>1, <3>2, <3>5, <3>6 DEF IInv, NeverOnTwo
    <3> QED BY <3>5, <3>6, <3>7
  <2>2. \A t \in Streams : stream[t] = "live" => conn[t[2]] = "open"
    BY DEF IInv, StreamsInv
  <2>3. \A n \in inbox' : n.to \in Streams /\ stream[n.to] = "live"
    <3>1. \A x \in sent : x.to \in Streams
      BY <1>t DEF TypeOK
    <3> QED BY <1>3, <3>1
  <2> QED BY <1>2, <1>s, <2>1, <2>2, <2>3 DEF NamesThere
<1>11. KnownAllAlong'
  BY <1>2, <1>s DEF IInv, KnownAllAlong
<1>12. AnswersAgree' /\ FlaggedOnceTold'
  BY <1>2, <1>s DEF IInv, AnswersAgree, FlaggedOnceTold
<1> QED BY <1>4, <1>5, <1>6, <1>7, <1>8, <1>9, <1>10, <1>11, <1>12 DEF IInv

-----------------------------------------------------------------------------
(* The application starts and closes connections. *)

LEMMA StartStep ==
    ASSUME NEW c \in Connections, IInv, StartConnection(c)
    PROVE  IInv'
<1>1. /\ stage = "first" /\ conn[c] = "new" /\ conn' = [conn EXCEPT ![c] = "open"]
      /\ UNCHANGED <<setting, stage, stream, session, index, known, reverse, inbox, answers,
                     sent, told, flags>>
  BY DEF StartConnection, ServerOnly
<1>s. /\ Clients' = Clients /\ Connections' = Connections /\ Streams' = Streams
      /\ AuthConnections' = AuthConnections /\ Sessions' = Sessions
  BY <1>1, SameSetting
<1>t. TypeOK
  BY DEF IInv
<1>2. /\ conn' \in [Connections -> {"new", "open", "closed"}]
      /\ \A d \in Connections : conn'[d] = IF d = c THEN "open" ELSE conn[d]
  BY <1>1, <1>t DEF TypeOK
<1>3. TypeOK'
  BY <1>1, <1>2, <1>s, <1>t DEF TypeOK
<1>4. IdsOwn'
  BY <1>1, <1>s DEF IInv, IdsOwn, HasId
<1>5. StreamsInv'
  <2>1. \A s \in Streams : s[2] \in Connections
    BY <1>t, SettingFacts
  <2> QED BY <1>1, <1>2, <1>s, <2>1 DEF IInv, StreamsInv
<1>6. Indexed' /\ NeverOnTwo'
  BY <1>1, <1>s DEF IInv, Indexed, NeverOnTwo
<1>7. MailInv' /\ KnownEverywhere'
  BY <1>1 DEF IInv, MailInv, KnownEverywhere
<1>8. NamesThere'
  BY <1>1, <1>s DEF IInv, NamesThere
<1>9. KnownAllAlong'
  <2>1. index[c] = {}
    BY <1>1 DEF IInv, StreamsInv
  <2>2. AuthConnections \subseteq Connections
    BY <1>t, SettingFacts
  <2> QED BY <1>1, <1>2, <1>s, <2>1, <2>2 DEF IInv, KnownAllAlong
<1>10. AnswersAgree' /\ FlaggedOnceTold'
  BY <1>1, <1>s DEF IInv, AnswersAgree, FlaggedOnceTold
<1> QED BY <1>3, <1>4, <1>5, <1>6, <1>7, <1>8, <1>9, <1>10 DEF IInv

LEMMA CloseStep ==
    ASSUME NEW c \in Connections, IInv, CloseConnection(c)
    PROVE  IInv'
<1>1. /\ stage = "first" /\ conn[c] = "open" /\ conn' = [conn EXCEPT ![c] = "closed"]
      /\ stream' = [s \in Streams |-> IF s \in At(c) THEN "gone" ELSE stream[s]]
      /\ index' = [index EXCEPT ![c] = {}]
      /\ UNCHANGED <<setting, stage, session, known, reverse, inbox, answers, sent, told, flags>>
  BY DEF CloseConnection, ServerOnly
<1>s. /\ Clients' = Clients /\ Connections' = Connections /\ Streams' = Streams
      /\ AuthConnections' = AuthConnections /\ Sessions' = Sessions
  BY <1>1, SameSetting
<1>t. TypeOK
  BY DEF IInv
<1>2. /\ \A d \in Connections : conn'[d] = IF d = c THEN "closed" ELSE conn[d]
      /\ \A d \in Connections : index'[d] = IF d = c THEN {} ELSE index[d]
      /\ \A s \in Streams : stream'[s] = IF s[2] = c THEN "gone" ELSE stream[s]
      /\ \A s \in Streams : s[2] \in Connections
  BY <1>1, <1>t, SettingFacts DEF TypeOK
<1>3. TypeOK'
  <2>1. /\ conn' \in [Connections -> {"new", "open", "closed"}]
        /\ stream' \in [Streams -> {"new", "live", "gone"}]
        /\ index' \in [Connections -> SUBSET Sessions]
    BY <1>1, <1>t DEF TypeOK
  <2> QED BY <1>1, <1>s, <1>t, <2>1 DEF TypeOK
<1>4. IdsOwn'
  BY <1>1, <1>s DEF IInv, IdsOwn, HasId
<1>5. StreamsInv'
  <2>1. \A a \in answers : a.from \in Streams
    BY <1>t DEF TypeOK
  <2> QED BY <1>1, <1>2, <1>s, <2>1 DEF IInv, StreamsInv
<1>6. Indexed'
  BY <1>1, <1>2, <1>s DEF IInv, Indexed
<1>7. NeverOnTwo'
  BY <1>1, <1>2, <1>s DEF IInv, NeverOnTwo
<1>8. MailInv' /\ KnownEverywhere'
  BY <1>1 DEF IInv, MailInv, KnownEverywhere
<1>9. NamesThere'
  BY <1>1, <1>2, <1>s DEF IInv, NamesThere
<1>10. KnownAllAlong'
  <2>1. AuthConnections \subseteq Connections
    BY <1>t, SettingFacts
  <2> QED BY <1>1, <1>2, <1>s, <2>1 DEF IInv, KnownAllAlong
<1>11. AnswersAgree'
  <2>1. \A a \in answers : a.from \in Streams
    BY <1>t DEF TypeOK
  <2> QED BY <1>1, <1>2, <2>1 DEF IInv, AnswersAgree
<1>12. FlaggedOnceTold'
  BY <1>1, <1>2, <1>s DEF IInv, FlaggedOnceTold
<1> QED BY <1>3, <1>4, <1>5, <1>6, <1>7, <1>8, <1>9, <1>10, <1>11, <1>12 DEF IInv

-----------------------------------------------------------------------------
(* The clients. *)

LEMMA AskStep ==
    ASSUME NEW cl \in Clients, NEW c \in Connections, IInv, Ask(cl, c)
    PROVE  IInv'
<1> DEFINE asked == [to |-> <<cl, c>>, names |-> told[cl]]
<1>1. /\ ~\E m \in sent : m.to = <<cl, c>>
      /\ sent' = sent \cup {asked}
      /\ UNCHANGED <<setting, stage, conn, stream, session, index, known, reverse, inbox, answers,
                     told, flags>>
  BY DEF Ask
<1>s. /\ Clients' = Clients /\ Connections' = Connections /\ Streams' = Streams
      /\ AuthConnections' = AuthConnections /\ Sessions' = Sessions
  BY <1>1, SameSetting
<1>t. TypeOK
  BY DEF IInv
<1>2. asked.to = <<cl, c>> /\ asked.to[1] = cl /\ asked.names = told[cl]
  OBVIOUS
<1>3. TypeOK'
  <2>1. asked \in [to : Streams, names : Sessions \cup {None}]
    BY <1>t DEF TypeOK, Streams
  <2> HIDE DEF asked
  <2> QED BY <1>1, <1>s, <1>t, <2>1 DEF TypeOK
<1> HIDE DEF asked
<1>4. IdsOwn'
  <2>1. \A m \in sent' \cup inbox : HasId(m.to[1], m.names)
    BY <1>1, <1>2 DEF IInv, IdsOwn
  <2> QED BY <1>1, <1>s, <2>1 DEF IInv, IdsOwn, HasId
<1>5. StreamsInv' /\ Indexed' /\ NeverOnTwo'
  BY <1>1, <1>s DEF IInv, StreamsInv, Indexed, NeverOnTwo
<1>6. MailInv'
  BY <1>1, <1>2 DEF IInv, MailInv
<1>7. KnownEverywhere' /\ NamesThere' /\ KnownAllAlong'
  <2>1. Open' = Open
    BY <1>1, <1>s DEF Open
  <2> QED BY <1>1, <1>s, <2>1 DEF IInv, KnownEverywhere, NamesThere, KnownAllAlong
<1>8. AnswersAgree' /\ FlaggedOnceTold'
  BY <1>1, <1>s DEF IInv, AnswersAgree, FlaggedOnceTold
<1> QED BY <1>3, <1>4, <1>5, <1>6, <1>7, <1>8 DEF IInv

LEMMA TakeAnswerStep ==
    ASSUME NEW a \in answers, IInv, TakeAnswer(a)
    PROVE  IInv'
<1>1. /\ answers' = answers \ {a}
      /\ told' = [told EXCEPT ![a.from[1]] = a.id]
      /\ flags' = [flags EXCEPT ![a.from[1]] = @ \cup {a.from[2]}]
      /\ UNCHANGED <<setting, stage, conn, stream, session, index, known, reverse, sent, inbox>>
  BY DEF TakeAnswer
<1>s. /\ Clients' = Clients /\ Connections' = Connections /\ Streams' = Streams
      /\ AuthConnections' = AuthConnections /\ Sessions' = Sessions
  BY <1>1, SameSetting
<1>t. TypeOK
  BY DEF IInv
<1>2. /\ a.from \in Streams /\ a.from = <<a.from[1], a.from[2]>>
      /\ a.from[1] \in Clients /\ a.from[2] \in Connections
      /\ a.id \in Sessions /\ a.id # None
  BY <1>t, SettingFacts DEF TypeOK
<1>3. /\ \A cl \in Clients : told'[cl] = IF cl = a.from[1] THEN a.id ELSE told[cl]
      /\ \A cl \in Clients : flags'[cl] = IF cl = a.from[1] THEN flags[cl] \cup {a.from[2]}
                                          ELSE flags[cl]
  BY <1>1, <1>t DEF TypeOK
<1>4. \A s \in Streams : s[1] \in Clients /\ s = <<s[1], s[2]>>
  BY <1>t, SettingFacts
<1>5. TypeOK'
  <2>1. told' \in [Clients -> Sessions \cup {None}]
        /\ flags' \in [Clients -> SUBSET Connections]
    BY <1>1, <1>2, <1>t DEF TypeOK
  <2> QED BY <1>1, <1>s, <1>t, <2>1 DEF TypeOK
<1>6. IdsOwn'
  <2>1. \A cl \in Clients : HasId(cl, told'[cl])
    BY <1>3 DEF IInv, IdsOwn
  <2> QED BY <1>1, <1>s, <2>1 DEF IInv, IdsOwn, HasId
<1>7. StreamsInv'
  <2>1. ASSUME NEW s \in Streams, stream[s] = "new" PROVE s[2] \notin flags'[s[1]]
    <3>1. s # a.from /\ s[2] \notin flags[s[1]]
      BY <2>1 DEF IInv, StreamsInv
    <3>2. s[1] # a.from[1] \/ s[2] # a.from[2]
      BY <1>2, <1>4, <3>1
    <3> QED BY <1>3, <1>4, <3>1, <3>2
  <2> QED BY <1>1, <1>s, <2>1 DEF IInv, StreamsInv
<1>8. Indexed' /\ NeverOnTwo' /\ MailInv'
  BY <1>1, <1>s DEF IInv, Indexed, NeverOnTwo, MailInv
<1>9. KnownEverywhere' /\ NamesThere' /\ KnownAllAlong'
  <2>1. Open' = Open
    BY <1>1, <1>s DEF Open
  <2> QED BY <1>1, <1>s, <2>1 DEF IInv, KnownEverywhere, NamesThere, KnownAllAlong
<1>10. AnswersAgree'
  BY <1>1 DEF IInv, AnswersAgree
<1>11. FlaggedOnceTold'
  <2>1. stream[a.from] = "live" => session[a.from] # None
    BY <1>2 DEF IInv, AnswersAgree
  <2>2. ASSUME NEW s \in Streams, s[2] \in flags'[s[1]]
        PROVE  told'[s[1]] # None /\ (stream[s] = "live" => session[s] # None)
    <3>1. CASE s[2] \in flags[s[1]]
      BY <1>2, <1>3, <1>4, <3>1 DEF IInv, FlaggedOnceTold
    <3>2. CASE s[2] \notin flags[s[1]]
      <4>1. s[1] = a.from[1] /\ s[2] = a.from[2]
        BY <1>3, <1>4, <2>2, <3>2
      <4>2. s = a.from
        BY <1>2, <1>4, <4>1
      <4> QED BY <1>2, <1>3, <1>4, <2>1, <4>1, <4>2
    <3> QED BY <3>1, <3>2
  <2> QED BY <1>1, <1>s, <2>2 DEF FlaggedOnceTold
<1> QED BY <1>5, <1>6, <1>7, <1>8, <1>9, <1>10, <1>11 DEF IInv

LEMMA StutterStep == IInv /\ UNCHANGED vars => IInv'
<1> SUFFICES ASSUME IInv, UNCHANGED vars PROVE IInv' OBVIOUS
<1>1. /\ Clients' = Clients /\ Connections' = Connections /\ Streams' = Streams
      /\ AuthConnections' = AuthConnections /\ Sessions' = Sessions /\ Open' = Open
  BY SameSetting DEF vars, Open
<1>2. TypeOK' /\ IdsOwn' /\ StreamsInv'
  BY <1>1 DEF IInv, vars, TypeOK, IdsOwn, HasId, StreamsInv
<1>3. Indexed' /\ MailInv' /\ NeverOnTwo'
  BY <1>1 DEF IInv, vars, Indexed, MailInv, NeverOnTwo
<1>4. KnownEverywhere' /\ NamesThere' /\ KnownAllAlong'
  BY <1>1 DEF IInv, vars, KnownEverywhere, NamesThere, KnownAllAlong
<1>5. AnswersAgree' /\ FlaggedOnceTold'
  BY <1>1 DEF IInv, vars, AnswersAgree, FlaggedOnceTold
<1> QED BY <1>2, <1>3, <1>4, <1>5 DEF IInv

-----------------------------------------------------------------------------
(* The theorems. *)

\* The invariant holds in every state the server and its clients can reach.
THEOREM Invariance == Spec => []IInv
<1>1. Init => IInv
  BY InitInvariant
<1>2. IInv /\ [Next]_vars => IInv'
  <2> SUFFICES ASSUME IInv, [Next]_vars PROVE IInv' OBVIOUS
  <2>1. CASE Server
    BY <2>1, FirstStep, CheckPeerStep, CheckConnectedStep, DispatchStep DEF Server
  <2>2. CASE \E c \in Connections : StartConnection(c) \/ CloseConnection(c)
    BY <2>2, StartStep, CloseStep
  <2>3. CASE \E cl \in Clients, c \in Connections : Ask(cl, c)
    BY <2>3, AskStep
  <2>4. CASE \E a \in answers : TakeAnswer(a)
    BY <2>4, TakeAnswerStep
  <2>5. CASE UNCHANGED vars
    BY <2>5, StutterStep
  <2> QED BY <2>1, <2>2, <2>3, <2>4, <2>5 DEF Next
<1> QED BY <1>1, <1>2, PTL DEF Spec

\* Where one connection authenticates, what is known stays within the types, a
\* client has one identity on all of its connections and no other client's, and
\* AuthenticatedSessions knows it as long as its authentication stream lives.
THEOREM SessionsInvAlways == Spec => []SessionsInv
<1>1. IInv => SessionsInv
  <2> SUFFICES ASSUME IInv PROVE SessionsInv OBVIOUS
  <2>1. OneIdentity
    BY DEF IInv, IdsOwn, HasId, OneIdentity
  <2>2. KnownWhileConnected
    BY DEF IInv, KnownAllAlong, KnownWhileConnected
  <2> QED BY <2>1, <2>2 DEF IInv, SessionsInv
<1> QED BY <1>1, Invariance, PTL

\* A client that takes itself for authenticated on a connection was told the
\* identity that the server has for it there, and that the port's
\* peers_authenticated has.
THEOREM FlagsAgreeAlways == Spec => []FlagsAgree
<1>1. IInv => FlagsAgree
  <2> SUFFICES ASSUME IInv, Cardinality(AuthConnections) = 1,
                      NEW s \in Streams, s[2] \in flags[s[1]], stream[s] = "live"
               PROVE  session[s] = told[s[1]] /\ session[s] \in index[s[2]]
    BY DEF FlagsAgree
  <2>1. PICK x : AuthConnections = {x}
    BY SettingFacts, FS_Singleton DEF IInv
  <2>2. told[s[1]] # None /\ session[s] # None
    BY DEF IInv, FlaggedOnceTold
  <2>3. s[1] \in Clients
    BY SettingFacts DEF IInv
  <2>4. told[s[1]] \in {s[1]} \X {x} /\ session[s] \in {s[1]} \X {x}
    BY <2>1, <2>2, <2>3 DEF IInv, IdsOwn, HasId
  <2>5. session[s] \in index[s[2]]
    BY <2>2 DEF IInv, Indexed
  <2> QED BY <2>4, <2>5
<1> QED BY <1>1, Invariance, PTL

\* Two open authentication connections undo each other, however many there are:
\* no session is ever on two of them, so check_authenticated_peers_are_connected
\* leaves no remote client known.
THEOREM TwoUndoEachOtherAlways == Spec => []TwoUndoEachOther
<1>1. IInv => TwoUndoEachOther
  <2> SUFFICES ASSUME IInv, stage = "update", Cardinality(Open \cap AuthConnections) > 1,
                      NEW id \in known, id # LocalSession
               PROVE  FALSE
    BY DEF IInv, TwoUndoEachOther, TwoKnowNobody
  <2> DEFINE both == Open \cap AuthConnections
  <2>1. IsFiniteSet(both)
    BY SettingFacts, FS_Subset DEF IInv
  <2>2. PICK c \in both, d \in both : c # d
    <3>1. both # {}
      BY FS_EmptySet
    <3>2. PICK x : x \in both
      BY <3>1
    <3>3. both # {x}
      BY FS_Singleton
    <3> QED BY <3>2, <3>3
  <2>3. id \in index[c] /\ id \in index[d]
    BY <2>2 DEF IInv, KnownEverywhere
  <2>4. PICK s \in Streams : s[2] = c /\ stream[s] = "live" /\ session[s] = id
    BY <2>2, <2>3 DEF IInv, Indexed, Open
  <2>5. PICK t \in Streams : t[2] = d /\ stream[t] = "live" /\ session[t] = id
    BY <2>2, <2>3 DEF IInv, Indexed, Open
  <2>6. id # None
    BY SettingFacts DEF IInv
  <2> QED BY <2>2, <2>4, <2>5, <2>6 DEF IInv, NeverOnTwo
<1> QED BY <1>1, Invariance, PTL
=============================================================================
