--------------------------- MODULE UdpLink_proofs ---------------------------
(***************************************************************************)
(* Proofs about a UDP port and its session at the server, for every ping   *)
(* interval, timeout and bound on the losses. Either side's clock of       *)
(* answers is bounded by the other side's clock of pings and what the lost *)
(* datagrams cost, one ping interval each (Slack); a ping in flight, and a *)
(* client that is not authenticated yet, are what needs care.              *)
(***************************************************************************)
EXTENDS UdpLink, TLAPS

Has(datagrams, kind) == \E d \in datagrams : d.kind = kind

\* Ticks that n datagrams cost.
Slack(n) == PingEvery * n

\* Few losses and no chatter, or no loss and no ping that was not looked at.
Good ==
    \/ ~Chats /\ Slack(losses + 1) < Timeout
    \/ MaxLosses = 0 /\ ~displaced

\* The client is up and pings in time; it believes that it is authenticated
\* only if it is.
ClientSound ==
    /\ client.up /\ client.sincePing <= PingEvery
    /\ clientNext = "update" \/ "client" \in ran => client.sincePing < PingEvery
    /\ \A d \in toServer : ~d.stale
    /\ Has(toServer, "ping") => client.sincePing = 0
    /\ Has(toServer, "chat") => Chats
    /\ client.authed \/ Has(toClient, "answer") => entry.present /\ entry.authed

\* Until the server has a session, every tick takes the loss of what the client
\* asked in it.
NoSessionYet ==
    ~entry.present =>
      /\ asked = "no"
      /\ client.sincePing <= client.sincePong /\ client.sincePong <= losses
      /\ client.sincePong = 0 => ~Has(toServer, "ping")
      /\ "client" \in ran => client.sincePong < losses \/ toServer # {}

\* A session without a peer is given one in the next frame, or the server fails
\* in it.
NewSession ==
    entry.present /\ ~entry.authed =>
      /\ serverNext # "update" /\ asked \in {"no", "anonymous"}
      /\ entry.sincePong = entry.age /\ entry.sincePing = entry.age /\ entry.age <= 1
      /\ entry.age = 1 => asked = "no" /\ "server" \notin ran

\* The server pings the client in time.
ServerPingsInTime ==
    /\ entry.present =>
         /\ ~entry.stale /\ entry.sincePing <= PingEvery
         /\ entry.authed /\ (serverNext # "first" \/ "server" \in ran) => entry.sincePing < PingEvery
         /\ entry.authed => asked # "anonymous"
         /\ \/ client.sincePong <= entry.sincePing + Slack(losses)
            \/ Has(toClient, "ping") /\ client.sincePong <= Slack(losses + 1)
    /\ Has(toClient, "ping") => entry.present /\ entry.sincePing = 0

\* The client is not authenticated, and will be in this tick unless a datagram
\* is lost.
Pending ==
    "client" \notin ran \/ Has(toServer, "auth") \/ asked # "no" \/ Has(toClient, "answer")

\* The client pings the server in time, and a ping that an authentication
\* message displaces costs no more than the losses that made it ask again.
ClientPingsInTime ==
    entry.present /\ (entry.authed \/ asked = "anonymous") =>
      /\ ~client.authed \/ Has(toServer, "auth") => entry.sincePong <= losses
      /\ ~client.authed => entry.sincePong < losses \/ Pending
      /\ \/ entry.sincePong <= client.sincePing + Slack(losses)
         \/ Has(toServer, "ping") /\ entry.sincePong <= Slack(losses + 1)
      /\ losses = 0 /\ entry.authed => client.authed \/ Has(toClient, "answer")

Linked == ClientSound /\ NoSessionYet /\ NewSession /\ ServerPingsInTime /\ ClientPingsInTime

\* With nothing lost and no chatter a session is made by an authentication
\* message.
NeverFails ==
    MaxLosses = 0 /\ ~Chats =>
      ~panicked /\ (entry.present /\ ~entry.authed => asked = "anonymous")

\* As long as the client sent nothing else before it was authenticated, and the
\* server gave up on nobody, a session without a peer was made by an
\* authentication message.
Asking ==
    early \/ dropped \/
      /\ ~panicked
      /\ client.authed \/ Has(toClient, "answer") => entry.present
      /\ (\E d \in toServer : d.kind # "auth") => entry.present
      /\ entry.present /\ ~entry.authed => asked = "anonymous" /\ serverNext # "update"

IInv ==
    /\ TypeOK /\ Asking /\ NeverFails
    /\ Good => ~dropped
    /\ Good /\ ~panicked => Linked

-----------------------------------------------------------------------------
(* Numbers. *)

LEMMA SettingFacts ==
    ASSUME TypeOK
    PROVE  /\ PingEvery \in Nat /\ PingEvery >= 1 /\ Timeout \in Nat /\ PingEvery < Timeout
           /\ {FixedPort, Chats} \subseteq BOOLEAN
           /\ MaxLosses \in Nat /\ losses \in Nat /\ losses <= MaxLosses
BY LinkAssumption DEF TypeOK, PingEvery, Timeout, FixedPort, Chats, MaxLosses

LEMMA SlackFacts ==
    ASSUME TypeOK, NEW n \in Nat
    PROVE  Slack(n) \in Nat /\ n <= Slack(n) /\ Slack(n + 1) = Slack(n) + PingEvery
<1>1. PingEvery \in Nat /\ PingEvery >= 1
  BY SettingFacts
<1>2. \A p, q \in Nat : p * q \in Nat
  OBVIOUS
<1>3. \A p, q \in Nat : p * (q + 1) = p * q + p
  OBVIOUS
<1>4. \A q \in Nat : 1 * q = q
  OBVIOUS
<1>5. \A p, q \in Nat : (p + 1) * q = p * q + q
  OBVIOUS
<1>6. PICK p \in Nat : PingEvery = p + 1
  <2>1. PingEvery - 1 \in Nat /\ PingEvery = (PingEvery - 1) + 1
    BY <1>1
  <2> QED BY <2>1
<1>7. Slack(n) = p * n + n
  BY <1>5, <1>6 DEF Slack
<1> QED BY <1>1, <1>2, <1>3, <1>7 DEF Slack

\* What a good link may rely on.
LEMMA GoodFacts ==
    ASSUME TypeOK, Good
    PROVE  /\ Slack(losses + 1) < Timeout
           /\ Chats => losses = 0 /\ ~displaced
<1>1. CASE ~Chats /\ Slack(losses + 1) < Timeout
  BY <1>1
<1>2. CASE MaxLosses = 0 /\ ~displaced
  <2>1. losses = 0
    BY <1>2, SettingFacts
  <2>2. Slack(losses + 1) = PingEvery
    BY <2>1, SettingFacts DEF Slack
  <2> QED BY <1>2, <2>1, <2>2, SettingFacts
<1> QED BY <1>1, <1>2 DEF Good

LEMMA OlderFacts ==
    ASSUME TypeOK, NEW age \in Age
    PROVE  /\ Older(age) \in Age /\ Older(age) <= age + 1 /\ age <= Older(age)
           /\ age < Timeout => Older(age) = age + 1
BY SettingFacts DEF Older, Age

-----------------------------------------------------------------------------
(* The clocks and the queues keep their types. *)

LEMMA TypeInit == Init => TypeOK
<1> SUFFICES ASSUME Init PROVE TypeOK OBVIOUS
<1>1. setting \in Settings
  BY DEF Init
<1>2. Timeout \in Nat /\ MaxLosses \in Nat
  BY <1>1, LinkAssumption DEF Timeout, MaxLosses
<1>3. client \in [up : BOOLEAN, authed : BOOLEAN, sincePong : Age, sincePing : Age]
  BY <1>2 DEF Init, NewPort, Age
<1>4. {panicked, dropped, early, displaced} \subseteq BOOLEAN
  BY DEF Init
<1>5. losses \in 0..MaxLosses
  BY <1>2 DEF Init
<1> QED BY <1>1, <1>3, <1>4, <1>5 DEF Init, TypeOK

LEMMA TypeStep == TypeOK /\ [Next]_vars => TypeOK'
<1> SUFFICES ASSUME TypeOK, [Next]_vars PROVE TypeOK' OBVIOUS
<1>0. /\ Timeout \in Nat /\ MaxLosses \in Nat /\ 0 \in Age
      /\ \A age \in Age : Older(age) \in Age
      /\ Pings \in BOOLEAN /\ GivesUp \in BOOLEAN /\ Asks \in BOOLEAN
      /\ setting' = setting => Age' = Age /\ MaxLosses' = MaxLosses
  BY SettingFacts, OlderFacts DEF Age, Pings, GivesUp, Asks, Timeout, MaxLosses
<1>u. /\ client \in [up : BOOLEAN, authed : BOOLEAN, sincePong : Age, sincePing : Age]
      /\ entry = NoEntry \/ entry \in [present : {TRUE}, authed : BOOLEAN, stale : BOOLEAN,
                                       age : Age, sincePong : Age, sincePing : Age]
      /\ toServer \subseteq [kind : {"auth", "ping", "chat"}, stale : BOOLEAN]
      /\ toClient \subseteq [kind : {"ping", "answer"}]
  BY DEF TypeOK
<1>e. entry.present => entry \in [present : {TRUE}, authed : BOOLEAN, stale : BOOLEAN,
                                  age : Age, sincePong : Age, sincePing : Age]
  <2>1. NoEntry.present = FALSE
    BY DEF NoEntry
  <2>2. entry = NoEntry => ~entry.present
    BY <2>1
  <2> QED BY <1>u, <2>2
<1>1. CASE ClientFirst /\ Restart
  <2>1. client' \in [up : BOOLEAN, authed : BOOLEAN, sincePong : Age, sincePing : Age]
    BY <1>0, <1>1, <1>u DEF Restart, NewPort
  <2>2. /\ entry' = NoEntry \/ entry' \in [present : {TRUE}, authed : BOOLEAN, stale : BOOLEAN,
                                           age : Age, sincePong : Age, sincePing : Age]
        /\ toServer' \subseteq [kind : {"auth", "ping", "chat"}, stale : BOOLEAN]
        /\ toClient' \subseteq [kind : {"ping", "answer"}]
    <3>1. CASE FixedPort
      BY <1>1, <1>u, <3>1 DEF Restart
    <3>2. CASE ~FixedPort
      <4>1. \A d \in toServer : [d EXCEPT !.stale = TRUE] \in [kind : {"auth", "ping", "chat"}, stale : BOOLEAN]
        BY <1>u
      <4>2. toServer' = {[d EXCEPT !.stale = TRUE] : d \in toServer} /\ toClient' = {}
            /\ entry' = IF entry.present THEN [entry EXCEPT !.stale = TRUE] ELSE entry
        BY <1>1, <3>2 DEF Restart
      <4>3. toServer' \subseteq [kind : {"auth", "ping", "chat"}, stale : BOOLEAN]
        BY <4>1, <4>2
      <4>4. CASE entry.present
        BY <1>e, <4>2, <4>3, <4>4
      <4>5. CASE ~entry.present
        BY <1>u, <4>2, <4>3, <4>5
      <4> QED BY <4>4, <4>5
    <3> QED BY <3>1, <3>2
  <2> QED BY <1>0, <1>1, <2>1, <2>2 DEF TypeOK, ClientFirst, Restart, ClientOnly
<1>2. CASE ClientFirst /\ PingAndCheck
  <2>1. client' \in [up : BOOLEAN, authed : BOOLEAN, sincePong : Age, sincePing : Age]
    BY <1>0, <1>2, <1>u DEF PingAndCheck
  <2>2. toServer' \subseteq [kind : {"auth", "ping", "chat"}, stale : BOOLEAN]
    <3>1. [kind |-> "ping", stale |-> FALSE] \in [kind : {"auth", "ping", "chat"}, stale : BOOLEAN]
      OBVIOUS
    <3>2. toServer' \subseteq toServer \cup {[kind |-> "ping", stale |-> FALSE]}
      BY <1>2 DEF PingAndCheck
    <3> QED BY <1>u, <3>1, <3>2
  <2>3. early' \in BOOLEAN
    BY <1>2 DEF PingAndCheck
  <2> QED BY <1>0, <1>2, <2>1, <2>2, <2>3 DEF TypeOK, ClientFirst, PingAndCheck, ClientOnly
<1>3. CASE ClientUpdate
  <2>1. client' \in [up : BOOLEAN, authed : BOOLEAN, sincePong : Age, sincePing : Age]
    BY <1>0, <1>3, <1>u DEF ClientUpdate
  <2>2. toServer' \subseteq [kind : {"auth", "ping", "chat"}, stale : BOOLEAN]
    <3>1. \A k \in {"auth", "chat"} :
            [kind |-> k, stale |-> FALSE] \in [kind : {"auth", "ping", "chat"}, stale : BOOLEAN]
      OBVIOUS
    <3>2. toServer' \subseteq toServer \cup {[kind |-> k, stale |-> FALSE] : k \in {"auth", "chat"}}
      BY <1>3 DEF ClientUpdate
    <3> QED BY <1>u, <3>1, <3>2
  <2>3. early' \in BOOLEAN
    BY <1>3 DEF ClientUpdate
  <2> QED BY <1>0, <1>3, <2>1, <2>2, <2>3 DEF TypeOK, ClientUpdate, ClientOnly
<1>4. CASE ServerFirst
  <2>1. entry' = NoEntry \/ entry' \in [present : {TRUE}, authed : BOOLEAN, stale : BOOLEAN,
                                        age : Age, sincePong : Age, sincePing : Age]
    BY <1>0, <1>4, <1>e DEF ServerFirst
  <2>2. toClient' \subseteq [kind : {"ping", "answer"}] /\ dropped' \in BOOLEAN
    BY <1>4, <1>u DEF ServerFirst
  <2> QED BY <1>0, <1>4, <2>1, <2>2 DEF TypeOK, ServerFirst, ServerOnly
<1>5. CASE ServerPreUpdate
  <2>1. entry' = NoEntry \/ entry' \in [present : {TRUE}, authed : BOOLEAN, stale : BOOLEAN,
                                        age : Age, sincePong : Age, sincePing : Age]
    BY <1>5, <1>e, <1>u DEF ServerPreUpdate, Authenticates
  <2>2. toClient' \subseteq [kind : {"ping", "answer"}] /\ panicked' \in BOOLEAN
    BY <1>5, <1>u DEF ServerPreUpdate
  <2> QED BY <1>0, <1>5, <2>1, <2>2 DEF TypeOK, ServerPreUpdate, ServerOnly
<1>6. CASE ServerUpdate
  <2>1. CASE toServer = {}
    BY <1>0, <1>6, <2>1 DEF TypeOK, ServerUpdate, ServerOnly
  <2>2. CASE TakeDatagrams
    <3>1. PICK first \in toServer, last \in toServer :
            /\ entry' = Heard(Entered(first), last)
            /\ asked' = IF last.kind # "auth" THEN "no"
                        ELSE IF Entered(first).authed THEN "peer" ELSE "anonymous"
            /\ displaced' = (displaced \/ (last.kind # "ping" /\ \E d \in toServer : d.kind = "ping"))
      BY <2>2 DEF TakeDatagrams
    <3>2. Entered(first) \in [present : {TRUE}, authed : BOOLEAN, stale : BOOLEAN,
                              age : Age, sincePong : Age, sincePing : Age]
      BY <1>0, <1>e, <1>u DEF Entered, NewEntry
    <3>3. entry' \in [present : {TRUE}, authed : BOOLEAN, stale : BOOLEAN,
                      age : Age, sincePong : Age, sincePing : Age]
      BY <1>0, <3>1, <3>2 DEF Heard
    <3>4. asked' \in {"no", "anonymous", "peer"} /\ displaced' \in BOOLEAN
      BY <3>1
    <3> QED BY <1>0, <1>6, <3>3, <3>4 DEF TypeOK, ServerUpdate, ServerOnly
  <2> QED BY <1>6, <2>1, <2>2 DEF ServerUpdate
<1>7. CASE Lose
  <2>1. losses' \in 0..MaxLosses
    BY <1>0, <1>7 DEF TypeOK, Lose
  <2>2. /\ toServer' \subseteq toServer /\ toClient' \subseteq toClient
        /\ UNCHANGED <<setting, clientNext, serverNext, ran, client, entry, asked, panicked,
                       dropped, early, displaced>>
    BY <1>7 DEF Lose, history
  <2> QED BY <1>0, <1>u, <2>1, <2>2 DEF TypeOK
<1>8. CASE Tick
  <2>1. client' \in [up : BOOLEAN, authed : BOOLEAN, sincePong : Age, sincePing : Age]
    BY <1>0, <1>8, <1>u DEF Tick
  <2>2. entry' = NoEntry \/ entry' \in [present : {TRUE}, authed : BOOLEAN, stale : BOOLEAN,
                                        age : Age, sincePong : Age, sincePing : Age]
    BY <1>0, <1>8, <1>u, <1>e DEF Tick
  <2> QED BY <1>0, <1>8, <2>1, <2>2 DEF TypeOK, Tick, history
<1>9. CASE UNCHANGED vars
  BY <1>9, <1>0 DEF TypeOK, vars, history
<1> QED BY <1>1, <1>2, <1>3, <1>4, <1>5, <1>6, <1>7, <1>8, <1>9 DEF Next, ClientFrame, ServerFrame, ClientFirst

-----------------------------------------------------------------------------
(* The clocks: one lemma per step of a link that stays good. *)

LEMMA EntryType ==
    ASSUME TypeOK, entry.present
    PROVE  entry \in [present : {TRUE}, authed : BOOLEAN, stale : BOOLEAN,
                      age : Age, sincePong : Age, sincePing : Age]
<1>1. NoEntry.present = FALSE
  BY DEF NoEntry
<1>2. entry # NoEntry
  BY <1>1
<1> QED BY <1>2 DEF TypeOK

LEMMA HasFacts ==
    /\ \A q, d, k : Has(q \cup {d}, k) <=> Has(q, k) \/ d.kind = k
    /\ \A q, r, k : Has(q \cup r, k) <=> Has(q, k) \/ Has(r, k)
    /\ \A kinds, k : Has({[kind |-> x, stale |-> FALSE] : x \in kinds}, k) <=> k \in kinds
<1>1. \A q, d, k : Has(q \cup {d}, k) <=> Has(q, k) \/ d.kind = k
  BY DEF Has
<1>2. \A q, r, k : Has(q \cup r, k) <=> Has(q, k) \/ Has(r, k)
  BY DEF Has
<1>3. ASSUME NEW kinds, NEW k
      PROVE  Has({[kind |-> x, stale |-> FALSE] : x \in kinds}, k) <=> k \in kinds
  <2> DEFINE fresh == {[kind |-> x, stale |-> FALSE] : x \in kinds}
  <2>1. ASSUME k \in kinds PROVE \E d \in fresh : d.kind = k
    <3>1. [kind |-> k, stale |-> FALSE] \in fresh
      BY <2>1
    <3>2. [kind |-> k, stale |-> FALSE].kind = k
      OBVIOUS
    <3> QED BY <3>1, <3>2
  <2>2. ASSUME NEW d \in fresh, d.kind = k PROVE k \in kinds
    BY <2>2
  <2> QED BY <2>1, <2>2 DEF Has
<1> QED BY <1>1, <1>2, <1>3

\* What the steps of a good link rely on.
LEMMA LinkNumbers ==
    ASSUME TypeOK, Good
    PROVE  /\ PingEvery \in Nat /\ PingEvery >= 1 /\ Timeout \in Nat /\ losses \in Nat
           /\ Slack(losses) \in Nat /\ losses <= Slack(losses)
           /\ Slack(losses + 1) = Slack(losses) + PingEvery
           /\ Slack(losses) + PingEvery < Timeout
           /\ client.sincePong \in Nat /\ client.sincePing \in Nat
           /\ entry.present => /\ entry.age \in Nat /\ entry.sincePong \in Nat
                               /\ entry.sincePing \in Nat
<1>1. /\ PingEvery \in Nat /\ PingEvery >= 1 /\ Timeout \in Nat /\ losses \in Nat
  BY SettingFacts
<1>2. /\ Slack(losses) \in Nat /\ losses <= Slack(losses)
      /\ Slack(losses + 1) = Slack(losses) + PingEvery
  BY <1>1, SlackFacts
<1>3. Slack(losses + 1) < Timeout
  BY GoodFacts
<1>4. client.sincePong \in Nat /\ client.sincePing \in Nat
  BY <1>1 DEF TypeOK, Age
<1>5. entry.present => entry.age \in Nat /\ entry.sincePong \in Nat /\ entry.sincePing \in Nat
  <2>1. \A age \in Age : age \in Nat
    BY <1>1 DEF Age
  <2> QED BY <2>1, EntryType
<1> QED BY <1>1, <1>2, <1>3, <1>4, <1>5

\* Nothing changes of what the settings and the losses say.
LEMMA SameNumbers ==
    ASSUME UNCHANGED <<setting, losses>>
    PROVE  /\ PingEvery' = PingEvery /\ Timeout' = Timeout /\ Chats' = Chats
           /\ MaxLosses' = MaxLosses /\ FixedPort' = FixedPort
           /\ Slack(losses)' = Slack(losses) /\ Slack(losses + 1)' = Slack(losses + 1)
BY DEF PingEvery, Timeout, Chats, MaxLosses, FixedPort, Slack

LEMMA LinkedPing ==
    ASSUME TypeOK, Good, Linked, ClientFirst
    PROVE  Linked'
<1>1. client.up
  BY DEF Linked, ClientSound
<1>2. PingAndCheck /\ clientNext' = "update"
      /\ UNCHANGED <<setting, serverNext, asked, panicked, dropped, displaced, losses, ran>>
  BY <1>1 DEF ClientFirst, Restart, ClientOnly
<1>n. /\ PingEvery \in Nat /\ PingEvery >= 1 /\ Timeout \in Nat /\ losses \in Nat
      /\ Slack(losses) \in Nat /\ losses <= Slack(losses)
      /\ Slack(losses + 1) = Slack(losses) + PingEvery
      /\ Slack(losses) + PingEvery < Timeout
      /\ client.sincePong \in Nat /\ client.sincePing \in Nat
      /\ entry.present => entry.age \in Nat /\ entry.sincePong \in Nat /\ entry.sincePing \in Nat
  BY LinkNumbers
<1>s. /\ PingEvery' = PingEvery /\ Chats' = Chats
      /\ Slack(losses)' = Slack(losses) /\ Slack(losses + 1)' = Slack(losses + 1)
  BY <1>2, SameNumbers
<1>3. ~GivesUp
  <2>1. CASE entry.present
    BY <1>n, <2>1 DEF Linked, ClientSound, ServerPingsInTime, GivesUp
  <2>2. CASE ~entry.present
    BY <1>n, <2>2 DEF Linked, NoSessionYet, GivesUp
  <2> QED BY <2>1, <2>2
<1>4. /\ client'.up /\ client'.authed = client.authed /\ client'.sincePong = client.sincePong
      /\ client'.sincePing = IF Pings THEN 0 ELSE client.sincePing
      /\ toServer' = IF Pings THEN toServer \cup {[kind |-> "ping", stale |-> FALSE]} ELSE toServer
      /\ UNCHANGED <<toClient, entry>>
  BY <1>2, <1>3 DEF PingAndCheck, TypeOK
<1> DEFINE ping == [kind |-> "ping", stale |-> FALSE]
<1>5. /\ \A k : Has(toServer', k) <=> Has(toServer, k) \/ (Pings /\ k = "ping")
      /\ \A d \in toServer' : d \in toServer \/ ~d.stale
      /\ toServer # {} => toServer' # {}
  <2>1. ping.kind = "ping" /\ ~ping.stale
    OBVIOUS
  <2>2. toServer' = IF Pings THEN toServer \cup {ping} ELSE toServer
    BY <1>4
  <2> HIDE DEF ping
  <2> QED BY <2>1, <2>2, HasFacts
<1>6. Pings <=> client.sincePing >= PingEvery
  BY DEF Pings
<1> HIDE DEF Has, ping
<1>p. /\ Pings => client.sincePing = PingEvery /\ client'.sincePing = 0
      /\ ~Pings => client.sincePing < PingEvery /\ client'.sincePing = client.sincePing
      /\ client'.sincePing < PingEvery /\ client'.sincePing <= PingEvery
  BY <1>n, <1>4, <1>6 DEF Linked, ClientSound
<1>7. ClientSound'
  <2>1. Has(toServer', "ping") => client'.sincePing = 0
    BY <1>5, <1>p DEF Linked, ClientSound
  <2>2. /\ \A d \in toServer' : ~d.stale
        /\ Has(toServer', "chat") => Chats
        /\ client.authed \/ Has(toClient, "answer") => entry.present /\ entry.authed
    BY <1>5 DEF Linked, ClientSound
  <2> QED BY <1>s, <1>4, <1>p, <2>1, <2>2 DEF ClientSound
<1>8. NoSessionYet'
  BY <1>2, <1>n, <1>4, <1>5, <1>6 DEF Linked, NoSessionYet
<1>9. NewSession'
  BY <1>2, <1>4 DEF Linked, NewSession
<1>10. ServerPingsInTime'
  BY <1>2, <1>s, <1>4 DEF Linked, ServerPingsInTime
<1>11. ClientPingsInTime'
  <2>1. Pending => Pending'
    BY <1>2, <1>4, <1>5 DEF Pending
  <2> SUFFICES ASSUME entry.present, entry.authed \/ asked = "anonymous"
               PROVE  ClientPingsInTime'
    BY <1>2, <1>4 DEF ClientPingsInTime
  <2>2. \/ entry.sincePong <= client'.sincePing + Slack(losses)
        \/ Has(toServer', "ping") /\ entry.sincePong <= Slack(losses + 1)
    <3>1. \/ entry.sincePong <= client.sincePing + Slack(losses)
          \/ Has(toServer, "ping") /\ entry.sincePong <= Slack(losses + 1)
      BY DEF Linked, ClientPingsInTime
    <3>2. CASE Pings
      <4>1. Has(toServer', "ping")
        BY <1>5, <3>2
      <4>2. entry.sincePong <= Slack(losses + 1)
        BY <1>n, <1>p, <3>1, <3>2
      <4> QED BY <4>1, <4>2
    <3>3. CASE ~Pings
      BY <1>5, <1>p, <3>1, <3>3
    <3> QED BY <3>2, <3>3
  <2> QED BY <1>2, <1>s, <1>4, <1>5, <2>1, <2>2 DEF Linked, ClientPingsInTime
<1> QED BY <1>7, <1>8, <1>9, <1>10, <1>11 DEF Linked

LEMMA LinkedClientUpdate ==
    ASSUME TypeOK, Good, Linked, ClientUpdate
    PROVE  Linked'
<1>n. /\ PingEvery \in Nat /\ PingEvery >= 1 /\ Timeout \in Nat /\ losses \in Nat
      /\ Slack(losses) \in Nat /\ losses <= Slack(losses)
      /\ client.sincePong \in Nat /\ client.sincePing \in Nat
      /\ entry.present => entry.age \in Nat /\ entry.sincePong \in Nat /\ entry.sincePing \in Nat
  BY LinkNumbers
<1>1. /\ clientNext = "update" /\ clientNext' = "first" /\ ran' = ran \cup {"client"}
      /\ toClient' = {} /\ client.up
      /\ UNCHANGED <<setting, serverNext, asked, panicked, dropped, displaced, losses, entry>>
  BY DEF ClientUpdate, ClientOnly, Linked, ClientSound
<1>s. /\ PingEvery' = PingEvery /\ Chats' = Chats
      /\ Slack(losses)' = Slack(losses) /\ Slack(losses + 1)' = Slack(losses + 1)
  BY <1>1, SameNumbers
<1>2. \A k : k \in Taken <=> Has(toClient, k)
  BY <1>1 DEF Taken, Has
<1>3. Asks <=> ~client.authed /\ ~Has(toClient, "answer")
  BY <1>1, <1>2 DEF Asks
<1>4. /\ client'.up /\ client'.sincePing = client.sincePing
      /\ client'.sincePong = IF Has(toClient, "ping") THEN 0 ELSE client.sincePong
      /\ client'.authed <=> client.authed \/ Has(toClient, "answer")
  BY <1>1, <1>2 DEF ClientUpdate, TypeOK
<1>5. /\ \A k : Has(toServer', k) <=> \/ Has(toServer, k) \/ (Asks /\ k = "auth")
                                      \/ (Chats /\ k = "chat")
      /\ \A d \in toServer' : d \in toServer \/ ~d.stale
      /\ Asks => toServer' # {}
  <2> DEFINE kinds == (IF Asks THEN {"auth"} ELSE {}) \cup (IF Chats /\ client.up THEN {"chat"} ELSE {})
             fresh == {[kind |-> k, stale |-> FALSE] : k \in kinds}
  <2>1. toServer' = toServer \cup fresh
    BY DEF ClientUpdate
  <2>2. \A k : k \in kinds <=> (Asks /\ k = "auth") \/ (Chats /\ k = "chat")
    BY <1>1
  <2>3. \A d \in fresh : ~d.stale
    OBVIOUS
  <2>4. \A k : Has(fresh, k) <=> k \in kinds
    BY HasFacts
  <2> HIDE DEF kinds, fresh
  <2>5. \A k : Has(toServer', k) <=> Has(toServer, k) \/ Has(fresh, k)
    BY <2>1, HasFacts
  <2>6. Asks => toServer' # {}
    <3>1. Asks => Has(toServer', "auth")
      BY <2>2, <2>4, <2>5
    <3> QED BY <3>1 DEF Has
  <2> QED BY <2>1, <2>2, <2>3, <2>4, <2>5, <2>6
<1>6. \A k : ~Has(toClient', k)
  BY <1>1 DEF Has
<1> HIDE DEF Has
<1>7. ClientSound'
  BY <1>1, <1>n, <1>s, <1>4, <1>5, <1>6 DEF Linked, ClientSound
<1>8. NoSessionYet'
  <2> SUFFICES ASSUME ~entry.present PROVE NoSessionYet'
    BY <1>1 DEF NoSessionYet
  <2>1. Asks /\ ~Has(toClient, "ping")
    BY <1>3 DEF Linked, ClientSound, ServerPingsInTime
  <2> QED BY <1>1, <1>4, <1>5, <2>1 DEF Linked, NoSessionYet
<1>9. NewSession'
  <2>1. "server" \in ran' <=> "server" \in ran
    BY <1>1
  <2> QED BY <1>1, <2>1 DEF Linked, NewSession
<1>10. ServerPingsInTime'
  <2>1. "server" \in ran' <=> "server" \in ran
    BY <1>1
  <2>2. entry.present => client'.sincePong <= entry.sincePing + Slack(losses)
    BY <1>n, <1>4 DEF Linked, ServerPingsInTime
  <2> QED BY <1>1, <1>s, <1>6, <2>1, <2>2 DEF Linked, ServerPingsInTime
<1>11. ClientPingsInTime'
  <2>1. ~client'.authed => Pending'
    BY <1>3, <1>4, <1>5 DEF Pending
  <2> QED BY <1>1, <1>s, <1>3, <1>4, <1>5, <2>1 DEF Linked, ClientPingsInTime
<1> QED BY <1>7, <1>8, <1>9, <1>10, <1>11 DEF Linked

LEMMA LinkedServerFirst ==
    ASSUME TypeOK, Good, Linked, ServerFirst
    PROVE  Linked' /\ dropped' = dropped
<1>n. /\ PingEvery \in Nat /\ PingEvery >= 1 /\ Timeout \in Nat /\ losses \in Nat
      /\ Slack(losses) \in Nat /\ losses <= Slack(losses)
      /\ Slack(losses + 1) = Slack(losses) + PingEvery
      /\ Slack(losses) + PingEvery < Timeout
      /\ client.sincePong \in Nat /\ client.sincePing \in Nat
      /\ entry.present => entry.age \in Nat /\ entry.sincePong \in Nat /\ entry.sincePing \in Nat
  BY LinkNumbers
<1>1. /\ serverNext = "first" /\ serverNext' = "pre_update"
      /\ UNCHANGED <<setting, clientNext, client, early, losses, ran, asked, toServer, panicked,
                     displaced>>
  BY DEF ServerFirst, ServerOnly
<1>s. /\ PingEvery' = PingEvery /\ Chats' = Chats
      /\ Slack(losses)' = Slack(losses) /\ Slack(losses + 1)' = Slack(losses + 1)
  BY <1>1, SameNumbers
<1>2. entry.present => ~Expired
  <2> SUFFICES ASSUME entry.present PROVE ~Expired
    OBVIOUS
  <2>1. ~entry.authed => entry.age < Timeout
    BY <1>n DEF Linked, NewSession
  <2>2. entry.sincePong < Timeout
    <3>1. CASE entry.authed \/ asked = "anonymous"
      BY <1>n, <3>1 DEF Linked, ClientPingsInTime, ClientSound
    <3>2. CASE ~entry.authed
      BY <1>n, <3>2 DEF Linked, NewSession
    <3> QED BY <3>1, <3>2
  <2> QED BY <1>n, <2>1, <2>2 DEF Expired
<1>3. dropped' = dropped
  BY <1>2 DEF ServerFirst, TypeOK
<1>4. CASE entry.present
  <2>1. /\ entry'.present /\ entry'.authed = entry.authed /\ entry'.stale = entry.stale
        /\ entry'.age = entry.age /\ entry'.sincePong = entry.sincePong
        /\ entry'.sincePing = IF ServerPings THEN 0 ELSE entry.sincePing
    <3>2. entry \in [present : {TRUE}, authed : BOOLEAN, stale : BOOLEAN,
                     age : Age, sincePong : Age, sincePing : Age]
      BY <1>4, EntryType
    <3>3. entry' = [entry EXCEPT !.sincePing = IF ServerPings THEN 0 ELSE @]
      BY <1>2, <1>4 DEF ServerFirst
    <3> QED BY <3>2, <3>3
  <2>2. ServerPings <=> entry.authed /\ entry.sincePing >= PingEvery
    BY <1>2, <1>4 DEF ServerPings
  <2>3. /\ ~entry.stale
        /\ \A k : Has(toClient', k) <=> Has(toClient, k) \/ (ServerPings /\ k = "ping")
    <3>1. ~entry.stale
      BY <1>4 DEF Linked, ServerPingsInTime
    <3>2. toClient' = IF ServerPings THEN toClient \cup {[kind |-> "ping"]} ELSE toClient
      BY <3>1 DEF ServerFirst
    <3>3. [kind |-> "ping"].kind = "ping"
      OBVIOUS
    <3> QED BY <3>1, <3>2, <3>3, HasFacts
  <2> HIDE DEF Has
  <2>4. ClientSound'
    BY <1>1, <1>s, <1>4, <2>1, <2>3 DEF Linked, ClientSound
  <2>5. NoSessionYet'
    BY <2>1 DEF NoSessionYet
  <2>6. NewSession'
    BY <1>1, <1>4, <2>1, <2>2 DEF Linked, NewSession
  <2>7. ServerPingsInTime'
    BY <1>1, <1>n, <1>s, <1>4, <2>1, <2>2, <2>3 DEF Linked, ServerPingsInTime
  <2>8. ClientPingsInTime'
    <3>1. Pending => Pending'
      BY <1>1, <2>3 DEF Pending
    <3> QED BY <1>1, <1>s, <1>4, <2>1, <2>3, <3>1 DEF Linked, ClientPingsInTime
  <2> QED BY <1>3, <2>4, <2>5, <2>6, <2>7, <2>8 DEF Linked
<1>5. CASE ~entry.present
  <2>1. ~entry'.present
    BY <1>5 DEF ServerFirst, NoEntry
  <2>2. toClient' = toClient
    BY <1>5 DEF ServerFirst, ServerPings
  <2>3. ClientSound' /\ NoSessionYet'
    BY <1>1, <1>s, <1>5, <2>1, <2>2 DEF Linked, ClientSound, NoSessionYet
  <2>4. NewSession' /\ ServerPingsInTime' /\ ClientPingsInTime'
    BY <1>5, <2>1, <2>2 DEF Linked, NewSession, ServerPingsInTime, ClientPingsInTime
  <2> QED BY <1>3, <2>3, <2>4 DEF Linked
<1> QED BY <1>4, <1>5

LEMMA LinkedPreUpdate ==
    ASSUME TypeOK, Good, Linked, ServerPreUpdate, ~panicked'
    PROVE  Linked'
<1>n. /\ PingEvery \in Nat /\ PingEvery >= 1 /\ losses \in Nat /\ Slack(losses) \in Nat
      /\ entry.present => entry.age \in Nat /\ entry.sincePong \in Nat /\ entry.sincePing \in Nat
  BY LinkNumbers
<1>1. /\ serverNext = "pre_update" /\ serverNext' = "update" /\ asked' = "no"
      /\ UNCHANGED <<setting, clientNext, client, early, losses, ran, toServer, displaced>>
  BY DEF ServerPreUpdate, ServerOnly
<1>s. /\ PingEvery' = PingEvery /\ Chats' = Chats
      /\ Slack(losses)' = Slack(losses) /\ Slack(losses + 1)' = Slack(losses + 1)
  BY <1>1, SameNumbers
<1>2. CASE entry.present
  <2>e. entry \in [present : {TRUE}, authed : BOOLEAN, stale : BOOLEAN,
                   age : Age, sincePong : Age, sincePing : Age]
    BY <1>2, EntryType
  <2>1. /\ entry'.present /\ entry'.stale = entry.stale /\ entry'.age = entry.age
        /\ entry'.sincePong = entry.sincePong /\ entry'.sincePing = entry.sincePing
        /\ entry'.authed <=> entry.authed \/ Authenticates
    BY <1>2, <2>e DEF ServerPreUpdate
  <2>2. entry'.authed /\ (entry.authed \/ (asked = "anonymous" /\ entry.sincePing = 0))
    <3>1. entry'.authed
      BY <2>1 DEF ServerPreUpdate
    <3>2. ~entry.authed => asked = "anonymous"
      BY <2>1, <3>1 DEF Authenticates
    <3>3. ~entry.authed => entry.sincePing = 0
      BY <1>2, <1>n, <3>2 DEF Linked, NewSession
    <3> QED BY <3>1, <3>2, <3>3
  <2>3. Answers <=> asked # "no"
    BY <1>2, <2>2 DEF Answers, Authenticates, Linked, NewSession, ServerPingsInTime, TypeOK
  <2>4. /\ ~entry.stale
        /\ \A k : Has(toClient', k) <=> Has(toClient, k) \/ (Answers /\ k = "answer")
    <3>1. ~entry.stale
      BY <1>2 DEF Linked, ServerPingsInTime
    <3>2. toClient' = IF Answers THEN toClient \cup {[kind |-> "answer"]} ELSE toClient
      BY <3>1 DEF ServerPreUpdate
    <3>3. [kind |-> "answer"].kind = "answer"
      OBVIOUS
    <3> QED BY <3>1, <3>2, <3>3, HasFacts
  <2> HIDE DEF Has
  <2>5. ClientSound'
    BY <1>1, <1>s, <1>2, <2>1, <2>2 DEF Linked, ClientSound
  <2>6. NoSessionYet' /\ NewSession'
    BY <2>1, <2>2 DEF NoSessionYet, NewSession
  <2>7. ServerPingsInTime'
    BY <1>1, <1>n, <1>s, <1>2, <2>1, <2>2, <2>4 DEF Linked, ServerPingsInTime
  <2>8. ClientPingsInTime'
    <3>1. ~client.authed => entry.sincePong < losses \/ Pending'
      BY <1>1, <1>2, <2>2, <2>3, <2>4 DEF Linked, ClientPingsInTime, Pending
    <3>2. losses = 0 => client.authed \/ Has(toClient', "answer")
      BY <1>2, <2>2, <2>3, <2>4 DEF Linked, ClientPingsInTime
    <3> QED BY <1>1, <1>s, <1>2, <2>1, <2>2, <3>1, <3>2 DEF Linked, ClientPingsInTime
  <2> QED BY <2>5, <2>6, <2>7, <2>8 DEF Linked
<1>3. CASE ~entry.present
  <2>1. entry' = entry /\ toClient' = toClient
    BY <1>3 DEF ServerPreUpdate, Authenticates, Answers
  <2>2. ClientSound' /\ NoSessionYet'
    BY <1>1, <1>s, <1>3, <2>1 DEF Linked, ClientSound, NoSessionYet
  <2>3. NewSession' /\ ServerPingsInTime' /\ ClientPingsInTime'
    BY <1>3, <2>1 DEF Linked, NewSession, ServerPingsInTime, ClientPingsInTime
  <2> QED BY <2>2, <2>3 DEF Linked
<1> QED BY <1>2, <1>3

LEMMA LinkedServerUpdate ==
    ASSUME TypeOK, Good, Good', Linked, ServerUpdate
    PROVE  Linked'
<1>n. /\ PingEvery \in Nat /\ PingEvery >= 1 /\ losses \in Nat
      /\ Slack(losses) \in Nat /\ losses <= Slack(losses)
      /\ client.sincePong \in Nat /\ client.sincePing \in Nat
      /\ entry.present => entry.age \in Nat /\ entry.sincePong \in Nat /\ entry.sincePing \in Nat
  BY LinkNumbers
<1>1. /\ serverNext = "update" /\ serverNext' = "first" /\ ran' = ran \cup {"server"}
      /\ toServer' = {}
      /\ UNCHANGED <<setting, clientNext, client, early, losses, toClient, panicked>>
  BY DEF ServerUpdate, ServerOnly
<1>s. /\ PingEvery' = PingEvery /\ Chats' = Chats
      /\ Slack(losses)' = Slack(losses) /\ Slack(losses + 1)' = Slack(losses + 1)
  BY <1>1, SameNumbers
<1>2. /\ \A k : ~Has(toServer', k)
      /\ "client" \in ran' <=> "client" \in ran
  BY <1>1 DEF Has
<1>3. entry.present => entry.authed
  BY <1>1 DEF Linked, NewSession
<1>4. CASE toServer = {}
  <2>1. UNCHANGED <<entry, asked, displaced>> /\ \A k : ~Has(toServer, k)
    BY <1>4 DEF ServerUpdate, Has
  <2> HIDE DEF Has
  <2>2. ClientSound'
    BY <1>1, <1>2, <1>s, <2>1 DEF Linked, ClientSound
  <2>3. NoSessionYet' /\ NewSession'
    BY <1>1, <1>2, <1>3, <1>4, <2>1 DEF Linked, NoSessionYet, NewSession
  <2>4. ServerPingsInTime'
    BY <1>1, <1>2, <1>s, <2>1 DEF Linked, ServerPingsInTime
  <2>5. ClientPingsInTime'
    <3>1. Pending => Pending'
      BY <1>1, <1>2, <2>1 DEF Pending
    <3> QED BY <1>1, <1>2, <1>s, <2>1, <3>1 DEF Linked, ClientPingsInTime
  <2> QED BY <2>2, <2>3, <2>4, <2>5 DEF Linked
<1>5. CASE TakeDatagrams
  <2>1. PICK first \in toServer, last \in toServer :
          /\ entry' = Heard(Entered(first), last)
          /\ asked' = IF last.kind # "auth" THEN "no"
                      ELSE IF Entered(first).authed THEN "peer" ELSE "anonymous"
          /\ displaced' = (displaced \/ (last.kind # "ping" /\ \E d \in toServer : d.kind = "ping"))
    BY <1>5 DEF TakeDatagrams
  <2>2. /\ ~first.stale /\ Has(toServer, last.kind) /\ last.kind \in {"auth", "ping", "chat"}
        /\ displaced' = (displaced \/ (last.kind # "ping" /\ Has(toServer, "ping")))
    BY <2>1 DEF Linked, ClientSound, TypeOK, Has
  <2>3. Chats => losses = 0 /\ ~displaced'
    BY <1>1, <1>s, GoodFacts DEF Good
  <2> HIDE DEF Has
  <2>4. CASE entry.present
    <3>1. entry \in [present : {TRUE}, authed : BOOLEAN, stale : BOOLEAN,
                     age : Age, sincePong : Age, sincePing : Age]
      BY <2>4, EntryType
    <3>2. Entered(first) = entry
      BY <2>4 DEF Entered
    <3>3. /\ entry'.present /\ entry'.authed /\ entry'.stale = entry.stale
          /\ entry'.sincePing = entry.sincePing
          /\ entry'.sincePong = IF last.kind = "ping" THEN 0 ELSE entry.sincePong
      BY <1>3, <2>1, <2>4, <3>1, <3>2 DEF Heard
    <3>4. asked' = IF last.kind = "auth" THEN "peer" ELSE "no"
      BY <1>3, <2>1, <2>4, <3>2
    <3>5. ClientSound'
      BY <1>1, <1>2, <1>s, <3>3 DEF Linked, ClientSound
    <3>6. NoSessionYet' /\ NewSession'
      BY <3>3 DEF NoSessionYet, NewSession
    <3>7. ServerPingsInTime'
      BY <1>1, <1>2, <1>3, <1>s, <2>4, <3>3, <3>4 DEF Linked, ServerPingsInTime
    <3>8. ClientPingsInTime'
      <4>1. ~client.authed => entry'.sincePong <= losses
        BY <1>n, <1>3, <2>4, <3>3 DEF Linked, ClientPingsInTime
      <4>2. losses = 0 => client.authed \/ Has(toClient, "answer")
        BY <1>3, <2>4 DEF Linked, ClientPingsInTime
      <4>3. ~client.authed => entry'.sincePong < losses \/ Pending'
        <5>1. CASE last.kind = "auth"
          BY <3>4, <5>1 DEF Pending
        <5>2. CASE last.kind = "ping"
          BY <1>1, <1>n, <3>3, <4>2, <5>2 DEF Pending
        <5>3. CASE last.kind = "chat"
          <6>1. losses = 0
            BY <2>2, <2>3, <5>3 DEF Linked, ClientSound
          <6> QED BY <1>1, <4>2, <6>1 DEF Pending
        <5> QED BY <2>2, <5>1, <5>2, <5>3
      <4>4. entry'.sincePong <= client.sincePing + Slack(losses)
        <5>1. CASE last.kind = "ping"
          BY <1>n, <3>3, <5>1
        <5>2. CASE last.kind = "auth"
          <6>1. entry.sincePong <= losses
            BY <1>3, <2>2, <2>4, <5>2 DEF Linked, ClientPingsInTime
          <6> QED BY <1>n, <2>4, <3>3, <5>2, <6>1
        <5>3. CASE last.kind = "chat"
          <6>1. ~Has(toServer, "ping")
            BY <2>2, <2>3, <5>3 DEF Linked, ClientSound
          <6> QED BY <1>3, <2>4, <3>3, <5>3, <6>1 DEF Linked, ClientPingsInTime
        <5> QED BY <2>2, <5>1, <5>2, <5>3
      <4> QED BY <1>1, <1>2, <1>s, <4>1, <4>2, <4>3, <4>4 DEF ClientPingsInTime
    <3> QED BY <3>5, <3>6, <3>7, <3>8 DEF Linked
  <2>5. CASE ~entry.present
    <3>1. Entered(first) = NewEntry(first)
      BY <2>5 DEF Entered
    <3>2. /\ entry'.present /\ ~entry'.authed /\ ~entry'.stale
          /\ entry'.age = 0 /\ entry'.sincePing = 0 /\ entry'.sincePong = 0
      BY <2>1, <2>2, <3>1 DEF Heard, NewEntry
    <3>3. asked' = IF last.kind = "auth" THEN "anonymous" ELSE "no"
      BY <2>1, <3>1 DEF NewEntry
    <3>4. ClientSound'
      BY <1>1, <1>2, <1>s, <2>5 DEF Linked, ClientSound
    <3>5. NoSessionYet' /\ NewSession'
      BY <1>1, <3>2, <3>3 DEF NoSessionYet, NewSession
    <3>6. ServerPingsInTime'
      <4>1. client.sincePong <= Slack(losses)
        BY <1>n, <2>5 DEF Linked, NoSessionYet
      <4> QED BY <1>1, <1>n, <1>s, <2>5, <3>2, <4>1 DEF Linked, ServerPingsInTime
    <3>7. ClientPingsInTime'
      BY <1>1, <1>n, <1>s, <3>2 DEF ClientPingsInTime, Pending
    <3> QED BY <3>4, <3>5, <3>6, <3>7 DEF Linked
  <2> QED BY <2>4, <2>5
<1> QED BY <1>4, <1>5 DEF ServerUpdate

LEMMA LinkedLose ==
    ASSUME TypeOK, Good, Linked, Lose
    PROVE  Linked'
<1>n. /\ PingEvery \in Nat /\ PingEvery >= 1 /\ losses \in Nat
      /\ Slack(losses) \in Nat /\ losses <= Slack(losses)
      /\ Slack(losses + 1) = Slack(losses) + PingEvery
      /\ client.sincePong \in Nat /\ client.sincePing \in Nat
      /\ entry.present => entry.age \in Nat /\ entry.sincePong \in Nat /\ entry.sincePing \in Nat
  BY LinkNumbers
<1>1. /\ losses' = losses + 1 /\ toServer' \subseteq toServer /\ toClient' \subseteq toClient
      /\ UNCHANGED <<setting, clientNext, serverNext, ran, client, entry, asked, panicked>>
  BY DEF Lose
<1>2. PingEvery' = PingEvery /\ Chats' = Chats
  BY <1>1 DEF PingEvery, Chats
<1>3. Slack(losses)' = Slack(losses) + PingEvery
  BY <1>1, <1>n DEF Slack, PingEvery
<1>4. /\ \A k : Has(toServer', k) => Has(toServer, k)
      /\ \A k : Has(toClient', k) => Has(toClient, k)
      /\ \A d \in toServer' : d \in toServer
  BY <1>1 DEF Has
<1> HIDE DEF Has
<1>5. ClientSound'
  BY <1>1, <1>2, <1>4 DEF Linked, ClientSound
<1>6. NoSessionYet' /\ NewSession'
  BY <1>1, <1>4, <1>n DEF Linked, NoSessionYet, NewSession
<1>7. ServerPingsInTime'
  <2>1. entry.present => client.sincePong <= entry.sincePing + (Slack(losses) + PingEvery)
    BY <1>n DEF Linked, ServerPingsInTime
  <2> QED BY <1>1, <1>2, <1>3, <1>4, <2>1 DEF Linked, ServerPingsInTime
<1>8. ClientPingsInTime'
  <2> SUFFICES ASSUME entry.present, entry.authed \/ asked = "anonymous"
               PROVE  ClientPingsInTime'
    BY <1>1 DEF ClientPingsInTime
  <2>1. entry.sincePong <= client.sincePing + (Slack(losses) + PingEvery)
    BY <1>n DEF Linked, ClientPingsInTime
  <2>2. ~client.authed \/ Has(toServer', "auth") => entry.sincePong <= losses + 1
    BY <1>n, <1>4 DEF Linked, ClientPingsInTime
  <2>3. ~client.authed => entry.sincePong < losses + 1
    BY <1>n DEF Linked, ClientPingsInTime
  <2>4. losses + 1 # 0
    BY <1>n
  <2> QED BY <1>1, <1>3, <2>1, <2>2, <2>3, <2>4 DEF ClientPingsInTime
<1> QED BY <1>5, <1>6, <1>7, <1>8 DEF Linked

LEMMA LinkedTick ==
    ASSUME TypeOK, Good, Linked, Tick
    PROVE  Linked'
<1>n. /\ PingEvery \in Nat /\ PingEvery >= 1 /\ Timeout \in Nat /\ losses \in Nat
      /\ Slack(losses) \in Nat /\ losses <= Slack(losses)
      /\ Slack(losses + 1) = Slack(losses) + PingEvery
      /\ Slack(losses) + PingEvery < Timeout
      /\ client.sincePong \in Nat /\ client.sincePing \in Nat
      /\ entry.present => entry.age \in Nat /\ entry.sincePong \in Nat /\ entry.sincePing \in Nat
  BY LinkNumbers
<1>1. /\ "client" \in ran /\ "server" \in ran /\ ran' = {}
      /\ clientNext = "first" /\ serverNext = "first"
      /\ toServer = {} /\ toClient = {} /\ asked = "no"
      /\ UNCHANGED <<setting, clientNext, serverNext, asked, toServer, toClient, panicked, losses>>
  BY DEF Tick
<1>s. /\ PingEvery' = PingEvery /\ Chats' = Chats
      /\ Slack(losses)' = Slack(losses) /\ Slack(losses + 1)' = Slack(losses + 1)
  BY <1>1, SameNumbers
<1>2. \A k : ~Has(toServer, k) /\ ~Has(toClient, k)
  BY <1>1 DEF Has
<1> HIDE DEF Has
\* A clock that has not reached the timeout moves by one, and none by more.
<1>o. /\ \A age \in Nat : age < Timeout => Older(age) = age + 1
      /\ \A age \in Nat : Older(age) \in Nat /\ Older(age) <= age + 1
  BY <1>n DEF Older
<1>3. /\ client'.up = client.up /\ client'.authed = client.authed
      /\ client'.sincePong = Older(client.sincePong) /\ client'.sincePing = Older(client.sincePing)
  BY DEF Tick, TypeOK
<1>4. /\ entry.present => /\ entry'.present /\ entry'.authed = entry.authed
                          /\ entry'.stale = entry.stale /\ entry'.age = Older(entry.age)
                          /\ entry'.sincePong = Older(entry.sincePong)
                          /\ entry'.sincePing = Older(entry.sincePing)
      /\ ~entry.present => ~entry'.present
  <2>1. entry.present => entry \in [present : {TRUE}, authed : BOOLEAN, stale : BOOLEAN,
                                    age : Age, sincePong : Age, sincePing : Age]
    BY EntryType
  <2> QED BY <2>1 DEF Tick
\* The client ran a frame, so a ping that is due has gone out.
<1>5. client.sincePing < PingEvery /\ client'.sincePing = client.sincePing + 1
  BY <1>1, <1>n, <1>o, <1>3 DEF Linked, ClientSound
<1>6. ClientSound'
  BY <1>1, <1>2, <1>n, <1>s, <1>3, <1>4, <1>5 DEF Linked, ClientSound
<1>7. NoSessionYet'
  <2> SUFFICES ASSUME ~entry.present PROVE NoSessionYet'
    BY <1>4 DEF NoSessionYet
  <2>1. client.sincePong < losses /\ client.sincePing <= client.sincePong
    BY <1>1 DEF Linked, NoSessionYet
  <2>2. client'.sincePong = client.sincePong + 1
    BY <1>n, <1>o, <1>3, <2>1
  <2>3. client'.sincePing <= client'.sincePong /\ client'.sincePong <= losses
    BY <1>n, <1>5, <2>1, <2>2
  <2> QED BY <1>1, <1>2, <2>3 DEF NoSessionYet
<1>8. NewSession'
  <2> SUFFICES ASSUME entry.present, ~entry.authed PROVE NewSession'
    BY <1>4 DEF NewSession
  <2>1. entry.age = 0 /\ entry.sincePong = 0 /\ entry.sincePing = 0
    BY <1>1, <1>n DEF Linked, NewSession
  <2>2. Older(0) = 1
    BY <1>n, <1>o
  <2>3. entry'.age = 1 /\ entry'.sincePong = 1 /\ entry'.sincePing = 1
    BY <1>4, <2>1, <2>2
  <2> QED BY <1>1, <2>3 DEF NewSession
<1>9. ServerPingsInTime'
  <2> SUFFICES ASSUME entry.present PROVE ServerPingsInTime'
    BY <1>1, <1>2, <1>4 DEF ServerPingsInTime
  <2>1. entry.sincePing < PingEvery
    <3>1. CASE entry.authed
      BY <1>1, <3>1 DEF Linked, ServerPingsInTime
    <3>2. CASE ~entry.authed
      BY <1>1, <1>n, <3>2 DEF Linked, NewSession
    <3> QED BY <3>1, <3>2
  <2>2. entry'.sincePing = entry.sincePing + 1
    BY <1>n, <1>o, <1>4, <2>1
  <2>3. client.sincePong <= entry.sincePing + Slack(losses)
    BY <1>2 DEF Linked, ServerPingsInTime
  <2>4. /\ client'.sincePong <= entry'.sincePing + Slack(losses)
        /\ entry'.sincePing <= PingEvery
    <3>1. client'.sincePong \in Nat /\ client'.sincePong <= client.sincePong + 1
      BY <1>n, <1>o, <1>3
    <3> QED BY <1>n, <2>1, <2>2, <2>3, <3>1
  <2>5. ~entry.stale
    BY DEF Linked, ServerPingsInTime
  <2> QED BY <1>1, <1>2, <1>s, <1>4, <2>4, <2>5 DEF ServerPingsInTime
<1>10. ClientPingsInTime'
  <2> SUFFICES ASSUME entry.present, entry.authed PROVE ClientPingsInTime'
    BY <1>1, <1>4 DEF ClientPingsInTime
  <2>1. /\ ~client.authed => entry.sincePong < losses
        /\ losses = 0 => client.authed
        /\ entry.sincePong <= client.sincePing + Slack(losses)
    BY <1>1, <1>2 DEF Linked, ClientPingsInTime, Pending
  <2>2. entry'.sincePong \in Nat /\ entry'.sincePong <= entry.sincePong + 1
    BY <1>n, <1>o, <1>4
  <2>3. /\ ~client.authed => entry'.sincePong <= losses
        /\ entry'.sincePong <= client'.sincePing + Slack(losses)
    BY <1>n, <1>5, <2>1, <2>2
  <2>4. Pending'
    BY <1>1 DEF Pending
  <2> QED BY <1>1, <1>2, <1>s, <1>3, <2>1, <2>3, <2>4 DEF ClientPingsInTime
<1> QED BY <1>6, <1>7, <1>8, <1>9, <1>10 DEF Linked

-----------------------------------------------------------------------------
(* A good link was good before, and stays linked. *)

LEMMA GoodBefore ==
    ASSUME TypeOK, [Next]_vars, Good'
    PROVE  Good
<1>1. CASE Lose
  <2>1. losses' = losses + 1 /\ UNCHANGED <<setting, displaced>>
    BY <1>1 DEF Lose, history
  <2>2. losses \in Nat /\ losses + 1 \in Nat /\ PingEvery \in Nat /\ Timeout \in Nat
    BY SettingFacts
  <2>3. Slack((losses + 1) + 1) = Slack(losses + 1) + PingEvery /\ Slack(losses + 1) \in Nat
    BY <2>2, SlackFacts
  <2>4. Slack(losses + 1)' = Slack((losses + 1) + 1)
    BY <2>1 DEF Slack, PingEvery
  <2>5. Chats' = Chats /\ MaxLosses' = MaxLosses /\ Timeout' = Timeout
    BY <2>1 DEF Chats, MaxLosses, Timeout
  <2> HIDE DEF Slack
  <2> QED BY <2>1, <2>2, <2>3, <2>4, <2>5 DEF Good
<1>2. CASE ~Lose
  <2>1. UNCHANGED <<setting, losses>> /\ (displaced => displaced')
    <3>1. CASE ClientFrame
      BY <3>1 DEF ClientFrame, ClientFirst, ClientUpdate, ClientOnly
    <3>2. CASE ServerFirst \/ ServerPreUpdate
      BY <3>2 DEF ServerFirst, ServerPreUpdate, ServerOnly
    <3>3. CASE ServerUpdate
      BY <3>3 DEF ServerUpdate, ServerOnly, TakeDatagrams
    <3>4. CASE Tick \/ UNCHANGED vars
      BY <3>4 DEF Tick, vars, history
    <3> QED BY <1>2, <3>1, <3>2, <3>3, <3>4 DEF Next, ServerFrame
  <2>2. /\ Chats' = Chats /\ MaxLosses' = MaxLosses /\ Timeout' = Timeout
        /\ Slack(losses + 1)' = Slack(losses + 1)
    BY <2>1, SameNumbers
  <2> QED BY <2>1, <2>2 DEF Good
<1> QED BY <1>1, <1>2

LEMMA LinkedStep ==
    ASSUME TypeOK, [Next]_vars, Good, Good', Linked, ~panicked'
    PROVE  Linked'
<1>1. CASE ClientFirst
  BY <1>1, LinkedPing
<1>2. CASE ClientUpdate
  BY <1>2, LinkedClientUpdate
<1>3. CASE ServerFirst
  BY <1>3, LinkedServerFirst
<1>4. CASE ServerPreUpdate
  BY <1>4, LinkedPreUpdate
<1>5. CASE ServerUpdate
  BY <1>5, LinkedServerUpdate
<1>6. CASE Lose
  BY <1>6, LinkedLose
<1>7. CASE Tick
  BY <1>7, LinkedTick
<1>8. CASE UNCHANGED vars
  <2>1. /\ PingEvery' = PingEvery /\ Chats' = Chats
        /\ Slack(losses)' = Slack(losses) /\ Slack(losses + 1)' = Slack(losses + 1)
    BY <1>8, SameNumbers DEF vars
  <2> QED BY <1>8, <2>1 DEF vars, Linked, ClientSound, NoSessionYet, NewSession, ServerPingsInTime,
                            ClientPingsInTime, Pending
<1> QED BY <1>1, <1>2, <1>3, <1>4, <1>5, <1>6, <1>7, <1>8 DEF Next, ClientFrame, ServerFrame

LEMMA DroppedStep ==
    ASSUME TypeOK, [Next]_vars, Good, ~dropped, ~panicked => Linked
    PROVE  ~dropped'
<1>1. CASE ServerFirst
  BY <1>1, LinkedServerFirst DEF ServerFirst
<1>2. CASE ~ServerFirst
  <2>1. CASE ClientFrame
    BY <2>1 DEF ClientFrame, ClientFirst, ClientUpdate, ClientOnly
  <2>2. CASE ServerPreUpdate \/ ServerUpdate
    BY <2>2 DEF ServerPreUpdate, ServerUpdate
  <2>3. CASE Lose \/ Tick \/ UNCHANGED vars
    BY <2>3 DEF Lose, Tick, vars, history
  <2> QED BY <1>2, <2>1, <2>2, <2>3 DEF Next, ServerFrame
<1> QED BY <1>1, <1>2

-----------------------------------------------------------------------------
(* What a session without a peer comes from. *)

\* A link that loses nothing and has no chatter: what makes a session is an
\* authentication message.
LEMMA NeverFailsStep ==
    ASSUME IInv, [Next]_vars
    PROVE  NeverFails'
<1>1. UNCHANGED setting
  BY DEF Next, vars, ClientFrame, ClientFirst, ClientUpdate, ClientOnly, ServerFrame, ServerFirst,
         ServerPreUpdate, ServerUpdate, ServerOnly, Lose, Tick
<1>2. Chats' = Chats /\ MaxLosses' = MaxLosses
  BY <1>1 DEF Chats, MaxLosses
<1> SUFFICES ASSUME MaxLosses = 0, ~Chats
             PROVE  ~panicked' /\ (entry'.present /\ ~entry'.authed => asked' = "anonymous")
  BY <1>2 DEF NeverFails
<1>3. TypeOK /\ ~panicked /\ (entry.present /\ ~entry.authed => asked = "anonymous")
  BY DEF IInv, NeverFails
<1>4. losses = 0 /\ PingEvery < Timeout /\ PingEvery \in Nat /\ PingEvery >= 1
  BY <1>3, SettingFacts
<1>5. Good
  <2>1. Slack(losses + 1) = PingEvery
    BY <1>4 DEF Slack
  <2> QED BY <1>4, <2>1 DEF Good
<1>6. Linked
  BY <1>3, <1>5 DEF IInv
<1>e. entry.present => entry \in [present : {TRUE}, authed : BOOLEAN, stale : BOOLEAN,
                                  age : Age, sincePong : Age, sincePing : Age]
  BY <1>3, EntryType
<1>7. CASE ClientFrame
  <2>1. client.up
    BY <1>6 DEF Linked, ClientSound
  <2>2. UNCHANGED <<panicked, entry, asked>>
    BY <1>7, <2>1 DEF ClientFrame, ClientFirst, Restart, PingAndCheck, ClientUpdate, ClientOnly
  <2> QED BY <1>3, <2>2
<1>8. CASE ServerFirst
  <2>1. UNCHANGED <<panicked, asked>>
    BY <1>8 DEF ServerFirst, ServerOnly
  <2>2. entry'.present => entry.present /\ entry'.authed = entry.authed
    BY <1>8, <1>e DEF ServerFirst, NoEntry
  <2> QED BY <1>3, <2>1, <2>2
<1>9. CASE ServerPreUpdate
  <2>1. entry'.present => entry'.authed
    <3>1. CASE entry.present
      BY <1>3, <1>9, <1>e, <3>1 DEF ServerPreUpdate, Authenticates
    <3>2. CASE ~entry.present
      BY <1>9, <3>2 DEF ServerPreUpdate, Authenticates
    <3> QED BY <3>1, <3>2
  <2> QED BY <1>9, <2>1 DEF ServerPreUpdate
<1>10. CASE ServerUpdate
  <2>1. serverNext = "update" /\ UNCHANGED panicked
    BY <1>10 DEF ServerUpdate
  <2>2. entry.present => entry.authed
    BY <1>6, <2>1 DEF Linked, NewSession
  <2>3. CASE toServer = {}
    BY <1>3, <1>10, <2>1, <2>2, <2>3 DEF ServerUpdate
  <2>4. CASE TakeDatagrams
    <3>1. PICK first \in toServer, last \in toServer :
            /\ entry' = Heard(Entered(first), last)
            /\ asked' = IF last.kind # "auth" THEN "no"
                        ELSE IF Entered(first).authed THEN "peer" ELSE "anonymous"
      BY <2>4 DEF TakeDatagrams
    <3>2. CASE entry.present
      <4>1. entry'.authed
        BY <1>e, <2>2, <3>1, <3>2 DEF Heard, Entered
      <4> QED BY <1>3, <2>1, <4>1
    <3>3. CASE ~entry.present
      <4>1. client.sincePong = 0
        BY <1>3, <1>4, <1>5, <1>6, <3>3, LinkNumbers DEF Linked, NoSessionYet
      <4>2. ~Has(toServer, "ping") /\ ~Has(toServer, "chat")
        BY <1>6, <3>3, <4>1 DEF Linked, NoSessionYet, ClientSound
      <4>3. last.kind = "auth"
        BY <1>3, <4>2 DEF Has, TypeOK
      <4> QED BY <1>3, <2>1, <3>1, <3>3, <4>3 DEF Entered, NewEntry
    <3> QED BY <3>2, <3>3
  <2> QED BY <1>10, <2>3, <2>4 DEF ServerUpdate
<1>11. CASE Lose
  BY <1>3, <1>11 DEF Lose
<1>12. CASE Tick
  <2>1. entry.present => entry.authed
    BY <1>3, <1>12 DEF Tick
  <2>2. entry'.present => entry'.authed
    BY <1>12, <1>e, <2>1 DEF Tick
  <2> QED BY <1>3, <1>12, <2>2 DEF Tick
<1>13. CASE UNCHANGED vars
  BY <1>3, <1>13 DEF vars
<1> QED BY <1>7, <1>8, <1>9, <1>10, <1>11, <1>12, <1>13 DEF Next, ServerFrame

\* Before it is authenticated the client sends nothing but what asks for it, so
\* the session is there when anything else comes.
LEMMA AskingStep ==
    ASSUME TypeOK, [Next]_vars, Asking
    PROVE  Asking'
<1>0. (early => early') /\ (dropped => dropped')
  <2>0. {early, dropped, early', dropped'} \subseteq BOOLEAN
    BY TypeStep DEF TypeOK
  <2>1. CASE ClientFrame
    <3>1. /\ UNCHANGED dropped
          /\ \/ early' = early
             \/ early' = (early \/ (Pings /\ ~client.authed))
             \/ early' = (early \/ (Chats /\ Asks))
      BY <2>1 DEF ClientFrame, ClientFirst, Restart, PingAndCheck, ClientUpdate, ClientOnly
    <3> QED BY <2>0, <3>1
  <2>2. CASE ServerFrame
    <3>1. /\ UNCHANGED early
          /\ \/ dropped' = dropped
             \/ dropped' = (dropped \/ (entry.present /\ Expired))
      BY <2>2 DEF ServerFrame, ServerFirst, ServerPreUpdate, ServerUpdate, ServerOnly
    <3> QED BY <2>0, <3>1
  <2>3. CASE Lose \/ Tick \/ UNCHANGED vars
    BY <2>3 DEF Lose, Tick, vars, history
  <2> QED BY <2>1, <2>2, <2>3 DEF Next
<1> SUFFICES ASSUME ~early', ~dropped'
             PROVE  /\ ~panicked'
                    /\ client'.authed \/ Has(toClient', "answer") => entry'.present
                    /\ (\E d \in toServer' : d.kind # "auth") => entry'.present
                    /\ entry'.present /\ ~entry'.authed => asked' = "anonymous" /\ serverNext' # "update"
  BY DEF Asking
<1>1. /\ ~early /\ ~dropped /\ ~panicked
      /\ client.authed \/ Has(toClient, "answer") => entry.present
      /\ (\E d \in toServer : d.kind # "auth") => entry.present
      /\ entry.present /\ ~entry.authed => asked = "anonymous" /\ serverNext # "update"
  <2>1. ~early /\ ~dropped
    BY <1>0, Zenon
  <2> QED BY <2>1, Zenon DEF Asking
<1>e. entry.present => entry \in [present : {TRUE}, authed : BOOLEAN, stale : BOOLEAN,
                                  age : Age, sincePong : Age, sincePing : Age]
  BY EntryType
<1>2. CASE ClientFirst
  <2>1. UNCHANGED <<serverNext, asked, panicked>>
    BY <1>2 DEF ClientFirst, ClientOnly
  <2>2. CASE Restart
    <3>1. client'.authed = client.authed
      BY <2>2 DEF Restart, NewPort
    <3>2. entry'.present = entry.present /\ (entry.present => entry'.authed = entry.authed)
      BY <1>e, <2>2 DEF Restart
    <3>3. Has(toClient', "answer") => Has(toClient, "answer")
      BY <2>2 DEF Restart, Has
    <3>4. (\E d \in toServer' : d.kind # "auth") => \E d \in toServer : d.kind # "auth"
      <4>1. \A d \in toServer : [d EXCEPT !.stale = TRUE].kind = d.kind
        BY DEF TypeOK
      <4>2. CASE FixedPort
        BY <2>2, <4>2 DEF Restart
      <4>3. CASE ~FixedPort
        <5>1. toServer' = {[d EXCEPT !.stale = TRUE] : d \in toServer}
          BY <2>2, <4>3 DEF Restart
        <5> QED BY <4>1, <5>1
      <4> QED BY <4>2, <4>3
    <3> QED BY <1>1, <2>1, <3>1, <3>2, <3>3, <3>4
  <2>3. CASE PingAndCheck
    <3>1. client'.authed = client.authed /\ UNCHANGED <<toClient, entry>>
      BY <2>3 DEF PingAndCheck, TypeOK
    <3>2. Pings => client.authed
      BY <1>1, <2>3 DEF PingAndCheck
    <3>3. (\E d \in toServer' : d.kind # "auth") => entry.present
      BY <1>1, <2>3, <3>2 DEF PingAndCheck
    <3> QED BY <1>1, <2>1, <3>1, <3>3
  <2> QED BY <1>2, <2>2, <2>3 DEF ClientFirst
<1>3. CASE ClientUpdate
  <2>1. UNCHANGED <<serverNext, asked, panicked, entry>> /\ toClient' = {}
    BY <1>3 DEF ClientUpdate, ClientOnly
  <2>2. "answer" \in Taken => Has(toClient, "answer")
    BY DEF Taken, Has
  <2>3. client'.authed => entry.present
    BY <1>1, <1>3, <2>2 DEF ClientUpdate, TypeOK
  <2>4. Chats /\ client.up => entry.present
    BY <1>1, <1>3, <2>2 DEF ClientUpdate, Asks
  <2>5. ASSUME NEW d \in toServer', d.kind # "auth" PROVE entry.present
    <3>1. d \in toServer \/ (Chats /\ client.up)
      BY <1>3, <2>5 DEF ClientUpdate
    <3> QED BY <1>1, <2>4, <2>5, <3>1
  <2> QED BY <1>1, <2>1, <2>3, <2>5 DEF Has
<1>4. CASE ServerFirst
  <2>1. UNCHANGED <<panicked, asked, client, toServer>> /\ serverNext' = "pre_update"
    BY <1>4 DEF ServerFirst, ServerOnly
  <2>2. ~(entry.present /\ Expired)
    BY <1>4 DEF ServerFirst
  <2>3. entry'.present <=> entry.present
    BY <1>4, <1>e, <2>2 DEF ServerFirst, NoEntry
  <2>4. entry.present => entry'.authed = entry.authed
    BY <1>4, <1>e, <2>2 DEF ServerFirst
  <2>5. Has(toClient', "answer") => Has(toClient, "answer")
    BY <1>4 DEF ServerFirst, Has
  <2> QED BY <1>1, <2>1, <2>3, <2>4, <2>5
<1>5. CASE ServerPreUpdate
  <2>1. UNCHANGED <<client, toServer>>
    BY <1>5 DEF ServerPreUpdate, ServerOnly
  <2>2. CASE entry.present
    <3>1. entry'.present /\ entry'.authed
      BY <1>1, <1>5, <1>e, <2>2 DEF ServerPreUpdate, Authenticates
    <3>2. ~panicked'
      BY <1>5, <3>1 DEF ServerPreUpdate
    <3> QED BY <3>1, <3>2
  <2>3. CASE ~entry.present
    <3>1. entry' = entry /\ toClient' = toClient /\ ~panicked'
      BY <1>5, <2>3 DEF ServerPreUpdate, Authenticates, Answers
    <3> QED BY <1>1, <2>1, <2>3, <3>1
  <2> QED BY <2>2, <2>3
<1>6. CASE ServerUpdate
  <2>1. serverNext = "update" /\ serverNext' = "first" /\ toServer' = {}
        /\ UNCHANGED <<client, toClient, panicked>>
    BY <1>6 DEF ServerUpdate, ServerOnly
  <2>2. CASE toServer = {}
    <3>1. UNCHANGED entry
      BY <1>6, <2>2 DEF ServerUpdate
    <3> QED BY <1>1, <2>1, <3>1
  <2>3. CASE TakeDatagrams
    <3>1. PICK first \in toServer, last \in toServer :
            /\ entry' = Heard(Entered(first), last)
            /\ asked' = IF last.kind # "auth" THEN "no"
                        ELSE IF Entered(first).authed THEN "peer" ELSE "anonymous"
      BY <2>3 DEF TakeDatagrams
    <3>2. entry'.present
      BY <1>e, <3>1 DEF Heard, Entered, NewEntry
    <3>3. CASE entry.present
      <4>1. entry'.authed
        BY <1>1, <1>e, <2>1, <3>1, <3>3 DEF Heard, Entered
      <4> QED BY <1>1, <2>1, <3>2, <4>1
    <3>4. CASE ~entry.present
      <4>1. asked' = "anonymous"
        BY <1>1, <3>1, <3>4 DEF Entered, NewEntry
      <4> QED BY <1>1, <2>1, <3>2, <4>1
    <3> QED BY <3>3, <3>4
  <2> QED BY <1>6, <2>2, <2>3 DEF ServerUpdate
<1>7. CASE Lose
  <2>1. /\ toServer' \subseteq toServer /\ toClient' \subseteq toClient
        /\ UNCHANGED <<serverNext, client, entry, asked, panicked>>
    BY <1>7 DEF Lose
  <2> QED BY <1>1, <2>1 DEF Has
<1>8. CASE Tick
  <2>1. /\ toServer' = {} /\ toClient' = {} /\ asked = "no" /\ UNCHANGED panicked
        /\ client'.authed = client.authed
    BY <1>8 DEF Tick, TypeOK
  <2>2. entry'.present = entry.present /\ (entry.present => entry'.authed = entry.authed)
    BY <1>8, <1>e DEF Tick
  <2> QED BY <1>1, <2>1, <2>2 DEF Has
<1>9. CASE UNCHANGED vars
  BY <1>1, <1>9 DEF vars, Has
<1> QED BY <1>2, <1>3, <1>4, <1>5, <1>6, <1>7, <1>8, <1>9 DEF Next, ClientFrame, ServerFrame

-----------------------------------------------------------------------------
(* The theorems. *)

LEMMA InitInvariant == Init => IInv
<1> SUFFICES ASSUME Init PROVE IInv OBVIOUS
<1>1. TypeOK
  BY TypeInit
<1>2. /\ ~entry.present /\ ~client.authed /\ client.up /\ client.sincePing = 0 /\ client.sincePong = 0
      /\ toServer = {} /\ toClient = {} /\ ran = {} /\ asked = "no" /\ clientNext = "first"
      /\ ~panicked /\ ~dropped /\ losses = 0
  BY DEF Init, NewPort, NoEntry
<1>3. PingEvery \in Nat /\ PingEvery >= 1
  BY <1>1, SettingFacts
<1>4. Asking /\ NeverFails
  BY <1>2 DEF Asking, NeverFails, Has
<1>5. Linked
  <2>1. \A k : ~Has(toServer, k) /\ ~Has(toClient, k)
    BY <1>2 DEF Has
  <2>2. ClientSound /\ NoSessionYet /\ NewSession
    BY <1>2, <1>3, <2>1 DEF ClientSound, NoSessionYet, NewSession
  <2>3. ServerPingsInTime /\ ClientPingsInTime
    BY <1>2, <2>1 DEF ServerPingsInTime, ClientPingsInTime
  <2> QED BY <2>2, <2>3 DEF Linked
<1> QED BY <1>1, <1>2, <1>4, <1>5 DEF IInv

\* The invariant holds in every state that a client's UDP port and its session
\* at the server can reach.
THEOREM Invariance == Spec => []IInv
<1>1. Init => IInv
  BY InitInvariant
<1>2. IInv /\ [Next]_vars => IInv'
  <2> SUFFICES ASSUME IInv, [Next]_vars PROVE IInv' OBVIOUS
  <2>1. TypeOK /\ Asking
    BY DEF IInv
  <2>2. TypeOK' /\ Asking' /\ NeverFails'
    BY <2>1, TypeStep, AskingStep, NeverFailsStep
  <2>3. ASSUME Good' PROVE ~dropped' /\ (~panicked' => Linked')
    <3>1. Good
      BY <2>1, <2>3, GoodBefore
    <3>2. ~dropped /\ (~panicked => Linked)
      BY <3>1 DEF IInv
    <3>3. panicked => panicked'
      BY DEF Next, vars, ClientFrame, ClientFirst, ClientUpdate, ClientOnly, ServerFrame,
             ServerFirst, ServerPreUpdate, ServerUpdate, Lose, Tick
    <3>4. ~dropped'
      BY <2>1, <3>1, <3>2, DroppedStep
    <3>5. ~panicked' => Linked'
      BY <2>1, <2>3, <3>1, <3>2, <3>3, LinkedStep
    <3> QED BY <3>4, <3>5
  <2> QED BY <2>2, <2>3 DEF IInv
<1> QED BY <1>1, <1>2, PTL DEF Spec

\* The keep-alive holds a sound link for every ping interval that is shorter than
\* the timeout; the server gives up without a loss only where it did not look at
\* a ping; and fewer losses than pings are due before a side gives up, less one,
\* end nothing.
THEOREM LinkInvAlways == Spec => []LinkInv
<1>1. IInv => LinkInv
  <2> SUFFICES ASSUME IInv PROVE LinkInv OBVIOUS
  <2>1. TypeOK
    BY DEF IInv
  <2>2. /\ PingEvery \in Nat /\ PingEvery >= 1 /\ Timeout \in Nat /\ PingEvery < Timeout
        /\ MaxLosses \in Nat /\ losses \in Nat /\ losses <= MaxLosses
    BY <2>1, SettingFacts
  <2>3. Good => ~dropped /\ (~panicked => client.up)
    BY DEF IInv, Linked, ClientSound
  <2>4. KeptAlive
    <3> SUFFICES ASSUME MaxLosses = 0, ~Chats PROVE client.up /\ ~dropped /\ ~panicked
      BY DEF KeptAlive
    <3>1. losses = 0
      BY <2>2
    <3>2. Slack(losses + 1) = PingEvery
      BY <2>2, <3>1 DEF Slack
    <3>3. Good
      BY <2>2, <3>2 DEF Good
    <3>4. ~panicked
      BY DEF IInv, NeverFails
    <3> QED BY <2>3, <3>3, <3>4
  <2>5. DroppedByDisplacedPing
    BY <2>3 DEF DroppedByDisplacedPing, Good
  <2>6. SurvivesLosses
    <3> SUFFICES ASSUME ~Chats, losses < Timeout \div PingEvery - 1, ~panicked
                 PROVE  client.up /\ ~dropped
      BY DEF SurvivesLosses
    <3>1. PingEvery * (Timeout \div PingEvery) <= Timeout /\ Timeout \div PingEvery \in Nat
      BY <2>2
    <3>2. losses + 2 <= Timeout \div PingEvery
      BY <2>2, <3>1
    <3>3. \A p, m, n \in Nat : m <= n => p * m <= p * n
      OBVIOUS
    <3>4. PingEvery * (losses + 2) <= Timeout
      <4>1. losses + 2 \in Nat
        BY <2>2
      <4>2. PingEvery * (losses + 2) <= PingEvery * (Timeout \div PingEvery)
        BY <2>2, <3>1, <3>2, <3>3, <4>1
      <4>3. PingEvery * (losses + 2) \in Nat /\ PingEvery * (Timeout \div PingEvery) \in Nat
        BY <2>2, <3>1, <4>1
      <4> QED BY <2>2, <3>1, <4>2, <4>3
    <3>5. Slack(losses + 1) \in Nat /\ Slack((losses + 1) + 1) = Slack(losses + 1) + PingEvery
      <4>1. losses + 1 \in Nat
        BY <2>2
      <4> QED BY <2>1, <4>1, SlackFacts
    <3>6. Slack((losses + 1) + 1) = PingEvery * (losses + 2)
      BY <2>2 DEF Slack
    <3>7. Slack(losses + 1) < Timeout
      BY <2>2, <3>4, <3>5, <3>6
    <3> QED BY <2>3, <3>7 DEF Good
  <2> QED BY <2>1, <2>4, <2>5, <2>6 DEF LinkInv
<1> QED BY <1>1, Invariance, PTL

\* The unwrap of authenticate_unreliable_ports fails only after a client sent a
\* ping or a message of its own before its port was authenticated, or after the
\* server had given a session up.
THEOREM PanicExplainedAlways == Spec => []PanicExplained
<1>1. IInv => PanicExplained
  BY DEF IInv, Asking, PanicExplained
<1> QED BY <1>1, Invariance, PTL
=============================================================================
