------------------------------ MODULE UdpLink ------------------------------
(***************************************************************************)
(* The UDP port of a client and its session at the server's UDP port: who  *)
(* pings whom, what a ping refreshes, who gives up when, and to which      *)
(* address the server answers.                                             *)
(*                                                                         *)
(* The client is authenticated on the main TCP port and stays so. Time is  *)
(* counted in ticks, long against a frame and a flight: both programs run  *)
(* a frame in every tick, a tick passes between frames, and what is in     *)
(* flight arrives or is lost before it. An address matters only by whether *)
(* it is the one of the client's present socket.                           *)
(***************************************************************************)
EXTENDS Integers, FiniteSets

CONSTANT Settings   \* settings to choose from, each a record of
                    \*   pingEvery: ticks between pings (10 seconds in the code)
                    \*   timeout: ticks without a ping until a side gives up (120 seconds)
                    \*   fixedPort: the client's port is not 0, every socket has one address
                    \*   chats: the client's application sends datagrams of its own
                    \*   maxLosses: bound, datagrams lost in a run

ASSUME LinkAssumption ==
    \A st \in Settings :
        /\ st.pingEvery \in Nat \ {0} /\ st.timeout \in Nat /\ st.pingEvery < st.timeout
        /\ {st.fixedPort, st.chats} \subseteq BOOLEAN /\ st.maxLosses \in Nat

NoEntry == [present |-> FALSE]

VARIABLES
    setting,                  \* never changes
    clientNext, serverNext,   \* next step of either program's frame
    ran,                      \* programs that ran a frame in this tick
    client,                   \* UdpClientPort: up, authenticated, ticks since pong and ping
    entry,                    \* the session in UdpServerPort.peers_connected, or NoEntry
    asked,                    \* authentication message dispatched and not read
    toServer, toClient,       \* datagrams in flight
    panicked,                 \* the server failed in authenticate_unreliable_ports
    dropped, early, displaced,\* history: the server gave up; the client sent another
                              \* datagram before the port was authenticated; a ping
                              \* came, and not as the last of the frame
    losses

history == <<dropped, early, displaced>>
vars == <<setting, clientNext, serverNext, ran, client, entry, asked, toServer, toClient,
          panicked, history, losses>>

PingEvery == setting.pingEvery
Timeout == setting.timeout
FixedPort == setting.fixedPort
Chats == setting.chats
MaxLosses == setting.maxLosses

\* Variant with a bug: a clock runs on past what anyone compares it with.
OlderUncapped(age) == age + 1
Older(age) == IF age < Timeout THEN age + 1 ELSE age

NewPort(authed) == [up |-> TRUE, authed |-> authed, sincePong |-> 0, sincePing |-> 0]

Init ==
    /\ setting \in Settings
    /\ clientNext = "first" /\ serverNext = "first" /\ ran = {}
    /\ client = NewPort(FALSE)
    /\ entry = NoEntry /\ asked = "no"
    /\ toServer = {} /\ toClient = {}
    /\ panicked = FALSE
    /\ dropped = FALSE /\ early = FALSE /\ displaced = FALSE
    /\ losses = 0

-----------------------------------------------------------------------------
(* The client's frame. *)

ClientOnly == UNCHANGED <<setting, serverNext, asked, panicked, dropped, displaced, losses>>

\* start_ports: the port is on a new socket. Unless the port number is fixed,
\* whatever was sent from the old one, and the server's entry, name an address
\* nobody listens on any more.
Restart ==
    /\ ~client.up
    /\ client' = NewPort(client.authed)
    /\ IF FixedPort THEN UNCHANGED <<toServer, toClient, entry>>
       ELSE /\ toServer' = {[d EXCEPT !.stale = TRUE] : d \in toServer}
            /\ toClient' = {}
            /\ entry' = IF entry.present THEN [entry EXCEPT !.stale = TRUE] ELSE entry
    /\ UNCHANGED early

\* Variant with a bug: the port pings by the clock that ends it.
PingsTooLate == client.sincePing > Timeout
\* ping_ports, then check_port_disconnected.
Pings == client.sincePing >= PingEvery

\* Variant with a bug: the port gives up as soon as a ping is due.
GivesUpEarly == client.sincePong >= PingEvery
GivesUp == client.sincePong >= Timeout

PingAndCheck ==
    /\ client.up
    /\ toServer' = IF Pings THEN toServer \cup {[kind |-> "ping", stale |-> FALSE]} ELSE toServer
    /\ early' = (early \/ (Pings /\ ~client.authed))
    /\ client' = [client EXCEPT !.sincePing = IF Pings THEN 0 ELSE @, !.up = ~GivesUp]
    /\ UNCHANGED <<toClient, entry>>

ClientFirst ==
    /\ clientNext = "first" /\ clientNext' = "update"
    /\ Restart \/ PingAndCheck
    /\ UNCHANGED ran /\ ClientOnly

\* Update: every datagram waiting is taken, a ping is the pong, the answer sets
\* the flag; a port that is not authenticated asks, and the application sends.
Taken == IF client.up THEN {d.kind : d \in toClient} ELSE {}
Asks == client.up /\ ~(client.authed \/ "answer" \in Taken)

ClientUpdate ==
    /\ clientNext = "update" /\ clientNext' = "first"
    /\ ran' = ran \cup {"client"}
    /\ client' = [client EXCEPT !.sincePong = IF "ping" \in Taken THEN 0 ELSE @,
                                !.authed = @ \/ "answer" \in Taken]
    /\ toClient' = {}
    /\ toServer' = toServer
         \cup {[kind |-> k, stale |-> FALSE] :
                 k \in (IF Asks THEN {"auth"} ELSE {})
                       \cup (IF Chats /\ client.up THEN {"chat"} ELSE {})}
    /\ early' = (early \/ (Chats /\ Asks))
    /\ UNCHANGED entry /\ ClientOnly

-----------------------------------------------------------------------------
(* The server's frame. *)

ServerOnly == UNCHANGED <<setting, clientNext, client, early, losses>>

\* Variants with a bug: the age of a session counts after it got a peer too;
\* a session is kept for ever once it has one.
ExpiredByAge == entry.age >= Timeout \/ entry.sincePong >= Timeout
ExpiredAnonymous == ~entry.authed /\ entry.age >= Timeout

\* get_peers_disconnected.
Expired == \/ ~entry.authed /\ entry.age >= Timeout
           \/ entry.sincePong >= Timeout

\* Variant with a bug: the sessions without a peer are pinged, not the others.
ServerPingsAnonymous == entry.present /\ ~Expired /\ ~entry.authed /\ entry.sincePing >= PingEvery

\* ping_ports.
ServerPings == entry.present /\ ~Expired /\ entry.authed /\ entry.sincePing >= PingEvery

ServerFirst ==
    /\ ~panicked /\ serverNext = "first" /\ serverNext' = "pre_update"
    /\ entry' = IF ~entry.present \/ Expired THEN NoEntry
                ELSE [entry EXCEPT !.sincePing = IF ServerPings THEN 0 ELSE @]
    /\ dropped' = (dropped \/ (entry.present /\ Expired))
    /\ toClient' = IF ServerPings /\ ~entry.stale THEN toClient \cup {[kind |-> "ping"]} ELSE toClient
    /\ UNCHANGED <<ran, asked, toServer, panicked, displaced>> /\ ServerOnly

\* Variant with a bug: only a session that has a peer is given one.
AuthenticatesPeers == asked = "peer" /\ entry.present
\* PreUpdate: check_peer_authenticated answers, with the entry there and either
\* without a peer when the message was taken and still, or with one then; the
\* unwrap of authenticate_unreliable_ports meets a session left without a peer.
Authenticates == asked = "anonymous" /\ entry.present /\ ~entry.authed
Answers == Authenticates \/ (asked = "peer" /\ entry.present /\ entry.authed)

ServerPreUpdate ==
    /\ ~panicked /\ serverNext = "pre_update" /\ serverNext' = "update"
    /\ entry' = IF Authenticates THEN [entry EXCEPT !.authed = TRUE] ELSE entry
    /\ toClient' = IF Answers /\ ~entry.stale THEN toClient \cup {[kind |-> "answer"]} ELSE toClient
    /\ asked' = "no"
    /\ panicked' = (entry'.present /\ ~entry'.authed)
    /\ UNCHANGED <<ran, toServer, dropped, displaced>> /\ ServerOnly

\* get_peers_messages: the first datagram makes the entry with its address, the
\* last one alone is looked at; a ping is the pong.
NewEntry(first) ==
    [present |-> TRUE, authed |-> FALSE, stale |-> first.stale,
     age |-> 0, sincePong |-> 0, sincePing |-> 0]
Entered(first) == IF entry.present THEN entry ELSE NewEntry(first)

\* Variants with a bug: no ping is taken for a pong; a ping of a session with a
\* peer is not.
HeardNothing(e, last) == e
HeardAnonymous(e, last) ==
    IF last.kind = "ping" /\ ~e.authed THEN [e EXCEPT !.sincePong = 0] ELSE e
Heard(e, last) == IF last.kind = "ping" THEN [e EXCEPT !.sincePong = 0] ELSE e

TakeDatagrams ==
    \E first, last \in toServer :
        /\ entry' = Heard(Entered(first), last)
        /\ asked' = IF last.kind # "auth" THEN "no"
                    ELSE IF Entered(first).authed THEN "peer" ELSE "anonymous"
        /\ displaced' = (displaced \/ (last.kind # "ping" /\ \E d \in toServer : d.kind = "ping"))

ServerUpdate ==
    /\ ~panicked /\ serverNext = "update" /\ serverNext' = "first"
    /\ ran' = ran \cup {"server"}
    /\ IF toServer = {} THEN UNCHANGED <<entry, asked, displaced>> ELSE TakeDatagrams
    /\ toServer' = {}
    /\ UNCHANGED <<toClient, panicked, dropped>> /\ ServerOnly

-----------------------------------------------------------------------------
(* The network and time. *)

Lose ==
    /\ losses < MaxLosses /\ losses' = losses + 1
    /\ \/ \E d \in toServer : toServer' = toServer \ {d} /\ UNCHANGED toClient
       \/ \E d \in toClient : toClient' = toClient \ {d} /\ UNCHANGED toServer
    /\ UNCHANGED <<setting, clientNext, serverNext, ran, client, entry, asked, panicked, history>>

Tick ==
    /\ ran = {"client", "server"} /\ ran' = {}
    /\ clientNext = "first" /\ serverNext = "first"
    /\ toServer = {} /\ toClient = {} /\ asked = "no"
    /\ client' = [client EXCEPT !.sincePong = Older(@), !.sincePing = Older(@)]
    /\ entry' = IF entry.present
                THEN [entry EXCEPT !.age = Older(@), !.sincePong = Older(@), !.sincePing = Older(@)]
                ELSE entry
    /\ UNCHANGED <<setting, clientNext, serverNext, asked, toServer, toClient, panicked, history, losses>>

ClientFrame == ClientFirst \/ ClientUpdate
ServerFrame == ServerFirst \/ ServerPreUpdate \/ ServerUpdate

Next == ClientFrame \/ ServerFrame \/ Lose \/ Tick

\* Frames follow one another, and time passes between them.
Spec == /\ Init /\ [][Next]_vars
        /\ WF_vars(ClientFrame) /\ WF_vars(ServerFrame) /\ SF_vars(Tick)

-----------------------------------------------------------------------------
(* Properties. *)

Age == 0..Timeout

\* The type of every variable.
TypeOK ==
    /\ setting \in Settings
    /\ clientNext \in {"first", "update"} /\ serverNext \in {"first", "pre_update", "update"}
    /\ ran \subseteq {"client", "server"}
    /\ client \in [up : BOOLEAN, authed : BOOLEAN, sincePong : Age, sincePing : Age]
    /\ entry = NoEntry \/ entry \in [present : {TRUE}, authed : BOOLEAN, stale : BOOLEAN,
                                     age : Age, sincePong : Age, sincePing : Age]
    /\ asked \in {"no", "anonymous", "peer"}
    /\ toServer \subseteq [kind : {"auth", "ping", "chat"}, stale : BOOLEAN]
    /\ toClient \subseteq [kind : {"ping", "answer"}]
    /\ {panicked, dropped, early, displaced} \subseteq BOOLEAN
    /\ losses \in 0..MaxLosses

\* The keep-alive works: with nothing lost and no chatter, neither side ever
\* gives up, and the server does not fail, although the two ping each other by
\* clocks of their own and a ping is one datagram of several.
KeptAlive ==
    MaxLosses = 0 /\ ~Chats => client.up /\ ~dropped /\ ~panicked

\* With nothing lost, the server gives up on a session only where a ping of its
\* came with another datagram after it: the server looks at the last of a frame
\* only, and so gives up on a client it hears all the time.
DroppedByDisplacedPing == MaxLosses = 0 /\ dropped => displaced

\* The server fails only on a client that sent something else before the port
\* was authenticated, or whose session it had given up: the client believes
\* that it is still authenticated, and its next datagram makes a new session
\* that nobody asked to authenticate.
PanicExplained == panicked => early \/ dropped

\* A few lost datagrams end nothing: fewer than the pings that are due before a
\* side gives up, less the one that goes out in the frame that gives up. (A
\* server that failed pings nobody, and chatter loses pings of its own.)
SurvivesLosses ==
    ~Chats /\ losses < Timeout \div PingEvery - 1 => panicked \/ (client.up /\ ~dropped)

\* The invariant: types, and nobody is given up without a cause.
LinkInv == TypeOK /\ KeptAlive /\ DroppedByDisplacedPing /\ SurvivesLosses

\* Once nothing is lost any more the client is up for good, unless the server
\* failed. With a new port number for every socket there is a third end: the
\* client gives up again and again, and the server's entry again and again holds
\* the address of an earlier socket, made with the first datagram and never
\* refreshed while the client's own pings keep the entry.
Recovers ==
    <>[](client.up) \/ <>panicked \/ (~FixedPort /\ []<>(entry.present /\ entry.stale))
=============================================================================
