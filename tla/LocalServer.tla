---------------------------- MODULE LocalServer ----------------------------
(***************************************************************************)
(* A program that is server and client at once: the client connections     *)
(* that have a server connection of their number become local, messages on *)
(* them go from one side's systems to the other's without a stream, and    *)
(* the local peer is authenticated by a system of its own.                 *)
(*                                                                         *)
(* A connection has its main port (0) and at most one secondary port (1),  *)
(* so the port numbers have no gap (PortTable.tla shows what gaps do). The *)
(* systems of First are not ordered among each other.                      *)
(***************************************************************************)
EXTENDS Naturals

CONSTANT Connections   \* connection numbers, of both sides

Ports == {0, 1}
ClientPorts == Connections \X Ports

VARIABLES
    stage,       \* schedule the frame is in
    ran,         \* systems of the schedule that ran in this frame
    serverPorts, \* per number: ports of the server connection, {} if there is none
    clientPorts, \* per number: ports of the client connection, {} if there is none
    isLocal,     \* numbers of client connections with local_connection set
    dialling,    \* client ports that were started
    connected,   \* client ports with a stream to some other program's server
    flagged,     \* client ports whose is_port_authenticated holds
    announced,   \* per client port: ClientPortAuthenticated events meant for it
    named,       \* those announced under their own number
    reopened,    \* history: secondary ports opened while an answer to the last
                 \* port of the number was waiting
    toServer,    \* MessageReceivedFromPeer<AuthenticationMessage>, per port
    toClient,    \* MessageReceivedFromServer<AuthenticatedFromServer>, per port
    remote       \* ports an AuthenticationMessage was written to a stream of

ports == <<serverPorts, clientPorts, isLocal>>
authentication == <<flagged, announced, named>>
mail == <<toServer, toClient, remote>>
localVars == <<stage, ran, ports, dialling, connected, authentication, reopened, mail>>

Opened == {cp \in ClientPorts : cp[2] \in clientPorts[cp[1]]}

LocalInit ==
    /\ stage = "first" /\ ran = {}
    /\ serverPorts \in [Connections -> {{}, {0}}] /\ clientPorts \in [Connections -> {{}, {0}}]
    /\ isLocal = {} /\ dialling = {} /\ connected = {}
    /\ flagged = {} /\ announced = [cp \in ClientPorts |-> 0] /\ named = {}
    /\ reopened = {}
    /\ toServer = {} /\ toClient = {} /\ remote = {}

\* A system of the schedule runs once in a frame.
Runs(system, schedule) ==
    /\ stage = schedule /\ system \notin ran
    /\ ran' = ran \cup {system} /\ UNCHANGED stage

-----------------------------------------------------------------------------
(* First. *)

\* Variant with a bug: only the ports of local connections are authenticated.
ToAuthenticateLocal == {cp \in Opened \ flagged : cp[1] \in isLocal}

\* Every client port, those of connections to other programs' servers included.
ToAuthenticate == Opened \ flagged

\* A secondary port is announced as port 0.
AuthenticateLocalPeer ==
    /\ Runs("authenticate_local_peer", "first")
    /\ flagged' = flagged \cup ToAuthenticate
    /\ announced' = [cp \in ClientPorts |->
                       announced[cp] + IF cp \in ToAuthenticate THEN 1 ELSE 0]
    /\ named' = named \cup {cp \in ToAuthenticate : cp[2] = 0}
    /\ UNCHANGED <<ports, dialling, connected, reopened, mail>>

\* A connection that is local, or becomes so, has none of its ports started.
BecomesLocal == {c \in Connections : clientPorts[c] # {} /\ serverPorts[c] # {}}

StartPorts ==
    /\ Runs("start_ports", "first")
    /\ isLocal' = isLocal \cup BecomesLocal
    /\ dialling' = dialling \cup {cp \in Opened : cp[1] \notin isLocal'}
    /\ UNCHANGED <<serverPorts, clientPorts, connected, authentication, reopened, mail>>

\* started() takes the stream; a local connection's ports are not asked.
TakeStream(cp) ==
    /\ stage = "first" /\ cp \in dialling \ connected /\ cp[1] \notin isLocal
    /\ connected' = connected \cup {cp}
    /\ UNCHANGED <<stage, ran, ports, dialling, authentication, reopened, mail>>

-----------------------------------------------------------------------------
(* PreUpdate and Update. *)

\* check_peer_authenticated: the local peer's session is always known, so the
\* message is answered if the server connection has the port.
CheckPeerAuthenticated ==
    /\ Runs("check_peer_authenticated", "pre_update")
    /\ toServer' = {}
    /\ toClient' = toClient \cup {cp \in toServer : cp[2] \in serverPorts[cp[1]]}
    /\ UNCHANGED <<ports, dialling, connected, authentication, reopened, remote>>

\* On a local connection send_message goes to the server's systems; on another
\* it is written to the port's stream, if the port has one.
AuthenticatePort ==
    /\ Runs("authenticate_port", "update")
    /\ toServer' = toServer \cup {cp \in Opened \ flagged : cp[1] \in isLocal}
    /\ remote' = remote \cup {cp \in (Opened \ flagged) \cap connected : cp[1] \notin isLocal}
    /\ UNCHANGED <<ports, dialling, connected, authentication, reopened, toClient>>

\* Variant with a bug: the port is announced although it is authenticated.
AnsweredAgain == toClient \cap Opened

\* The ports an answer authenticates.
Answered == (toClient \cap Opened) \ flagged

CheckPortAuthenticated ==
    /\ "authenticate_port" \in ran
    /\ Runs("check_port_authenticated", "update")
    /\ flagged' = flagged \cup Answered
    /\ announced' = [cp \in ClientPorts |-> announced[cp] + IF cp \in Answered THEN 1 ELSE 0]
    /\ named' = named \cup Answered
    /\ toClient' = {}
    /\ UNCHANGED <<ports, dialling, connected, reopened, toServer, remote>>

\* The schedules follow one another when their systems have run.
SystemsOf(schedule) ==
    CASE schedule = "first" -> {"authenticate_local_peer", "start_ports"}
      [] schedule = "pre_update" -> {"check_peer_authenticated"}
      [] OTHER -> {"authenticate_port", "check_port_authenticated"}

NextSchedule ==
    /\ ran = SystemsOf(stage) /\ ran' = {}
    /\ stage' = CASE stage = "first" -> "pre_update"
                  [] stage = "pre_update" -> "update"
                  [] OTHER -> "first"
    /\ UNCHANGED <<ports, dialling, connected, authentication, reopened, mail>>

-----------------------------------------------------------------------------
(* The application, in Update. *)

Application == stage = "update" /\ UNCHANGED <<stage, ran, mail>>

SetServerPorts(c, to) ==
    /\ Application /\ serverPorts' = [serverPorts EXCEPT ![c] = to]
    /\ UNCHANGED <<clientPorts, isLocal, dialling, connected, authentication, reopened>>

StartServer(c) == serverPorts[c] = {} /\ SetServerPorts(c, {0})
OpenServerPort(c) == serverPorts[c] = {0} /\ SetServerPorts(c, {0, 1})
CloseServer(c) == serverPorts[c] # {} /\ SetServerPorts(c, {})

\* Variant with a bug: what was started of a closed port goes on.
ForgetAuthentication(gone) ==
    /\ flagged' = flagged \ gone /\ named' = named \ gone /\ reopened' = reopened \ gone
    /\ announced' = [cp \in ClientPorts |-> IF cp \in gone THEN 0 ELSE announced[cp]]
    /\ UNCHANGED <<dialling, connected>>

\* A port that is opened again is a new one: not authenticated, not started.
Forget(gone) ==
    /\ flagged' = flagged \ gone /\ named' = named \ gone /\ reopened' = reopened \ gone
    /\ announced' = [cp \in ClientPorts |-> IF cp \in gone THEN 0 ELSE announced[cp]]
    /\ dialling' = dialling \ gone /\ connected' = connected \ gone

StartClient(c) ==
    /\ Application /\ clientPorts[c] = {}
    /\ clientPorts' = [clientPorts EXCEPT ![c] = {0}]
    /\ UNCHANGED <<serverPorts, isLocal, dialling, connected, authentication, reopened>>

OpenClientPort(c) ==
    /\ Application /\ clientPorts[c] = {0}
    /\ clientPorts' = [clientPorts EXCEPT ![c] = {0, 1}]
    /\ reopened' = IF <<c, 1>> \in toClient THEN reopened \cup {<<c, 1>>} ELSE reopened
    /\ UNCHANGED <<serverPorts, isLocal, dialling, connected, authentication>>

\* close_port of the secondary port, and close_connection.
CloseClient(c, kept) ==
    /\ Application /\ kept \in {{}, {0}}
    /\ IF kept = {} THEN clientPorts[c] # {} ELSE clientPorts[c] = {0, 1}
    /\ clientPorts' = [clientPorts EXCEPT ![c] = kept]
    /\ isLocal' = IF kept = {} THEN isLocal \ {c} ELSE isLocal
    /\ Forget({c} \X (Ports \ kept))
    /\ UNCHANGED serverPorts

Systems ==
    \/ AuthenticateLocalPeer \/ StartPorts \/ CheckPeerAuthenticated
    \/ AuthenticatePort \/ CheckPortAuthenticated \/ NextSchedule

LocalNext ==
    \/ Systems
    \/ \E cp \in ClientPorts : TakeStream(cp)
    \/ \E c \in Connections :
         \/ StartServer(c) \/ OpenServerPort(c) \/ CloseServer(c)
         \/ StartClient(c) \/ OpenClientPort(c) \/ \E kept \in {{}, {0}} : CloseClient(c, kept)

\* The systems of every frame run.
LocalSpec == LocalInit /\ [][LocalNext]_localVars /\ WF_localVars(Systems)

-----------------------------------------------------------------------------
(* Properties. *)

\* The type of every variable.
LocalTypeOK ==
    /\ stage \in {"first", "pre_update", "update"} /\ ran \subseteq SystemsOf(stage)
    /\ {serverPorts, clientPorts} \subseteq [Connections -> {{}, {0}, {0, 1}}]
    /\ isLocal \subseteq {c \in Connections : clientPorts[c] # {}}
    /\ connected \subseteq dialling /\ dialling \cup flagged \subseteq Opened
    /\ announced \in [ClientPorts -> 0..1]
    /\ named \cup reopened \subseteq ClientPorts
    /\ toServer \cup toClient \cup remote \subseteq ClientPorts

\* Every client port is announced once when it is authenticated, whichever of
\* the two systems is first, and although both may come to it in a frame.
AnnouncedOnce == \A cp \in ClientPorts : announced[cp] = IF cp \in flagged THEN 1 ELSE 0

\* A program that is a server too never asks another server for a session: all
\* of its ports count as authenticated before they have a stream, those on
\* connections to other programs included, and that server never hears of it.
NeverAsksAnotherServer == remote = {}

\* No listener hears of a secondary port by its number, but of one that took
\* the place of another while the answer to that was waiting.
SecondaryNamedByChanceOnly ==
    \A c \in Connections : <<c, 1>> \in named => <<c, 1>> \in reopened

\* The invariant: types, and what listeners of ClientPortAuthenticated hear.
LocalInv == LocalTypeOK /\ AnnouncedOnce /\ SecondaryNamedByChanceOnly

\* Every port that stays open is announced, on either kind of connection.
Announced == \A cp \in ClientPorts : cp \in Opened ~> (cp \in flagged \/ cp \notin Opened)
=============================================================================
