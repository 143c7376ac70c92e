--------------------------- MODULE UdpServerPort ---------------------------
(***************************************************************************)
(* The life of a server's UDP port: the UdpServerPort structure, the task  *)
(* each start() spawns to bind the address and to receive, and the systems *)
(* that drive it. Sessions and datagrams are UdpLink's subject.            *)
(*                                                                         *)
(* A UDP port is always a secondary port. When the application closes it,  *)
(* the connection keeps its runtime and with it the task, which holds the  *)
(* socket: a port opened again on the same address meets its predecessor.  *)
(***************************************************************************)
EXTENDS Integers, Sequences, FiniteSets

CONSTANTS MaxPorts,     \* bound: ports opened one after another on the address
          MaxFaults,    \* bound: binds that fail and receive errors in a run
          NoSocket      \* Option::None

VARIABLES
    stage,                            \* next system of the frame
    port,                             \* number of the current port object
    alive,                            \* the connection holds it
    started, starting, firstStarted,
    udpSocket,                        \* task whose socket the port holds, or NoSocket
    receiveTasks,                     \* tasks not ended: id, port, phase, captured first_started
    socketChan,                       \* udp_socket channel of the current port
    downedChan,                       \* connecting_downed channel of the current port
    told,                             \* the last event written about the port
    faults

flags == <<started, starting, firstStarted>>
chans == <<socketChan, downedChan>>
vars == <<stage, port, alive, flags, udpSocket, receiveTasks, chans, told, faults>>

Stages == {"start_ports", "check_port_disconnected", "app"}
GoTo(from, to) == stage = from /\ stage' = to
InPhase(phase) == {t \in receiveTasks : t.phase = phase}
Mine(t) == alive /\ t.port = port      \* the task's channels are still read
IdsInUse == {t.id : t \in receiveTasks} \cup {udpSocket} \cup {socketChan[k] : k \in DOMAIN socketChan}
FreshId == CHOOSE i \in 1..(Cardinality(IdsInUse) + 1) : i \notin IdsInUse
NewTask == [id |-> FreshId, port |-> port, phase |-> "binding", first |-> firstStarted]

NewPort ==
    /\ started' = FALSE /\ starting' = FALSE /\ firstStarted' = FALSE
    /\ udpSocket' = NoSocket /\ socketChan' = <<>> /\ downedChan' = <<>>
    /\ told' = [event |-> "nothing", was |-> FALSE]

Init ==
    /\ stage = "start_ports" /\ port = 1 /\ alive = TRUE
    /\ started = FALSE /\ starting = FALSE /\ firstStarted = FALSE
    /\ udpSocket = NoSocket /\ receiveTasks = {} /\ socketChan = <<>> /\ downedChan = <<>>
    /\ told = [event |-> "nothing", was |-> FALSE]
    /\ faults = 0

-----------------------------------------------------------------------------
(* The systems of the First schedule. *)

TakeSocket ==
    /\ ~started /\ socketChan # <<>>
    /\ started' = TRUE /\ starting' = FALSE /\ firstStarted' = TRUE
    /\ udpSocket' = Head(socketChan)
    /\ socketChan' = Tail(socketChan)
    /\ told' = [event |-> "connected", was |-> FALSE]
    /\ UNCHANGED <<receiveTasks, downedChan>>

\* Variant with a bug: start() does not look at `starting'.
SpawnTaskTwice ==
    /\ ~started /\ socketChan = <<>> /\ Cardinality(receiveTasks) <= MaxPorts
    /\ starting' = TRUE
    /\ receiveTasks' = receiveTasks \cup {NewTask}
    /\ UNCHANGED <<started, firstStarted, udpSocket, chans, told>>

SpawnTask ==
    /\ ~started /\ socketChan = <<>> /\ ~starting
    /\ starting' = TRUE
    /\ receiveTasks' = receiveTasks \cup {NewTask}
    /\ UNCHANGED <<started, firstStarted, udpSocket, chans, told>>

NothingToStart ==
    /\ started \/ (starting /\ socketChan = <<>>)
    /\ UNCHANGED <<flags, udpSocket, receiveTasks, chans, told>>

StartPorts ==
    /\ alive /\ GoTo("start_ports", "check_port_disconnected")
    /\ TakeSocket \/ SpawnTask \/ NothingToStart
    /\ UNCHANGED <<port, alive, faults>>

\* Variant with a bug: the port believes a start is under way.
PortDownStillStarting ==
    /\ downedChan # <<>>
    /\ started' = FALSE
    /\ udpSocket' = NoSocket
    /\ downedChan' = Tail(downedChan)
    /\ told' = [event |-> "disconnected", was |-> Head(downedChan)]
    /\ UNCHANGED <<starting, firstStarted>>

PortDown ==
    /\ downedChan # <<>>
    /\ started' = FALSE /\ starting' = FALSE
    /\ udpSocket' = NoSocket
    /\ downedChan' = Tail(downedChan)
    /\ told' = [event |-> "disconnected", was |-> Head(downedChan)]
    /\ UNCHANGED firstStarted

PortUp == downedChan = <<>> /\ UNCHANGED <<flags, udpSocket, downedChan, told>>

CheckPortDisconnected ==
    /\ alive /\ GoTo("check_port_disconnected", "app")
    /\ PortDown \/ PortUp
    /\ UNCHANGED <<port, alive, receiveTasks, socketChan, faults>>

EndFrame ==
    /\ GoTo("app", "start_ports")
    /\ UNCHANGED <<port, alive, flags, udpSocket, receiveTasks, chans, told, faults>>

SkipSystem ==
    /\ ~alive /\ stage # "app" /\ stage' = "app"
    /\ UNCHANGED <<port, alive, flags, udpSocket, receiveTasks, chans, told, faults>>

-----------------------------------------------------------------------------
(* The application. *)

\* close_port: close() drops the port's own handle of the socket. The task
\* has another one.
ClosePort ==
    /\ alive /\ stage = "app"
    /\ alive' = FALSE
    /\ udpSocket' = NoSocket /\ socketChan' = <<>> /\ downedChan' = <<>>
    /\ UNCHANGED <<stage, port, flags, receiveTasks, told, faults>>

\* close_connection: the runtime is dropped with all tasks.
CloseConnection ==
    /\ stage = "app"
    /\ alive' = FALSE
    /\ udpSocket' = NoSocket /\ socketChan' = <<>> /\ downedChan' = <<>>
    /\ receiveTasks' = {}
    /\ UNCHANGED <<stage, port, flags, told, faults>>

\* open_secondary_port, after start_connection if need be.
OpenPort ==
    /\ ~alive /\ stage = "app" /\ port < MaxPorts
    /\ alive' = TRUE /\ port' = port + 1
    /\ NewPort
    /\ UNCHANGED <<stage, receiveTasks, faults>>

-----------------------------------------------------------------------------
(* The task. A receive buffer, and datagrams, are UdpLink's.               *)

Ends(t) == receiveTasks' = receiveTasks \ {t}
Receives(t) == receiveTasks' = (receiveTasks \ {t}) \cup {[t EXCEPT !.phase = "receiving"]}
TaskUnchanged == UNCHANGED <<stage, port, alive, flags, udpSocket, told>>
AddressFree == InPhase("receiving") = {}

\* The bound socket goes to the port; if the port is gone, the task ends.
BindOk(t) ==
    /\ t \in InPhase("binding") /\ AddressFree
    /\ IF Mine(t) THEN Receives(t) /\ socketChan' = Append(socketChan, t.id)
                  ELSE Ends(t) /\ UNCHANGED socketChan
    /\ UNCHANGED <<downedChan, faults>> /\ TaskUnchanged

\* Variant with a bug: a socket goes to the port although the bind failed.
BindErrHandsOver(t) ==
    /\ t \in InPhase("binding")
    /\ IF AddressFree THEN faults < MaxFaults /\ faults' = faults + 1 ELSE UNCHANGED faults
    /\ Ends(t)
    /\ downedChan' = IF Mine(t) THEN Append(downedChan, t.first) ELSE downedChan
    /\ socketChan' = IF Mine(t) THEN Append(socketChan, t.id) ELSE socketChan
    /\ TaskUnchanged

\* The address is taken - by another of these tasks, or by somebody else.
BindErr(t) ==
    /\ t \in InPhase("binding")
    /\ IF AddressFree THEN faults < MaxFaults /\ faults' = faults + 1 ELSE UNCHANGED faults
    /\ Ends(t)
    /\ downedChan' = IF Mine(t) THEN Append(downedChan, t.first) ELSE downedChan
    /\ UNCHANGED socketChan /\ TaskUnchanged

\* Variant with a bug: the task ends at an error nobody hears of.
RecvErrEnds(t) ==
    /\ t \in InPhase("receiving") /\ faults < MaxFaults
    /\ Ends(t)
    /\ faults' = faults + 1
    /\ UNCHANGED chans /\ TaskUnchanged

\* Variant with a bug: the port is handed the socket it holds, if it does.
RecvErrOwn(t) ==
    /\ t \in InPhase("receiving") /\ faults < MaxFaults
    /\ IF Mine(t) THEN Receives(t) /\ socketChan' = Append(socketChan, udpSocket)
                  ELSE Ends(t) /\ UNCHANGED socketChan
    /\ faults' = faults + 1
    /\ UNCHANGED downedChan /\ TaskUnchanged

\* recv_from fails: the task hands the socket over once more and goes on
\* receiving; only if nobody takes the socket any more does it end.
RecvErr(t) ==
    /\ t \in InPhase("receiving") /\ faults < MaxFaults
    /\ IF Mine(t) THEN Receives(t) /\ socketChan' = Append(socketChan, t.id)
                  ELSE Ends(t) /\ UNCHANGED socketChan
    /\ faults' = faults + 1
    /\ UNCHANGED downedChan /\ TaskUnchanged

FrameStep == StartPorts \/ CheckPortDisconnected \/ EndFrame \/ SkipSystem
Bind == \E t \in receiveTasks : BindOk(t) \/ BindErr(t)

Next ==
    \/ FrameStep \/ Bind
    \/ ClosePort \/ CloseConnection \/ OpenPort
    \/ \E t \in receiveTasks : RecvErr(t)

-----------------------------------------------------------------------------
(* Properties. *)

Tasks == [id : Nat, port : 1..MaxPorts, phase : {"binding", "receiving"}, first : BOOLEAN]

\* The type of every variable.
TypeOK ==
    /\ stage \in Stages /\ port \in 1..MaxPorts /\ alive \in BOOLEAN
    /\ started \in BOOLEAN /\ starting \in BOOLEAN /\ firstStarted \in BOOLEAN
    /\ udpSocket \in Nat \cup {NoSocket} /\ receiveTasks \subseteq Tasks
    /\ socketChan \in Seq(Nat) /\ downedChan \in Seq(BOOLEAN)
    /\ told \in [event : {"nothing", "connected", "disconnected"}, was : BOOLEAN]
    /\ faults \in 0..MaxFaults

\* A port that is up has a task receiving on the socket it sends with, for as
\* long as it is open: no receive error and no late report separates them.
UpMeansReceiving ==
    alive /\ started =>
        \E t \in receiveTasks : t.id = udpSocket /\ t.port = port /\ t.phase = "receiving"

\* The sockets that receive errors put in the channel again are all the port's
\* own, so the one started() would take after a restart is still alive.
WaitingSocketsAlive ==
    \A k \in DOMAIN socketChan :
        \E t \in receiveTasks : t.id = socketChan[k] /\ t.port = port /\ t.phase = "receiving"

\* Only a bind is ever reported: a port that was connected once stays up until
\* it is closed, and no disconnection it reports was of a connected port.
NeverDownOnceUp ==
    started /\ alive' /\ port' = port => started' /\ told' = told

\* A task of a port closed before the present one still holds the address.
Held == \E t \in receiveTasks : t.phase = "receiving" /\ t.port # port
=============================================================================
