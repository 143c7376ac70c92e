--------------------------- MODULE UdpClientPort ---------------------------
(***************************************************************************)
(* The life of a client's UDP port: the UdpClientPort structure, the task  *)
(* each start() spawns to bind and connect a socket, and the systems that  *)
(* drive it.                                                               *)
(*                                                                         *)
(* A task whose connect() fails reports the failure and then hands the     *)
(* unconnected socket over all the same: the two messages are taken by     *)
(* different systems, and the port may be started again between them.      *)
(***************************************************************************)
EXTENDS Integers, Sequences

CONSTANTS MaxFaults,        \* bound: failed binds, failed connects, silences
          NoSocket          \* Option::None

Sockets == {"connected", "unconnected"}

VARIABLES
    stage,                            \* next system of the frame
    alive,                            \* the connection holds the port
    started, starting, firstStarted,
    udpSocket,                        \* the socket the port holds
    late,                             \* 120 seconds have passed since last_pong_instant
    tasks,                            \* tasks under way: phase and captured first_started
    socketChan, downedChan,           \* the port's two channels
    told,                             \* the last event written about the port
    connectsFailed,                   \* history: connects that failed
    faults

flags == <<started, starting, firstStarted>>
chans == <<socketChan, downedChan>>
vars == <<stage, alive, flags, udpSocket, late, tasks, chans, told, connectsFailed, faults>>

Stages == {"start_ports", "check_port_disconnected", "app"}
GoTo(from, to) == stage = from /\ stage' = to

Init ==
    /\ stage = "start_ports" /\ alive = TRUE
    /\ started = FALSE /\ starting = FALSE /\ firstStarted = FALSE
    /\ udpSocket = NoSocket /\ late = FALSE
    /\ tasks = <<>> /\ socketChan = <<>> /\ downedChan = <<>>
    /\ told = [event |-> "nothing", was |-> FALSE]
    /\ connectsFailed = 0 /\ faults = 0

-----------------------------------------------------------------------------
(* The systems of the First schedule. *)

\* Variant with a bug: the time of the last pong is left as it was.
TakeSocketLate ==
    /\ ~started /\ socketChan # <<>>
    /\ started' = TRUE /\ starting' = FALSE /\ firstStarted' = TRUE
    /\ udpSocket' = Head(socketChan)
    /\ socketChan' = Tail(socketChan)
    /\ told' = [event |-> "connected", was |-> FALSE]
    /\ UNCHANGED <<tasks, late, downedChan>>

\* started(): the first socket waiting, whoever put it there.
TakeSocket ==
    /\ ~started /\ socketChan # <<>>
    /\ started' = TRUE /\ starting' = FALSE /\ firstStarted' = TRUE
    /\ udpSocket' = Head(socketChan) /\ late' = FALSE
    /\ socketChan' = Tail(socketChan)
    /\ told' = [event |-> "connected", was |-> FALSE]
    /\ UNCHANGED <<tasks, downedChan>>

\* Variant with a bug: start() does not look at `starting'.
SpawnTaskTwice ==
    /\ ~started /\ socketChan = <<>> /\ Len(tasks) <= MaxFaults
    /\ starting' = TRUE
    /\ tasks' = Append(tasks, [phase |-> "binding", first |-> firstStarted])
    /\ UNCHANGED <<started, firstStarted, udpSocket, late, chans, told>>

SpawnTask ==
    /\ ~started /\ socketChan = <<>> /\ ~starting
    /\ starting' = TRUE
    /\ tasks' = Append(tasks, [phase |-> "binding", first |-> firstStarted])
    /\ UNCHANGED <<started, firstStarted, udpSocket, late, chans, told>>

NothingToStart ==
    /\ started \/ (starting /\ socketChan = <<>>)
    /\ UNCHANGED <<flags, udpSocket, late, tasks, chans, told>>

StartPorts ==
    /\ alive /\ GoTo("start_ports", "check_port_disconnected")
    /\ TakeSocket \/ SpawnTask \/ NothingToStart
    /\ UNCHANGED <<alive, connectsFailed, faults>>

\* disconnected(): no ping from the server for 120 seconds. A report waiting
\* stays where it is.
TimeOut ==
    /\ started /\ late
    /\ started' = FALSE /\ starting' = FALSE
    /\ udpSocket' = NoSocket
    /\ told' = [event |-> "disconnected", was |-> firstStarted]
    /\ UNCHANGED <<firstStarted, downedChan>>

\* Variant with a bug: a report does not end the start.
ReportStillStarting ==
    /\ ~(started /\ late) /\ downedChan # <<>>
    /\ started' = FALSE
    /\ udpSocket' = NoSocket
    /\ downedChan' = Tail(downedChan)
    /\ told' = [event |-> "disconnected", was |-> Head(downedChan)]
    /\ UNCHANGED <<starting, firstStarted>>

\* disconnected(): a report of a task.
Report ==
    /\ ~(started /\ late) /\ downedChan # <<>>
    /\ started' = FALSE /\ starting' = FALSE
    /\ udpSocket' = NoSocket
    /\ downedChan' = Tail(downedChan)
    /\ told' = [event |-> "disconnected", was |-> Head(downedChan)]
    /\ UNCHANGED firstStarted

PortUp ==
    /\ ~(started /\ late) /\ downedChan = <<>>
    /\ UNCHANGED <<flags, udpSocket, downedChan, told>>

CheckPortDisconnected ==
    /\ alive /\ GoTo("check_port_disconnected", "app")
    /\ TimeOut \/ Report \/ PortUp
    /\ UNCHANGED <<alive, late, tasks, socketChan, connectsFailed, faults>>

EndFrame ==
    /\ GoTo("app", "start_ports")
    /\ UNCHANGED <<alive, flags, udpSocket, late, tasks, chans, told, connectsFailed, faults>>

SkipSystem ==
    /\ ~alive /\ stage # "app" /\ stage' = "app"
    /\ UNCHANGED <<alive, flags, udpSocket, late, tasks, chans, told, connectsFailed, faults>>

-----------------------------------------------------------------------------
(* Time, the server, the task and the application. *)

\* 120 seconds without a ping: bounded on a connected socket, bound to come on
\* an unconnected one, from which the server never heard.
Silence ==
    /\ alive /\ started /\ ~late
    /\ late' = TRUE
    /\ IF udpSocket = "connected" THEN faults < MaxFaults /\ faults' = faults + 1
                                  ELSE UNCHANGED faults
    /\ UNCHANGED <<stage, alive, flags, udpSocket, tasks, chans, told, connectsFailed>>

\* get_server_messages and pong: a ping of the server, just in time.
Pong ==
    /\ alive /\ stage = "app" /\ late /\ udpSocket = "connected"
    /\ late' = FALSE
    /\ UNCHANGED <<stage, alive, flags, udpSocket, tasks, chans, told, connectsFailed, faults>>

\* close_port and close_connection; the second ends the tasks.
Close ==
    /\ alive /\ stage = "app"
    /\ alive' = FALSE
    /\ udpSocket' = NoSocket /\ socketChan' = <<>> /\ downedChan' = <<>>
    /\ tasks' \in {tasks, <<>>}
    /\ UNCHANGED <<stage, flags, late, told, connectsFailed, faults>>

TaskUnchanged == UNCHANGED <<stage, alive, flags, udpSocket, late, told>>
Ends(i) == tasks' = SubSeq(tasks, 1, i - 1) \o SubSeq(tasks, i + 1, Len(tasks))
HandOver(socket) == socketChan' = IF alive THEN Append(socketChan, socket) ELSE socketChan
Down(i) == downedChan' = IF alive THEN Append(downedChan, tasks[i].first) ELSE downedChan

BindErr(i) ==
    /\ tasks[i].phase = "binding" /\ faults < MaxFaults
    /\ Ends(i) /\ Down(i) /\ faults' = faults + 1
    /\ UNCHANGED <<socketChan, connectsFailed>> /\ TaskUnchanged

\* Variant with a bug: the port is handed its own socket.
ConnectOkOwn(i) ==
    /\ tasks[i].phase = "binding"
    /\ Ends(i) /\ HandOver(udpSocket)
    /\ UNCHANGED <<downedChan, connectsFailed, faults>> /\ TaskUnchanged

\* bind and connect succeed: the socket goes to the port.
ConnectOk(i) ==
    /\ tasks[i].phase = "binding"
    /\ Ends(i) /\ HandOver("connected")
    /\ UNCHANGED <<downedChan, connectsFailed, faults>> /\ TaskUnchanged

\* connect fails: reported (the task ends if nobody takes the report) ...
ConnectErr(i) ==
    /\ tasks[i].phase = "binding" /\ faults < MaxFaults
    /\ IF alive THEN tasks' = [tasks EXCEPT ![i].phase = "unconnected"] ELSE Ends(i)
    /\ Down(i)
    /\ connectsFailed' = connectsFailed + 1 /\ faults' = faults + 1
    /\ UNCHANGED socketChan /\ TaskUnchanged

\* ... and the socket is handed over nevertheless.
HandOverAnyway(i) ==
    /\ tasks[i].phase = "unconnected"
    /\ Ends(i) /\ HandOver("unconnected")
    /\ UNCHANGED <<downedChan, connectsFailed, faults>> /\ TaskUnchanged

FrameStep == StartPorts \/ CheckPortDisconnected \/ EndFrame \/ SkipSystem
Task == \E i \in DOMAIN tasks : BindErr(i) \/ ConnectOk(i) \/ ConnectErr(i) \/ HandOverAnyway(i)

Next == FrameStep \/ Task \/ Silence \/ Pong \/ Close

-----------------------------------------------------------------------------
(* Properties. *)

\* The type of every variable.
TypeOK ==
    /\ stage \in Stages /\ alive \in BOOLEAN
    /\ started \in BOOLEAN /\ starting \in BOOLEAN /\ firstStarted \in BOOLEAN
    /\ udpSocket \in Sockets \cup {NoSocket} /\ late \in BOOLEAN
    /\ tasks \in Seq([phase : {"binding", "unconnected"}, first : BOOLEAN])
    /\ socketChan \in Seq(Sockets) /\ downedChan \in Seq(BOOLEAN)
    /\ told \in [event : {"nothing", "connected", "disconnected"}, was : BOOLEAN]
    /\ connectsFailed \in 0..MaxFaults /\ faults \in 0..MaxFaults

\* The sockets there are - held, waiting or being made - are one, and one more
\* for every connect that failed: nothing else makes the port start twice.
StraySocketsCounted ==
    alive => Len(tasks) + Len(socketChan) + (IF started THEN 1 ELSE 0) <= 1 + connectsFailed

\* A port goes down only for 120 seconds without a ping or for a connect that
\* failed: never for the report of a bind, which may only come while it is down.
DownJustified == alive' /\ started /\ ~started' => late \/ connectsFailed > 0

\* The port is up on a socket that reaches the server.
ReachesServer == started /\ udpSocket = "connected"
=============================================================================
