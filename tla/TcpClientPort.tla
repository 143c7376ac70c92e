--------------------------- MODULE TcpClientPort ---------------------------
(***************************************************************************)
(* The main TCP port of a client connection: the TcpClientPort structure,  *)
(* the task each start() spawns to connect, and the systems of             *)
(* ClientNetworkPlugin that drive the port in the First schedule.          *)
(*                                                                         *)
(* A program that also hosts a server may open a server connection of the  *)
(* same number; start_ports then turns the client's into a local           *)
(* connection, which is never undone.                                      *)
(***************************************************************************)
EXTENDS Integers, Sequences

CONSTANT MaxFaults    \* bound: failed connects, lost streams and hostings in a run

NoStream == 0

VARIABLES
    stage,                            \* next system of the frame
    alive,                            \* the connection still holds the port
    started, starting, firstStarted,
    readHalf,                         \* the stream whose halves the port holds
    tasks,                            \* connect tasks under way: first_started as captured
    streamChan,                       \* tcp_stream channel
    downedChan,                       \* connecting_downed channel
    wire,                             \* each stream so far, as the server left it
    isLocal, hosted,                  \* local_connection; a server connection of this number
    told,                             \* the last event written about the port
    faults

flags == <<started, starting, firstStarted>>
chans == <<streamChan, downedChan>>
vars == <<stage, alive, flags, readHalf, tasks, chans, wire, isLocal, hosted, told, faults>>

Stages == {"start_ports", "start_listening_ports", "check_port_disconnected", "app"}
GoTo(from, to) == stage = from /\ stage' = to

Init ==
    /\ stage = "start_ports" /\ alive = TRUE
    /\ started = FALSE /\ starting = FALSE /\ firstStarted = FALSE
    /\ readHalf = NoStream
    /\ tasks = <<>> /\ streamChan = <<>> /\ downedChan = <<>> /\ wire = <<>>
    /\ isLocal = FALSE /\ hosted = FALSE
    /\ told = [event |-> "nothing", was |-> FALSE]
    /\ faults = 0

-----------------------------------------------------------------------------
(* The systems of the First schedule. *)

\* The server has a connection of this number.
BecomeLocal ==
    /\ ~isLocal /\ hosted
    /\ isLocal' = TRUE
    /\ UNCHANGED <<flags, readHalf, tasks, chans, told>>

Remote == ~isLocal /\ ~hosted

\* started(): a stream is waiting.
TakeStream ==
    /\ Remote /\ ~started /\ streamChan # <<>>
    /\ started' = TRUE /\ starting' = FALSE /\ firstStarted' = TRUE
    /\ readHalf' = Head(streamChan)
    /\ streamChan' = Tail(streamChan)
    /\ told' = [event |-> "connected", was |-> FALSE]
    /\ UNCHANGED <<tasks, downedChan, isLocal>>

\* Variants with a bug: start() does not look at `starting'; the task reports
\* that the port had been connected although it never was.
SpawnTaskTwice ==
    /\ Remote /\ ~started /\ streamChan = <<>> /\ Len(tasks) <= MaxFaults
    /\ starting' = TRUE
    /\ tasks' = Append(tasks, firstStarted)
    /\ UNCHANGED <<started, firstStarted, readHalf, chans, isLocal, told>>

SpawnTaskFlagged ==
    /\ Remote /\ ~started /\ streamChan = <<>> /\ ~starting
    /\ starting' = TRUE
    /\ tasks' = Append(tasks, TRUE)
    /\ UNCHANGED <<started, firstStarted, readHalf, chans, isLocal, told>>

\* start().
SpawnTask ==
    /\ Remote /\ ~started /\ streamChan = <<>> /\ ~starting
    /\ starting' = TRUE
    /\ tasks' = Append(tasks, firstStarted)
    /\ UNCHANGED <<started, firstStarted, readHalf, chans, isLocal, told>>

NothingToStart ==
    /\ isLocal \/ (Remote /\ (started \/ (starting /\ streamChan = <<>>)))
    /\ UNCHANGED <<flags, readHalf, tasks, chans, isLocal, told>>

StartPorts ==
    /\ alive /\ GoTo("start_ports", "start_listening_ports")
    /\ BecomeLocal \/ TakeStream \/ SpawnTask \/ NothingToStart
    /\ UNCHANGED <<alive, wire, hosted, faults>>

\* listen_to_server: only a read error is reported. A stream the server closed
\* in order reads Ok(0), frame after frame.
ReadFails == readHalf # NoStream /\ wire[readHalf] = "reset"

StartListeningPorts ==
    /\ alive /\ GoTo("start_listening_ports", "check_port_disconnected")
    /\ downedChan' = IF ReadFails THEN Append(downedChan, firstStarted) ELSE downedChan
    /\ UNCHANGED <<alive, flags, readHalf, tasks, streamChan, wire, isLocal, hosted, told, faults>>

\* Variants with a bug: the port believes a start is under way; the dead
\* stream is kept.
PortDownStillStarting ==
    /\ downedChan # <<>>
    /\ started' = FALSE
    /\ readHalf' = NoStream
    /\ downedChan' = Tail(downedChan)
    /\ told' = [event |-> "disconnected", was |-> Head(downedChan)]
    /\ UNCHANGED <<starting, firstStarted>>

PortDownUnclosed ==
    /\ downedChan # <<>>
    /\ started' = FALSE /\ starting' = FALSE
    /\ downedChan' = Tail(downedChan)
    /\ told' = [event |-> "disconnected", was |-> Head(downedChan)]
    /\ UNCHANGED <<readHalf, firstStarted>>

\* disconnected(), with the close() it calls.
PortDown ==
    /\ downedChan # <<>>
    /\ started' = FALSE /\ starting' = FALSE
    /\ readHalf' = NoStream
    /\ downedChan' = Tail(downedChan)
    /\ told' = [event |-> "disconnected", was |-> Head(downedChan)]
    /\ UNCHANGED firstStarted

PortUp == downedChan = <<>> /\ UNCHANGED <<flags, readHalf, downedChan, told>>

CheckPortDisconnected ==
    /\ alive /\ GoTo("check_port_disconnected", "app")
    /\ PortDown \/ PortUp
    /\ UNCHANGED <<alive, tasks, streamChan, wire, isLocal, hosted, faults>>

EndFrame ==
    /\ GoTo("app", "start_ports")
    /\ UNCHANGED <<alive, flags, readHalf, tasks, chans, wire, isLocal, hosted, told, faults>>

SkipSystem ==
    /\ ~alive /\ stage # "app" /\ stage' = "app"
    /\ UNCHANGED <<alive, flags, readHalf, tasks, chans, wire, isLocal, hosted, told, faults>>

-----------------------------------------------------------------------------
(* The application, the connect task and the server. *)

\* A message written to a stream the server has closed: its end answers with a
\* reset. Any other write leaves the stream as it is.
Send ==
    /\ alive /\ stage = "app" /\ ~isLocal
    /\ readHalf # NoStream /\ wire[readHalf] = "fin"
    /\ wire' = [wire EXCEPT ![readHalf] = "reset"]
    /\ UNCHANGED <<stage, alive, flags, readHalf, tasks, chans, isLocal, hosted, told, faults>>

\* The application opens or closes the server connection of this number.
Host ==
    /\ stage = "app" /\ faults < MaxFaults
    /\ hosted' = ~hosted /\ faults' = faults + 1
    /\ UNCHANGED <<stage, alive, flags, readHalf, tasks, chans, wire, isLocal, told>>

\* close_port(0) and close_connection: the port and its channels are gone. The
\* second also ends a connect task under way.
Close ==
    /\ alive /\ stage = "app"
    /\ alive' = FALSE
    /\ readHalf' = NoStream /\ streamChan' = <<>> /\ downedChan' = <<>>
    /\ tasks' \in {tasks, <<>>}
    /\ UNCHANGED <<stage, flags, wire, isLocal, hosted, told, faults>>

\* Variant with a bug: a stream is handed over that was never opened.
ConnectOkUnopened ==
    /\ tasks # <<>>
    /\ tasks' = Tail(tasks)
    /\ streamChan' = IF alive THEN Append(streamChan, Len(wire) + 1) ELSE streamChan
    /\ UNCHANGED <<stage, alive, flags, readHalf, downedChan, wire, isLocal, hosted, told, faults>>

\* The task has connected: the stream goes to the port, if it is there.
ConnectOk ==
    /\ tasks # <<>>
    /\ tasks' = Tail(tasks)
    /\ wire' = Append(wire, "open")
    /\ streamChan' = IF alive THEN Append(streamChan, Len(wire')) ELSE streamChan
    /\ UNCHANGED <<stage, alive, flags, readHalf, downedChan, isLocal, hosted, told, faults>>

ConnectErr ==
    /\ tasks # <<>> /\ faults < MaxFaults
    /\ tasks' = Tail(tasks)
    /\ downedChan' = IF alive THEN Append(downedChan, Head(tasks)) ELSE downedChan
    /\ faults' = faults + 1
    /\ UNCHANGED <<stage, alive, flags, readHalf, streamChan, wire, isLocal, hosted, told>>

\* The server closes a stream in order or resets it.
LoseStream(st) ==
    /\ wire[st] = "open" /\ faults < MaxFaults
    /\ \E how \in {"fin", "reset"} : wire' = [wire EXCEPT ![st] = how]
    /\ faults' = faults + 1
    /\ UNCHANGED <<stage, alive, flags, readHalf, tasks, chans, isLocal, hosted, told>>

FrameStep ==
    \/ StartPorts \/ StartListeningPorts \/ CheckPortDisconnected
    \/ EndFrame \/ SkipSystem

Answer == ConnectOk \/ ConnectErr

Next ==
    \/ FrameStep \/ Answer \/ Send \/ Host \/ Close
    \/ \E st \in DOMAIN wire : LoseStream(st)

-----------------------------------------------------------------------------
(* Properties. *)

\* The type of every variable.
TypeOK ==
    /\ stage \in Stages /\ alive \in BOOLEAN
    /\ started \in BOOLEAN /\ starting \in BOOLEAN /\ firstStarted \in BOOLEAN
    /\ readHalf \in 0..Len(wire)
    /\ tasks \in Seq(BOOLEAN) /\ streamChan \in Seq(1..Len(wire)) /\ downedChan \in Seq(BOOLEAN)
    /\ wire \in Seq({"open", "fin", "reset"})
    /\ isLocal \in BOOLEAN /\ hosted \in BOOLEAN
    /\ told \in [event : {"nothing", "connected", "disconnected"}, was : BOOLEAN]
    /\ faults \in 0..MaxFaults

\* One start is under way at a time and it ends in exactly one place: a task,
\* a stream waiting or a report waiting; a port that is up has none of them
\* but the report of its own stream. So a port never holds a stream while
\* another one for it is on its way, and no report is taken for another start.
OneStart ==
    alive =>
        /\ Len(tasks) + Len(streamChan) + Len(downedChan) <= 1
        /\ started => tasks = <<>> /\ streamChan = <<>> /\ readHalf # NoStream
        /\ ~started => readHalf = NoStream
        /\ starting <=> ~started /\ (tasks # <<>> \/ streamChan # <<>> \/ downedChan # <<>>)

\* A port goes down, and its stream is dropped, only for a stream the server
\* reset; a connected port is not taken down by the late report of a connect.
DownJustified == alive' /\ started /\ ~started' => wire[readHalf] = "reset"

\* The port holds stream st, which the server reset.
HoldsBroken(st) == readHalf = st /\ wire[st] = "reset"

\* It has a later stream, or nobody wants one.
Unneeded == isLocal \/ hosted \/ ~alive
Replaced(st) == readHalf > st \/ Unneeded

\* A stream has arrived and the port has not taken it.
StreamWaits == streamChan # <<>>
=============================================================================
