----------------------------- MODULE PortLives ------------------------------
(***************************************************************************)
(* A port of any of three kinds: a connection holds its ports as trait     *)
(* objects (Box<dyn ClientPortTrait>, Box<dyn ServerPortTrait>), and the   *)
(* systems that start a port and notice that it is down do not know which  *)
(* kind it is. A behaviour is the life of one port; whatever its kind, it  *)
(* is the life PortLife promises. (The server's TCP port, the fourth kind, *)
(* has a module of its own with its sessions, TcpServerPort.)              *)
(***************************************************************************)
EXTENDS Integers, Sequences

CONSTANTS MaxFaults,    \* bound: failures of every sort in a run
          MaxPorts,     \* bound: UDP ports of a server opened on one address
          NoSocket      \* Option::None

ASSUME LivesBoundsAssumption == MaxFaults \in Nat /\ MaxPorts \in Nat \ {0}

VARIABLES
    kind,                                         \* which kind of port it is
    stage, alive, started, starting, firstStarted, downedChan, told, faults,
    tasks,                                        \* of a client's port
    readHalf, streamChan, wire, isLocal, hosted,  \* of a client's TCP port
    udpSocket, socketChan,                        \* of a UDP port
    late, connectsFailed,                         \* of a client's UDP port
    port, receiveTasks                            \* of a server's UDP port

ofTcp == <<readHalf, streamChan, wire, isLocal, hosted>>
ofUdp == <<udpSocket, socketChan>>
ofUdpClient == <<late, connectsFailed>>
ofUdpServer == <<port, receiveTasks>>
vars == <<kind, stage, alive, started, starting, firstStarted, downedChan, told, faults, tasks,
          ofTcp, ofUdp, ofUdpClient, ofUdpServer>>

TcpClient == INSTANCE TcpClientPort
UdpClient == INSTANCE UdpClientPort
UdpServer == INSTANCE UdpServerPort

Init ==
    /\ kind \in {"tcp_client", "udp_client", "udp_server"}
    /\ TcpClient!Init /\ UdpClient!Init /\ UdpServer!Init

AsTcpClient == kind = "tcp_client" /\ UNCHANGED <<kind, ofUdp, ofUdpClient, ofUdpServer>>
AsUdpClient == kind = "udp_client" /\ UNCHANGED <<kind, ofTcp, ofUdpServer>>
AsUdpServer == kind = "udp_server" /\ UNCHANGED <<kind, ofTcp, ofUdpClient, tasks>>

Next ==
    \/ AsTcpClient /\ TcpClient!Next
    \/ AsUdpClient /\ UdpClient!Next
    \/ AsUdpServer /\ UdpServer!Next

FrameStep ==
    \/ AsTcpClient /\ TcpClient!FrameStep
    \/ AsUdpClient /\ UdpClient!FrameStep
    \/ AsUdpServer /\ UdpServer!FrameStep

Task ==
    \/ AsTcpClient /\ TcpClient!Answer
    \/ AsUdpClient /\ UdpClient!Task
    \/ AsUdpServer /\ UdpServer!Bind

\* Frames follow one another, the operating system answers a connect and a
\* bind, time passes on a socket nobody answers.
Spec ==
    /\ Init /\ [][Next]_vars
    /\ WF_vars(FrameStep) /\ WF_vars(Task)
    /\ WF_vars(AsUdpClient /\ udpSocket = "unconnected" /\ UdpClient!Silence)

-----------------------------------------------------------------------------
(* Properties. *)

\* The type of every variable.
TypeOK ==
    /\ kind = "tcp_client" => TcpClient!TypeOK
    /\ kind = "udp_client" => UdpClient!TypeOK
    /\ kind = "udp_server" => UdpServer!TypeOK

\* A port of any kind lives the life an application may expect of it: until a
\* connect() of its UDP socket fails, and without being started again while its
\* connection is local.
Life == INSTANCE PortLife WITH
    status <- IF ~alive THEN "closed" ELSE IF started THEN "up"
              ELSE IF starting THEN "starting" ELSE "down",
    everUp <- firstStarted,
    unneeded <- isLocal \/ hosted,
    void <- connectsFailed > 0
ImplementsPortLife == Life!Spec

\* The sockets a client's UDP port has - held, waiting or being made - are one,
\* and one more for every connect that failed: nothing else starts it twice.
StraySocketsCounted == kind = "udp_client" => UdpClient!StraySocketsCounted

\* A client's TCP port has one start under way at a time, which ends in exactly
\* one place: it never holds a stream while another one for it is on its way,
\* and no report is taken for another start.
OneStart == kind = "tcp_client" => TcpClient!OneStart

\* The invariant of a port, as far as its starts go: of every kind one start is
\* under way at a time, and what it yields is accounted for.
LivesInv == TypeOK /\ OneStart /\ StraySocketsCounted

\* A client's port goes down only for a reason of its own: a stream that was
\* reset, or 120 seconds without a ping, or a connect() that failed; the late
\* report of an earlier start does not take it down. A server's UDP port that was
\* connected once stays up until it is closed.
DownJustified ==
    [][/\ kind = "tcp_client" => TcpClient!DownJustified
       /\ kind = "udp_client" => UdpClient!DownJustified
       /\ kind = "udp_server" => UdpServer!NeverDownOnceUp]_vars

\* A reset stream is noticed and replaced, unless the connection became local:
\* a local connection is never connected again, even if the server connection
\* it was local to is closed.
ResetIsReplaced ==
    \A st \in 1..(MaxFaults + 1) : TcpClient!HoldsBroken(st) ~> TcpClient!Replaced(st)

\* A stream that a client which became local had asked for stays in the
\* channel and open: nobody reads it, nobody closes it.
StrandedOnlyWhenLocal == TcpClient!StreamWaits ~> (~TcpClient!StreamWaits \/ isLocal)

\* After the last fault a client's UDP port is up on a socket that reaches the
\* server, however many stray sockets it was handed and had to time out on.
EndsConnected == <>[](kind = "udp_client" /\ alive => UdpClient!ReachesServer)

\* A server's UDP port that is up has a task receiving on the socket it sends
\* with: no receive error and no late report separates them. The sockets that
\* receive errors put in the channel again are all the port's own, so the one
\* started() would take after a restart is still alive.
SocketsReceive ==
    kind = "udp_server" => UdpServer!UpMeansReceiving /\ UdpServer!WaitingSocketsAlive

\* A server's UDP port comes up or is closed, or else a task of a port closed
\* before it still holds the address: then it starts and fails for ever.
StartsUnlessHeld ==
    kind = "udp_server" /\ alive ~> started \/ ~alive \/ UdpServer!Held

\* After whatever befell it a port comes back to where it serves its owner, or
\* there is one of the stated reasons why it does not.
ComesBack == ResetIsReplaced /\ StrandedOnlyWhenLocal /\ EndsConnected /\ StartsUnlessHeld
=============================================================================
