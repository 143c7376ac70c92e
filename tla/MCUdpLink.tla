----------------------------- MODULE MCUdpLink -----------------------------
(***************************************************************************)
(* Settings for UdpLink, one per question: is a sound link kept, what does *)
(* chatter do, what do losses do to a client with a fixed port and to one  *)
(* that draws a port for every socket.                                     *)
(***************************************************************************)
EXTENDS UdpLink

Sound == [pingEvery |-> 2, timeout |-> 5, fixedPort |-> FALSE, chats |-> FALSE, maxLosses |-> 0]
Chatter == [Sound EXCEPT !.chats = TRUE]
Fixed == [pingEvery |-> 1, timeout |-> 3, fixedPort |-> TRUE, chats |-> FALSE, maxLosses |-> 4]
Lossy == [pingEvery |-> 1, timeout |-> 4, fixedPort |-> FALSE, chats |-> FALSE, maxLosses |-> 4]

MCSettings == {Sound, Chatter, Fixed, Lossy}
=============================================================================
