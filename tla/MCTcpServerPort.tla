-------------------------- MODULE MCTcpServerPort --------------------------
(***************************************************************************)
(* Small instances of TcpServerPort for TLC.                               *)
(***************************************************************************)
EXTENDS TcpServerPort, TLC

\* Each session's peer uuid: a tuple, so that it equals no session.
MCPeerOf == [s \in Sessions |-> <<"peer", s>>]

\* Streams are interchangeable: sound for the safety run.
Symmetry == Permutations(Streams)
=============================================================================
