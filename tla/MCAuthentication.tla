------------------------- MODULE MCAuthentication --------------------------
(***************************************************************************)
(* Small instances of Authentication for TLC.                              *)
(***************************************************************************)
EXTENDS Authentication, TLC

\* Each session's peer uuid: a tuple, so that it equals no session.
MCPeerOf == [s \in Sessions |-> <<"peer", s>>]

\* Clients and streams are interchangeable: sound for the safety runs.
Symmetry == Permutations(Clients) \cup Permutations(Streams)
=============================================================================
