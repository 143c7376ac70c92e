---------------------- MODULE MCAuthenticatedSessions ----------------------
(***************************************************************************)
(* Settings for AuthenticatedSessions: two clients and one authentication  *)
(* connection, with and without faults, and one client of a server with    *)
(* two authentication connections.                                         *)
(***************************************************************************)
EXTENDS AuthenticatedSessions

CONSTANTS c1, c2, auth, other, plain

OneSound == [clients |-> {c1, c2}, connections |-> {auth, plain}, auth |-> {auth},
             hasLocal |-> FALSE, faults |-> FALSE]
OneFaulty == [OneSound EXCEPT !.hasLocal = TRUE, !.faults = TRUE]
TwoFaulty == [clients |-> {c1}, connections |-> {auth, other, plain}, auth |-> {auth, other},
              hasLocal |-> TRUE, faults |-> TRUE]

MCSettings == {OneSound, OneFaulty, TwoFaulty}
=============================================================================
