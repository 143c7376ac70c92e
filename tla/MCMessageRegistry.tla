------------------------- MODULE MCMessageRegistry -------------------------
(* A client with a dedicated server, and with a local one. *)
EXTENDS MessageRegistry

MCSettings == {[client |-> {"client"}, server |-> {"server"}],
               [client |-> {"client"}, local |-> {"client", "server"}]}
=============================================================================
