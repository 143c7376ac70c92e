----------------------------- MODULE MCFraming -----------------------------
(***************************************************************************)
(* Two small settings for Framing: a server that receives under a header   *)
(* of two binary digits, and a client that receives under one byte below   *)
(* 4. The longest body, m3, is too long for either header.                 *)
(***************************************************************************)
EXTENDS Framing, TLC

ServerReceives ==
    [bodyOf |-> ("m1" :> <<1, 0>>) @@ ("m2" :> <<0, 1, 1>>) @@ ("m3" :> <<1, 1, 0, 1>>),
     base |-> 2, headerBytes |-> 2, order |-> "big", bufferSize |-> 3, keepsBuffer |-> FALSE]

ClientReceives ==
    [bodyOf |-> ("m1" :> <<1, 0>>) @@ ("m2" :> <<0, 1, 2>>) @@ ("m3" :> <<2, 1, 0, 1>>),
     base |-> 4, headerBytes |-> 1, order |-> "little", bufferSize |-> 3, keepsBuffer |-> TRUE]

MCSettings == {ServerReceives, ClientReceives}
=============================================================================
