---------------------------- MODULE MCCLNetchan ----------------------------
(* Fragments of two bytes; see MCSVNetchan for the choice of messages. *)
EXTENDS CLNetchan

MCByte == 1..15
MCMessages == {<<1>>, <<2, 3>>, <<4, 5, 6>>, <<7, 8, 9, 10>>}

=============================================================================
