---------------------------- MODULE MCSVNetchan ----------------------------
(* Fragments of two bytes, and messages on both sides of the boundaries:   *)
(* one byte (sent whole), two (exactly one fragment, so an empty second    *)
(* one), three, and four (an empty third one).  No byte is in two of them, *)
(* so that a mixture of two messages is none of them.                      *)
EXTENDS SVNetchan

MCByte == 1..15
MCMessages == {<<1>>, <<2, 3>>, <<4, 5, 6>>, <<7, 8, 9, 10>>}

=============================================================================
