----------------------------- MODULE MCSnapshot -----------------------------
(***************************************************************************)
(* How many entities the snapshots have, by the number of their message.   *)
(***************************************************************************)
EXTENDS Snapshot

(* The fifth, of more than ParseMargin, may overrun the one it is taken    *)
(* from while the client reads it.  The sixth may be made from that.       *)
SizesByNumber == <<{0}, {1}, {2}, {2}, {3}, {1, 3}, {2}, {1}>>

=============================================================================
