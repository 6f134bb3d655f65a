--------------------------- MODULE MCSaveRestore ---------------------------
(* SaveRestore for TLC: one item made on the first level, one on the second. *)
EXTENDS SaveRestore

CONSTANTS a, b

MCMadeOn == [i \in {a, b} |-> IF i = a THEN 1 ELSE 2]
=============================================================================
