--------------------------- MODULE ReliableStream ---------------------------
(***************************************************************************)
(* What reliable commands promise in one direction: commands are numbered  *)
(* as they are issued, and the other end executes command 1, 2, 3, ... in  *)
(* that order, none twice, none left out and none in another's place,      *)
(* possibly several at a time and possibly stopping for good.              *)
(***************************************************************************)
EXTENDS Naturals, Sequences

VARIABLES
  issued,      \* how many commands have been issued
  executed     \* the commands executed, in order

vars == <<issued, executed>>

Init == issued = 0 /\ executed = <<>>

Issue(n) ==
  /\ issued' = issued + n
  /\ UNCHANGED executed

Execute(n) ==
  /\ n > Len(executed)
  /\ executed' = [i \in 1..n |-> i]
  /\ UNCHANGED issued

Next ==
  \/ issued' > issued /\ Issue(issued' - issued)
  \/ \E n \in 1..issued : Execute(n)

Spec == Init /\ [][Next]_vars

=============================================================================
