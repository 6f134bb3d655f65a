--------------------------- MODULE MessageChannel ---------------------------
(***************************************************************************)
(* What a network channel promises the code above it, in one direction.    *)
(* The sender appends messages; the receiver is handed some of them, each  *)
(* at most once, whole, and never one that was sent before a message it    *)
(* already has.  A message the receiver skipped is lost for good: what     *)
(* must get through is sent again by the layers above (reliable commands,  *)
(* download blocks, the gamestate).                                        *)
(***************************************************************************)
EXTENDS Naturals, Sequences

CONSTANTS
  Messages,    \* the messages the sender may send
  NoMessage    \* what the receiver holds before its first message

VARIABLES
  sent,        \* every message sent, oldest first
  last,        \* the place in "sent" of the newest message received
  got          \* the content of that message

vars == <<sent, last, got>>

Init ==
  /\ sent = <<>>
  /\ last = 0
  /\ got = NoMessage

Send(m) ==
  /\ sent' = Append(sent, m)
  /\ UNCHANGED <<last, got>>

(* Receiving message n gives up every message between "last" and n. *)
Receive(n) ==
  /\ n > last
  /\ last' = n
  /\ got' = sent[n]
  /\ UNCHANGED sent

Next ==
  \/ \E m \in Messages : Send(m)
  \/ \E n \in 1..Len(sent) : Receive(n)

Spec == Init /\ [][Next]_vars

=============================================================================
