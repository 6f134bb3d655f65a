------------------------------ MODULE Netchan ------------------------------
(***************************************************************************)
(* One direction of a netchan_t (qcommon/net_chan.c): the sending half of  *)
(* one end, the receiving half of the other and the datagrams between      *)
(* them.  A message is a sequence of bytes; a message of FRAGMENT_SIZE     *)
(* bytes or more goes out in fragments that share one sequence number.     *)
(*                                                                         *)
(* Datagrams stay in "net" for ever and each may be received any number of *)
(* times, in any order, or never: that is loss, duplication and reordering *)
(* by UDP, with no action of their own.                                    *)
(*                                                                         *)
(* The header's qport and checksum only tell channels apart; there is one  *)
(* channel here.  "dropped" and the send times and sizes feed statistics   *)
(* and rate control: when a fragment goes out is left open.                *)
(***************************************************************************)
EXTENDS Naturals, Sequences

CONSTANTS
  Byte,            \* the values of a byte of a message
  FRAGMENT_SIZE,   \* the payload of a full fragment
  NoMessage,       \* the receiver has not been handed a message yet
  Messages,        \* the messages that are sent
  MaxMessages      \* bound: messages sent in a behaviour

ASSUME FragmentAssumption == FRAGMENT_SIZE \in Nat \ {0}
ASSUME NoMessageAssumption == NoMessage \notin Seq(Byte)
ASSUME MaxMessagesAssumption == MaxMessages \in Nat

VARIABLES
  outgoingSequence,     \* the sequence number of the message going out
  unsentFragments,      \* fragments of that message are still to be sent
  unsentFragmentStart,  \* where the next of them starts
  unsentBuffer,         \* the message (its length is unsentLength)
  incomingSequence,     \* the newest message handed to the receiver
  fragmentSequence,     \* the message being put together from fragments
  fragmentBuffer,       \* its bytes so far (their count is fragmentLength)
  received,             \* the message last handed to the receiver
  net,                  \* the datagrams
  sent                  \* history: the messages given to Netchan_Transmit

senderVars == <<outgoingSequence, unsentFragments, unsentFragmentStart,
                unsentBuffer>>
receiverVars == <<incomingSequence, fragmentSequence, fragmentBuffer, received>>
netchanVars == <<senderVars, receiverVars, net, sent>>

Message == Seq(Byte)

ASSUME MessagesAssumption == Messages \subseteq Message

Packet == [sequence : Nat, fragmented : BOOLEAN, start : Nat, data : Message]

Whole(sequence, message) ==
  [sequence |-> sequence, fragmented |-> FALSE, start |-> 0, data |-> message]

(* The bytes of a message from "start" on, at most one fragment of them. *)
FragmentEnd(message, start) ==
  IF start + FRAGMENT_SIZE > Len(message) THEN Len(message)
                                          ELSE start + FRAGMENT_SIZE

Fragment(sequence, message, start) ==
  [sequence |-> sequence, fragmented |-> TRUE, start |-> start,
   data |-> SubSeq(message, start + 1, FragmentEnd(message, start))]

-----------------------------------------------------------------------------
(* Netchan_Setup on both ends. *)
NetchanInit ==
  /\ outgoingSequence = 1
  /\ unsentFragments = FALSE
  /\ unsentFragmentStart = 0
  /\ unsentBuffer = <<>>
  /\ incomingSequence = 0
  /\ fragmentSequence = 0
  /\ fragmentBuffer = <<>>
  /\ received = NoMessage
  /\ net = {}
  /\ sent = <<>>

(* A wrong SendFragment, for mutation: the exit that is not "tricky". *)
SendFragmentNoTail(message, start) ==
  LET fragment == Fragment(outgoingSequence, message, start)
      last     == start + Len(fragment.data) = Len(message)
  IN  /\ net' = net \cup {fragment}
      /\ unsentFragmentStart' = start + Len(fragment.data)
      /\ unsentFragments' = ~last
      /\ outgoingSequence' = IF last THEN outgoingSequence + 1
                                     ELSE outgoingSequence

(* Send the fragment of "message" at "start".  A full fragment never ends  *)
(* the message, even when no byte is left: an empty one follows it, so     *)
(* that the other side can tell that there are no more.                    *)
SendFragment(message, start) ==
  LET fragment == Fragment(outgoingSequence, message, start)
      last     == Len(fragment.data) # FRAGMENT_SIZE
  IN  /\ net' = net \cup {fragment}
      /\ unsentFragmentStart' = start + Len(fragment.data)
      /\ unsentFragments' = ~last
      /\ outgoingSequence' = IF last THEN outgoingSequence + 1
                                     ELSE outgoingSequence

(* Netchan_TransmitNextFragment, which the callers guard. *)
Netchan_TransmitNextFragment ==
  /\ SendFragment(unsentBuffer, unsentFragmentStart)
  /\ UNCHANGED <<unsentBuffer, receiverVars, sent>>

TransmitWhole(message) ==
  /\ Len(message) < FRAGMENT_SIZE
  /\ net' = net \cup {Whole(outgoingSequence, message)}
  /\ outgoingSequence' = outgoingSequence + 1
  /\ unsentFragmentStart' = 0
  /\ UNCHANGED <<unsentFragments, unsentBuffer>>

TransmitFirstFragment(message) ==
  /\ Len(message) >= FRAGMENT_SIZE
  /\ unsentBuffer' = message
  /\ SendFragment(message, 0)

(* Nothing in Netchan_Transmit looks at unsentFragments: a caller that     *)
(* sends before the last fragment of a message is out reuses its number.   *)
Netchan_Transmit(message) ==
  /\ TransmitWhole(message) \/ TransmitFirstFragment(message)
  /\ sent' = Append(sent, message)
  /\ UNCHANGED receiverVars

-----------------------------------------------------------------------------
(* Netchan_Process.  A datagram that is not newer than the newest message  *)
(* is thrown away before anything is changed.                              *)
Fresh(p) == p.sequence > incomingSequence

(* A wrong Collected, for mutation: the fragments at hand are kept whatever *)
(* message they belong to.                                                 *)
CollectedOfAny(p) == fragmentBuffer

(* What has been put together of p's message: nothing of it, when the      *)
(* fragments at hand are of another message.                               *)
Collected(p) ==
  IF p.sequence = fragmentSequence THEN fragmentBuffer ELSE <<>>

ProcessWhole(p) ==
  /\ Fresh(p) /\ ~p.fragmented
  /\ incomingSequence' = p.sequence
  /\ received' = p.data
  /\ UNCHANGED <<fragmentSequence, fragmentBuffer>>

(* A fragment was lost or came too soon: keep what there is and wait. *)
ProcessGap(p) ==
  /\ Fresh(p) /\ p.fragmented
  /\ p.start # Len(Collected(p))
  /\ fragmentSequence' = p.sequence
  /\ fragmentBuffer' = Collected(p)
  /\ UNCHANGED <<incomingSequence, received>>

ProcessNextFragment(p) ==
  /\ Fresh(p) /\ p.fragmented
  /\ p.start = Len(Collected(p))
  /\ Len(p.data) = FRAGMENT_SIZE
  /\ fragmentSequence' = p.sequence
  /\ fragmentBuffer' = Collected(p) \o p.data
  /\ UNCHANGED <<incomingSequence, received>>

ProcessLastFragment(p) ==
  /\ Fresh(p) /\ p.fragmented
  /\ p.start = Len(Collected(p))
  /\ Len(p.data) # FRAGMENT_SIZE
  /\ fragmentSequence' = p.sequence
  /\ fragmentBuffer' = <<>>
  /\ incomingSequence' = p.sequence
  /\ received' = Collected(p) \o p.data

Netchan_Process(p) ==
  /\ \/ ProcessWhole(p)
     \/ ProcessGap(p)
     \/ ProcessNextFragment(p)
     \/ ProcessLastFragment(p)
  /\ UNCHANGED <<senderVars, net, sent>>

-----------------------------------------------------------------------------
NetchanTypeOK ==
  /\ outgoingSequence \in Nat
  /\ unsentFragments \in BOOLEAN
  /\ unsentFragmentStart \in Nat
  /\ unsentBuffer \in Message
  /\ incomingSequence \in Nat
  /\ fragmentSequence \in Nat
  /\ fragmentBuffer \in Message
  /\ received \in Message \cup {NoMessage}
  /\ net \subseteq Packet
  /\ sent \in Seq(Message)

(* What the sending half has on hand is the newest message. *)
SenderInv ==
  /\ outgoingSequence = IF unsentFragments THEN Len(sent) ELSE Len(sent) + 1
  /\ unsentFragments => /\ sent # <<>>
                        /\ unsentBuffer = sent[Len(sent)]
                        /\ unsentFragmentStart <= Len(unsentBuffer)

(* A datagram carries the part of its message that it says it does, and a  *)
(* fragment that is not full ends its message.                             *)
PacketInv(p, messages) ==
  /\ p.sequence \in 1..Len(messages)
  /\ ~p.fragmented => p.data = messages[p.sequence]
  /\ p.fragmented =>
       /\ p.start <= Len(messages[p.sequence])
       /\ p = Fragment(p.sequence, messages[p.sequence], p.start)

(* The bytes collected begin the message they are collected for. *)
ReceiverInv ==
  /\ incomingSequence <= Len(sent)
  /\ fragmentSequence <= Len(sent)
  /\ fragmentBuffer # <<>> =>
       /\ fragmentSequence > 0
       /\ Len(fragmentBuffer) <= Len(sent[fragmentSequence])
       /\ fragmentBuffer =
            SubSeq(sent[fragmentSequence], 1, Len(fragmentBuffer))

(* The message handed to the receiver is, byte for byte, the one that was  *)
(* sent under its sequence number: no part of another message ever ends up *)
(* in it, whatever fragments were lost, repeated or reordered              *)
(* (Netchan_Process).                                                      *)
Intact ==
  IF incomingSequence = 0 THEN received = NoMessage
                          ELSE received = sent[incomingSequence]

NetchanInv ==
  /\ NetchanTypeOK
  /\ SenderInv
  /\ \A p \in net : PacketInv(p, sent)
  /\ ReceiverInv
  /\ Intact

=============================================================================
