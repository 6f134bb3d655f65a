--------------------------- MODULE NetchanProofs ---------------------------
(***************************************************************************)
(* The invariant of a netchan is kept by each of its operations: by        *)
(* Netchan_Transmit when no fragment is waiting, by                        *)
(* Netchan_TransmitNextFragment when one is, and by Netchan_Process on any *)
(* datagram of the network, however often and in whatever order.  So the   *)
(* server's channel and the client's keep their invariants, for every set  *)
(* of messages, fragment size and number of messages, and implement        *)
(* MessageChannel.                                                         *)
(***************************************************************************)
EXTENDS SVNetchan, CLNetchan, SequenceTheorems, TLAPS

(* A fragment cut at a place inside its message carries the bytes from     *)
(* there on, and ends the message if it is not full.                       *)
LEMMA FragmentShape ==
  ASSUME NEW sequence \in Nat, NEW message \in Message,
         NEW start \in Nat, start <= Len(message)
  PROVE  LET p == Fragment(sequence, message, start)
         IN  /\ p \in Packet
             /\ p.sequence = sequence /\ p.fragmented /\ p.start = start
             /\ p.data = SubSeq(message, start + 1, start + Len(p.data))
             /\ start + Len(p.data) <= Len(message)
             /\ Len(p.data) # FRAGMENT_SIZE => start + Len(p.data) = Len(message)
<1> DEFINE end  == FragmentEnd(message, start)
           data == SubSeq(message, start + 1, end)
<1>1. /\ end \in Nat /\ start <= end /\ end <= Len(message)
      /\ end # start + FRAGMENT_SIZE => end = Len(message)
  BY FragmentAssumption, LenProperties DEF FragmentEnd, Message
<1>2. \A i \in start + 1 .. end : message[i] \in Byte
  BY <1>1, ElementOfSeq DEF Message
<1>3. data \in Message /\ Len(data) = end - start
  BY <1>1, <1>2, SubSeqProperties DEF Message
<1>4. Fragment(sequence, message, start) =
        [sequence |-> sequence, fragmented |-> TRUE, start |-> start, data |-> data]
  BY DEF Fragment
<1> HIDE DEF data, end
<1>5. data = SubSeq(message, start + 1, start + Len(data))
  BY <1>1, <1>3 DEF data
<1> QED
  BY <1>1, <1>3, <1>4, <1>5, FragmentAssumption DEF Packet

(* A datagram keeps saying the truth when more messages are sent. *)
LEMMA PacketInvGrows ==
  ASSUME NetchanTypeOK, NEW p \in net, PacketInv(p, sent),
         NEW message \in Message, sent' = Append(sent, message)
  PROVE  PacketInv(p, sent')
<1>1. p.sequence \in 1..Len(sent)
  BY DEF PacketInv
<1>2. Len(sent') = Len(sent) + 1 /\ sent'[p.sequence] = sent[p.sequence]
  BY <1>1, AppendProperties DEF NetchanTypeOK
<1>3. Len(sent) \in Nat
  BY LenProperties DEF NetchanTypeOK
<1> QED
  BY <1>1, <1>2, <1>3 DEF PacketInv

(* So do the collected bytes and the message handed over. *)
LEMMA ReceiverInvGrows ==
  ASSUME NetchanTypeOK, ReceiverInv, Intact,
         NEW message \in Message, sent' = Append(sent, message),
         UNCHANGED receiverVars
  PROVE  ReceiverInv' /\ Intact'
<1>1. /\ Len(sent) \in Nat /\ Len(sent') = Len(sent) + 1
      /\ \A i \in 1..Len(sent) : sent'[i] = sent[i]
  BY AppendProperties, LenProperties DEF NetchanTypeOK
<1> QED
  BY <1>1 DEF ReceiverInv, Intact, NetchanTypeOK, receiverVars

(* Sending a fragment of the newest message. *)
LEMMA SendFragmentKeeps ==
  ASSUME NetchanTypeOK, \A p \in net : PacketInv(p, sent'), NEW message \in Message,
         sent' \in Seq(Message), sent' # <<>>, message = sent'[Len(sent')],
         outgoingSequence = Len(sent'),
         NEW start \in Nat, start <= Len(message),
         SendFragment(message, start), unsentBuffer' = message
  PROVE  /\ SenderInv'
         /\ \A p \in net' : PacketInv(p, sent')
         /\ net' \subseteq Packet
         /\ outgoingSequence' \in Nat
         /\ unsentFragmentStart' \in Nat
         /\ unsentFragments' \in BOOLEAN
<1> DEFINE f == Fragment(outgoingSequence, message, start)
<1>1. Len(sent') \in Nat \ {0}
  BY EmptySeq
<1>2. /\ f \in Packet
      /\ f.sequence = outgoingSequence /\ f.fragmented /\ f.start = start
      /\ start + Len(f.data) <= Len(message)
      /\ Len(f.data) # FRAGMENT_SIZE => start + Len(f.data) = Len(message)
  BY <1>1, FragmentShape
<1>3. /\ net' = net \cup {f}
      /\ unsentFragmentStart' = start + Len(f.data)
      /\ unsentFragments' = ~(Len(f.data) # FRAGMENT_SIZE)
      /\ outgoingSequence' = IF Len(f.data) # FRAGMENT_SIZE
                               THEN outgoingSequence + 1 ELSE outgoingSequence
  BY DEF SendFragment
<1>4. Len(f.data) \in Nat
  BY <1>2, LenProperties DEF Packet, Message
<1>5. PacketInv(f, sent')
  BY <1>1, <1>2 DEF PacketInv
<1> HIDE DEF f
<1>6. SenderInv'
  BY <1>1, <1>2, <1>3 DEF SenderInv
<1>7. \A p \in net' : PacketInv(p, sent')
  BY <1>3, <1>5
<1> QED
  BY <1>1, <1>2, <1>3, <1>4, <1>6, <1>7 DEF NetchanTypeOK

(* Netchan_Transmit keeps the invariant if no fragment is waiting. *)
LEMMA TransmitKeeps ==
  ASSUME NetchanInv, ~unsentFragments, NEW message \in Message,
         Netchan_Transmit(message)
  PROVE  NetchanInv'
<1> USE DEF NetchanInv
<1>1. /\ sent' = Append(sent, message) /\ sent' \in Seq(Message) /\ sent' # <<>>
      /\ Len(sent) \in Nat /\ Len(sent') = Len(sent) + 1
      /\ sent'[Len(sent')] = message
      /\ outgoingSequence = Len(sent')
      /\ UNCHANGED receiverVars
  BY AppendProperties, LenProperties
  DEF Netchan_Transmit, NetchanTypeOK, SenderInv
<1>2. \A p \in net : PacketInv(p, sent')
  BY <1>1, PacketInvGrows
<1>3. ReceiverInv' /\ Intact'
  BY <1>1, ReceiverInvGrows
<1>4. CASE TransmitWhole(message)
  <2> DEFINE w == Whole(outgoingSequence, message)
  <2>1. w \in Packet /\ PacketInv(w, sent')
    BY <1>1 DEF Whole, Packet, PacketInv, NetchanTypeOK
  <2>2. SenderInv'
    BY <1>1, <1>4 DEF TransmitWhole, SenderInv
  <2>3. net' = net \cup {w}
    BY <1>4 DEF TransmitWhole
  <2> HIDE DEF w
  <2>4. (\A p \in net' : PacketInv(p, sent')) /\ net' \subseteq Packet
    BY <1>2, <2>1, <2>3 DEF NetchanTypeOK
  <2>5. NetchanTypeOK'
    BY <1>1, <1>4, <2>4 DEF TransmitWhole, NetchanTypeOK, receiverVars
  <2> QED
    BY <1>3, <2>2, <2>4, <2>5
<1>5. CASE TransmitFirstFragment(message)
  <2>1. 0 <= Len(message)
    BY LenProperties DEF Message
  <2>2. unsentBuffer' = message /\ SendFragment(message, 0)
    BY <1>5 DEF TransmitFirstFragment
  <2>3. /\ SenderInv'
        /\ \A p \in net' : PacketInv(p, sent')
        /\ net' \subseteq Packet
        /\ outgoingSequence' \in Nat
        /\ unsentFragmentStart' \in Nat
        /\ unsentFragments' \in BOOLEAN
    BY <1>1, <1>2, <2>1, <2>2, SendFragmentKeeps
  <2>4. NetchanTypeOK'
    BY <1>1, <2>2, <2>3 DEF NetchanTypeOK, receiverVars
  <2> QED
    BY <1>3, <2>3, <2>4
<1> QED
  BY <1>4, <1>5 DEF Netchan_Transmit

(* Netchan_TransmitNextFragment keeps it if one is. *)
LEMMA NextFragmentKeeps ==
  ASSUME NetchanInv, unsentFragments, Netchan_TransmitNextFragment
  PROVE  NetchanInv'
<1> USE DEF NetchanInv
<1>1. /\ UNCHANGED <<sent, unsentBuffer, receiverVars>>
      /\ SendFragment(unsentBuffer, unsentFragmentStart)
  BY DEF Netchan_TransmitNextFragment
<1>2. \A p \in net : PacketInv(p, sent')
  BY <1>1 DEF PacketInv
<1>3. ReceiverInv' /\ Intact'
  BY <1>1 DEF ReceiverInv, Intact, receiverVars
<1>4. /\ SenderInv'
      /\ \A p \in net' : PacketInv(p, sent')
      /\ net' \subseteq Packet
      /\ outgoingSequence' \in Nat
      /\ unsentFragmentStart' \in Nat
      /\ unsentFragments' \in BOOLEAN
  <2>1. /\ sent' \in Seq(Message) /\ sent' # <<>>
        /\ unsentBuffer \in Message /\ unsentBuffer = sent'[Len(sent')]
        /\ outgoingSequence = Len(sent')
        /\ unsentFragmentStart \in Nat /\ unsentFragmentStart <= Len(unsentBuffer)
        /\ unsentBuffer' = unsentBuffer
    BY <1>1 DEF SenderInv, NetchanTypeOK
  <2> QED
    BY <1>1, <1>2, <2>1, SendFragmentKeeps
<1>5. NetchanTypeOK'
  BY <1>1, <1>4 DEF NetchanTypeOK, receiverVars
<1> QED
  BY <1>3, <1>4, <1>5

(* What is collected for p's message begins it, and p, if it is the next   *)
(* fragment, continues it.                                                 *)
LEMMA CollectedShape ==
  ASSUME NetchanInv, NEW p \in net, p.fragmented, p.start = Len(Collected(p))
  PROVE  LET m == sent[p.sequence]
             joined == Collected(p) \o p.data
         IN  /\ m \in Message
             /\ joined \in Message
             /\ Len(joined) = p.start + Len(p.data)
             /\ Len(joined) <= Len(m)
             /\ joined = SubSeq(m, 1, Len(joined))
             /\ Len(p.data) # FRAGMENT_SIZE => joined = m
<1> USE DEF NetchanInv
<1> DEFINE m == sent[p.sequence]
           joined == Collected(p) \o p.data
<1>1. /\ p \in Packet /\ PacketInv(p, sent) /\ p.sequence \in 1..Len(sent)
      /\ p.start <= Len(m) /\ p = Fragment(p.sequence, m, p.start)
  BY DEF NetchanTypeOK, PacketInv
<1>2. m \in Message
  BY <1>1, ElementOfSeq DEF NetchanTypeOK
<1>3. /\ p.data \in Message /\ p.start \in Nat /\ p.sequence \in Nat
      /\ Collected(p) \in Message
  BY <1>1, EmptySeq DEF Packet, Collected, NetchanTypeOK, Message
<1>4. /\ p.data = SubSeq(m, p.start + 1, p.start + Len(p.data))
      /\ p.start + Len(p.data) <= Len(m)
      /\ Len(p.data) # FRAGMENT_SIZE => p.start + Len(p.data) = Len(m)
  <2> DEFINE start == p.start
             f     == Fragment(p.sequence, m, start)
  <2>1. p.sequence \in Nat /\ m \in Message /\ start \in Nat /\ start <= Len(m)
    BY <1>1, <1>2, <1>3
  <2>2. p = f
    BY <1>1
  <2> HIDE DEF m, start
  <2>3. /\ f.data = SubSeq(m, start + 1, start + Len(f.data))
        /\ start + Len(f.data) <= Len(m)
        /\ Len(f.data) # FRAGMENT_SIZE => start + Len(f.data) = Len(m)
    BY ONLY <2>1, FragmentShape, SMTT(30)
  <2> HIDE DEF f
  <2> QED
    BY <2>2, <2>3 DEF start
<1>5. Collected(p) = SubSeq(m, 1, p.start)
  <2>1. CASE Collected(p) = <<>>
    BY <2>1, <1>3, SubSeqEmpty, EmptySeq
  <2>2. CASE Collected(p) # <<>>
    BY <2>2, <1>1 DEF Collected, ReceiverInv
  <2> QED
    BY <2>1, <2>2
<1>6. /\ joined \in Message /\ Len(joined) = p.start + Len(p.data)
      /\ Len(p.data) \in Nat /\ Len(m) \in Nat
  BY <1>2, <1>3, ConcatProperties, LenProperties DEF Message
<1>7. joined = SubSeq(m, 1, p.start + Len(p.data))
  <2>1. /\ 1 \in 1..Len(m) + 1
        /\ p.start \in 1 - 1..Len(m)
        /\ p.start + Len(p.data) \in p.start..Len(m)
    BY <1>1, <1>3, <1>4, <1>6
  <2>2. SubSeq(m, 1, p.start) \o SubSeq(m, p.start + 1, p.start + Len(p.data))
          = SubSeq(m, 1, p.start + Len(p.data))
    <3>1. m \in Seq(Byte)
      BY <1>2 DEF Message
    <3> HIDE DEF m
    <3> QED
      BY <2>1, <3>1, ConcatAdjacentSubSeq
  <2> QED
    BY <1>4, <1>5, <2>2
<1>8. Len(p.data) # FRAGMENT_SIZE => joined = m
  BY <1>2, <1>4, <1>7, SubSeqFull DEF Message
<1> QED
  BY <1>2, <1>4, <1>6, <1>7, <1>8

(* Netchan_Process keeps the invariant on any datagram. *)
LEMMA ProcessKeeps ==
  ASSUME NetchanInv, NEW p \in net, Netchan_Process(p)
  PROVE  NetchanInv'
<1> USE DEF NetchanInv
<1>1. UNCHANGED <<senderVars, net, sent>>
  BY DEF Netchan_Process
<1>2. SenderInv' /\ \A q \in net' : PacketInv(q, sent')
  BY <1>1 DEF SenderInv, PacketInv, senderVars
<1>3. /\ p \in Packet /\ p.sequence \in 1..Len(sent)
      /\ p.sequence \in Nat \ {0} /\ p.sequence <= Len(sent)
      /\ p.data \in Message /\ Len(sent) \in Nat
  BY LenProperties DEF NetchanTypeOK, PacketInv, Packet
<1>4. Collected(p) \in Message
  BY EmptySeq DEF Collected, NetchanTypeOK, Message
<1>5. CASE ProcessWhole(p)
  BY <1>1, <1>2, <1>3, <1>5
  DEF ProcessWhole, PacketInv, NetchanTypeOK, ReceiverInv, Intact, senderVars
<1>6. CASE ProcessGap(p)
  <2>1. ReceiverInv'
    BY <1>1, <1>3, <1>6 DEF ProcessGap, Collected, ReceiverInv
  <2>2. Intact'
    BY <1>1, <1>6 DEF ProcessGap, Intact
  <2>3. NetchanTypeOK'
    BY <1>1, <1>3, <1>4, <1>6 DEF ProcessGap, NetchanTypeOK, senderVars
  <2> QED
    BY <1>2, <2>1, <2>2, <2>3
<1>7. CASE ProcessNextFragment(p)
  <2>1. /\ Collected(p) \o p.data \in Message
        /\ Len(Collected(p) \o p.data) <= Len(sent[p.sequence])
        /\ Collected(p) \o p.data
             = SubSeq(sent[p.sequence], 1, Len(Collected(p) \o p.data))
    BY <1>7, CollectedShape DEF ProcessNextFragment
  <2>2. ReceiverInv'
    BY <1>1, <1>3, <1>7, <2>1 DEF ProcessNextFragment, ReceiverInv
  <2>3. Intact'
    BY <1>1, <1>7 DEF ProcessNextFragment, Intact
  <2>4. NetchanTypeOK'
    BY <1>1, <1>3, <1>7, <2>1 DEF ProcessNextFragment, NetchanTypeOK, senderVars
  <2> QED
    BY <1>2, <2>2, <2>3, <2>4
<1>8. CASE ProcessLastFragment(p)
  <2>1. Collected(p) \o p.data = sent[p.sequence] /\ sent[p.sequence] \in Message
    BY <1>8, CollectedShape DEF ProcessLastFragment
  <2>2. ReceiverInv'
    BY <1>1, <1>3, <1>8 DEF ProcessLastFragment, ReceiverInv
  <2>3. Intact'
    BY <1>1, <1>3, <1>8, <2>1 DEF ProcessLastFragment, Intact
  <2>4. NetchanTypeOK'
    BY <1>1, <1>3, <1>8, <2>1, EmptySeq
    DEF ProcessLastFragment, NetchanTypeOK, senderVars, Message
  <2> QED
    BY <1>2, <2>2, <2>3, <2>4
<1> QED
  BY <1>5, <1>6, <1>7, <1>8 DEF Netchan_Process

(* The freshly set up channel satisfies it. *)
LEMMA InitKeeps == NetchanInit => NetchanInv
<1> SUFFICES ASSUME NetchanInit PROVE NetchanInv
  OBVIOUS
<1>1. <<>> \in Seq(Byte) /\ <<>> \in Seq(Message) /\ Len(<<>>) = 0
  BY EmptySeq
<1>2. NetchanTypeOK
  BY <1>1 DEF NetchanInit, NetchanTypeOK, Message
<1>3. SenderInv /\ ReceiverInv /\ Intact
  BY <1>1 DEF NetchanInit, SenderInv, ReceiverInv, Intact
<1>4. \A p \in net : PacketInv(p, sent)
  BY DEF NetchanInit
<1> QED
  BY <1>2, <1>3, <1>4 DEF NetchanInv

-----------------------------------------------------------------------------
(* The server's channel.                                                   *)
(* ConcatAssociative for messages, quantified for Zenon. *)
LEMMA Associative ==
  \A s, t, u \in Seq(Message) : (s \o t) \o u = s \o (t \o u)
BY ConcatAssociative, SMTT(20)

(* The queue and the network share out what was accepted. *)
LEMMA TransmitStep ==
  ASSUME IInv, NEW m \in Messages, SV_Netchan_Transmit(m)
  PROVE  IInv'
<1> USE DEF IInv
<1>1. /\ m \in Message /\ sent \in Seq(Message) /\ queue \in Seq(Message)
      /\ accepted \in Seq(Message) /\ Append(accepted, m) \in Seq(Message)
      /\ hung \in Nat
  BY MessagesAssumption, AppendProperties DEF TypeOK, NetchanTypeOK
<1>2. CASE TransmitNow(m) /\ accepted' = Append(accepted, m) /\ hung' = hung
  <2>1. /\ ~unsentFragments /\ queue = <<>> /\ Netchan_Transmit(m)
        /\ queue' = queue /\ tailStale' = tailStale /\ sent' = Append(sent, m)
        /\ accepted' = Append(accepted, m) /\ hung' = hung
    BY <1>2 DEF TransmitNow, Netchan_Transmit
  <2>2. NetchanInv'
    BY <1>1, <2>1, TransmitKeeps
  <2>3. Fifo'
    BY <1>1, <2>1, <2>2, ConcatEmptySeq, AppendProperties DEF Fifo
  <2> QED
    BY <1>1, <2>1, <2>2, <2>3 DEF TypeOK, NetchanInv
<1>3. CASE Enqueue(m) /\ accepted' = Append(accepted, m) /\ hung' = hung
  <2>1. /\ UNCHANGED netchanVars /\ tailStale' = tailStale
        /\ queue' = Append(queue, m) /\ queue' \in Seq(Message)
        /\ accepted' = Append(accepted, m) /\ hung' = hung
    BY <1>1, <1>3, AppendProperties DEF Enqueue
  <2>2. NetchanInv'
    BY <2>1 DEF netchanVars, senderVars, receiverVars, NetchanInv,
                NetchanTypeOK, SenderInv, ReceiverInv, Intact
  <2>3. <<m>> \in Seq(Message)
    BY <1>1
  <2>4. accepted' = (sent \o queue) \o <<m>>
    BY <1>1, <2>1, AppendIsConcat DEF Fifo
  <2>5. accepted' = sent \o (queue \o <<m>>)
    <3>1. sent \in Seq(Message) /\ queue \in Seq(Message)
      BY <1>1
    <3> QED
      BY <2>3, <2>4, <3>1, Associative, ZenonT(30)
  <2>6. Fifo'
    BY <1>1, <2>1, <2>5, AppendIsConcat DEF Fifo, netchanVars
  <2> QED
    BY <1>1, <2>1, <2>2, <2>6 DEF TypeOK, NetchanInv
<1>4. CASE EnqueueOnStaleTail
  BY <1>1, <1>4 DEF EnqueueOnStaleTail, netchanVars, senderVars, receiverVars,
                    NetchanInv, NetchanTypeOK, SenderInv, ReceiverInv, Intact,
                    TypeOK, Fifo
<1> QED
  BY <1>2, <1>3, <1>4 DEF SV_Netchan_Transmit

LEMMA NextInQueueStep ==
  ASSUME IInv, SV_Netchan_TransmitNextInQueue
  PROVE  IInv'
<1> USE DEF IInv
<1>1. /\ ~unsentFragments /\ queue # <<>> /\ Netchan_Transmit(Head(queue))
      /\ queue' = Tail(queue) /\ accepted' = accepted /\ hung' = hung
      /\ tailStale' = IF queue' = <<>> THEN FALSE ELSE tailStale
      /\ sent' = Append(sent, Head(queue))
  BY DEF SV_Netchan_TransmitNextInQueue, Netchan_Transmit
<1>2. /\ sent \in Seq(Message) /\ queue \in Seq(Message)
      /\ Head(queue) \in Message /\ Tail(queue) \in Seq(Message)
  BY <1>1, HeadTailProperties DEF TypeOK, NetchanTypeOK
<1>3. NetchanInv'
  BY <1>1, <1>2, TransmitKeeps
<1>4. queue = <<Head(queue)>> \o Tail(queue)
  <2>1. Len(queue) \in Nat \ {0}
    BY <1>1, <1>2, EmptySeq
  <2>2. 1 \in 1..Len(queue) /\ Len(queue) \in 1..Len(queue)
    BY <2>1
  <2>3. SubSeq(queue, 1, Len(queue)) = <<queue[1]>> \o SubSeq(queue, 2, Len(queue))
    BY <1>2, <2>2, SubSeqRecursiveFirst
  <2> QED
    BY <1>1, <1>2, <2>3, SubSeqFull, TailIsSubSeq
<1>5. Fifo'
  <2>1. <<Head(queue)>> \in Seq(Message)
    BY <1>2
  <2>2. accepted' = (sent \o <<Head(queue)>>) \o Tail(queue)
    <3>1. accepted' = sent \o (<<Head(queue)>> \o Tail(queue))
      BY <1>1, <1>4 DEF Fifo
    <3>2. sent \in Seq(Message) /\ Tail(queue) \in Seq(Message)
      BY <1>2
    <3> QED
      BY <2>1, <3>1, <3>2, Associative, ZenonT(30)
  <2> QED
    BY <1>1, <1>2, <2>2, AppendIsConcat DEF Fifo
<1> QED
  BY <1>1, <1>2, <1>3, <1>5 DEF TypeOK, NetchanInv

LEMMA FreeQueueStep ==
  ASSUME IInv, SV_Netchan_FreeQueue
  PROVE  IInv'
<1> USE DEF IInv
<1>1. /\ UNCHANGED netchanVars /\ tailStale' = FALSE
      /\ queue' = <<>> /\ accepted' = sent /\ sent' = sent /\ hung' = hung
      /\ sent \in Seq(Message)
  BY DEF SV_Netchan_FreeQueue, netchanVars, TypeOK, NetchanTypeOK
<1>2. NetchanInv'
  BY <1>1 DEF netchanVars, senderVars, receiverVars, NetchanInv,
              NetchanTypeOK, SenderInv, ReceiverInv, Intact
<1>3. queue' \in Seq(Message) /\ Fifo'
  BY <1>1, EmptySeq, ConcatEmptySeq DEF Fifo
<1> QED
  BY <1>1, <1>2, <1>3 DEF TypeOK, NetchanInv

(* IInv is inductive. *)
LEMMA Inductive == IInv /\ [Next]_vars => IInv'
<1> SUFFICES ASSUME IInv, [Next]_vars PROVE IInv'
  OBVIOUS
<1>1. ASSUME NEW m \in Messages, SV_Netchan_Transmit(m) PROVE IInv'
  BY <1>1, TransmitStep
<1>2. CASE SV_Netchan_TransmitNextInQueue
  BY <1>2, NextInQueueStep
<1>3. CASE NextFragment
  <2>1. /\ UNCHANGED svVars /\ NetchanInv' /\ sent' = sent
    BY <1>3, NextFragmentKeeps DEF NextFragment, IInv, Netchan_TransmitNextFragment
  <2> QED
    BY <2>1 DEF IInv, TypeOK, Fifo, svVars, NetchanInv
<1>4. ASSUME NEW p \in net, CL_Netchan_Process(p) PROVE IInv'
  <2>1. /\ UNCHANGED svVars /\ NetchanInv' /\ sent' = sent
    BY <1>4, ProcessKeeps DEF CL_Netchan_Process, IInv, Netchan_Process
  <2> QED
    BY <2>1 DEF IInv, TypeOK, Fifo, svVars, NetchanInv
<1>5. CASE SV_Netchan_FreeQueue
  BY <1>5, FreeQueueStep
<1>6. CASE SV_ChangeMaxClients
  BY <1>6 DEF SV_ChangeMaxClients, netchanVars, senderVars, receiverVars, IInv,
              TypeOK, Fifo, NetchanInv, NetchanTypeOK, SenderInv, ReceiverInv,
              Intact
<1>7. CASE UNCHANGED vars
  BY <1>7 DEF vars, svVars, netchanVars, senderVars, receiverVars, IInv, TypeOK,
              Fifo, NetchanInv, NetchanTypeOK, SenderInv, ReceiverInv, Intact
<1> QED
  BY <1>1, <1>2, <1>3, <1>4, <1>5, <1>6, <1>7
  DEF Next, SV_Netchan_TransmitNextFragment

LEMMA Initial == Init => IInv
<1> SUFFICES ASSUME Init PROVE IInv
  OBVIOUS
<1>1. NetchanInv
  BY InitKeeps DEF Init
<1>2. <<>> \in Seq(Message) /\ <<>> \o <<>> = <<>>
  BY EmptySeq, ConcatEmptySeq
<1> QED
  BY <1>1, <1>2 DEF Init, IInv, TypeOK, Fifo, NetchanInit, NetchanInv

(* The server's channel keeps its whole invariant.  (sv_net_chan.c,        *)
(* net_chan.c)                                                             *)
THEOREM Invariance == Spec => []IInv
  BY Initial, Inductive, PTL DEF Spec

(* Every variable keeps its type. *)
THEOREM TypeCorrect == Spec => []TypeOK
<1>1. IInv => TypeOK
  BY DEF IInv
<1> QED
  BY <1>1, Invariance, PTL

(* The message Netchan_Process hands over is the one that was sent under   *)
(* its number, whatever the network did to its fragments.                  *)
THEOREM Integrity == Spec => []Intact
<1>1. IInv => Intact
  BY DEF IInv, NetchanInv
<1> QED
  BY <1>1, Invariance, PTL

(* SV_Netchan_Transmit loses and reorders nothing. *)
THEOREM Order == Spec => []Fifo
<1>1. IInv => Fifo
  BY DEF IInv
<1> QED
  BY <1>1, Invariance, PTL

-----------------------------------------------------------------------------
(* All fragments of the message going out up to the n-th are on the        *)
(* network.                                                                *)
FirstOnNet(n) ==
  \A k \in 0..n - 1 : \E q \in net : /\ q.sequence = outgoingSequence
                                     /\ q.start = k * FRAGMENT_SIZE

(* Inductive with IInv: the sender is done with the messages before this   *)
(* one, and of this one it has sent the full fragments.                    *)
CompleteInv ==
  /\ \A sequence \in Nat \ {0} : sequence < outgoingSequence => Complete(sequence)
  /\ unsentFragments =>
       \E n \in Nat : unsentFragmentStart = n * FRAGMENT_SIZE /\ FirstOnNet(n)

(* What is complete stays so. *)
LEMMA CompleteStays ==
  ASSUME net \subseteq net', NEW sequence, Complete(sequence)
  PROVE  Complete(sequence)'
<1>1. PICK p \in net :
         /\ p.sequence = sequence
         /\ p.fragmented =>
              /\ Len(p.data) # FRAGMENT_SIZE
              /\ \A start \in {k * FRAGMENT_SIZE : k \in 0..p.start} :
                   start < p.start => \E q \in net : /\ q.sequence = sequence
                                                    /\ q.start = start
  BY DEF Complete
<1>2. p \in net'
  BY <1>1
<1>3. ASSUME NEW start, \E q \in net : q.sequence = sequence /\ q.start = start
      PROVE  \E q \in net' : q.sequence = sequence /\ q.start = start
  BY <1>3
<1> QED
  BY <1>1, <1>2, <1>3 DEF Complete

(* The n-th fragment of the message going out is sent. *)
LEMMA SendFragmentCompletes ==
  ASSUME outgoingSequence \in Nat,
         \A sequence \in Nat \ {0} : sequence < outgoingSequence => Complete(sequence),
         NEW n \in Nat, FirstOnNet(n),
         NEW message, SendFragment(message, n * FRAGMENT_SIZE)
  PROVE  CompleteInv'
<1> DEFINE start == n * FRAGMENT_SIZE
           f     == Fragment(outgoingSequence, message, start)
<1>1. f.sequence = outgoingSequence /\ f.start = start /\ f.fragmented
  BY DEF Fragment
<1>2. /\ net' = net \cup {f}
      /\ unsentFragmentStart' = start + Len(f.data)
      /\ unsentFragments' = ~(Len(f.data) # FRAGMENT_SIZE)
      /\ outgoingSequence' = IF Len(f.data) # FRAGMENT_SIZE
                               THEN outgoingSequence + 1 ELSE outgoingSequence
  BY DEF SendFragment
<1>3. start \in Nat
  BY FragmentAssumption
<1> HIDE DEF f
<1>4. \A sequence \in Nat \ {0} : sequence < outgoingSequence => Complete(sequence)'
  BY <1>2, CompleteStays
<1>5. CASE Len(f.data) = FRAGMENT_SIZE
  <2>1. \A k \in 0..n : \E q \in net' : /\ q.sequence = outgoingSequence
                                        /\ q.start = k * FRAGMENT_SIZE
    BY <1>1, <1>2 DEF FirstOnNet
  <2>2. n + 1 \in Nat /\ FirstOnNet(n + 1)'
    BY <1>2, <1>5, <2>1 DEF FirstOnNet
  <2>3. unsentFragmentStart' = (n + 1) * FRAGMENT_SIZE
    BY <1>2, <1>5, FragmentAssumption
  <2> QED
    BY <1>2, <1>4, <1>5, <2>2, <2>3 DEF CompleteInv
<1>6. CASE Len(f.data) # FRAGMENT_SIZE
  <2>1. ASSUME NEW k \in 0..f.start, k * FRAGMENT_SIZE < f.start
        PROVE  \E q \in net' : /\ q.sequence = outgoingSequence
                               /\ q.start = k * FRAGMENT_SIZE
    <3>1. k \in Nat /\ k < n
      <4>1. k \in Nat
        BY <1>1, <1>3
      <4>2. n <= k => n * FRAGMENT_SIZE <= k * FRAGMENT_SIZE
        BY <4>1, FragmentAssumption
      <4> QED
        BY <1>1, <1>3, <2>1, <4>1, <4>2, FragmentAssumption
    <3> QED
      BY <1>2, <3>1 DEF FirstOnNet
  <2>0. PICK number : number = outgoingSequence
    OBVIOUS
  <2>2. Complete(number)'
    <3>1. f \in net'
      BY <1>2
    <3> QED
      BY <1>1, <1>2, <1>6, <2>0, <2>1, <3>1 DEF Complete
  <2>3. \A sequence \in Nat \ {0} : sequence < outgoingSequence' => Complete(sequence)'
    <3> SUFFICES ASSUME NEW sequence \in Nat \ {0}, sequence < outgoingSequence + 1
                 PROVE  Complete(sequence)'
      BY <1>2, <1>6
    <3>1. sequence < outgoingSequence \/ sequence = number
      BY <2>0
    <3> QED
      BY <1>4, <2>2, <3>1
  <2> QED
    BY <1>2, <1>6, <2>3 DEF CompleteInv
<1> QED
  BY <1>5, <1>6

LEMMA TransmitCompletes ==
  ASSUME IInv, CompleteInv, ~unsentFragments, NEW message, Netchan_Transmit(message)
  PROVE  CompleteInv'
<1>1. outgoingSequence \in Nat
  BY DEF IInv, TypeOK, NetchanTypeOK
<1>2. CASE TransmitWhole(message)
  <2> DEFINE w == Whole(outgoingSequence, message)
  <2>1. /\ net' = net \cup {w} /\ w.sequence = outgoingSequence /\ ~w.fragmented
        /\ outgoingSequence' = outgoingSequence + 1 /\ ~unsentFragments'
    BY <1>2 DEF TransmitWhole, Whole
  <2> HIDE DEF w
  <2>0. PICK number : number = outgoingSequence
    OBVIOUS
  <2>2. Complete(number)'
    <3>1. w \in net'
      BY <2>1
    <3> QED
      BY <2>0, <2>1, <3>1 DEF Complete
  <2>3. ASSUME NEW sequence \in Nat \ {0}, sequence < outgoingSequence'
        PROVE  Complete(sequence)'
    <3>1. sequence < outgoingSequence \/ sequence = number
      BY <1>1, <2>0, <2>1, <2>3
    <3> QED
      BY <2>1, <2>2, <3>1, CompleteStays DEF CompleteInv
  <2> QED
    BY <2>1, <2>3 DEF CompleteInv
<1>3. CASE TransmitFirstFragment(message)
  <2>1. SendFragment(message, 0 * FRAGMENT_SIZE) /\ FirstOnNet(0)
    BY <1>3, FragmentAssumption DEF TransmitFirstFragment, FirstOnNet
  <2> QED
    BY <1>1, <2>1, SendFragmentCompletes DEF CompleteInv
<1> QED
  BY <1>2, <1>3 DEF Netchan_Transmit

(* A message that the sender is done with can be put together from what is *)
(* on the network: its last fragment is not full, and no fragment before   *)
(* it was left out. (Netchan_TransmitNextFragment)                         *)
THEOREM Completeness == Spec => []SentComplete
<1>1. Init => CompleteInv
  BY DEF Init, NetchanInit, CompleteInv
<1>2. IInv /\ CompleteInv /\ [Next]_vars => CompleteInv'
  <2> SUFFICES ASSUME IInv, CompleteInv, [Next]_vars PROVE CompleteInv'
    OBVIOUS
  <2>1. CASE UNCHANGED <<outgoingSequence, unsentFragments, unsentFragmentStart, net>>
    BY ONLY CompleteInv, <2>1, ZenonT(30) DEF CompleteInv, FirstOnNet, Complete
  <2>2. ASSUME NEW m \in Messages, TransmitNow(m) PROVE CompleteInv'
    BY <2>2, TransmitCompletes DEF TransmitNow
  <2>3. CASE SV_Netchan_TransmitNextInQueue
    BY <2>3, TransmitCompletes DEF SV_Netchan_TransmitNextInQueue
  <2>4. CASE NextFragment
    <3>1. /\ unsentFragments /\ SendFragment(unsentBuffer, unsentFragmentStart)
          /\ outgoingSequence \in Nat
      BY <2>4 DEF NextFragment, Netchan_TransmitNextFragment, IInv, TypeOK,
                  NetchanTypeOK
    <3>2. PICK n \in Nat : unsentFragmentStart = n * FRAGMENT_SIZE /\ FirstOnNet(n)
      BY <3>1 DEF CompleteInv
    <3> QED
      BY <3>1, <3>2, SendFragmentCompletes DEF CompleteInv
  <2> QED
    BY <2>1, <2>2, <2>3, <2>4
    DEF Next, vars, netchanVars, senderVars, SV_Netchan_Transmit, Enqueue,
        EnqueueOnStaleTail, SV_Netchan_TransmitNextFragment, SV_Netchan_FreeQueue,
        SV_ChangeMaxClients, CL_Netchan_Process, Netchan_Process
<1>3. IInv /\ CompleteInv => SentComplete
  BY DEF CompleteInv, SentComplete
<1> QED
  BY <1>1, <1>2, <1>3, Invariance, PTL DEF Spec

-----------------------------------------------------------------------------
(* What waits in the queue is among the messages the server sends. *)
QInv == queue \in Seq(Messages)

LEMMA Queued == Spec => []QInv
<1>1. Init => QInv
  BY EmptySeq DEF Init, QInv
<1>2. QInv /\ [Next]_vars => QInv'
  <2> SUFFICES ASSUME QInv, [Next]_vars PROVE queue' \in Seq(Messages)
    BY DEF QInv
  <2>1. ASSUME NEW m \in Messages, SV_Netchan_Transmit(m)
        PROVE  queue' \in Seq(Messages)
    <3>1. Append(queue, m) \in Seq(Messages)
      BY AppendProperties DEF QInv
    <3>2. queue' = queue \/ queue' = Append(queue, m)
      BY <2>1
      DEF SV_Netchan_Transmit, TransmitNow, Enqueue, EnqueueOnStaleTail
    <3> QED
      BY <3>1, <3>2 DEF QInv
  <2>2. CASE SV_Netchan_TransmitNextInQueue
    BY <2>2, HeadTailProperties DEF QInv, SV_Netchan_TransmitNextInQueue
  <2>3. CASE SV_Netchan_FreeQueue
    BY <2>3, EmptySeq DEF SV_Netchan_FreeQueue
  <2>4. CASE UNCHANGED queue
    BY <2>4 DEF QInv
  <2> QED
    BY <2>1, <2>2, <2>3, <2>4
    DEF Next, SV_Netchan_TransmitNextFragment, NextFragment, CL_Netchan_Process,
        SV_ChangeMaxClients, svVars, vars
<1> QED
  BY <1>1, <1>2, PTL DEF Spec

(* A step of the receiving half is a Receive of the abstract channel, or   *)
(* changes nothing that it sees.                                           *)
LEMMA ProcessRefines ==
  ASSUME IInv, IInv', NEW p \in net, CL_Netchan_Process(p)
  PROVE  [Channel!Next]_(Channel!vars)
<1>1. sent' = sent /\ p.sequence \in 1..Len(sent) /\ Intact'
  BY DEF CL_Netchan_Process, Netchan_Process, IInv, NetchanInv, PacketInv
<1>2. CASE incomingSequence' = incomingSequence
  <2>1. received' = received
    BY <1>1, <1>2 DEF IInv, NetchanInv, Intact
  <2> QED
    BY <1>1, <1>2, <2>1 DEF Channel!vars
<1>3. CASE incomingSequence' # incomingSequence
  <2>1. incomingSequence' = p.sequence /\ p.sequence > incomingSequence
    BY <1>3 DEF CL_Netchan_Process, Netchan_Process, ProcessWhole, ProcessGap,
                ProcessNextFragment, ProcessLastFragment, Fresh
  <2>2. p.sequence # 0
    BY <1>1, LenProperties DEF IInv, TypeOK, NetchanTypeOK
  <2>3. received' = sent[p.sequence]
    BY <1>1, <2>1, <2>2 DEF Intact
  <2>4. Channel!Receive(p.sequence)
    BY <1>1, <2>1, <2>3 DEF Channel!Receive
  <2> QED
    BY <1>1, <2>4 DEF Channel!Next
<1> QED
  BY <1>2, <1>3

(* A message that leaves for the network is a Send of the abstract channel. *)
LEMMA TransmitRefines ==
  ASSUME NEW m \in Messages, Netchan_Transmit(m)
  PROVE  Channel!Next
<1>1. sent' = Append(sent, m) /\ UNCHANGED <<incomingSequence, received>>
  BY DEF Netchan_Transmit, receiverVars
<1>2. Channel!Send(m)
  BY <1>1 DEF Channel!Send
<1> QED
  BY <1>2 DEF Channel!Next

(* The code implements the abstract channel: what the layers above rely on *)
(* holds for every set of messages and every fragment size.                *)
THEOREM ChannelRefinement == Spec => ChannelSpec
<1>1. Init => Channel!Init
  BY DEF Init, NetchanInit, Channel!Init
<1>2. IInv /\ IInv' /\ QInv /\ [Next]_vars => [Channel!Next]_(Channel!vars)
  <2> SUFFICES ASSUME IInv, IInv', QInv, [Next]_vars
               PROVE  [Channel!Next]_(Channel!vars)
    OBVIOUS
  <2>1. ASSUME NEW m \in Messages, SV_Netchan_Transmit(m)
        PROVE  [Channel!Next]_(Channel!vars)
    <3>1. CASE TransmitNow(m)
      BY <3>1, TransmitRefines DEF TransmitNow
    <3>2. CASE Enqueue(m)
      BY <3>2 DEF Enqueue, netchanVars, receiverVars, Channel!vars
    <3>3. CASE EnqueueOnStaleTail
      BY <3>3 DEF EnqueueOnStaleTail, netchanVars, receiverVars, Channel!vars
    <3> QED
      BY <2>1, <3>1, <3>2, <3>3 DEF SV_Netchan_Transmit
  <2>2. CASE SV_Netchan_TransmitNextInQueue
    <3>1. Head(queue) \in Messages
      BY <2>2, HeadTailProperties DEF SV_Netchan_TransmitNextInQueue, QInv
    <3> QED
      BY <2>2, <3>1, TransmitRefines DEF SV_Netchan_TransmitNextInQueue
  <2>3. CASE NextFragment \/ SV_Netchan_FreeQueue \/ SV_ChangeMaxClients
    BY <2>3 DEF NextFragment, SV_Netchan_FreeQueue, SV_ChangeMaxClients,
                Netchan_TransmitNextFragment, netchanVars, receiverVars, Channel!vars
  <2>4. ASSUME NEW p \in net, CL_Netchan_Process(p)
        PROVE  [Channel!Next]_(Channel!vars)
    BY <2>4, ProcessRefines
  <2>5. CASE UNCHANGED vars
    BY <2>5 DEF vars, svVars, netchanVars, receiverVars, Channel!vars
  <2> QED
    BY <2>1, <2>2, <2>3, <2>4, <2>5 DEF Next, SV_Netchan_TransmitNextFragment
<1> QED
  BY <1>1, <1>2, Invariance, Queued, PTL DEF Spec, ChannelSpec, Channel!Spec

-----------------------------------------------------------------------------
(* The client's channel.                                                   *)
LEMMA ClientInductive == NetchanInv /\ [CLNext]_netchanVars => NetchanInv'
<1> SUFFICES ASSUME NetchanInv, [CLNext]_netchanVars PROVE NetchanInv'
  OBVIOUS
<1>1. ASSUME NEW m \in Messages, CL_Netchan_Transmit(m) PROVE NetchanInv'
  BY <1>1, MessagesAssumption, TransmitKeeps DEF CL_Netchan_Transmit
<1>2. CASE CL_Netchan_TransmitNextFragment
  BY <1>2, NextFragmentKeeps DEF CL_Netchan_TransmitNextFragment
<1>3. ASSUME NEW p \in net, SV_Netchan_Process(p) PROVE NetchanInv'
  BY <1>3, ProcessKeeps DEF SV_Netchan_Process
<1>4. CASE UNCHANGED netchanVars
  BY <1>4 DEF netchanVars, senderVars, receiverVars, NetchanInv,
              NetchanTypeOK, SenderInv, ReceiverInv, Intact
<1> QED
  BY <1>1, <1>2, <1>3, <1>4 DEF CLNext

(* The sender, the network and the receiver of the client's channel agree  *)
(* in every reachable state. (net_chan.c, cl_net_chan.c)                   *)
THEOREM ClientInvariance == CLSpec => []NetchanInv
<1>1. NetchanInit => NetchanInv
  BY InitKeeps
<1> QED
  BY <1>1, ClientInductive, PTL DEF CLSpec

(* A datagram the server processes is a Receive of the abstract channel,   *)
(* or changes nothing that it sees.                                        *)
LEMMA ClientProcessRefines ==
  ASSUME NetchanInv, NetchanInv', NEW p \in net, SV_Netchan_Process(p)
  PROVE  [CLChannel!Next]_(CLChannel!vars)
<1>1. sent' = sent /\ p.sequence \in 1..Len(sent) /\ Intact'
  BY DEF SV_Netchan_Process, Netchan_Process, NetchanInv, PacketInv
<1>2. CASE incomingSequence' = incomingSequence
  <2>1. received' = received
    BY <1>1, <1>2 DEF NetchanInv, Intact
  <2> QED
    BY <1>1, <1>2, <2>1 DEF CLChannel!vars
<1>3. CASE incomingSequence' # incomingSequence
  <2>1. incomingSequence' = p.sequence /\ p.sequence > incomingSequence
    BY <1>3 DEF SV_Netchan_Process, Netchan_Process, ProcessWhole, ProcessGap,
                ProcessNextFragment, ProcessLastFragment, Fresh
  <2>2. p.sequence # 0
    BY <1>1
  <2>3. CLChannel!Receive(p.sequence)
    BY <1>1, <2>1, <2>2 DEF Intact, CLChannel!Receive
  <2> QED
    BY <1>1, <2>3 DEF CLChannel!Next
<1> QED
  BY <1>2, <1>3

(* What the server is handed is a subsequence of what the client sent,     *)
(* each message whole and at most once.                                    *)
THEOREM ClientChannelRefinement == CLSpec => CLChannelSpec
<1>1. NetchanInit => CLChannel!Init
  BY DEF NetchanInit, CLChannel!Init
<1>2. NetchanInv /\ NetchanInv' /\ [CLNext]_netchanVars
        => [CLChannel!Next]_(CLChannel!vars)
  <2> SUFFICES ASSUME NetchanInv, NetchanInv', [CLNext]_netchanVars
               PROVE  [CLChannel!Next]_(CLChannel!vars)
    OBVIOUS
  <2>1. ASSUME NEW m \in Messages, CL_Netchan_Transmit(m)
        PROVE  [CLChannel!Next]_(CLChannel!vars)
    <3>1. CLChannel!Send(m)
      BY <2>1 DEF CL_Netchan_Transmit, Netchan_Transmit, receiverVars, CLChannel!Send
    <3> QED
      BY <3>1 DEF CLChannel!Next
  <2>2. CASE CL_Netchan_TransmitNextFragment
    BY <2>2 DEF CL_Netchan_TransmitNextFragment, Netchan_TransmitNextFragment,
                receiverVars, CLChannel!vars
  <2>3. ASSUME NEW p \in net, SV_Netchan_Process(p)
        PROVE  [CLChannel!Next]_(CLChannel!vars)
    BY <2>3, ClientProcessRefines
  <2>4. CASE UNCHANGED netchanVars
    BY <2>4 DEF netchanVars, receiverVars, CLChannel!vars
  <2> QED
    BY <2>1, <2>2, <2>3, <2>4 DEF CLNext
<1> QED
  BY <1>1, <1>2, ClientInvariance, PTL DEF CLSpec, CLChannelSpec, CLChannel!Spec

=============================================================================
