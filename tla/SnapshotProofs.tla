---------------------------- MODULE SnapshotProofs ----------------------------
(***************************************************************************)
(* Proofs about Snapshot: its inductive invariant, from which follow that  *)
(* the cgame gets what the server made, and that no difference is sent     *)
(* from a snapshot that the client does not hold.                          *)
(***************************************************************************)
EXTENDS Snapshot, TLAPS

-----------------------------------------------------------------------------
(* Slots of the rings.                                                     *)

LEMMA SlotType == ASSUME NEW n \in Nat PROVE Slot(n) \in 0..PACKET_BACKUP - 1
  BY BackupAssumption DEF Slot

(* A number that is a multiple of the ring away has the same slot. *)
LEMMA SlotTurns ==
  ASSUME NEW n \in Nat, NEW t \in Nat
  PROVE  /\ n + PACKET_BACKUP * t \in Nat
         /\ Slot(n + PACKET_BACKUP * t) = Slot(n)
<1> DEFINE k == n + PACKET_BACKUP * t
           d == t + (n \div PACKET_BACKUP) - (k \div PACKET_BACKUP)
<1>1. PACKET_BACKUP \in Nat \ {0}
  BY BackupAssumption
<1>2. PACKET_BACKUP * t \in Nat
  BY <1>1
<1>3. k \in Nat
  BY <1>2
<1> HIDE DEF k
<1>4. /\ n = PACKET_BACKUP * (n \div PACKET_BACKUP) + (n % PACKET_BACKUP)
      /\ k = PACKET_BACKUP * (k \div PACKET_BACKUP) + (k % PACKET_BACKUP)
      /\ n \div PACKET_BACKUP \in Int /\ k \div PACKET_BACKUP \in Int
      /\ n % PACKET_BACKUP \in 0..PACKET_BACKUP - 1
      /\ k % PACKET_BACKUP \in 0..PACKET_BACKUP - 1
  <2>1. \A i \in Nat, M \in Nat \ {0} :
          /\ i = M * (i \div M) + (i % M)
          /\ i \div M \in Int /\ i % M \in 0..M - 1
    OBVIOUS
  <2> QED
    BY <1>1, <1>3, <2>1
<1>5. d \in Int /\ (k % PACKET_BACKUP) - (n % PACKET_BACKUP) = PACKET_BACKUP * d
  BY <1>1, <1>2, <1>4 DEF k
<1> HIDE DEF d
<1>6. PACKET_BACKUP * d < PACKET_BACKUP /\ -PACKET_BACKUP < PACKET_BACKUP * d
  <2>1. PICK a \in 0..PACKET_BACKUP - 1 : a = k % PACKET_BACKUP
    BY <1>4
  <2>2. PICK b \in 0..PACKET_BACKUP - 1 : b = n % PACKET_BACKUP
    BY <1>4
  <2>3. a - b = PACKET_BACKUP * d
    BY <1>5, <2>1, <2>2
  <2> QED
    BY ONLY <1>1, <2>3, a \in 0..PACKET_BACKUP - 1, b \in 0..PACKET_BACKUP - 1
<1>7. d < 1
  <2>1. d >= 1 => PACKET_BACKUP * d >= PACKET_BACKUP
    BY <1>1, <1>5
  <2> QED BY <2>1, <1>1, <1>5, <1>6
<1>8. d > -1
  <2>1. d <= -1 => PACKET_BACKUP * d <= -PACKET_BACKUP
    BY <1>1, <1>5
  <2> QED BY <2>1, <1>1, <1>5, <1>6
<1>9. d = 0
  BY <1>5, <1>7, <1>8
<1>10. k % PACKET_BACKUP = n % PACKET_BACKUP
  BY <1>1, <1>4, <1>5, <1>9
<1> QED
  BY <1>3, <1>10 DEF Slot, k

(* Numbers with the same slot are a ring apart, if not equal. *)
LEMMA SameSlot ==
  ASSUME NEW n \in Nat, NEW k \in Nat, Slot(n) = Slot(k), n < k
  PROVE  n + PACKET_BACKUP <= k
<1> DEFINE t == (k \div PACKET_BACKUP) - (n \div PACKET_BACKUP)
<1>1. PACKET_BACKUP \in Nat \ {0}
  BY BackupAssumption
<1>2. /\ n = PACKET_BACKUP * (n \div PACKET_BACKUP) + (n % PACKET_BACKUP)
      /\ k = PACKET_BACKUP * (k \div PACKET_BACKUP) + (k % PACKET_BACKUP)
      /\ n \div PACKET_BACKUP \in Int /\ k \div PACKET_BACKUP \in Int
      /\ n % PACKET_BACKUP = k % PACKET_BACKUP /\ n % PACKET_BACKUP \in Int
  <2>1. \A i \in Nat, M \in Nat \ {0} :
          i = M * (i \div M) + (i % M) /\ i \div M \in Int /\ i % M \in Int
    OBVIOUS
  <2> QED
    BY <1>1, <2>1 DEF Slot
<1>3. t \in Int /\ k - n = PACKET_BACKUP * t
  BY <1>1, <1>2
<1> HIDE DEF t
<1>4. t >= 1
  BY <1>1, <1>3
<1>5. PACKET_BACKUP * t >= PACKET_BACKUP
  BY <1>1, <1>3, <1>4
<1> QED
  BY <1>1, <1>3, <1>5

(* Every slot is that of one of the last PACKET_BACKUP numbers. *)
LEMMA SlotsCovered ==
  ASSUME NEW n \in Nat, NEW k \in Nat, k <= n
  PROVE  \E i \in Nat : /\ Slot(i) = Slot(k) /\ i <= n
                        /\ n < i + PACKET_BACKUP /\ k <= i
<1>1. PACKET_BACKUP \in Nat \ {0}
  BY BackupAssumption
<1>2. PICK d \in Nat : d = n - k
  OBVIOUS
<1>3. PICK t : t = d \div PACKET_BACKUP
  OBVIOUS
<1>4. PICK r : r = d % PACKET_BACKUP
  OBVIOUS
<1>5. t \in Nat /\ r \in 0..PACKET_BACKUP - 1 /\ d = PACKET_BACKUP * t + r
  BY <1>1, <1>2, <1>3, <1>4
<1>6. PICK u : u = PACKET_BACKUP * t
  OBVIOUS
<1>7. k + u \in Nat /\ Slot(k + u) = Slot(k)
  BY <1>5, <1>6, SlotTurns
<1>8. u \in Int
  BY <1>1, <1>5, <1>6
<1>9. k + u <= n /\ n < k + u + PACKET_BACKUP
  BY <1>1, <1>2, <1>5, <1>6, <1>7, <1>8
<1>10. u >= 0
  BY <1>1, <1>5, <1>6
<1> QED
  BY <1>7, <1>8, <1>9, <1>10, <1>1

-----------------------------------------------------------------------------
(* What is in a message, and on its way.                                   *)

LEMMA MessageFields ==
  \A m \in Message :
    /\ m.map \in Nat /\ m.serverId \in Nat /\ m.kind \in {"gamestate", "snapshot"}
    /\ m.kind = "snapshot" =>
         /\ m.lastframe \in Nat /\ m.lastframe <= PACKET_BACKUP - 4
         /\ m.old \in Int /\ m.frame \in Int /\ m.active \in BOOLEAN
         /\ m.numEntities \in 0..MaxEntities
  BY BackupAssumption DEF Message

LEMMA ComingType ==
  ASSUME TypeOK
  PROVE  \A p \in Coming : p.sequence \in Nat /\ p.message \in Message
<1>1. /\ toClient \in Seq(ServerPacket)
      /\ pending \in Seq(Message) /\ sentCount \in Nat
  BY DEF TypeOK
<1>2. \A i \in 1..Len(toClient) : toClient[i] \in ServerPacket
  BY <1>1
<1>3. \A i \in 1..Len(pending) : pending[i] \in Message /\ i \in Nat
  BY <1>1
<1> QED
  BY <1>1, <1>2, <1>3 DEF Coming, ServerPacket

LEMMA GoingType ==
  ASSUME TypeOK
  PROVE  \A m \in Going : /\ m.serverId \in Nat /\ m.messageAcknowledge \in Nat
                          /\ m.delta \in BOOLEAN
<1>1. toServer \in Seq(ClientPacket)
  BY DEF TypeOK
<1>2. \A i \in 1..Len(toServer) : toServer[i] \in ClientPacket
  BY <1>1
<1> QED
  BY <1>2 DEF Going, ClientPacket

LEMMA FrameNumbers ==
  ASSUME TypeOK
  PROVE  /\ \A i \in 0..PACKET_BACKUP - 1 : clc.snapshots[i] \in ClientFrame
         /\ \A i \in 0..PACKET_BACKUP - 1 : clc.snapshots[i].messageNum \in Nat
         /\ cl.deltaMessage > 0 => cl.deltaMessage \in Nat
<1>1. \A i \in 0..PACKET_BACKUP - 1 : clc.snapshots[i] \in ClientFrame
  BY DEF TypeOK
<1>2. cl.deltaMessage \in Nat \cup {-1}
  BY DEF TypeOK
<1>3. cl.deltaMessage > 0 => cl.deltaMessage \in Nat
  BY <1>2
<1> QED
  BY <1>1, <1>3 DEF ClientFrame

(* The client takes the oldest message; the others are newer. *)
LEMMA HeadIsFirst ==
  ASSUME TypeOK, NumbersOK, toClient # <<>>
  PROVE  /\ Head(toClient) \in Coming
         /\ clc.serverMessageSequence < Head(toClient).sequence
         /\ Head(toClient).sequence <= sentCount
         /\ \A p \in Coming : p = Head(toClient) \/ Head(toClient).sequence < p.sequence
<1>1. /\ toClient \in Seq(ServerPacket)
      /\ pending \in Seq(Message) /\ sentCount \in Nat
  BY DEF TypeOK
<1>2. Len(toClient) \in Nat /\ Len(toClient) >= 1 /\ Head(toClient) = toClient[1]
  BY <1>1
<1>3. /\ clc.serverMessageSequence < toClient[1].sequence
      /\ toClient[1].sequence <= sentCount
  BY <1>2 DEF NumbersOK
<1>4. \A i \in 1..Len(toClient) : i = 1 \/ toClient[1].sequence < toClient[i].sequence
  <2> SUFFICES ASSUME NEW i \in 1..Len(toClient), i # 1
               PROVE  toClient[1].sequence < toClient[i].sequence
    OBVIOUS
  <2>1. 1 \in 1..i - 1
    BY <1>2
  <2> QED
    BY <2>1 DEF NumbersOK
<1>5. toClient[1].sequence \in Nat
  <2>1. toClient[1] \in ServerPacket
    BY <1>1, <1>2
  <2> QED
    BY <2>1 DEF ServerPacket
<1>6. \A i \in 1..Len(pending) : toClient[1].sequence < sentCount + i
  BY <1>1, <1>3, <1>5
<1> QED
  BY <1>2, <1>3, <1>4, <1>6 DEF Coming

(* A message goes out, or waits. *)
LEMMA SentTypes ==
  ASSUME TypeOK, NumbersOK, NEW m \in Message, toClient' \in Sent(m),
         sentCount' = sentCount + 1
  PROVE  /\ toClient' \in Seq(ServerPacket)
         /\ \A i \in 1..Len(toClient') :
              /\ \/ i \in 1..Len(toClient) /\ toClient'[i] = toClient[i]
                 \/ toClient'[i] = [sequence |-> outgoingSequence, message |-> m]
              /\ clc.serverMessageSequence < toClient'[i].sequence
              /\ toClient'[i].sequence <= sentCount'
              /\ \A j \in 1..i - 1 : toClient'[j].sequence < toClient'[i].sequence
<1> DEFINE new == [sequence |-> outgoingSequence, message |-> m]
<1>1. /\ toClient \in Seq(ServerPacket)
      /\ sentCount \in Nat /\ clc.serverMessageSequence \in Nat
      /\ clc.serverMessageSequence <= sentCount
  BY DEF TypeOK, NumbersOK
<1>2. PICK L \in Nat : L = Len(toClient)
  BY <1>1
<1>3. \A i \in 1..L :
        /\ toClient[i].sequence \in Nat
        /\ clc.serverMessageSequence < toClient[i].sequence
        /\ toClient[i].sequence <= sentCount
        /\ \A j \in 1..i - 1 : toClient[j].sequence < toClient[i].sequence
  <2>1. \A i \in 1..L : toClient[i] \in ServerPacket
    BY <1>1, <1>2
  <2> QED
    BY <1>2, <2>1 DEF NumbersOK, ServerPacket
<1>4. CASE toClient' = toClient
  <2>1. \A i \in 1..L : toClient[i].sequence <= sentCount'
    BY <1>1, <1>3
  <2> QED
    BY <1>1, <1>2, <1>3, <1>4, <2>1
<1>5. CASE toClient' = Append(toClient, new)
  <2>1. new \in ServerPacket /\ new.sequence = sentCount + 1
    BY <1>1 DEF outgoingSequence, ServerPacket
  <2> HIDE DEF new
  <2>2. /\ toClient' \in Seq(ServerPacket)
        /\ Len(toClient') = L + 1 /\ toClient'[L + 1] = new
        /\ \A i \in 1..L : toClient'[i] = toClient[i]
    BY <1>1, <1>2, <1>5, <2>1
  <2>3. ASSUME NEW i \in 1..L + 1
        PROVE  /\ \/ i \in 1..L /\ toClient'[i] = toClient[i]
                  \/ toClient'[i] = new
               /\ clc.serverMessageSequence < toClient'[i].sequence
               /\ toClient'[i].sequence <= sentCount'
               /\ \A j \in 1..i - 1 : toClient'[j].sequence < toClient'[i].sequence
    <3>1. CASE i \in 1..L
      <4>1. \A j \in 1..i - 1 : toClient'[j] = toClient[j]
        BY <1>2, <2>2, <3>1
      <4>2. toClient'[i].sequence <= sentCount + 1
        <5>1. PICK n \in Nat : n = toClient[i].sequence
          BY <1>3, <3>1
        <5>2. n <= sentCount
          BY <1>3, <3>1, <5>1
        <5>3. n <= sentCount + 1
          BY <1>1, <5>2
        <5> QED
          BY <2>2, <3>1, <5>1, <5>3
      <4> QED
        BY <1>3, <2>2, <3>1, <4>1, <4>2
    <3>2. CASE i = L + 1
      <4>1. toClient'[i].sequence = sentCount + 1
        BY <2>1, <2>2, <3>2
      <4>2. ASSUME NEW j \in 1..i - 1 PROVE toClient'[j].sequence < sentCount + 1
        <5>1. j \in 1..L
          BY <1>2, <3>2
        <5> QED
          BY <1>1, <1>3, <2>2, <5>1
      <4> QED
        BY <1>1, <2>2, <3>2, <4>1, <4>2
    <3> QED
      BY <1>2, <3>1, <3>2
  <2> QED
    BY <1>2, <2>2, <2>3 DEF new
<1> QED
  BY <1>4, <1>5 DEF Sent

LEMMA TransmitFacts ==
  ASSUME TypeOK, NumbersOK, NEW m \in Message, SV_Netchan_Transmit(m),
         m.kind = "snapshot" => pending = <<>>
  PROVE  /\ toClient' \in Seq(ServerPacket) /\ pending' \in Seq(Message)
         /\ sentCount' \in Nat /\ sentCount <= sentCount' /\ sentCount' <= sentCount + 1
         /\ \A i \in 1..Len(toClient') :
              /\ clc.serverMessageSequence < toClient'[i].sequence
              /\ toClient'[i].sequence <= sentCount'
              /\ \A j \in 1..i - 1 : toClient'[j].sequence < toClient'[i].sequence
         /\ \A i \in 1..Len(pending') : pending'[i].kind = "snapshot" => i = 1
         /\ Coming' \subseteq
              Coming \cup {[sequence |-> sentCount + Len(pending) + 1, message |-> m]}
<1>1. /\ pending \in Seq(Message) /\ sentCount \in Nat /\ toClient \in Seq(ServerPacket)
      /\ clc.serverMessageSequence \in Nat
  BY DEF TypeOK
<1>2. CASE pending = <<>> /\ toClient' \in Sent(m) /\ sentCount' = sentCount + 1
           /\ pending' = pending
  <2>1. /\ toClient' \in Seq(ServerPacket)
        /\ \A i \in 1..Len(toClient') :
             /\ \/ i \in 1..Len(toClient) /\ toClient'[i] = toClient[i]
                \/ toClient'[i] = [sequence |-> outgoingSequence, message |-> m]
             /\ clc.serverMessageSequence < toClient'[i].sequence
             /\ toClient'[i].sequence <= sentCount'
             /\ \A j \in 1..i - 1 : toClient'[j].sequence < toClient'[i].sequence
    BY <1>2, SentTypes
  <2>2. pending' = <<>> /\ Len(pending') = 0 /\ Len(pending) = 0
    BY <1>2
  <2>3. outgoingSequence = sentCount + Len(pending) + 1
    BY <1>1, <2>2 DEF outgoingSequence
  <2>4. Coming' \subseteq
          Coming \cup {[sequence |-> sentCount + Len(pending) + 1, message |-> m]}
    <3>1. \A p \in Coming' : \E i \in 1..Len(toClient') : p = toClient'[i]
      BY <2>2 DEF Coming
    <3>2. \A i \in 1..Len(toClient') :
            toClient'[i] \in
              Coming \cup {[sequence |-> sentCount + Len(pending) + 1, message |-> m]}
      BY <2>1, <2>3 DEF Coming
    <3> QED
      BY <3>1, <3>2
  <2>5. \A i \in 1..Len(pending') : pending'[i].kind = "snapshot" => i = 1
    BY <2>2
  <2>6. /\ pending' \in Seq(Message) /\ sentCount' \in Nat
        /\ sentCount <= sentCount' /\ sentCount' <= sentCount + 1
    BY <1>1, <1>2
  <2> QED
    BY <2>1, <2>4, <2>5, <2>6
<1>3. CASE /\ pending' = Append(pending, m) /\ toClient' = toClient
           /\ sentCount' = sentCount
  <2>1. PICK L \in Nat : L = Len(pending)
    BY <1>1
  <2>2. /\ pending' \in Seq(Message) /\ Len(pending') = L + 1 /\ pending'[L + 1] = m
        /\ \A i \in 1..L : pending'[i] = pending[i]
    BY <1>1, <1>3, <2>1
  <2>3. \A i \in 1..L + 1 : i = L + 1 \/ i \in 1..L
    BY <2>1
  <2>4. \A i \in 1..L + 1 : pending'[i].kind = "snapshot" => i = 1
    <3>1. m.kind = "snapshot" => L = 0
      BY <2>1
    <3>2. \A i \in 1..L : pending'[i].kind = "snapshot" => i = 1
      BY <2>1, <2>2 DEF NumbersOK
    <3> QED
      BY <2>1, <2>2, <2>3, <3>1, <3>2
  <2>5. /\ \A i \in 1..Len(toClient') :
             /\ clc.serverMessageSequence < toClient'[i].sequence
             /\ toClient'[i].sequence <= sentCount'
             /\ \A j \in 1..i - 1 : toClient'[j].sequence < toClient'[i].sequence
        /\ toClient' \in Seq(ServerPacket)
    BY <1>1, <1>3 DEF NumbersOK
  <2>6. \A i \in 1..L + 1 :
          [sequence |-> sentCount + i, message |-> pending'[i]] \in
            Coming \cup {[sequence |-> sentCount + L + 1, message |-> m]}
    <3>1. \A i \in 1..L : [sequence |-> sentCount + i, message |-> pending[i]] \in Coming
      BY <2>1 DEF Coming
    <3>2. sentCount + (L + 1) = sentCount + L + 1
      BY <1>1, <2>1
    <3> QED
      BY <2>2, <2>3, <3>1, <3>2
  <2>7. \A i \in 1..Len(toClient) : toClient[i] \in Coming
    BY DEF Coming
  <2>8. Coming' \subseteq Coming \cup {[sequence |-> sentCount + L + 1, message |-> m]}
    <3>1. Coming' = {toClient[i] : i \in 1..Len(toClient)} \cup
                    {[sequence |-> sentCount + i, message |-> pending'[i]] : i \in 1..L + 1}
      BY <1>3, <2>2 DEF Coming
    <3> QED
      BY ONLY <2>6, <2>7, <3>1
  <2>9. sentCount' \in Nat /\ sentCount <= sentCount' /\ sentCount' <= sentCount + 1
    BY <1>1, <1>3
  <2> QED
    BY <2>1, <2>2, <2>4, <2>5, <2>8, <2>9
<1> QED
  BY <1>2, <1>3 DEF SV_Netchan_Transmit

LEMMA FragmentFacts ==
  ASSUME TypeOK, NumbersOK, SV_Netchan_TransmitNextFragment
  PROVE  /\ toClient' \in Seq(ServerPacket) /\ pending' \in Seq(Message)
         /\ sentCount' \in Nat /\ sentCount' = sentCount + 1
         /\ \A i \in 1..Len(toClient') :
              /\ clc.serverMessageSequence < toClient'[i].sequence
              /\ toClient'[i].sequence <= sentCount'
              /\ \A j \in 1..i - 1 : toClient'[j].sequence < toClient'[i].sequence
         /\ \A i \in 1..Len(pending') : pending'[i].kind = "snapshot" => i = 1
         /\ Coming' \subseteq Coming
<1>1. /\ pending \in Seq(Message) /\ sentCount \in Nat /\ toClient \in Seq(ServerPacket)
      /\ pending # <<>> /\ toClient' \in Sent(Head(pending))
      /\ sentCount' = sentCount + 1 /\ pending' = Tail(pending)
  BY DEF TypeOK, SV_Netchan_TransmitNextFragment
<1>2. PICK L \in Nat : L = Len(pending)
  BY <1>1
<1>3. /\ L >= 1 /\ Head(pending) = pending[1] /\ pending[1] \in Message
      /\ pending' \in Seq(Message) /\ Len(pending') = L - 1
      /\ \A i \in 1..L - 1 : pending'[i] = pending[i + 1]
  BY <1>1, <1>2
<1>4. /\ toClient' \in Seq(ServerPacket)
      /\ \A i \in 1..Len(toClient') :
           /\ \/ i \in 1..Len(toClient) /\ toClient'[i] = toClient[i]
              \/ toClient'[i] = [sequence |-> outgoingSequence, message |-> pending[1]]
           /\ clc.serverMessageSequence < toClient'[i].sequence
           /\ toClient'[i].sequence <= sentCount'
           /\ \A j \in 1..i - 1 : toClient'[j].sequence < toClient'[i].sequence
  BY <1>1, <1>3, SentTypes
<1>5. \A i \in 1..Len(pending') : pending'[i].kind = "snapshot" => i = 1
  <2> SUFFICES ASSUME NEW i \in 1..L - 1, pending'[i].kind = "snapshot" PROVE FALSE
    BY <1>3
  <2>1. pending[i + 1].kind = "snapshot" /\ i + 1 \in 1..L /\ i + 1 # 1
    BY <1>2, <1>3
  <2> QED
    BY <1>2, <2>1 DEF NumbersOK
<1>6. Coming' \subseteq Coming
  <2>1. [sequence |-> outgoingSequence, message |-> pending[1]] \in Coming
    BY <1>2, <1>3 DEF Coming, outgoingSequence
  <2>2. \A i \in 1..Len(toClient') : toClient'[i] \in Coming
    BY <1>4, <2>1 DEF Coming
  <2>3. ASSUME NEW i \in 1..L - 1
        PROVE  [sequence |-> sentCount' + i, message |-> pending'[i]] \in Coming
    <3>1. i + 1 \in 1..Len(pending) /\ sentCount' + i = sentCount + (i + 1)
      BY <1>1, <1>2
    <3> QED
      BY <1>3, <3>1 DEF Coming
  <2> QED
    BY <1>3, <2>2, <2>3, Zenon DEF Coming
<1> QED
  BY <1>1, <1>3, <1>4, <1>5, <1>6

-----------------------------------------------------------------------------
(* Frames and slots over time.                                             *)

LEMMA KeptGrows ==
  ASSUME NEW frames, NEW next \in Nat, NEW later \in Nat, NEW n \in Nat,
         next <= later, Kept(frames, next, n)
  PROVE  Kept(frames, later, n)
  BY BackupAssumption DEF Kept

(* Making a frame takes the slot of one that is too old. *)
LEMMA KeptBuilt ==
  ASSUME NEW frames, NEW f, NEW next \in Nat, NEW n \in Nat, n < next,
         Kept(frames, next, n)
  PROVE  Kept([frames EXCEPT ![Slot(next)] = f], next, n)
<1>1. CASE Slot(n) = Slot(next)
  <2>1. n + PACKET_BACKUP <= next
    BY <1>1, SameSlot
  <2> QED
    BY <2>1 DEF Kept
<1>2. CASE Slot(n) # Slot(next)
  <2>1. [frames EXCEPT ![Slot(next)] = f][Slot(n)] = frames[Slot(n)]
    BY <1>2
  <2> QED
    BY <2>1 DEF Kept
<1> QED
  BY <1>1, <1>2

-----------------------------------------------------------------------------
(* The steps.                                                              *)

LEMMA FragmentKeeps ==
  ASSUME IInv, SV_Netchan_TransmitNextFragment PROVE IInv'
<1>1. /\ sv' = sv /\ cl' = cl /\ toServer' = toServer /\ clc' = clc
  BY DEF SV_Netchan_TransmitNextFragment
<1>2. TypeOK /\ NumbersOK
  BY DEF IInv
<1>3. /\ toClient' \in Seq(ServerPacket) /\ pending' \in Seq(Message)
      /\ sentCount' \in Nat /\ sentCount' = sentCount + 1
      /\ \A i \in 1..Len(toClient') :
           /\ clc.serverMessageSequence < toClient'[i].sequence
           /\ toClient'[i].sequence <= sentCount'
           /\ \A j \in 1..i - 1 : toClient'[j].sequence < toClient'[i].sequence
      /\ \A i \in 1..Len(pending') : pending'[i].kind = "snapshot" => i = 1
      /\ Coming' \subseteq Coming
  BY <1>2, FragmentFacts
<1>4. Going' = Going
  BY <1>1 DEF Going
<1>5. Gamestates' \subseteq Gamestates /\ Snapshots' \subseteq Snapshots
  BY <1>3 DEF Gamestates, Snapshots
<1>6. TypeOK'
  BY <1>1, <1>2, <1>3 DEF TypeOK
<1>7. sentCount \in Nat /\ clc.serverMessageSequence \in Nat
  BY <1>2 DEF TypeOK
<1>8. NumbersOK'
  <2>1. clc.serverMessageSequence <= sentCount'
    BY <1>2, <1>3, <1>7 DEF NumbersOK
  <2> QED
    BY <1>1, <1>2, <1>3, <1>4, <1>5, <2>1 DEF NumbersOK
<1>9. GamestateOK'
  <2>1. cl.gamestateMessageNum \in Nat
    BY <1>2 DEF TypeOK
  <2>2. cl.gamestateMessageNum <= sentCount' + 1
    BY <1>3, <1>7, <2>1 DEF IInv, GamestateOK, outgoingSequence
  <2> QED
    BY <1>1, <1>5, <2>2 DEF IInv, GamestateOK, outgoingSequence
<1>10. MapsOK'
  BY <1>1, <1>3, <1>4, <1>5 DEF IInv, MapsOK
<1>11. FramesOK'
  <2>1. \A n \in Nat : Kept(cl.frames, outgoingSequence, n)
                         => Kept(cl.frames, outgoingSequence', n)
    <3>1. /\ outgoingSequence \in Nat /\ outgoingSequence' \in Nat
          /\ outgoingSequence <= outgoingSequence'
      BY <1>3, <1>7 DEF outgoingSequence
    <3> QED
      BY <3>1, KeptGrows
  <2>2. /\ \A p \in Snapshots : p.sequence \in Nat
        /\ \A m \in Going : m.messageAcknowledge \in Nat
    BY <1>2, ComingType, GoingType DEF Snapshots
  <2>3. /\ \A i \in 0..PACKET_BACKUP - 1 : clc.snapshots[i].messageNum \in Nat
        /\ cl.deltaMessage > 0 => cl.deltaMessage \in Nat
    BY <1>2, FrameNumbers
  <2>4. FramesOK
    BY DEF IInv
  <2> QED
    BY <1>1, <1>4, <1>5, <2>1, <2>2, <2>3, <2>4 DEF FramesOK
<1>12. SlotsOK'
  BY <1>1 DEF IInv, SlotsOK
<1>13. BasesOK'
  BY <1>1, <1>4, <1>5 DEF IInv, BasesOK
<1> QED
  BY <1>6, <1>8, <1>9, <1>10, <1>11, <1>12, <1>13 DEF IInv

(* A new map: no message is of it yet. *)
LEMMA SpawnKeeps ==
  ASSUME IInv, SV_SpawnServer PROVE IInv'
<1>1. /\ sv' = [serverId |-> sv.serverId + 1, restartedServerId |-> sv.serverId + 1,
                nextSnapshotEntities |-> 0]
      /\ cl' = [cl EXCEPT !.state = "connected", !.gentity = FALSE]
      /\ pending' = pending /\ sentCount' = sentCount /\ toClient' = toClient
      /\ toServer' = toServer /\ clc' = clc
  BY DEF SV_SpawnServer, channel
<1>2. TypeOK /\ NumbersOK /\ GamestateOK /\ MapsOK /\ FramesOK /\ SlotsOK /\ BasesOK
  BY DEF IInv
<1>3. Coming' = Coming /\ Going' = Going
  BY <1>1 DEF Coming, Going
<1>4. Gamestates' = Gamestates /\ Snapshots' = Snapshots
  BY <1>3 DEF Gamestates, Snapshots
<1>5. PICK S \in Nat : S = sv.serverId
  BY <1>2 DEF TypeOK
<1>6. sv'.serverId = S + 1 /\ sv'.restartedServerId = S + 1
  BY <1>1, <1>5
<1>7. /\ cl'.gamestateMessageNum = cl.gamestateMessageNum /\ cl'.frames = cl.frames
      /\ cl'.deltaMessage = cl.deltaMessage /\ cl'.state = "connected"
  BY <1>1, <1>2 DEF TypeOK
<1>8. TypeOK'
  <2>1. sv' \in [serverId : Nat, restartedServerId : Nat, nextSnapshotEntities : Nat]
    BY <1>1, <1>5
  <2> QED
    BY <1>1, <1>2, <2>1 DEF TypeOK
<1>9. NumbersOK'
  BY <1>1, <1>2, <1>3, <1>4, <1>7 DEF NumbersOK
<1>10. GamestateOK'
  BY <1>1, <1>2, <1>4, <1>7 DEF GamestateOK, outgoingSequence
<1>11. MapsOK'
  <2>1. PICK R \in Nat : R = sv.restartedServerId
    BY <1>2 DEF TypeOK
  <2>2. R <= S
    BY <1>2, <1>5, <2>1 DEF MapsOK
  <2>3. /\ clc.map \in Nat /\ clc.serverId \in Nat
        /\ clc.map <= R /\ clc.serverId <= S /\ clc.map <= clc.serverId
    BY <1>2, <1>5, <2>1 DEF MapsOK, TypeOK
  <2>4. clc.map <= S + 1 /\ clc.map # S + 1 /\ clc.serverId <= S + 1 /\ ~(clc.serverId >= S + 1)
    BY <2>2, <2>3
  <2>5. \A m \in Going : m.serverId <= S + 1 /\ ~(m.serverId >= S + 1)
    <3>1. \A m \in Going : m.serverId \in Nat /\ m.serverId <= S
      BY <1>2, <1>5, GoingType DEF MapsOK
    <3> QED
      BY <3>1
  <2>6. \A p \in Coming : /\ p.message.map <= S + 1 /\ p.message.serverId <= S + 1
                          /\ ~(p.message.serverId >= S + 1)
    <3>1. \A p \in Coming : p.message.map \in Nat /\ p.message.serverId \in Nat
      BY <1>2, ComingType, MessageFields
    <3>2. \A p \in Coming : p.message.map <= p.message.serverId /\ p.message.serverId <= S
      BY <1>2, <1>5 DEF MapsOK
    <3> QED
      BY <3>1, <3>2
  <2>7. \A p \in Coming :
          /\ clc.map <= p.message.map /\ p.message.map <= p.message.serverId
          /\ \A q \in Coming : p.sequence < q.sequence => p.message.map <= q.message.map
    BY <1>2 DEF MapsOK
  <2>8. sv'.restartedServerId <= sv'.serverId
    BY <1>6
  <2> QED
    BY <1>1, <1>3, <1>6, <2>3, <2>4, <2>5, <2>6, <2>7, <2>8 DEF MapsOK
<1>12. FramesOK'
  BY <1>1, <1>2, <1>3, <1>4, <1>7 DEF FramesOK, outgoingSequence
<1>13. SlotsOK'
  BY <1>1, <1>2 DEF SlotsOK
<1>14. BasesOK'
  <2>1. \A m \in Going : m.serverId # S + 1
    <3>1. \A m \in Going : m.serverId \in Nat /\ m.serverId <= S
      BY <1>2, <1>5, GoingType DEF MapsOK
    <3> QED
      BY <3>1
  <2> QED
    BY <1>1, <1>2, <1>3, <1>4, <1>6, <1>7, <2>1 DEF BasesOK
<1> QED
  BY <1>8, <1>9, <1>10, <1>11, <1>12, <1>13, <1>14 DEF IInv

(* A map_restart: no message has its id yet. *)
LEMMA RestartKeeps ==
  ASSUME IInv, SV_MapRestart_f PROVE IInv'
<1>1. /\ sv' = [sv EXCEPT !.serverId = @ + 1] /\ cl' = EnteredWorld(cl)
      /\ pending' = pending /\ sentCount' = sentCount /\ toClient' = toClient
      /\ toServer' = toServer /\ clc' = clc
  BY DEF SV_MapRestart_f, channel
<1>2. TypeOK /\ NumbersOK /\ GamestateOK /\ MapsOK /\ FramesOK /\ SlotsOK /\ BasesOK
  BY DEF IInv
<1>3. Coming' = Coming /\ Going' = Going
  BY <1>1 DEF Coming, Going
<1>4. Gamestates' = Gamestates /\ Snapshots' = Snapshots
  BY <1>3 DEF Gamestates, Snapshots
<1>5. PICK S \in Nat : S = sv.serverId
  BY <1>2 DEF TypeOK
<1>6. /\ sv'.serverId = S + 1 /\ sv'.restartedServerId = sv.restartedServerId
      /\ sv'.nextSnapshotEntities = sv.nextSnapshotEntities
  BY <1>1, <1>2, <1>5 DEF TypeOK
<1>7. /\ cl'.gamestateMessageNum = cl.gamestateMessageNum /\ cl'.frames = cl.frames
      /\ cl'.deltaMessage = -1
  BY <1>1, <1>2 DEF TypeOK, EnteredWorld
<1>8. TypeOK'
  <2>1. sv' \in [serverId : Nat, restartedServerId : Nat, nextSnapshotEntities : Nat]
    <3>1. /\ sv \in [serverId : Nat, restartedServerId : Nat, nextSnapshotEntities : Nat]
          /\ S + 1 \in Nat /\ sv' = [sv EXCEPT !.serverId = S + 1]
      BY <1>1, <1>2, <1>5 DEF TypeOK
    <3> QED
      BY ONLY <3>1
  <2>2. cl' \in [state : {"connected", "primed", "active"}, gentity : BOOLEAN,
                 gamestateMessageNum : Nat, deltaMessage : Nat \cup {-1},
                 frames : [0..PACKET_BACKUP - 1 -> ServerFrame]]
    BY <1>1, <1>2 DEF TypeOK, EnteredWorld
  <2> QED
    BY <1>1, <1>2, <2>1, <2>2 DEF TypeOK
<1>9. NumbersOK'
  <2>1. -1 <= clc.serverMessageSequence
    BY <1>2 DEF TypeOK
  <2> QED
    BY <1>1, <1>2, <1>3, <1>4, <1>7, <2>1 DEF NumbersOK
<1>10. GamestateOK'
  BY <1>1, <1>2, <1>4, <1>7 DEF GamestateOK, outgoingSequence
<1>11. MapsOK'
  <2>1. PICK R \in Nat : R = sv.restartedServerId
    BY <1>2 DEF TypeOK
  <2>2. R <= S + 1
    BY <1>2, <1>5, <2>1 DEF MapsOK
  <2>3. clc.serverId \in Nat /\ clc.serverId <= S + 1
    BY <1>2, <1>5 DEF MapsOK, TypeOK
  <2>4. \A m \in Going : m.serverId <= S + 1
    <3>1. \A m \in Going : m.serverId \in Nat /\ m.serverId <= S
      BY <1>2, <1>5, GoingType DEF MapsOK
    <3> QED
      BY <3>1
  <2>5. \A p \in Coming : p.message.serverId <= S + 1
    <3>1. \A p \in Coming : p.message.serverId \in Nat /\ p.message.serverId <= S
      BY <1>2, <1>5, ComingType, MessageFields DEF MapsOK
    <3> QED
      BY <3>1
  <2> QED
    BY <1>1, <1>2, <1>3, <1>4, <1>6, <1>7, <2>1, <2>2, <2>3, <2>4, <2>5 DEF MapsOK
<1>12. FramesOK'
  BY <1>1, <1>2, <1>3, <1>4, <1>7 DEF FramesOK, outgoingSequence
<1>13. SlotsOK'
  BY <1>1, <1>2 DEF SlotsOK
<1>14. BasesOK'
  <2>1. \A m \in Going : m.serverId # S + 1
    <3>1. \A m \in Going : m.serverId \in Nat /\ m.serverId <= S
      BY <1>2, <1>5, GoingType DEF MapsOK
    <3> QED
      BY <3>1
  <2> QED
    BY <1>1, <1>2, <1>3, <1>4, <1>6, <1>7, <2>1 DEF BasesOK
<1> QED
  BY <1>8, <1>9, <1>10, <1>11, <1>12, <1>13, <1>14 DEF IInv

(* What the client asks for it holds. *)
LEMMA WritePacketKeeps ==
  ASSUME IInv, CL_WritePacket PROVE IInv'
<1> DEFINE new == [serverId |-> clc.serverId,
                   messageAcknowledge |-> clc.serverMessageSequence,
                   delta |-> MayDelta]
<1>1. /\ toServer' = Append(toServer, new)
      /\ sv' = sv /\ cl' = cl /\ clc' = clc
      /\ pending' = pending /\ sentCount' = sentCount /\ toClient' = toClient
  BY DEF CL_WritePacket, channel
<1>2. TypeOK /\ NumbersOK /\ GamestateOK /\ MapsOK /\ FramesOK /\ SlotsOK /\ BasesOK
  BY DEF IInv
<1>3. new \in ClientPacket
  <2>1. clc.serverId \in Nat /\ clc.serverMessageSequence \in Nat /\ clc.snap.valid \in BOOLEAN
    BY <1>2 DEF TypeOK, ClientFrame
  <2>2. MayDelta \in BOOLEAN
    BY <2>1 DEF MayDelta
  <2> QED
    BY <2>1, <2>2 DEF ClientPacket
<1>4. /\ new.serverId = clc.serverId
      /\ new.messageAcknowledge = clc.serverMessageSequence
      /\ new.delta => clc.snap.valid /\ clc.serverMessageSequence = clc.snap.messageNum
  BY DEF MayDelta
<1> HIDE DEF new
<1>5. toServer' \in Seq(ClientPacket) /\ Going' \subseteq Going \cup {new}
  <2>1. toServer \in Seq(ClientPacket)
    BY <1>2 DEF TypeOK
  <2>2. PICK L \in Nat : L = Len(toServer)
    BY <2>1
  <2>3. /\ toServer' \in Seq(ClientPacket) /\ Len(toServer') = L + 1
        /\ toServer'[L + 1] = new /\ \A i \in 1..L : toServer'[i] = toServer[i]
    BY <1>1, <1>3, <2>1, <2>2
  <2>4. \A i \in 1..L + 1 : i = L + 1 \/ i \in 1..L
    BY <2>2
  <2> QED
    BY <2>2, <2>3, <2>4 DEF Going
<1>6. Coming' = Coming
  BY <1>1 DEF Coming
<1>7. Gamestates' = Gamestates /\ Snapshots' = Snapshots
  BY <1>6 DEF Gamestates, Snapshots
<1>8. TypeOK'
  BY <1>1, <1>2, <1>5 DEF TypeOK
<1>9. NumbersOK'
  <2>1. new.messageAcknowledge <= clc.serverMessageSequence
    BY <1>2, <1>4 DEF TypeOK
  <2> QED
    BY <1>1, <1>2, <1>5, <1>7, <2>1 DEF NumbersOK
<1>10. GamestateOK'
  BY <1>1, <1>2, <1>7 DEF GamestateOK, outgoingSequence
<1>11. MapsOK'
  <2>1. clc.map = sv.restartedServerId => ~(new.serverId < sv.restartedServerId)
    <3>1. clc.serverId \in Nat /\ sv.restartedServerId \in Nat
      BY <1>2 DEF TypeOK
    <3> QED
      BY <1>2, <1>4, <3>1 DEF MapsOK
  <2> QED
    BY <1>1, <1>2, <1>4, <1>5, <1>6, <1>7, <2>1 DEF MapsOK
<1>12. new.delta => /\ clc.snapshots[Slot(new.messageAcknowledge)].valid
                    /\ clc.snapshots[Slot(new.messageAcknowledge)].messageNum
                         = new.messageAcknowledge
  BY <1>2, <1>4 DEF SlotsOK
<1>13. FramesOK'
  <2>1. Slot(new.messageAcknowledge) \in 0..PACKET_BACKUP - 1
    BY <1>3, SlotType DEF ClientPacket
  <2>2. new.delta => Kept(cl.frames, outgoingSequence, new.messageAcknowledge)
    BY <1>2, <1>12, <2>1 DEF FramesOK
  <2> QED
    BY <1>1, <1>2, <1>5, <1>7, <2>2 DEF FramesOK, outgoingSequence
<1>14. SlotsOK'
  BY <1>1, <1>2 DEF SlotsOK
<1>15. BasesOK'
  <2>1. new.delta => Holds(clc, new.messageAcknowledge)
    BY <1>12 DEF Holds
  <2> QED
    BY <1>1, <1>2, <1>5, <1>7, <2>1 DEF BasesOK
<1> QED
  BY <1>8, <1>9, <1>10, <1>11, <1>13, <1>14, <1>15 DEF IInv

-----------------------------------------------------------------------------
(* A message of the client.                                                *)

LEMMA ExecutedFacts ==
  ASSUME TypeOK, toServer # <<>>, toServer' = Tail(toServer)
  PROVE  /\ Head(toServer) \in Going /\ Going' \subseteq Going
         /\ toServer' \in Seq(ClientPacket)
<1>1. toServer \in Seq(ClientPacket)
  BY DEF TypeOK
<1>2. PICK L \in Nat : L = Len(toServer)
  BY <1>1
<1>3. /\ L >= 1 /\ Head(toServer) = toServer[1] /\ toServer' \in Seq(ClientPacket)
      /\ Len(toServer') = L - 1 /\ \A i \in 1..L - 1 : toServer'[i] = toServer[i + 1]
  BY <1>1, <1>2
<1>4. 1 \in 1..L /\ \A i \in 1..L - 1 : i + 1 \in 1..L
  BY <1>2, <1>3
<1> QED
  BY <1>2, <1>3, <1>4 DEF Going

(* A gamestate is sent again only when none is on its way, to a client     *)
(* that has not loaded the map.                                            *)
LEMMA ResentKeeps ==
  ASSUME IInv, toServer # <<>>, toServer' = Tail(toServer),
         LostGamestate(Head(toServer)), SV_SendClientGameState,
         sv' = sv, clc' = clc
  PROVE  IInv'
<1> DEFINE m == Head(toServer)
           g == [kind |-> "gamestate", map |-> sv.restartedServerId,
                 serverId |-> sv.serverId]
           new == [sequence |-> sentCount + Len(pending) + 1, message |-> g]
<1>1. /\ cl' = [cl EXCEPT !.state = "primed", !.gamestateMessageNum = outgoingSequence]
      /\ SV_Netchan_Transmit(g)
  BY DEF SV_SendClientGameState
<1>2. TypeOK /\ NumbersOK /\ GamestateOK /\ MapsOK /\ FramesOK /\ SlotsOK /\ BasesOK
  BY DEF IInv
<1>3. m \in Going /\ Going' \subseteq Going /\ toServer' \in Seq(ClientPacket)
  BY <1>2, ExecutedFacts
<1>4. PICK R \in Nat, S \in Nat : R = sv.restartedServerId /\ S = sv.serverId /\ R <= S
  BY <1>2 DEF TypeOK, MapsOK
<1>5. g \in Message /\ g.kind = "gamestate" /\ g.map = R /\ g.serverId = S
  BY <1>4 DEF Message
<1> HIDE DEF g
<1>6. new.message = g /\ new.sequence = sentCount + Len(pending) + 1
  OBVIOUS
<1>7. /\ toClient' \in Seq(ServerPacket) /\ pending' \in Seq(Message)
      /\ sentCount' \in Nat /\ sentCount <= sentCount' /\ sentCount' <= sentCount + 1
      /\ \A i \in 1..Len(toClient') :
           /\ clc.serverMessageSequence < toClient'[i].sequence
           /\ toClient'[i].sequence <= sentCount'
           /\ \A j \in 1..i - 1 : toClient'[j].sequence < toClient'[i].sequence
      /\ \A i \in 1..Len(pending') : pending'[i].kind = "snapshot" => i = 1
      /\ Coming' \subseteq Coming \cup {new}
  BY <1>1, <1>2, <1>5, TransmitFacts
<1> HIDE DEF new
<1>8. PICK c \in Nat, n \in Nat, a \in Nat, G \in Nat :
        /\ c = sentCount /\ n = clc.serverMessageSequence /\ n <= c
        /\ a = m.messageAcknowledge /\ a <= n
        /\ G = cl.gamestateMessageNum /\ G < a
  <2>1. m.messageAcknowledge \in Nat /\ m.messageAcknowledge <= clc.serverMessageSequence
    BY <1>2, <1>3, GoingType DEF NumbersOK
  <2>2. m.messageAcknowledge > cl.gamestateMessageNum
    BY DEF LostGamestate
  <2>3. /\ sentCount \in Nat /\ clc.serverMessageSequence \in Nat
        /\ cl.gamestateMessageNum \in Nat
        /\ clc.serverMessageSequence <= sentCount
    BY <1>2 DEF TypeOK, NumbersOK
  <2>4. cl.gamestateMessageNum < m.messageAcknowledge
    BY <2>1, <2>2, <2>3
  <2> HIDE DEF m
  <2> QED
    BY <2>1, <2>3, <2>4
(* None was on its way. *)
<1>9. \A p \in Coming : p.sequence \in Nat /\ n < p.sequence
  <2>1. \A i \in 1..Len(toClient) : n < toClient[i].sequence
    BY <1>2, <1>8 DEF NumbersOK
  <2>2. \A i \in 1..Len(pending) : n < sentCount + i
    BY <1>8
  <2> QED
    BY <1>2, <2>1, <2>2, ComingType DEF Coming
<1>10. Gamestates = {}
  <2> SUFFICES ASSUME NEW p \in Gamestates PROVE FALSE
    OBVIOUS
  <2>1. PICK s \in Nat : s = p.sequence /\ n < s /\ s <= G + 1
    BY <1>2, <1>8, <1>9 DEF Gamestates, GamestateOK
  <2> QED
    BY <1>8, <2>1
<1>11. Gamestates' \subseteq {new} /\ Snapshots' \subseteq Snapshots
  BY <1>5, <1>6, <1>7, <1>10 DEF Gamestates, Snapshots
(* Nothing else waits than one snapshot. *)
<1>12. PICK L \in Nat : L = Len(pending) /\ L <= 1
  <2>1. PICK L \in Nat : L = Len(pending)
    BY <1>2 DEF TypeOK
  <2>2. ASSUME NEW i \in 1..L PROVE pending[i].kind # "gamestate"
    <3>1. [sequence |-> sentCount + i, message |-> pending[i]] \in Coming
      BY <2>1 DEF Coming
    <3> QED
      BY <1>10, <3>1 DEF Gamestates
  <2>3. \A i \in 1..L : pending[i].kind \in {"gamestate", "snapshot"}
    <3>1. \A i \in 1..L : pending[i] \in Message
      BY <1>2, <2>1 DEF TypeOK
    <3> QED
      BY <3>1, MessageFields
  <2>4. \A i \in 1..L : i = 1
    BY <1>2, <2>1, <2>2, <2>3 DEF NumbersOK
  <2>5. L <= 1
    BY <2>1, <2>4
  <2> QED
    BY <2>1, <2>5
<1>13. /\ cl'.gamestateMessageNum = c + 1 /\ cl'.frames = cl.frames
       /\ cl'.deltaMessage = cl.deltaMessage /\ cl'.state = "primed"
       /\ new.sequence <= c + 2 /\ c < new.sequence /\ new.sequence \in Nat
  <2>1. /\ cl'.gamestateMessageNum = outgoingSequence /\ cl'.frames = cl.frames
        /\ cl'.deltaMessage = cl.deltaMessage /\ cl'.state = "primed"
    BY <1>1, <1>2 DEF TypeOK
  <2>2. new.sequence = c + L + 1 /\ outgoingSequence = c + 1
    BY <1>6, <1>8, <1>12 DEF outgoingSequence
  <2>3. c + L + 1 \in Nat /\ c + L + 1 <= c + 2 /\ c < c + L + 1
    BY <1>8, <1>12
  <2> QED
    BY <2>1, <2>2, <2>3
<1>14. clc.map # R
  <2>1. m.serverId \in Nat /\ m.serverId <= S /\ m.serverId # S
    BY <1>2, <1>3, <1>4, GoingType DEF MapsOK, LostGamestate
  <2>2. m.serverId < R
    BY <1>4, <2>1 DEF LostGamestate, Outdated
  <2>3. clc.map = R => m.messageAcknowledge <= cl.gamestateMessageNum
    BY <1>2, <1>3, <1>4, <2>2 DEF MapsOK
  <2> QED
    BY <1>8, <2>3
<1>15. TypeOK'
  <2>1. cl' \in [state : {"connected", "primed", "active"}, gentity : BOOLEAN,
                 gamestateMessageNum : Nat, deltaMessage : Nat \cup {-1},
                 frames : [0..PACKET_BACKUP - 1 -> ServerFrame]]
    <3>1. outgoingSequence \in Nat
      BY <1>8 DEF outgoingSequence
    <3> QED
      BY <1>1, <1>2, <3>1 DEF TypeOK
  <2> QED
    BY <1>2, <1>3, <1>7, <2>1 DEF TypeOK
<1>16. NumbersOK'
  <2>1. clc.serverMessageSequence <= sentCount'
    BY <1>7, <1>8
  <2> QED
    BY <1>2, <1>3, <1>7, <1>11, <1>13, <2>1 DEF NumbersOK
<1>17. GamestateOK'
  <2>1. cl'.gamestateMessageNum <= sentCount' + 1
    <3>1. PICK t \in Nat : t = sentCount' /\ c <= t
      BY <1>7, <1>8
    <3>2. c <= t
      BY <3>1
    <3>3. c + 1 <= t + 1
      BY ONLY <3>2, c \in Nat, t \in Nat
    <3> QED
      BY <1>13, <3>1, <3>3
  <2>2. new.sequence <= cl'.gamestateMessageNum + 1
    BY <1>8, <1>13
  <2> QED
    BY <1>11, <2>1, <2>2 DEF GamestateOK, outgoingSequence
<1>18. MapsOK'
  <2>1. /\ clc.map \in Nat /\ clc.map <= R
        /\ \A p \in Coming : p.message.map \in Nat /\ p.message.map <= R
    BY <1>2, <1>4, ComingType, MessageFields DEF TypeOK, MapsOK
  <2>2. clc.map <= new.message.map /\ new.message.map <= R
        /\ new.message.map <= new.message.serverId /\ new.message.serverId <= S
        /\ new.message.map = R
    BY <1>4, <1>5, <1>6, <2>1
  <2>3. \A p, q \in Coming' : p.sequence < q.sequence => p.message.map <= q.message.map
    <3> SUFFICES ASSUME NEW p \in Coming', NEW q \in Coming', p.sequence < q.sequence
                 PROVE  p.message.map <= q.message.map
      OBVIOUS
    <3>1. CASE q = new
      BY <1>7, <2>1, <2>2, <3>1
    <3>2. CASE p \in Coming /\ q \in Coming
      BY <1>2, <3>2 DEF MapsOK
    <3>3. CASE p = new /\ q \in Coming
      <4>1. q.sequence <= c + Len(pending)
        <5>1. \A i \in 1..Len(toClient) : toClient[i].sequence <= c
          BY <1>2, <1>8 DEF NumbersOK
        <5>2. \A i \in 1..Len(pending) : sentCount + i <= c + Len(pending)
          BY <1>8, <1>12
        <5>3. q \in {toClient[i] : i \in 1..Len(toClient)} \/
              \E i \in 1..Len(pending) : q.sequence = sentCount + i
          BY <3>3 DEF Coming
        <5>4. q.sequence \in Nat
          BY <1>9, <3>3
        <5> QED
          BY <1>8, <1>12, <5>1, <5>2, <5>3, <5>4
      <4>2. q.sequence \in Nat /\ new.sequence = c + L + 1
        BY <1>6, <1>8, <1>9, <1>12, <3>3
      <4>3. q.sequence <= c + L /\ c + L + 1 < q.sequence
        BY <1>12, <3>3, <4>1, <4>2
      <4> QED
        BY <1>8, <1>12, <4>2, <4>3
    <3> QED
      BY <1>7, <3>1, <3>2, <3>3
  <2>4. /\ sv.restartedServerId <= sv.serverId
        /\ clc.map <= sv.restartedServerId
        /\ clc.map <= clc.serverId /\ clc.serverId <= sv.serverId
        /\ \A o \in Going' : o.serverId <= sv.serverId
    BY <1>2, <1>3 DEF MapsOK
  <2>5. \A p \in Coming' :
          /\ clc.map <= p.message.map /\ p.message.map <= sv.restartedServerId
          /\ p.message.map <= p.message.serverId /\ p.message.serverId <= sv.serverId
          /\ p.message.serverId >= sv.restartedServerId
               => p.message.map = sv.restartedServerId
    BY <1>2, <1>4, <1>7, <2>2 DEF MapsOK
  <2>6. ~clc.astray =>
          /\ clc.serverId >= sv.restartedServerId => clc.map = sv.restartedServerId
          /\ \A o \in Going' :
               o.serverId >= sv.restartedServerId => clc.map = sv.restartedServerId
    BY <1>2, <1>3 DEF MapsOK
  <2> QED
    BY <1>4, <1>14, <2>3, <2>4, <2>5, <2>6 DEF MapsOK
<1>19. FramesOK'
  <2>1. \A k \in Nat : Kept(cl.frames, outgoingSequence, k)
                         => Kept(cl.frames, outgoingSequence', k)
    <3>1. PICK t \in Nat : t = sentCount' /\ c <= t
      BY <1>7, <1>8
    <3>2. outgoingSequence = c + 1 /\ outgoingSequence' = t + 1
      BY <1>8, <3>1 DEF outgoingSequence
    <3>3. /\ outgoingSequence \in Nat /\ outgoingSequence' \in Nat
          /\ outgoingSequence <= outgoingSequence'
      <4>1. c <= t
        BY <3>1
      <4>2. c + 1 \in Nat /\ t + 1 \in Nat /\ c + 1 <= t + 1
        BY ONLY <4>1, c \in Nat, t \in Nat
      <4> QED
        BY <3>2, <4>2
    <3> QED
      BY <3>3, KeptGrows
  <2>2. /\ \A p \in Snapshots : p.sequence \in Nat
        /\ \A o \in Going : o.messageAcknowledge \in Nat
    BY <1>2, ComingType, GoingType DEF Snapshots
  <2>3. /\ \A i \in 0..PACKET_BACKUP - 1 : clc.snapshots[i].messageNum \in Nat
        /\ cl.deltaMessage > 0 => cl.deltaMessage \in Nat
    BY <1>2, FrameNumbers
  <2> QED
    BY <1>2, <1>3, <1>11, <1>13, <2>1, <2>2, <2>3 DEF FramesOK
<1>20. SlotsOK'
  BY <1>2 DEF SlotsOK
<1>21. BasesOK'
  <2>1. \A p \in Snapshots, q \in Gamestates' : p \in Coming' => p.sequence < q.sequence
    <3> SUFFICES ASSUME NEW p \in Snapshots PROVE p.sequence < new.sequence
      BY <1>11
    <3>1. p.sequence \in Nat
      BY <1>9 DEF Snapshots
    <3>2. CASE \E i \in 1..Len(toClient) : p = toClient[i]
      <4>1. p.sequence <= c
        BY <1>2, <1>8, <3>2 DEF NumbersOK
      <4> QED
        BY <1>8, <1>13, <3>1, <4>1
    <3>3. CASE \E i \in 1..Len(pending) : p.sequence = sentCount + i
      <4>1. PICK i \in 1..L : p.sequence = c + i
        BY <1>8, <1>12, <3>3
      <4>2. new.sequence = c + L + 1
        BY <1>6, <1>8, <1>12
      <4> QED
        BY <1>8, <1>12, <4>1, <4>2
    <3> QED
      BY <3>2, <3>3 DEF Snapshots, Coming
  <2>2. Snapshots' \subseteq Coming'
    BY DEF Snapshots
  <2> QED
    BY <1>2, <1>3, <1>11, <1>13, <2>1, <2>2 DEF BasesOK
<1> QED
  BY <1>15, <1>16, <1>17, <1>18, <1>19, <1>20, <1>21 DEF IInv

(* Messages that the server ignores. *)
LEMMA IgnoredKeeps ==
  ASSUME IInv, toServer # <<>>, toServer' = Tail(toServer), UNCHANGED <<sv, clc, cl, channel>>
  PROVE  IInv'
<1>1. /\ sv' = sv /\ cl' = cl /\ clc' = clc
      /\ pending' = pending /\ sentCount' = sentCount /\ toClient' = toClient
  BY DEF channel
<1>2. TypeOK /\ NumbersOK /\ GamestateOK /\ MapsOK /\ FramesOK /\ SlotsOK /\ BasesOK
  BY DEF IInv
<1>3. Going' \subseteq Going /\ toServer' \in Seq(ClientPacket)
  BY <1>2, ExecutedFacts
<1>4. Coming' = Coming
  BY <1>1 DEF Coming
<1>5. Gamestates' = Gamestates /\ Snapshots' = Snapshots
  BY <1>4 DEF Gamestates, Snapshots
<1>6. TypeOK'
  BY <1>1, <1>2, <1>3 DEF TypeOK
<1>7. NumbersOK'
  BY <1>1, <1>2, <1>3, <1>5 DEF NumbersOK
<1>8. GamestateOK'
  BY <1>1, <1>2, <1>5 DEF GamestateOK, outgoingSequence
<1>9. MapsOK'
  BY <1>1, <1>2, <1>3, <1>4, <1>5 DEF MapsOK
<1>10. FramesOK'
  BY <1>1, <1>2, <1>3, <1>5 DEF FramesOK, outgoingSequence
<1>11. SlotsOK'
  BY <1>1, <1>2 DEF SlotsOK
<1>12. BasesOK'
  BY <1>1, <1>2, <1>3, <1>5 DEF BasesOK
<1> QED
  BY <1>6, <1>7, <1>8, <1>9, <1>10, <1>11, <1>12 DEF IInv

(* A move: the server may now take its frame for the base of differences. *)
LEMMA MoveKeeps ==
  ASSUME IInv, toServer # <<>>, toServer' = Tail(toServer),
         Head(toServer).serverId = sv.serverId, cl' = SV_UserMove(Head(toServer)),
         UNCHANGED <<sv, clc, channel>>
  PROVE  IInv'
<1> DEFINE m == Head(toServer)
<1>1. /\ sv' = sv /\ clc' = clc
      /\ pending' = pending /\ sentCount' = sentCount /\ toClient' = toClient
  BY DEF channel
<1>2. TypeOK /\ NumbersOK /\ GamestateOK /\ MapsOK /\ FramesOK /\ SlotsOK /\ BasesOK
  BY DEF IInv
<1>3. m \in Going /\ Going' \subseteq Going /\ toServer' \in Seq(ClientPacket)
  BY <1>2, ExecutedFacts
<1>4. Coming' = Coming
  BY <1>1 DEF Coming
<1>5. Gamestates' = Gamestates /\ Snapshots' = Snapshots
  BY <1>4 DEF Gamestates, Snapshots
<1>6. m.messageAcknowledge \in Nat /\ m.messageAcknowledge <= clc.serverMessageSequence
  BY <1>2, <1>3, GoingType DEF NumbersOK
<1>7. /\ cl' \in [state : {"connected", "primed", "active"}, gentity : BOOLEAN,
                  gamestateMessageNum : Nat, deltaMessage : Nat \cup {-1},
                  frames : [0..PACKET_BACKUP - 1 -> ServerFrame]]
      /\ cl'.gamestateMessageNum = cl.gamestateMessageNum /\ cl'.frames = cl.frames
      /\ \/ cl'.deltaMessage = -1
         \/ cl'.deltaMessage = m.messageAcknowledge /\ m.delta
  <2>1. cl \in [state : {"connected", "primed", "active"}, gentity : BOOLEAN,
                gamestateMessageNum : Nat, deltaMessage : Nat \cup {-1},
                frames : [0..PACKET_BACKUP - 1 -> ServerFrame]]
    BY <1>2 DEF TypeOK
  <2>2. CASE cl' = EnteredWorld(cl)
    BY <2>1, <2>2 DEF EnteredWorld
  <2>3. CASE m.delta /\ cl' = [cl EXCEPT !.deltaMessage = m.messageAcknowledge]
    <3> HIDE DEF m
    <3>1. m.messageAcknowledge \in Nat \cup {-1}
      BY <1>6
    <3> QED
      BY <2>1, <2>3, <3>1
  <2>4. CASE cl' = [cl EXCEPT !.deltaMessage = -1]
    BY <2>1, <2>4
  <2> QED
    BY <2>2, <2>3, <2>4 DEF SV_UserMove
<1>8. m.serverId = sv.serverId
  OBVIOUS
<1> HIDE DEF m
<1>9. TypeOK'
  BY <1>1, <1>2, <1>3, <1>7 DEF TypeOK
<1>10. NumbersOK'
  <2>1. -1 <= clc.serverMessageSequence
    BY <1>2 DEF TypeOK
  <2>2. cl'.deltaMessage <= clc.serverMessageSequence
    BY <1>6, <1>7, <2>1
  <2> QED
    BY <1>1, <1>2, <1>3, <1>5, <2>2 DEF NumbersOK
<1>11. GamestateOK'
  BY <1>1, <1>2, <1>5, <1>7 DEF GamestateOK, outgoingSequence
<1>12. MapsOK'
  BY <1>1, <1>2, <1>3, <1>4, <1>5, <1>7 DEF MapsOK
<1>13. FramesOK'
  <2>1. cl'.deltaMessage > 0 => Kept(cl.frames, outgoingSequence, cl'.deltaMessage)
    BY <1>2, <1>3, <1>7 DEF FramesOK
  <2> QED
    BY <1>1, <1>2, <1>3, <1>5, <1>7, <2>1 DEF FramesOK, outgoingSequence
<1>14. SlotsOK'
  BY <1>1, <1>2 DEF SlotsOK
<1>15. BasesOK'
  <2> SUFFICES ASSUME ~clc.astray PROVE BasesOK'
    BY <1>1 DEF BasesOK
  <2>1. cl'.deltaMessage > 0 => clc.map = sv.restartedServerId /\ Holds(clc, cl'.deltaMessage)
    <3> SUFFICES ASSUME cl'.deltaMessage > 0
                 PROVE  clc.map = sv.restartedServerId /\ Holds(clc, cl'.deltaMessage)
      OBVIOUS
    <3>1. cl'.deltaMessage = m.messageAcknowledge /\ m.delta
      BY <1>7
    <3>2. m.serverId >= sv.restartedServerId
      <4>1. sv.serverId \in Nat /\ sv.restartedServerId \in Nat
            /\ sv.restartedServerId <= sv.serverId
        BY <1>2 DEF TypeOK, MapsOK
      <4> QED
        BY <1>8, <4>1
    <3> QED
      BY <1>2, <1>3, <1>8, <3>1, <3>2 DEF MapsOK, BasesOK
  <2> QED
    BY <1>1, <1>2, <1>3, <1>5, <2>1 DEF BasesOK
<1> QED
  BY <1>9, <1>10, <1>11, <1>12, <1>13, <1>14, <1>15 DEF IInv

LEMMA ExecuteKeeps ==
  ASSUME IInv, SV_ExecuteClientMessage PROVE IInv'
<1>1. /\ toServer # <<>> /\ toServer' = Tail(toServer) /\ sv' = sv /\ clc' = clc
      /\ \/ LostGamestate(Head(toServer)) /\ SV_SendClientGameState
         \/ UNCHANGED <<cl, channel>>
         \/ /\ Head(toServer).serverId = sv.serverId
            /\ cl' = SV_UserMove(Head(toServer)) /\ UNCHANGED channel
  BY DEF SV_ExecuteClientMessage
<1>2. CASE LostGamestate(Head(toServer)) /\ SV_SendClientGameState
  BY <1>1, <1>2, ResentKeeps
<1>3. CASE UNCHANGED <<cl, channel>>
  BY <1>1, <1>3, IgnoredKeeps
<1>4. CASE /\ Head(toServer).serverId = sv.serverId
           /\ cl' = SV_UserMove(Head(toServer)) /\ UNCHANGED channel
  BY <1>1, <1>4, MoveKeeps
<1> QED
  BY <1>1, <1>2, <1>3, <1>4

-----------------------------------------------------------------------------
(* A snapshot is sent.                                                     *)

LEMMA VisibleType ==
  ASSUME TypeOK, outgoingSequence <= MaxServerMessages, NEW k \in Visible(cl)
  PROVE  k \in 0..MaxEntities
<1>1. outgoingSequence \in Nat /\ outgoingSequence > 0
  BY DEF TypeOK, outgoingSequence
<1>2. outgoingSequence \in 1..MaxServerMessages
  BY <1>1, EntitiesAssumption
<1>3. Sizes[outgoingSequence] \subseteq 0..MaxEntities
  BY <1>2, EntitiesAssumption
<1> QED
  BY <1>3, EntitiesAssumption DEF Visible

LEMMA BuiltFacts ==
  ASSUME TypeOK, NEW k \in 0..MaxEntities
  PROVE  \E f \in ServerFrame :
           /\ f.frame = outgoingSequence
           /\ Built(cl, k) = [cl EXCEPT !.frames[Slot(outgoingSequence)] = f]
           /\ Built(cl, k) \in
                [state : {"connected", "primed", "active"}, gentity : BOOLEAN,
                 gamestateMessageNum : Nat, deltaMessage : Nat \cup {-1},
                 frames : [0..PACKET_BACKUP - 1 -> ServerFrame]]
           /\ Built(cl, k).frames = [cl.frames EXCEPT ![Slot(outgoingSequence)] = f]
           /\ Built(cl, k).state = cl.state /\ Built(cl, k).deltaMessage = cl.deltaMessage
           /\ Built(cl, k).gamestateMessageNum = cl.gamestateMessageNum
<1>1. outgoingSequence \in Nat
  BY DEF TypeOK, outgoingSequence
<1>2. Slot(outgoingSequence) \in 0..PACKET_BACKUP - 1
  BY <1>1, SlotType
<1> DEFINE f == [frame |-> outgoingSequence, num_entities |-> k,
                 first_entity |-> IF cl.gentity THEN sv.nextSnapshotEntities
                   ELSE cl.frames[Slot(outgoingSequence)].first_entity]
<1>3. f \in ServerFrame
  <2>1. sv.nextSnapshotEntities \in Nat
    BY DEF TypeOK
  <2>2. cl.frames[Slot(outgoingSequence)] \in ServerFrame
    BY <1>2 DEF TypeOK
  <2> QED
    BY <1>1, <2>1, <2>2 DEF ServerFrame
<1>4. f.frame = outgoingSequence /\ Built(cl, k) = [cl EXCEPT !.frames[Slot(outgoingSequence)] = f]
  BY DEF Built
<1> HIDE DEF f
<1>5. cl \in [state : {"connected", "primed", "active"}, gentity : BOOLEAN,
              gamestateMessageNum : Nat, deltaMessage : Nat \cup {-1},
              frames : [0..PACKET_BACKUP - 1 -> ServerFrame]]
  BY DEF TypeOK
<1>6. [cl.frames EXCEPT ![Slot(outgoingSequence)] = f] \in [0..PACKET_BACKUP - 1 -> ServerFrame]
  BY <1>3, <1>5
<1>7. /\ Built(cl, k).frames = [cl.frames EXCEPT ![Slot(outgoingSequence)] = f]
      /\ Built(cl, k).state = cl.state /\ Built(cl, k).deltaMessage = cl.deltaMessage
      /\ Built(cl, k).gamestateMessageNum = cl.gamestateMessageNum
  BY <1>4, <1>5
<1>8. Built(cl, k) \in [state : {"connected", "primed", "active"}, gentity : BOOLEAN,
                     gamestateMessageNum : Nat, deltaMessage : Nat \cup {-1},
                     frames : [0..PACKET_BACKUP - 1 -> ServerFrame]]
  BY <1>4, <1>5, <1>6
<1> QED
  BY <1>3, <1>4, <1>7, <1>8

(* The base of a difference is the frame that the client asked for, and    *)
(* its entities are still there.                                           *)
LEMMA DeltaFacts ==
  ASSUME TypeOK, NumbersOK, NEW c, NEW next \in Nat, NEW o \in Nat, NEW last,
         o = outgoingSequence, last = DeltaFrom(c, next),
         c.deltaMessage = cl.deltaMessage,
         c.frames \in [0..PACKET_BACKUP - 1 -> ServerFrame],
         cl.deltaMessage > 0 => Kept(c.frames, o, cl.deltaMessage)
  PROVE  /\ last \in 0..PACKET_BACKUP - 4 /\ OldFrame(c, next, last) \in Int
         /\ last > 0 => /\ OldFrame(c, next, last) = o - last
                        /\ c.state = "active" /\ cl.deltaMessage > 0
                        /\ o - last = cl.deltaMessage
                        /\ cl.deltaMessage + PACKET_BACKUP > o
<1>1. PICK P \in Nat : P = PACKET_BACKUP /\ P > 3
  BY BackupAssumption
<1>2. CASE last = 0
  BY <1>1, <1>2 DEF OldFrame, NoFrame
<1>3. CASE last # 0
  <2>1. /\ c.deltaMessage > 0 /\ c.state = "active" /\ InWindow(c) /\ HasEntities(c, next)
        /\ last = o - c.deltaMessage
    BY <1>3 DEF DeltaFrom
  <2>2. PICK d \in Nat : d = cl.deltaMessage /\ d > 0
    BY <2>1, FrameNumbers
  <2>3. /\ o - d < P - 3 /\ last = o - d
    BY <1>1, <2>1, <2>2 DEF InWindow
  <2>4. d < o
    <3>1. PICK n \in Nat, s \in Nat : /\ n = clc.serverMessageSequence /\ s = sentCount
                                      /\ n <= s /\ d <= n
      BY <2>2 DEF TypeOK, NumbersOK
    <3>2. o = s + 1
      BY <3>1 DEF outgoingSequence
    <3> QED
      BY <3>1, <3>2
  <2>5. last \in 0..P - 4 /\ last > 0 /\ o - last = d /\ d + P > o
    BY ONLY <1>1, <2>3, <2>4, d \in Nat, o \in Nat, P \in Nat
  <2>6. c.frames[Slot(d)].frame = d
    <3>1. ~(d + PACKET_BACKUP <= o)
      BY <1>1, <2>5
    <3> QED
      BY <2>2, <3>1 DEF Kept
  <2>7. PICK e \in Nat : e = c.frames[Slot(d)].first_entity
    <3>1. c.frames[Slot(d)] \in ServerFrame
      BY SlotType
    <3> QED
      BY <3>1 DEF ServerFrame
  <2>8. PICK M \in Nat : M = numSnapshotEntities
    BY EntitiesAssumption
  <2>9. e > next - M
    BY <2>1, <2>2, <2>7, <2>8 DEF HasEntities
  <2>10. ~(next - e > M)
    BY ONLY <2>9, e \in Nat, next \in Nat, M \in Nat
  <2>11. OldFrame(c, next, last) = d
    BY <1>3, <2>5, <2>6, <2>7, <2>8, <2>10 DEF OldFrame
  <2> QED
    BY <1>1, <2>1, <2>2, <2>5, <2>11
<1> QED
  BY <1>2, <1>3

LEMMA SendSnapshotKeeps ==
  ASSUME IInv, SV_SendClientSnapshot PROVE IInv'
<1>1. TypeOK /\ NumbersOK /\ GamestateOK /\ MapsOK /\ FramesOK /\ SlotsOK /\ BasesOK
  BY DEF IInv
<1>2. PICK s \in Nat, o \in Nat, n \in Nat :
        /\ s = sentCount /\ o = outgoingSequence /\ o = s + 1
        /\ n = clc.serverMessageSequence /\ n <= s
  <2>1. /\ sentCount \in Nat /\ clc.serverMessageSequence \in Nat
        /\ clc.serverMessageSequence <= sentCount
    BY <1>1 DEF TypeOK, NumbersOK
  <2>2. outgoingSequence = sentCount + 1 /\ outgoingSequence \in Nat
    BY <2>1 DEF outgoingSequence
  <2> QED
    BY <2>1, <2>2
<1>3. PICK e \in 0..MaxEntities :
        /\ e \in Visible(cl)
        /\ SendSnapshot(e)
  <2>1. outgoingSequence <= MaxServerMessages
        /\ \E k \in Visible(cl) : SendSnapshot(k)
    BY DEF SV_SendClientSnapshot
  <2> QED
    BY <1>1, <2>1, VisibleType
<1>4. PICK f \in ServerFrame :
        /\ f.frame = outgoingSequence
        /\ Built(cl, e) = [cl EXCEPT !.frames[Slot(outgoingSequence)] = f]
        /\ Built(cl, e) \in
             [state : {"connected", "primed", "active"}, gentity : BOOLEAN,
              gamestateMessageNum : Nat, deltaMessage : Nat \cup {-1},
              frames : [0..PACKET_BACKUP - 1 -> ServerFrame]]
        /\ Built(cl, e).frames = [cl.frames EXCEPT ![Slot(outgoingSequence)] = f]
        /\ Built(cl, e).state = cl.state /\ Built(cl, e).deltaMessage = cl.deltaMessage
        /\ Built(cl, e).gamestateMessageNum = cl.gamestateMessageNum
  BY <1>1, <1>3, BuiltFacts
<1>5. PICK c : c = Built(cl, e)
  OBVIOUS
<1>6. PICK next \in Nat : next = sv.nextSnapshotEntities + e
  BY <1>1, <1>3, EntitiesAssumption DEF TypeOK
<1>7. PICK last : last = DeltaFrom(c, next)
  OBVIOUS
<1>8. PICK old : old = OldFrame(c, next, last)
  OBVIOUS
<1>9. PICK m : m = [kind |-> "snapshot", lastframe |-> last, old |-> old,
                    frame |-> IF e <= numSnapshotEntities THEN outgoingSequence
                              ELSE Garbage,
                    numEntities |-> e,
                    map |-> sv.restartedServerId, serverId |-> sv.serverId,
                    active |-> cl.state = "active"]
  OBVIOUS
<1>10. /\ pending = <<>> /\ cl' = c /\ toServer' = toServer /\ clc' = clc
       /\ sv' = [sv EXCEPT !.nextSnapshotEntities =
                   next + (IF outgoingSequence \in Busy THEN OthersEntities ELSE 0)]
       /\ SV_Netchan_Transmit(m)
  BY <1>5, <1>3, <1>6, <1>7, <1>8, <1>9 DEF SV_SendClientSnapshot, SendSnapshot, SnapshotAllowed
(* What is in the message. *)
<1>11. /\ c \in [state : {"connected", "primed", "active"}, gentity : BOOLEAN,
                 gamestateMessageNum : Nat, deltaMessage : Nat \cup {-1},
                 frames : [0..PACKET_BACKUP - 1 -> ServerFrame]]
       /\ c.frames = [cl.frames EXCEPT ![Slot(o)] = f] /\ f.frame = o
       /\ c.state = cl.state /\ c.deltaMessage = cl.deltaMessage
       /\ c.gamestateMessageNum = cl.gamestateMessageNum
  BY <1>2, <1>4, <1>5
<1>12. \A k \in Nat : k <= s /\ Kept(cl.frames, o, k) => Kept(c.frames, o, k)
  <2> SUFFICES ASSUME NEW k \in Nat, k <= s, Kept(cl.frames, o, k) PROVE Kept(c.frames, o, k)
    OBVIOUS
  <2>1. k < o
    BY <1>2
  <2>2. Kept([cl.frames EXCEPT ![Slot(o)] = f], o, k)
    BY <2>1, KeptBuilt, Zenon
  <2> QED
    BY <1>11, <2>2
<1>13. cl.deltaMessage > 0 =>
         cl.deltaMessage \in Nat /\ cl.deltaMessage <= s /\ Kept(c.frames, o, cl.deltaMessage)
  <2> SUFFICES ASSUME cl.deltaMessage > 0
               PROVE /\ cl.deltaMessage \in Nat /\ cl.deltaMessage <= s
                     /\ Kept(c.frames, o, cl.deltaMessage)
    OBVIOUS
  <2>1. PICK d \in Nat : d = cl.deltaMessage /\ d <= n
    BY <1>1, <1>2, FrameNumbers DEF NumbersOK
  <2>2. d <= s
    BY <1>2, <2>1
  <2>3. Kept(cl.frames, o, d)
    BY <1>1, <1>2, <2>1 DEF FramesOK
  <2> QED
    BY <1>12, <2>1, <2>2, <2>3
<1>14. /\ last \in 0..PACKET_BACKUP - 4 /\ old \in Int
       /\ last > 0 => /\ old = o - last /\ c.state = "active" /\ cl.deltaMessage > 0
                      /\ o - last = cl.deltaMessage
                      /\ cl.deltaMessage + PACKET_BACKUP > o
  BY <1>1, <1>2, <1>7, <1>8, <1>11, <1>13, DeltaFacts
<1>15. PICK R \in Nat, S \in Nat : R = sv.restartedServerId /\ S = sv.serverId /\ R <= S
  BY <1>1 DEF TypeOK, MapsOK
<1>16. /\ m \in Message /\ m.kind = "snapshot" /\ m.lastframe = last /\ m.old = old
       /\ m.frame = o \/ m.numEntities > numSnapshotEntities
       /\ m.map = R /\ m.serverId = S
  <2>1. (cl.state = "active") \in BOOLEAN
    OBVIOUS
  <2>2. PICK held \in Int :
          /\ held = IF e <= numSnapshotEntities THEN outgoingSequence ELSE Garbage
          /\ held = o \/ e > numSnapshotEntities
    BY <1>2, EntitiesAssumption DEF Garbage
  <2>3. m = [kind |-> "snapshot", lastframe |-> last, old |-> old, frame |-> held,
             numEntities |-> e, map |-> R, serverId |-> S, active |-> cl.state = "active"]
    BY <1>9, <1>15, <2>2
  <2>4. m \in Message
    BY <1>14, <2>1, <2>3 DEF Message
  <2> QED
    BY <2>2, <2>3, <2>4
<1>17. PICK new : new = [sequence |-> o, message |-> m]
  OBVIOUS
<1>18. /\ toClient' \in Seq(ServerPacket) /\ pending' \in Seq(Message)
       /\ sentCount' \in Nat /\ sentCount <= sentCount' /\ sentCount' <= sentCount + 1
       /\ \A i \in 1..Len(toClient') :
            /\ clc.serverMessageSequence < toClient'[i].sequence
            /\ toClient'[i].sequence <= sentCount'
            /\ \A j \in 1..i - 1 : toClient'[j].sequence < toClient'[i].sequence
       /\ \A i \in 1..Len(pending') : pending'[i].kind = "snapshot" => i = 1
       /\ Coming' \subseteq Coming \cup {new}
  <2>1. Len(pending) = 0
    BY <1>10
  <2>2. sentCount + Len(pending) + 1 = o
    BY <1>2, <2>1
  <2>3. /\ toClient' \in Seq(ServerPacket) /\ pending' \in Seq(Message)
        /\ sentCount' \in Nat /\ sentCount <= sentCount' /\ sentCount' <= sentCount + 1
        /\ \A i \in 1..Len(toClient') :
             /\ clc.serverMessageSequence < toClient'[i].sequence
             /\ toClient'[i].sequence <= sentCount'
             /\ \A j \in 1..i - 1 : toClient'[j].sequence < toClient'[i].sequence
        /\ \A i \in 1..Len(pending') : pending'[i].kind = "snapshot" => i = 1
        /\ Coming' \subseteq
             Coming \cup {[sequence |-> sentCount + Len(pending) + 1, message |-> m]}
    BY <1>1, <1>10, <1>16, TransmitFacts
  <2> QED
    BY <1>17, <2>2, <2>3
<1>19. new.sequence = o /\ new.message = m
  BY <1>17
<1>20. \A p \in Coming : p.sequence \in Nat /\ p.sequence <= s
  <2>1. \A i \in 1..Len(toClient) : toClient[i].sequence <= s
    BY <1>1, <1>2 DEF NumbersOK
  <2>2. \A p \in Coming : \E i \in 1..Len(toClient) : p = toClient[i]
    <3>1. Len(pending) = 0
      BY <1>10
    <3> QED
      BY <3>1 DEF Coming
  <2> QED
    BY <1>1, <2>1, <2>2, ComingType
<1>21. Gamestates' \subseteq Gamestates /\ Snapshots' \subseteq Snapshots \cup {new}
  BY <1>16, <1>18, <1>19 DEF Gamestates, Snapshots
<1>22. Going' = Going
  BY <1>10 DEF Going
<1>23. PICK t \in Nat : t = sentCount' /\ s <= t /\ t <= s + 1
  BY <1>2, <1>18
<1>24. outgoingSequence' = t + 1
  BY <1>23 DEF outgoingSequence
<1>25. o <= t + 1 /\ n <= t
  <2>1. o = s + 1 /\ n <= s /\ s <= t
    BY <1>2, <1>23
  <2> QED
    BY ONLY <2>1, s \in Nat, o \in Nat, n \in Nat, t \in Nat
<1>26. sv'.serverId = S /\ sv'.restartedServerId = R
  BY <1>1, <1>10, <1>15 DEF TypeOK
<1>27. TypeOK'
  <2>1. sv' \in [serverId : Nat, restartedServerId : Nat, nextSnapshotEntities : Nat]
    <3>1. PICK others \in Nat :
            others = next + (IF outgoingSequence \in Busy THEN OthersEntities ELSE 0)
      BY EntitiesAssumption
    <3>2. /\ sv \in [serverId : Nat, restartedServerId : Nat, nextSnapshotEntities : Nat]
          /\ sv' = [sv EXCEPT !.nextSnapshotEntities = others]
      BY <1>1, <1>10, <3>1 DEF TypeOK
    <3> QED
      BY ONLY <3>2, others \in Nat
  <2> QED
    BY <1>1, <1>10, <1>11, <1>18, <2>1 DEF TypeOK
<1>28. NumbersOK'
  <2>1. \A p \in Snapshots' : \/ p.message.frame = p.sequence
                              \/ p.message.numEntities > numSnapshotEntities
    BY <1>1, <1>16, <1>19, <1>21 DEF NumbersOK
  <2>2. clc.serverMessageSequence <= sentCount'
    BY <1>2, <1>23, <1>25
  <2> QED
    BY <1>1, <1>10, <1>11, <1>18, <1>22, <2>1, <2>2 DEF NumbersOK
<1>29. GamestateOK'
  <2>1. cl'.gamestateMessageNum = cl.gamestateMessageNum
    BY <1>10, <1>11
  <2>2. PICK G \in Nat : G = cl.gamestateMessageNum /\ G <= o
    BY <1>1, <1>2 DEF TypeOK, GamestateOK
  <2>3. G <= t + 1
    BY <1>25, <2>2
  <2> QED
    BY <1>1, <1>21, <1>24, <2>1, <2>2, <2>3 DEF GamestateOK
<1>30. MapsOK'
  <2>1. /\ sv.restartedServerId <= sv.serverId
        /\ clc.map <= sv.restartedServerId
        /\ clc.map <= clc.serverId /\ clc.serverId <= sv.serverId
        /\ \A i \in Going : i.serverId <= sv.serverId
    BY <1>1 DEF MapsOK
  <2>2. /\ clc.map <= new.message.map /\ new.message.map <= R
        /\ new.message.map <= new.message.serverId /\ new.message.serverId <= S
        /\ new.message.map = R
    BY <1>15, <1>16, <1>19, <2>1
  <2>3. \A p \in Coming : p.message.map <= R
    BY <1>1, <1>15 DEF MapsOK
  <2>4. \A p, q \in Coming' : p.sequence < q.sequence => p.message.map <= q.message.map
    <3> SUFFICES ASSUME NEW p \in Coming', NEW q \in Coming', p.sequence < q.sequence
                 PROVE  p.message.map <= q.message.map
      OBVIOUS
    <3>1. CASE q = new
      BY <1>18, <2>2, <2>3, <3>1
    <3>2. CASE p \in Coming /\ q \in Coming
      BY <1>1, <3>2 DEF MapsOK
    <3>3. CASE p = new /\ q \in Coming
      <4>1. PICK k \in Nat : k = q.sequence /\ k <= s
        BY <1>20, <3>3
      <4>2. o < k
        BY <1>19, <3>3, <4>1
      <4> QED
        BY <1>2, <4>1, <4>2
    <3> QED
      BY <1>18, <3>1, <3>2, <3>3
  <2>5. \A p \in Coming' :
          /\ clc.map <= p.message.map /\ p.message.map <= R
          /\ p.message.map <= p.message.serverId /\ p.message.serverId <= S
          /\ p.message.serverId >= R => p.message.map = R
    BY <1>1, <1>15, <1>18, <2>2 DEF MapsOK
  <2>6. /\ ~clc.astray =>
             /\ clc.serverId >= R => clc.map = R
             /\ \A i \in Going : i.serverId >= R => clc.map = R
        /\ clc.map = R =>
             /\ clc.serverId >= R /\ Gamestates' = {}
             /\ \A i \in Going : i.serverId < R =>
                  i.messageAcknowledge <= cl'.gamestateMessageNum
    BY <1>1, <1>10, <1>11, <1>15, <1>21 DEF MapsOK
  <2> QED
    BY <1>10, <1>15, <1>22, <1>26, <2>1, <2>4, <2>5, <2>6 DEF MapsOK
<1>31. FramesOK'
  <2>1. \A k \in Nat : Kept(c.frames, o, k) => Kept(c.frames, t + 1, k)
    <3>1. t + 1 \in Nat
      OBVIOUS
    <3> QED
      BY <1>25, <3>1, KeptGrows
  <2>2. \A k \in Nat : k <= s /\ Kept(cl.frames, o, k) => Kept(c.frames, t + 1, k)
    BY <1>12, <2>1
  <2>3. Kept(c.frames, t + 1, o)
    <3>1. Slot(o) \in 0..PACKET_BACKUP - 1
      BY SlotType
    <3>2. c.frames[Slot(o)].frame = o
      BY <1>1, <1>11, <3>1 DEF TypeOK
    <3> QED
      BY <3>2 DEF Kept
  <2>4. ASSUME NEW p \in Snapshots'
        PROVE  /\ Kept(c.frames, t + 1, p.sequence)
               /\ p.message.lastframe > 0 =>
                    /\ p.message.lastframe < p.sequence
                    /\ p.message.old = p.sequence - p.message.lastframe
    <3>1. CASE p = new
      <4>1. last > 0 => last < o
        <5> SUFFICES ASSUME last > 0 PROVE last < o
          OBVIOUS
        <5>1. o - last = cl.deltaMessage /\ cl.deltaMessage > 0 /\ cl.deltaMessage \in Nat
          BY <1>13, <1>14
        <5>2. last \in 0..PACKET_BACKUP - 4
          BY <1>14
        <5> QED
          BY ONLY <5>1, <5>2, o \in Nat, BackupAssumption
      <4> QED
        BY <1>14, <1>16, <1>19, <2>3, <3>1, <4>1
    <3>2. CASE p \in Snapshots
      BY <1>1, <1>2, <1>20, <2>2, <3>2 DEF FramesOK, Snapshots
    <3> QED
      BY <1>21, <3>1, <3>2
  <2>5. ASSUME NEW i \in 0..PACKET_BACKUP - 1, clc.snapshots[i].valid
        PROVE  Kept(c.frames, t + 1, clc.snapshots[i].messageNum)
    <3>1. PICK k \in Nat, h \in Nat :
            /\ k = clc.snapshots[i].messageNum /\ h = clc.snap.messageNum
            /\ k <= h /\ h <= n
      <4>1. /\ clc.snapshots[i].messageNum \in Nat
            /\ clc.snapshots[i].messageNum <= clc.snap.messageNum
            /\ clc.snap.messageNum <= clc.serverMessageSequence
        BY <1>1, <2>5, FrameNumbers DEF SlotsOK
      <4>2. clc.snap.messageNum \in Nat
        BY <1>1 DEF TypeOK, ClientFrame
      <4> QED
        BY <1>2, <4>1, <4>2
    <3>2. k <= s
      BY <1>2, <3>1
    <3>3. Kept(cl.frames, o, k)
      BY <1>1, <1>2, <2>5, <3>1 DEF FramesOK
    <3> QED
      BY <2>2, <3>1, <3>2, <3>3
  <2>6. ASSUME NEW i \in Going, i.delta PROVE Kept(c.frames, t + 1, i.messageAcknowledge)
    <3>1. PICK k \in Nat : k = i.messageAcknowledge /\ k <= n
      BY <1>1, <1>2, GoingType DEF NumbersOK
    <3>2. k <= s
      BY <1>2, <3>1
    <3>3. Kept(cl.frames, o, k)
      BY <1>1, <1>2, <2>6, <3>1 DEF FramesOK
    <3> QED
      BY <2>2, <3>1, <3>2, <3>3
  <2>7. cl.deltaMessage > 0 => Kept(c.frames, t + 1, cl.deltaMessage)
    BY <1>13, <2>1
  <2> QED
    BY <1>10, <1>11, <1>22, <1>24, <2>4, <2>5, <2>6, <2>7 DEF FramesOK
<1>32. SlotsOK'
  BY <1>1, <1>10 DEF SlotsOK
<1>33. BasesOK'
  <2> SUFFICES ASSUME ~clc.astray PROVE BasesOK'
    BY <1>10 DEF BasesOK
  <2>1. /\ \A i \in Going : i.delta /\ i.serverId = S => Holds(clc, i.messageAcknowledge)
        /\ cl.state = "active" /\ cl.deltaMessage > 0 =>
             clc.map = R /\ Holds(clc, cl.deltaMessage)
        /\ \A p \in Snapshots : p.message.lastframe > 0 =>
             /\ Holds(clc, p.sequence - p.message.lastframe)
             /\ \A q \in Gamestates : p.sequence < q.sequence
    BY <1>1, <1>15 DEF BasesOK
  <2>2. ASSUME last > 0 PROVE Holds(clc, o - last) /\ Gamestates = {}
    <3>1. clc.map = R /\ Holds(clc, o - last)
      BY <1>11, <1>14, <2>1, <2>2
    <3> QED
      BY <1>1, <1>15, <3>1 DEF MapsOK
  <2>3. ASSUME NEW p \in Snapshots', p.message.lastframe > 0
        PROVE  /\ Holds(clc, p.sequence - p.message.lastframe)
               /\ \A q \in Gamestates' : p.sequence < q.sequence
    <3>1. CASE p = new
      BY <1>16, <1>19, <1>21, <2>2, <2>3, <3>1
    <3>2. CASE p \in Snapshots
      BY <1>21, <2>1, <2>3, <3>2
    <3> QED
      BY <1>21, <3>1, <3>2
  <2> QED
    BY <1>10, <1>11, <1>22, <1>26, <2>1, <2>3 DEF BasesOK
<1> QED
  BY <1>27, <1>28, <1>29, <1>30, <1>31, <1>32, <1>33 DEF IInv

-----------------------------------------------------------------------------
(* A message of the server.                                                *)

LEMMA ReceivedFacts ==
  ASSUME TypeOK, NumbersOK, toClient # <<>>, toClient' = Tail(toClient),
         pending' = pending, sentCount' = sentCount
  PROVE  /\ toClient' \in Seq(ServerPacket)
         /\ \A i \in 1..Len(toClient') :
              /\ Head(toClient).sequence < toClient'[i].sequence
              /\ toClient'[i].sequence <= sentCount
              /\ \A j \in 1..i - 1 : toClient'[j].sequence < toClient'[i].sequence
         /\ Coming' \subseteq Coming
         /\ \A p \in Coming' : Head(toClient).sequence < p.sequence
<1>1. /\ pending \in Seq(Message) /\ sentCount \in Nat /\ toClient \in Seq(ServerPacket)
  BY DEF TypeOK
<1>2. PICK L \in Nat : L = Len(toClient)
  BY <1>1
<1>3. /\ L >= 1 /\ Head(toClient) = toClient[1] /\ toClient' \in Seq(ServerPacket)
      /\ Len(toClient') = L - 1
      /\ \A i \in 1..L - 1 : toClient'[i] = toClient[i + 1] /\ i + 1 \in 1..L
  BY <1>1, <1>2
<1>4. ASSUME NEW i \in 1..L - 1
      PROVE  /\ toClient[1].sequence < toClient[i + 1].sequence
             /\ toClient[i + 1].sequence <= sentCount
             /\ \A j \in 1..i - 1 : toClient[j + 1].sequence < toClient[i + 1].sequence
  <2>1. i + 1 \in 1..Len(toClient)
    BY <1>2, <1>3
  <2>2. /\ toClient[i + 1].sequence <= sentCount
        /\ \A j \in 1..(i + 1) - 1 : toClient[j].sequence < toClient[i + 1].sequence
    BY <2>1 DEF NumbersOK
  <2>3. 1 \in 1..(i + 1) - 1 /\ \A j \in 1..i - 1 : j + 1 \in 1..(i + 1) - 1
    BY <1>2
  <2> QED
    BY <2>2, <2>3
<1>5. \A i \in 1..L - 1, j \in 1..L - 1 : j \in 1..i - 1 => toClient'[j] = toClient[j + 1]
  BY <1>3
<1>6. \A i \in 1..Len(toClient') :
        /\ Head(toClient).sequence < toClient'[i].sequence
        /\ toClient'[i].sequence <= sentCount
        /\ \A j \in 1..i - 1 : toClient'[j].sequence < toClient'[i].sequence
  <2> SUFFICES ASSUME NEW i \in 1..L - 1
               PROVE /\ Head(toClient).sequence < toClient'[i].sequence
                     /\ toClient'[i].sequence <= sentCount
                     /\ \A j \in 1..i - 1 : toClient'[j].sequence < toClient'[i].sequence
    BY <1>3
  <2>1. \A j \in 1..i - 1 : j \in 1..L - 1
    BY <1>2
  <2> QED
    BY <1>3, <1>4, <1>5, <2>1
<1>7. Coming' \subseteq Coming
  BY <1>2, <1>3 DEF Coming
<1>8. \A p \in Coming' : Head(toClient).sequence < p.sequence
  <2>1. \A i \in 1..Len(pending) : Head(toClient).sequence < sentCount + i
    <3>1. PICK h \in Nat : h = Head(toClient).sequence /\ h <= sentCount
      BY HeadIsFirst, ComingType
    <3> QED
      BY <1>1, <3>1
  <2> QED
    BY <1>6, <2>1 DEF Coming
<1> QED
  BY <1>3, <1>6, <1>7, <1>8

(* The client loads a gamestate: it is that of the map, or of one before,  *)
(* and no other is on its way.                                             *)
LEMMA GamestateKeeps ==
  ASSUME IInv, toClient # <<>>, toClient' = Tail(toClient),
         Head(toClient).message.kind = "gamestate",
         clc' = CL_ParseGamestate(Head(toClient).sequence, Head(toClient).message),
         UNCHANGED <<sv, cl, pending, sentCount, toServer>>
  PROVE  IInv'
<1>1. /\ sv' = sv /\ cl' = cl /\ pending' = pending /\ sentCount' = sentCount
      /\ toServer' = toServer
  OBVIOUS
<1>2. TypeOK /\ NumbersOK /\ GamestateOK /\ MapsOK /\ FramesOK /\ SlotsOK /\ BasesOK
  BY DEF IInv
<1>3. PICK h \in Gamestates :
        /\ h = Head(toClient) /\ h \in Coming
        /\ clc.serverMessageSequence < h.sequence /\ h.sequence <= sentCount
  BY <1>2, HeadIsFirst DEF Gamestates
<1>4. PICK n \in Nat, o \in Nat, M \in Nat, I \in Nat, R \in Nat, S \in Nat, G \in Nat :
        /\ n = h.sequence /\ o = clc.serverMessageSequence /\ o < n
        /\ M = h.message.map /\ I = h.message.serverId
        /\ R = sv.restartedServerId /\ S = sv.serverId /\ R <= S
        /\ M <= R /\ M <= I /\ I <= S /\ clc.map <= M
        /\ I >= R => M = R
        /\ G = cl.gamestateMessageNum /\ n <= G + 1
  <2>1. h.sequence \in Nat /\ h.message.map \in Nat /\ h.message.serverId \in Nat
    BY <1>2, <1>3, ComingType, MessageFields
  <2>2. /\ clc.serverMessageSequence \in Nat /\ sv.restartedServerId \in Nat
        /\ sv.serverId \in Nat /\ cl.gamestateMessageNum \in Nat
    BY <1>2 DEF TypeOK
  <2>3. /\ sv.restartedServerId <= sv.serverId
        /\ clc.map <= h.message.map /\ h.message.map <= sv.restartedServerId
        /\ h.message.map <= h.message.serverId /\ h.message.serverId <= sv.serverId
        /\ h.message.serverId >= sv.restartedServerId
             => h.message.map = sv.restartedServerId
    BY <1>2, <1>3 DEF MapsOK
  <2>4. h.sequence <= cl.gamestateMessageNum + 1
    BY <1>2 DEF GamestateOK
  <2> QED
    BY <1>3, <2>1, <2>2, <2>3, <2>4
<1>5. /\ toClient' \in Seq(ServerPacket)
      /\ \A i \in 1..Len(toClient') :
           /\ n < toClient'[i].sequence
           /\ toClient'[i].sequence <= sentCount
           /\ \A j \in 1..i - 1 : toClient'[j].sequence < toClient'[i].sequence
      /\ Coming' \subseteq Coming
      /\ \A p \in Coming' : n < p.sequence
  BY <1>1, <1>2, <1>3, <1>4, ReceivedFacts
<1>6. clc' = [clc EXCEPT !.serverMessageSequence = n, !.map = M, !.serverId = I,
                         !.snap = Invalid, !.snapshots = Ring(Invalid),
                         !.parseEntitiesNum = 0]
  <2>1. clc' = Cleared([clc EXCEPT !.serverMessageSequence = n, !.map = M, !.serverId = I])
    BY <1>3, <1>4 DEF CL_ParseGamestate
  <2> QED
    BY <2>1 DEF Cleared
<1>7. Invalid \in ClientFrame /\ ~Invalid.valid /\ Invalid.messageNum = 0
  BY EntitiesAssumption DEF Invalid, ClientFrame, NoFrame
<1>8. Ring(Invalid) \in [0..PACKET_BACKUP - 1 -> ClientFrame]
      /\ \A i \in 0..PACKET_BACKUP - 1 : Ring(Invalid)[i] = Invalid
  BY <1>7 DEF Ring
<1>9. /\ clc' \in [serverId : Nat, map : Nat, serverMessageSequence : Nat,
                   snap : ClientFrame, snapshots : [0..PACKET_BACKUP - 1 -> ClientFrame],
                   parseEntitiesNum : Nat, astray : BOOLEAN]
      /\ clc'.serverMessageSequence = n /\ clc'.map = M /\ clc'.serverId = I
      /\ clc'.snap = Invalid /\ clc'.snapshots = Ring(Invalid)
      /\ clc'.astray = clc.astray
  <2>1. clc \in [serverId : Nat, map : Nat, serverMessageSequence : Nat,
                 snap : ClientFrame, snapshots : [0..PACKET_BACKUP - 1 -> ClientFrame],
                 parseEntitiesNum : Nat, astray : BOOLEAN]
    BY <1>2 DEF TypeOK
  <2>2. PICK ring \in [0..PACKET_BACKUP - 1 -> ClientFrame] : ring = Ring(Invalid)
    BY <1>8
  <2>3. PICK none \in ClientFrame : none = Invalid
    BY <1>7
  <2>4. clc' = [clc EXCEPT !.serverMessageSequence = n, !.map = M, !.serverId = I,
                           !.snap = none, !.snapshots = ring, !.parseEntitiesNum = 0]
    BY <1>6, <2>2, <2>3
  <2>5. /\ clc'.serverMessageSequence = n /\ clc'.map = M /\ clc'.serverId = I
        /\ clc'.snap = none /\ clc'.snapshots = ring /\ clc'.astray = clc.astray
    BY ONLY <2>1, <2>4
  <2>6. clc' \in [serverId : Nat, map : Nat, serverMessageSequence : Nat,
                  snap : ClientFrame, snapshots : [0..PACKET_BACKUP - 1 -> ClientFrame],
                  parseEntitiesNum : Nat, astray : BOOLEAN]
    BY ONLY <2>1, <2>4, n \in Nat, M \in Nat, I \in Nat, none \in ClientFrame,
            ring \in [0..PACKET_BACKUP - 1 -> ClientFrame]
  <2> QED
    BY <2>2, <2>3, <2>5, <2>6
<1>10. Going' = Going
  BY <1>1 DEF Going
<1>11. Gamestates' = {} /\ Snapshots' \subseteq Snapshots
  <2>1. Gamestates' \subseteq Gamestates /\ Snapshots' \subseteq Snapshots
    BY <1>5 DEF Gamestates, Snapshots
  <2>2. \A p \in Gamestates' : n < h.sequence
    BY <1>2, <1>5, <2>1 DEF GamestateOK, Gamestates
  <2> QED
    BY <1>4, <2>1, <2>2
(* Nobody has loaded the map. *)
<1>12. clc.map # R
  BY <1>2, <1>4 DEF MapsOK
<1>13. ~clc.astray => \A m \in Going : ~(m.serverId >= R) /\ m.serverId # S
  <2>1. ~clc.astray => \A m \in Going : ~(m.serverId >= R)
    BY <1>2, <1>4, <1>12 DEF MapsOK
  <2> QED
    BY <1>4, <2>1
<1>14. TypeOK'
  BY <1>1, <1>2, <1>5, <1>9 DEF TypeOK
<1>15. NumbersOK'
  <2>1. \A m \in Going : m.messageAcknowledge <= n
    <3>1. \A m \in Going : m.messageAcknowledge \in Nat /\ m.messageAcknowledge <= o
      BY <1>2, <1>4, GoingType DEF NumbersOK
    <3> QED
      BY <1>4, <3>1
  <2>2. cl.deltaMessage <= n
    <3>1. cl.deltaMessage \in Int
      BY <1>2 DEF TypeOK
    <3>2. cl.deltaMessage <= o
      BY <1>2, <1>4 DEF NumbersOK
    <3> QED
      BY <1>4, <3>1, <3>2
  <2>3. n <= sentCount
    BY <1>3, <1>4
  <2> QED
    BY <1>1, <1>2, <1>5, <1>9, <1>10, <1>11, <2>1, <2>2, <2>3 DEF NumbersOK
<1>16. GamestateOK'
  BY <1>1, <1>2, <1>11 DEF GamestateOK, outgoingSequence
<1>17. MapsOK'
  <2>1. \A p \in Coming' : M <= p.message.map
    BY <1>2, <1>3, <1>4, <1>5 DEF MapsOK
  <2>2. \A m \in Going : m.messageAcknowledge <= G
    <3>1. \A m \in Going : m.messageAcknowledge \in Nat /\ m.messageAcknowledge <= o
      BY <1>2, <1>4, GoingType DEF NumbersOK
    <3> QED
      BY <1>4, <3>1
  <2>3. M = R => I >= R
    BY <1>4
  <2>4. /\ \A m \in Going : m.serverId <= sv.serverId
        /\ \A p \in Coming' :
             /\ p.message.map <= sv.restartedServerId
             /\ p.message.map <= p.message.serverId /\ p.message.serverId <= sv.serverId
             /\ p.message.serverId >= sv.restartedServerId
                  => p.message.map = sv.restartedServerId
             /\ \A q \in Coming' : p.sequence < q.sequence => p.message.map <= q.message.map
    BY <1>2, <1>5 DEF MapsOK
  <2> QED
    BY <1>1, <1>4, <1>9, <1>10, <1>11, <1>13, <2>1, <2>2, <2>3, <2>4 DEF MapsOK
<1>18. FramesOK'
  <2>1. \A i \in 0..PACKET_BACKUP - 1 : ~clc'.snapshots[i].valid
    BY <1>7, <1>8, <1>9, Zenon
  <2>2. outgoingSequence' = outgoingSequence
    BY <1>1 DEF outgoingSequence
  <2> QED
    BY <1>1, <1>2, <1>10, <1>11, <2>1, <2>2 DEF FramesOK
<1>19. SlotsOK'
  <2>1. 0 <= n
    OBVIOUS
  <2> QED
    BY <1>7, <1>8, <1>9, <2>1, Zenon DEF SlotsOK
<1>20. BasesOK'
  <2> SUFFICES ASSUME ~clc.astray PROVE BasesOK'
    BY <1>9 DEF BasesOK
  <2>1. ~(cl.state = "active" /\ cl.deltaMessage > 0)
    BY <1>2, <1>4, <1>12 DEF BasesOK
  <2>2. \A p \in Snapshots' : ~(p.message.lastframe > 0)
    <3> SUFFICES ASSUME NEW p \in Snapshots', p.message.lastframe > 0 PROVE FALSE
      OBVIOUS
    <3>1. p.sequence < n
      BY <1>2, <1>3, <1>4, <1>11 DEF BasesOK
    <3>2. n < p.sequence /\ p.sequence \in Nat
      BY <1>2, <1>5, ComingType DEF Snapshots
    <3> QED
      BY <3>1, <3>2
  <2> QED
    BY <1>1, <1>4, <1>10, <1>13, <2>1, <2>2 DEF BasesOK
<1> QED
  BY <1>14, <1>15, <1>16, <1>17, <1>18, <1>19, <1>20 DEF IInv

(* Skipped takes the slots of snapshots that are too old, and of no others. *)
LEMMA SkippedOld ==
  ASSUME NEW n \in Nat, NEW h \in Nat, NEW k \in Nat, h = clc.snap.messageNum,
         k <= h, h < n, Slot(k) \in Skipped(n) \cup {Slot(n)}
  PROVE  k + PACKET_BACKUP <= n
<1>1. PICK P \in Nat : P = PACKET_BACKUP /\ P > 3
  BY BackupAssumption
<1>2. PICK i \in Nat : Slot(k) = Slot(i) /\ k < i /\ i <= n
  <2>1. CASE Slot(k) = Slot(n)
    BY <2>1
  <2>2. CASE Slot(k) \in Skipped(n)
    <3>1. PICK first \in Int : /\ h + 1 <= first
                               /\ Skipped(n) = {Slot(i) : i \in first..n - 1}
      <4>1. CASE n - (h + 1) >= P
        <5>1. n - (P - 1) \in Int /\ h + 1 <= n - (P - 1)
          BY <1>1, <4>1
        <5> QED
          BY <1>1, <4>1, <5>1 DEF Skipped
      <4>2. CASE ~(n - (h + 1) >= P)
        <5>1. h + 1 \in Int /\ h + 1 <= h + 1
          OBVIOUS
        <5> QED
          BY <1>1, <4>2, <5>1 DEF Skipped
      <4> QED
        BY <4>1, <4>2
    <3>2. PICK i \in first..n - 1 : Slot(k) = Slot(i)
      BY <2>2, <3>1
    <3>3. i \in Nat /\ k < i /\ i <= n
      BY <3>1, <3>2
    <3> QED
      BY <3>2, <3>3
  <2> QED
    BY <2>1, <2>2
<1>3. k + P <= i
  BY <1>1, <1>2, SameSlot
<1> QED
  BY <1>1, <1>2, <1>3

LEMMA SkippedAll ==
  ASSUME NEW n \in Nat, NEW h \in Nat, NEW k \in Nat, h = clc.snap.messageNum,
         k <= h, h < n, h < k + PACKET_BACKUP, Slot(k) \notin Skipped(n), Slot(k) # Slot(n)
  PROVE  n < k + PACKET_BACKUP
<1>1. PICK P \in Nat : P = PACKET_BACKUP /\ P > 3
  BY BackupAssumption
<1>2. SUFFICES ASSUME k + P <= n PROVE FALSE
  BY <1>1
<1>3. CASE n - (h + 1) >= P
  <2>1. PICK i \in Nat : Slot(i) = Slot(k) /\ i <= n /\ n < i + P
    BY <1>1, <1>2, SlotsCovered
  <2>2. i # n
    BY <2>1
  <2>3. i \in n - (P - 1)..n - 1
    BY <1>1, <2>1, <2>2
  <2>4. Skipped(n) = {Slot(j) : j \in n - (P - 1)..n - 1}
    BY <1>1, <1>3 DEF Skipped
  <2> QED
    BY <2>1, <2>3, <2>4
<1>4. CASE ~(n - (h + 1) >= P)
  <2>1. Slot(k + P) = Slot(k) /\ k + P \in Nat
    <3>1. k + PACKET_BACKUP * 1 = k + P
      BY <1>1
    <3>2. 1 \in Nat
      OBVIOUS
    <3>3. Slot(k + PACKET_BACKUP * 1) = Slot(k) /\ k + PACKET_BACKUP * 1 \in Nat
      BY <3>2, SlotTurns
    <3> QED
      BY <3>1, <3>3
  <2>2. k + P # n
    BY <2>1
  <2>3. k + P \in h + 1..n - 1
    BY <1>1, <1>2, <2>1, <2>2
  <2>4. Skipped(n) = {Slot(j) : j \in h + 1..n - 1}
    BY <1>1, <1>4 DEF Skipped
  <2> QED
    BY <2>1, <2>3, <2>4
<1> QED
  BY <1>3, <1>4

(* A snapshot that can be read is rebuilt as the server made it, unless it *)
(* is crowded.                                                             *)
LEMMA RebuiltFacts ==
  ASSUME TypeOK, SlotsOK, NEW n \in Nat, NEW m \in Message, m.kind = "snapshot",
         m.frame = n \/ m.numEntities > numSnapshotEntities,
         m.lastframe > 0 => m.old = n - m.lastframe /\ m.lastframe < n,
         Readable(n, m), NEW r \in Reconstructed(n, m)
  PROVE  r \in Int /\ (~Crowded(n, m) => r = n)
<1>1. r \in Int
  BY MessageFields DEF Reconstructed, Garbage
<1>2. ASSUME ~Crowded(n, m) PROVE m.frame = n
  BY <1>2 DEF Crowded
<1>3. CASE m.lastframe = 0
  BY <1>1, <1>2, <1>3 DEF Reconstructed
<1>4. ASSUME m.lastframe # 0, ~Crowded(n, m) PROVE r = n
  <2>1. PICK d \in Nat, k \in Nat : d = m.lastframe /\ d > 0 /\ k = n - d
    BY <1>4, MessageFields
  <2>2. PICK old : old = OldSnapshot(n, m)
    OBVIOUS
  <2>3. /\ old.valid /\ old.messageNum = k
        /\ clc.parseEntitiesNum - old.parseEntitiesNum <= MAX_PARSE_ENTITIES - ParseMargin
    BY <2>1, <2>2 DEF Readable
  <2>4. old = clc.snapshots[Slot(k)] /\ Slot(k) \in 0..PACKET_BACKUP - 1
    BY <2>1, <2>2, SlotType DEF OldSnapshot
  <2>5. ~old.crowded /\ ~(m.numEntities > ParseMargin)
    BY <1>4, <2>1, <2>2 DEF Crowded
  <2>6. old.frame = k
    BY <2>3, <2>4, <2>5 DEF SlotsOK
  <2>7. m.old = k /\ k # -1
    BY <2>1
  <2>8. clc.parseEntitiesNum + m.numEntities - old.parseEntitiesNum <= MAX_PARSE_ENTITIES
    <3>1. PICK a \in Nat : a = clc.parseEntitiesNum
      BY DEF TypeOK
    <3>2. PICK b \in Nat : b = old.parseEntitiesNum
      BY <2>4, FrameNumbers DEF ClientFrame
    <3>3. PICK e \in Nat : e = m.numEntities /\ ~(e > ParseMargin)
      BY <2>5, MessageFields
    <3>4. a - b <= MAX_PARSE_ENTITIES - ParseMargin
      BY <2>3, <3>1, <3>2
    <3>5. a + e - b <= MAX_PARSE_ENTITIES
      BY <3>3, <3>4, EntitiesAssumption
    <3> QED
      BY <3>1, <3>2, <3>3, <3>5
  <2>9. m.frame = n
    BY <1>2, <1>4
  <2> QED
    BY <2>1, <2>2, <2>6, <2>7, <2>8, <2>9 DEF Reconstructed, Garbage
<1> QED
  BY <1>1, <1>2, <1>3, <1>4

(* What reading a snapshot does to the slots. *)
LEMMA ParsedFacts ==
  ASSUME TypeOK, SlotsOK, NEW n \in Nat, NEW m \in Message, m.kind = "snapshot",
         m.frame = n \/ m.numEntities > numSnapshotEntities,
         clc.serverMessageSequence < n,
         m.lastframe > 0 => m.old = n - m.lastframe /\ m.lastframe < n,
         NEW r \in Reconstructed(n, m), NEW x, x = CL_ParseSnapshot(n, m, r)
  PROVE  /\ x \in [serverId : Nat, map : Nat, serverMessageSequence : Nat,
                   snap : ClientFrame, snapshots : [0..PACKET_BACKUP - 1 -> ClientFrame],
                   parseEntitiesNum : Nat, astray : BOOLEAN]
         /\ x.serverMessageSequence = n /\ x.map = clc.map /\ x.serverId = clc.serverId
         /\ x.astray = clc.astray
         /\ x.snap.messageNum <= n
         /\ x.snap.valid => x.snapshots[Slot(x.snap.messageNum)] = x.snap
         /\ \A i \in 0..PACKET_BACKUP - 1 :
              x.snapshots[i].valid =>
                /\ i = Slot(x.snapshots[i].messageNum)
                /\ ~x.snapshots[i].crowded =>
                     x.snapshots[i].frame = x.snapshots[i].messageNum
                /\ x.snapshots[i].messageNum <= x.snap.messageNum
                /\ x.snap.messageNum < x.snapshots[i].messageNum + PACKET_BACKUP
                /\ x.snapshots[i].messageNum = n \/ x.snapshots[i] = clc.snapshots[i]
         /\ \A k \in Nat : Holds(clc, k) => Holds(x, k)
<1>1. clc \in [serverId : Nat, map : Nat, serverMessageSequence : Nat,
               snap : ClientFrame, snapshots : [0..PACKET_BACKUP - 1 -> ClientFrame],
               parseEntitiesNum : Nat, astray : BOOLEAN]
  BY DEF TypeOK
<1>2. PICK h \in Nat, o \in Nat :
        h = clc.snap.messageNum /\ o = clc.serverMessageSequence /\ h <= o /\ o < n
  BY <1>1 DEF SlotsOK, ClientFrame
<1>3. h < n
  BY <1>2
<1>4. PICK e \in Nat : e = clc.parseEntitiesNum + m.numEntities
  <2>1. m.numEntities \in Nat
    BY MessageFields, EntitiesAssumption
  <2> QED
    BY <1>1, <2>1
<1>5. PICK read : read = [clc EXCEPT !.serverMessageSequence = n, !.parseEntitiesNum = e]
  OBVIOUS
<1>6. /\ read \in [serverId : Nat, map : Nat, serverMessageSequence : Nat,
                   snap : ClientFrame, snapshots : [0..PACKET_BACKUP - 1 -> ClientFrame],
                   parseEntitiesNum : Nat, astray : BOOLEAN]
      /\ read.serverMessageSequence = n /\ read.map = clc.map /\ read.serverId = clc.serverId
      /\ read.astray = clc.astray /\ read.snap = clc.snap /\ read.snapshots = clc.snapshots
  BY ONLY <1>1, <1>5, n \in Nat, e \in Nat
<1>7. \A i \in 0..PACKET_BACKUP - 1 :
        clc.snapshots[i].valid =>
          /\ i = Slot(clc.snapshots[i].messageNum)
          /\ ~clc.snapshots[i].crowded =>
               clc.snapshots[i].frame = clc.snapshots[i].messageNum
          /\ clc.snapshots[i].messageNum \in Nat
          /\ clc.snapshots[i].messageNum <= h
          /\ h < clc.snapshots[i].messageNum + PACKET_BACKUP
  BY <1>2, FrameNumbers DEF SlotsOK
<1>8. PICK P \in Nat : P = PACKET_BACKUP /\ P > 3
  BY BackupAssumption
(* What is held stays held, if its slot does. *)
<1>9. \A k \in Nat : k + PACKET_BACKUP <= o => k + PACKET_BACKUP <= n
  BY <1>2, <1>8
<1>10. CASE ~Readable(n, m)
  <2>1. x = read
    BY <1>4, <1>5, <1>10 DEF CL_ParseSnapshot
  <2>2. x.snap.messageNum <= n
    BY <1>2, <1>3, <1>6, <2>1
  <2>3. \A k \in Nat : Holds(clc, k) => Holds(x, k)
    BY <1>2, <1>6, <1>9, <2>1 DEF Holds
  <2>4. x.snap.valid => x.snapshots[Slot(x.snap.messageNum)] = x.snap
    BY <1>6, <2>1 DEF SlotsOK
  <2> QED
    BY <1>2, <1>6, <1>7, <2>1, <2>2, <2>3, <2>4
<1>11. CASE Readable(n, m)
  <2>1. PICK new : new = [valid |-> TRUE, messageNum |-> n, frame |-> r,
                          map |-> m.map, parseEntitiesNum |-> clc.parseEntitiesNum,
                          numEntities |-> m.numEntities, crowded |-> Crowded(n, m)]
    OBVIOUS
  <2>2. /\ new \in ClientFrame /\ new.valid /\ new.messageNum = n
        /\ ~new.crowded => new.frame = n
    <3>1. r \in Int /\ (~Crowded(n, m) => r = n)
      BY <1>11, RebuiltFacts
    <3>2. m.map \in Nat /\ m.numEntities \in 0..MaxEntities /\ clc.parseEntitiesNum \in Nat
      BY <1>1, MessageFields
    <3>3. Crowded(n, m) \in BOOLEAN
      BY DEF Crowded
    <3> QED
      BY <2>1, <3>1, <3>2, <3>3 DEF ClientFrame
  <2>3. PICK slots : slots = [i \in DOMAIN read.snapshots |->
                                IF i = Slot(n) THEN new
                                ELSE IF i \in Skipped(n) THEN Invalid
                                ELSE read.snapshots[i]]
    OBVIOUS
  <2>4. x = [read EXCEPT !.snap = new, !.snapshots = slots]
    BY <1>4, <1>5, <1>11, <2>1, <2>3 DEF CL_ParseSnapshot
  <2>5. Invalid \in ClientFrame /\ ~Invalid.valid
    BY EntitiesAssumption DEF Invalid, ClientFrame, NoFrame
  <2>6. /\ slots \in [0..PACKET_BACKUP - 1 -> ClientFrame]
        /\ \A i \in 0..PACKET_BACKUP - 1 :
             slots[i] = IF i = Slot(n) THEN new
                        ELSE IF i \in Skipped(n) THEN Invalid ELSE clc.snapshots[i]
    <3>1. DOMAIN read.snapshots = 0..PACKET_BACKUP - 1
      BY <1>6
    <3>2. \A i \in 0..PACKET_BACKUP - 1 : clc.snapshots[i] \in ClientFrame
      BY <1>1
    <3> QED
      BY <1>6, <2>2, <2>3, <2>5, <3>1, <3>2
  <2>7. /\ x \in [serverId : Nat, map : Nat, serverMessageSequence : Nat,
                  snap : ClientFrame, snapshots : [0..PACKET_BACKUP - 1 -> ClientFrame],
                  parseEntitiesNum : Nat, astray : BOOLEAN]
        /\ x.serverMessageSequence = n /\ x.map = clc.map /\ x.serverId = clc.serverId
        /\ x.astray = clc.astray /\ x.snap = new /\ x.snapshots = slots
    <3>1. read \in [serverId : Nat, map : Nat, serverMessageSequence : Nat,
                    snap : ClientFrame, snapshots : [0..PACKET_BACKUP - 1 -> ClientFrame],
                    parseEntitiesNum : Nat, astray : BOOLEAN]
      BY <1>6
    <3>2. new \in ClientFrame
      BY <2>2
    <3>3. slots \in [0..PACKET_BACKUP - 1 -> ClientFrame]
      BY <2>6
    <3>4. x \in [serverId : Nat, map : Nat, serverMessageSequence : Nat,
                 snap : ClientFrame, snapshots : [0..PACKET_BACKUP - 1 -> ClientFrame],
                 parseEntitiesNum : Nat, astray : BOOLEAN]
      BY ONLY <2>4, <3>1, <3>2, <3>3
    <3>5. /\ x.serverMessageSequence = read.serverMessageSequence /\ x.map = read.map
          /\ x.serverId = read.serverId /\ x.astray = read.astray
          /\ x.snap = new /\ x.snapshots = slots
      BY ONLY <2>4, <3>1
    <3> QED
      BY <1>6, <3>4, <3>5
  <2>8. Slot(n) \in 0..PACKET_BACKUP - 1 /\ slots[Slot(n)] = new
    BY <2>6, SlotType
  <2>9. ASSUME NEW i \in 0..PACKET_BACKUP - 1, slots[i].valid
        PROVE  /\ i = Slot(slots[i].messageNum)
               /\ ~slots[i].crowded => slots[i].frame = slots[i].messageNum
               /\ slots[i].messageNum <= n
               /\ n < slots[i].messageNum + PACKET_BACKUP
               /\ slots[i].messageNum = n \/ slots[i] = clc.snapshots[i]
    <3>1. CASE i = Slot(n)
      <4>1. n <= n /\ n < n + PACKET_BACKUP
        BY <1>8
      <4> QED
        BY <2>2, <2>8, <3>1, <4>1
    <3>2. CASE i # Slot(n) /\ i \notin Skipped(n) /\ slots[i] = clc.snapshots[i]
      <4>1. PICK k \in Nat : k = clc.snapshots[i].messageNum /\ k <= h
                             /\ h < k + PACKET_BACKUP /\ i = Slot(k)
        BY <1>7, <2>9, <3>2
      <4>2. n < k + PACKET_BACKUP
        BY <1>2, <1>3, <3>2, <4>1, SkippedAll
      <4>3. k <= n
        BY <1>3, <4>1
      <4> QED
        BY <1>7, <2>9, <3>2, <4>1, <4>2, <4>3
    <3> QED
      BY <2>5, <2>6, <2>9, <3>1, <3>2
  <2>10. ASSUME NEW k \in Nat, Holds(clc, k) PROVE Holds(x, k)
    <3>1. CASE k + PACKET_BACKUP <= n
      BY <2>7, <3>1 DEF Holds
    <3>2. CASE ~(k + PACKET_BACKUP <= n)
      <4>1. ~(k + PACKET_BACKUP <= o)
        BY <1>9, <3>2
      <4>2. /\ clc.snapshots[Slot(k)].valid /\ clc.snapshots[Slot(k)].messageNum = k
            /\ Slot(k) \in 0..PACKET_BACKUP - 1
        BY <1>2, <2>10, <4>1, SlotType DEF Holds
      <4>3. k <= h
        BY <1>7, <4>2
      <4>4. Slot(k) \notin Skipped(n) \cup {Slot(n)}
        BY <1>2, <1>3, <3>2, <4>3, SkippedOld
      <4>5. slots[Slot(k)] = clc.snapshots[Slot(k)]
        BY <2>6, <4>2, <4>4
      <4> QED
        BY <2>7, <4>2, <4>5 DEF Holds
    <3> QED
      BY <3>1, <3>2
  <2>11. x.snap.messageNum <= n /\ x.snap.messageNum = n
    BY <2>2, <2>7
  <2>12. x.snap.valid => x.snapshots[Slot(x.snap.messageNum)] = x.snap
    BY <2>2, <2>7, <2>8
  <2> QED
    BY <2>7, <2>9, <2>10, <2>11, <2>12
<1> QED
  BY <1>10, <1>11

(* The client reads a snapshot, and may learn of a map_restart by it. *)
LEMMA SnapshotKeeps ==
  ASSUME IInv, toClient # <<>>, toClient' = Tail(toClient),
         Head(toClient).message.kind = "snapshot",
         NEW frame \in Reconstructed(Head(toClient).sequence, Head(toClient).message),
         clc' \in CL_SystemInfoChanged(
                    CL_ParseSnapshot(Head(toClient).sequence, Head(toClient).message, frame),
                    Head(toClient).message),
         UNCHANGED <<sv, cl, pending, sentCount, toServer>>
  PROVE  IInv'
<1>1. /\ sv' = sv /\ cl' = cl /\ pending' = pending /\ sentCount' = sentCount
      /\ toServer' = toServer
  OBVIOUS
<1>2. TypeOK /\ NumbersOK /\ GamestateOK /\ MapsOK /\ FramesOK /\ SlotsOK /\ BasesOK
  BY DEF IInv
<1>3. PICK p \in Snapshots :
        /\ p = Head(toClient) /\ p \in Coming
        /\ clc.serverMessageSequence < p.sequence /\ p.sequence <= sentCount
  BY <1>2, HeadIsFirst DEF Snapshots
<1>4. PICK m \in Message : m = p.message /\ m.kind = "snapshot"
  BY <1>2, <1>3, ComingType DEF Snapshots
<1>5. PICK n \in Nat, o \in Nat, M \in Nat, I \in Nat, R \in Nat, S \in Nat :
        /\ n = p.sequence /\ o = clc.serverMessageSequence /\ o < n
        /\ M = m.map /\ I = m.serverId
        /\ R = sv.restartedServerId /\ S = sv.serverId /\ R <= S
        /\ M <= R /\ M <= I /\ I <= S
        /\ I >= R => M = R
  <2>1. p.sequence \in Nat /\ m.map \in Nat /\ m.serverId \in Nat
    BY <1>2, <1>3, ComingType, MessageFields
  <2>2. /\ clc.serverMessageSequence \in Nat /\ sv.restartedServerId \in Nat
        /\ sv.serverId \in Nat
    BY <1>2 DEF TypeOK
  <2>3. /\ sv.restartedServerId <= sv.serverId
        /\ m.map <= sv.restartedServerId
        /\ m.map <= m.serverId /\ m.serverId <= sv.serverId
        /\ m.serverId >= sv.restartedServerId => m.map = sv.restartedServerId
    BY <1>2, <1>3, <1>4 DEF MapsOK
  <2> QED
    BY <1>3, <2>1, <2>2, <2>3
<1>6. PICK C \in Nat, K \in Nat : /\ C = clc.map /\ K = clc.serverId
                                  /\ C <= K /\ K <= S /\ C <= M /\ C <= R
  BY <1>2, <1>3, <1>4, <1>5 DEF TypeOK, MapsOK
<1>7. /\ toClient' \in Seq(ServerPacket)
      /\ \A i \in 1..Len(toClient') :
           /\ n < toClient'[i].sequence
           /\ toClient'[i].sequence <= sentCount
           /\ \A j \in 1..i - 1 : toClient'[j].sequence < toClient'[i].sequence
      /\ Coming' \subseteq Coming
      /\ \A q \in Coming' : n < q.sequence
  BY <1>1, <1>2, <1>3, <1>5, ReceivedFacts
(* The client afterwards. *)
<1>8. PICK x : x = CL_ParseSnapshot(n, m, frame)
  OBVIOUS
<1>9. /\ m.frame = n \/ m.numEntities > numSnapshotEntities
      /\ (m.lastframe > 0 => m.old = n - m.lastframe /\ m.lastframe < n)
  BY <1>2, <1>3, <1>4, <1>5 DEF NumbersOK, FramesOK
<1>10. /\ x \in [serverId : Nat, map : Nat, serverMessageSequence : Nat,
                 snap : ClientFrame, snapshots : [0..PACKET_BACKUP - 1 -> ClientFrame],
                 parseEntitiesNum : Nat, astray : BOOLEAN]
       /\ x.serverMessageSequence = n /\ x.map = clc.map /\ x.serverId = clc.serverId
       /\ x.astray = clc.astray
       /\ x.snap.messageNum <= n
       /\ x.snap.valid => x.snapshots[Slot(x.snap.messageNum)] = x.snap
       /\ \A i \in 0..PACKET_BACKUP - 1 :
            x.snapshots[i].valid =>
              /\ i = Slot(x.snapshots[i].messageNum)
              /\ ~x.snapshots[i].crowded =>
                   x.snapshots[i].frame = x.snapshots[i].messageNum
              /\ x.snapshots[i].messageNum <= x.snap.messageNum
              /\ x.snap.messageNum < x.snapshots[i].messageNum + PACKET_BACKUP
              /\ x.snapshots[i].messageNum = n \/ x.snapshots[i] = clc.snapshots[i]
       /\ \A k \in Nat : Holds(clc, k) => Holds(x, k)
  <2>1. /\ TypeOK /\ SlotsOK /\ n \in Nat /\ m \in Message /\ m.kind = "snapshot"
        /\ clc.serverMessageSequence < n /\ frame \in Reconstructed(n, m)
    BY <1>2, <1>3, <1>4, <1>5
  <2> QED
    BY ONLY <1>8, <1>9, <2>1, ParsedFacts
<1>11. clc' \in {x, [x EXCEPT !.serverId = I, !.astray = @ \/ M # clc.map]}
  <2>1. clc' \in CL_SystemInfoChanged(x, m)
    BY <1>3, <1>4, <1>5, <1>8
  <2> QED
    BY <1>5, <1>10, <2>1 DEF CL_SystemInfoChanged
<1>12. /\ clc' \in [serverId : Nat, map : Nat, serverMessageSequence : Nat,
                    snap : ClientFrame, snapshots : [0..PACKET_BACKUP - 1 -> ClientFrame],
                    parseEntitiesNum : Nat, astray : BOOLEAN]
       /\ clc'.serverMessageSequence = n /\ clc'.map = C
       /\ clc'.snap = x.snap /\ clc'.snapshots = x.snapshots
       /\ ~clc'.astray => ~clc.astray
       /\ \/ clc'.serverId = K
          \/ clc'.serverId = I /\ (~clc'.astray => M = C)
  <2>1. CASE clc' = x
    BY <1>6, <1>10, <2>1
  <2>2. CASE clc' = [x EXCEPT !.serverId = I, !.astray = @ \/ M # clc.map]
    <3>1. PICK b \in BOOLEAN : b <=> (x.astray \/ M # C)
      OBVIOUS
    <3>2. clc' = [x EXCEPT !.serverId = I, !.astray = b]
      <4>1. (x.astray \/ M # clc.map) = b
        BY <1>6, <3>1
      <4> QED
        BY <2>2, <4>1
    <3>3. x \in [serverId : Nat, map : Nat, serverMessageSequence : Nat,
                 snap : ClientFrame, snapshots : [0..PACKET_BACKUP - 1 -> ClientFrame],
                 parseEntitiesNum : Nat, astray : BOOLEAN]
      BY <1>10
    <3>4. /\ clc' \in [serverId : Nat, map : Nat, serverMessageSequence : Nat,
                       snap : ClientFrame,
                       snapshots : [0..PACKET_BACKUP - 1 -> ClientFrame],
                       parseEntitiesNum : Nat, astray : BOOLEAN]
          /\ clc'.serverMessageSequence = x.serverMessageSequence /\ clc'.map = x.map
          /\ clc'.snap = x.snap /\ clc'.snapshots = x.snapshots
          /\ clc'.serverId = I /\ clc'.astray = b
      BY ONLY <3>2, <3>3, I \in Nat, b \in BOOLEAN
    <3> QED
      BY <1>6, <1>10, <3>1, <3>4
  <2> QED
    BY <1>11, <2>1, <2>2
<1>13. Going' = Going
  BY <1>1 DEF Going
<1>14. Gamestates' \subseteq Gamestates /\ Snapshots' \subseteq Snapshots
  BY <1>7 DEF Gamestates, Snapshots
<1>15. TypeOK'
  BY <1>1, <1>2, <1>7, <1>12 DEF TypeOK
<1>16. NumbersOK'
  <2>1. \A g \in Going : g.messageAcknowledge <= n
    <3>1. \A g \in Going : g.messageAcknowledge \in Nat /\ g.messageAcknowledge <= o
      BY <1>2, <1>5, GoingType DEF NumbersOK
    <3> QED
      BY <1>5, <3>1
  <2>2. cl.deltaMessage <= n
    <3>1. cl.deltaMessage \in Int
      BY <1>2 DEF TypeOK
    <3>2. cl.deltaMessage <= o
      BY <1>2, <1>5 DEF NumbersOK
    <3> QED
      BY <1>5, <3>1, <3>2
  <2>3. n <= sentCount
    BY <1>3, <1>5
  <2> QED
    BY <1>1, <1>2, <1>7, <1>12, <1>13, <1>14, <2>1, <2>2, <2>3 DEF NumbersOK
<1>17. GamestateOK'
  BY <1>1, <1>2, <1>14 DEF GamestateOK, outgoingSequence
<1>18. MapsOK'
  <2>1. /\ ~clc.astray =>
             /\ K >= R => C = R
             /\ \A g \in Going : g.serverId >= R => C = R
        /\ C = R =>
             /\ K >= R /\ Gamestates = {}
             /\ \A g \in Going : g.serverId < R =>
                  g.messageAcknowledge <= cl.gamestateMessageNum
    BY <1>2, <1>5, <1>6 DEF MapsOK
  <2>2. clc'.serverId \in Nat /\ C <= clc'.serverId /\ clc'.serverId <= S
    <3>1. clc'.serverId \in {K, I} /\ C <= I
      BY <1>5, <1>6, <1>12
    <3> QED
      BY <1>5, <1>6, <3>1
  <2>3. ~clc'.astray => (clc'.serverId >= R => C = R)
    BY <1>5, <1>12, <2>1
  <2>4. C = R => clc'.serverId >= R
    BY <1>5, <1>6, <1>12, <2>1
  <2>5. /\ \A g \in Going : g.serverId <= sv.serverId
        /\ \A q \in Coming' :
             /\ C <= q.message.map
             /\ q.message.map <= sv.restartedServerId
             /\ q.message.map <= q.message.serverId /\ q.message.serverId <= sv.serverId
             /\ q.message.serverId >= sv.restartedServerId
                  => q.message.map = sv.restartedServerId
             /\ \A r \in Coming' : q.sequence < r.sequence => q.message.map <= r.message.map
    BY <1>2, <1>6, <1>7 DEF MapsOK
  <2> QED
    BY <1>1, <1>5, <1>6, <1>12, <1>13, <1>14, <2>1, <2>2, <2>3, <2>4, <2>5 DEF MapsOK
<1>19. FramesOK'
  <2>1. outgoingSequence' = outgoingSequence
    BY <1>1 DEF outgoingSequence
  <2>2. ASSUME NEW i \in 0..PACKET_BACKUP - 1, clc'.snapshots[i].valid
        PROVE  Kept(cl.frames, outgoingSequence, clc'.snapshots[i].messageNum)
    <3>1. CASE clc'.snapshots[i].messageNum = n
      BY <1>2, <1>5, <3>1 DEF FramesOK
    <3>2. CASE clc'.snapshots[i] = clc.snapshots[i]
      BY <1>2, <2>2, <3>2 DEF FramesOK
    <3> QED
      BY <1>10, <1>12, <2>2, <3>1, <3>2
  <2> QED
    BY <1>1, <1>2, <1>13, <1>14, <2>1, <2>2 DEF FramesOK
<1>20. SlotsOK'
  <2>1. clc'.snap.messageNum <= n
    BY <1>10, <1>12
  <2>2. clc'.snap.valid => clc'.snapshots[Slot(clc'.snap.messageNum)] = clc'.snap
    BY <1>10, <1>12
  <2> QED
    BY <1>10, <1>12, <2>1, <2>2 DEF SlotsOK
<1>21. BasesOK'
  <2> SUFFICES ASSUME ~clc.astray, ~clc'.astray PROVE BasesOK'
    BY <1>12 DEF BasesOK
  <2>1. \A k \in Nat : Holds(clc, k) => Holds(clc', k)
    BY <1>10, <1>12 DEF Holds
  <2>2. ASSUME NEW g \in Going, g.delta, g.serverId = sv.serverId
        PROVE  Holds(clc', g.messageAcknowledge)
    BY <1>2, <2>1, <2>2, GoingType DEF BasesOK
  <2>3. cl.state = "active" /\ cl.deltaMessage > 0 =>
          C = R /\ Holds(clc', cl.deltaMessage)
    BY <1>2, <1>5, <1>6, <2>1, FrameNumbers DEF BasesOK
  <2>4. ASSUME NEW q \in Snapshots', q.message.lastframe > 0
        PROVE  /\ Holds(clc', q.sequence - q.message.lastframe)
               /\ \A r \in Gamestates' : q.sequence < r.sequence
    <3>1. /\ q \in Snapshots
          /\ Holds(clc, q.sequence - q.message.lastframe)
          /\ \A r \in Gamestates : q.sequence < r.sequence
      BY <1>2, <1>14, <2>4 DEF BasesOK
    <3>2. q.message.lastframe < q.sequence
      BY <1>2, <2>4, <3>1 DEF FramesOK
    <3>3. q.sequence \in Nat /\ q.message.lastframe \in Nat
      BY <1>2, <3>1, ComingType, MessageFields DEF Snapshots
    <3>4. q.sequence - q.message.lastframe \in Nat
      BY <3>2, <3>3
    <3> QED
      BY <1>14, <2>1, <3>1, <3>4
  <2> QED
    BY <1>1, <1>5, <1>12, <1>13, <2>2, <2>3, <2>4 DEF BasesOK
<1> QED
  BY <1>15, <1>16, <1>17, <1>18, <1>19, <1>20, <1>21 DEF IInv

LEMMA ParseKeeps == ASSUME IInv, CL_ParseServerMessage PROVE IInv'
<1>1. CASE /\ Head(toClient).message.kind = "gamestate"
           /\ clc' = CL_ParseGamestate(Head(toClient).sequence, Head(toClient).message)
  BY <1>1, GamestateKeeps DEF CL_ParseServerMessage
<1>2. CASE /\ Head(toClient).message.kind = "snapshot"
           /\ \E r \in Reconstructed(Head(toClient).sequence, Head(toClient).message) :
                clc' \in CL_SystemInfoChanged(
                  CL_ParseSnapshot(Head(toClient).sequence, Head(toClient).message, r),
                  Head(toClient).message)
  BY <1>2, SnapshotKeeps DEF CL_ParseServerMessage
<1> QED
  BY <1>1, <1>2 DEF CL_ParseServerMessage

-----------------------------------------------------------------------------
LEMMA InitIInv == Init => IInv
<1> SUFFICES ASSUME Init PROVE IInv
  OBVIOUS
<1>1. /\ sv = [serverId |-> 1, restartedServerId |-> 1, nextSnapshotEntities |-> 0]
      /\ cl = [state |-> "primed", gentity |-> TRUE, gamestateMessageNum |-> 1,
               deltaMessage |-> 0, frames |-> Ring(NewFrame)]
      /\ pending = <<>> /\ sentCount = 1 /\ toClient = <<>> /\ toServer = <<>>
  BY DEF Init
<1>2. Invalid \in ClientFrame /\ ~Invalid.valid /\ Invalid.messageNum = 0
  BY EntitiesAssumption DEF Invalid, ClientFrame, NoFrame
<1>3. /\ Ring(Invalid) \in [0..PACKET_BACKUP - 1 -> ClientFrame]
      /\ \A i \in 0..PACKET_BACKUP - 1 : Ring(Invalid)[i] = Invalid
  BY <1>2 DEF Ring
<1>4. Ring(NewFrame) \in [0..PACKET_BACKUP - 1 -> ServerFrame]
  BY EntitiesAssumption DEF Ring, NewFrame, ServerFrame, NoFrame
<1>5. clc = [serverId |-> 1, map |-> 1, serverMessageSequence |-> 1, snap |-> Invalid,
             snapshots |-> Ring(Invalid), parseEntitiesNum |-> 0, astray |-> FALSE]
  BY DEF Init, Cleared
<1>6. Coming = {} /\ Going = {} /\ Gamestates = {} /\ Snapshots = {}
  <2>1. Coming = {} /\ Going = {}
    BY <1>1 DEF Coming, Going
  <2> QED
    BY <2>1 DEF Gamestates, Snapshots
<1>7. TypeOK
  <2>1. clc \in [serverId : Nat, map : Nat, serverMessageSequence : Nat,
                 snap : ClientFrame, snapshots : [0..PACKET_BACKUP - 1 -> ClientFrame],
                 parseEntitiesNum : Nat, astray : BOOLEAN]
    BY <1>2, <1>3, <1>5
  <2>2. cl \in [state : {"connected", "primed", "active"}, gentity : BOOLEAN,
                gamestateMessageNum : Nat, deltaMessage : Nat \cup {-1},
                frames : [0..PACKET_BACKUP - 1 -> ServerFrame]]
    BY <1>1, <1>4
  <2> QED
    BY <1>1, <2>1, <2>2 DEF TypeOK
<1>8. NumbersOK
  BY <1>1, <1>5, <1>6 DEF NumbersOK
<1>9. GamestateOK
  BY <1>1, <1>6 DEF GamestateOK, outgoingSequence
<1>10. MapsOK
  BY <1>1, <1>5, <1>6 DEF MapsOK
<1>11. FramesOK
  BY <1>1, <1>2, <1>3, <1>5, <1>6 DEF FramesOK
<1>12. SlotsOK
  BY <1>2, <1>3, <1>5 DEF SlotsOK
<1>13. BasesOK
  BY <1>1, <1>6 DEF BasesOK
<1> QED
  BY <1>7, <1>8, <1>9, <1>10, <1>11, <1>12, <1>13 DEF IInv

LEMMA StutterKeeps == ASSUME IInv, UNCHANGED vars PROVE IInv'
<1>1. TypeOK /\ NumbersOK /\ GamestateOK /\ MapsOK /\ FramesOK /\ SlotsOK /\ BasesOK
  BY DEF IInv
<1>2. /\ sv' = sv /\ cl' = cl /\ pending' = pending /\ sentCount' = sentCount
      /\ toClient' = toClient /\ toServer' = toServer /\ clc' = clc
  BY DEF vars, channel
<1>3. Coming' = Coming /\ Going' = Going /\ outgoingSequence' = outgoingSequence
  BY <1>2 DEF Coming, Going, outgoingSequence
<1>4. Gamestates' = Gamestates /\ Snapshots' = Snapshots
  BY <1>3 DEF Gamestates, Snapshots
<1>5. TypeOK' /\ NumbersOK' /\ GamestateOK'
  BY <1>1, <1>2, <1>3, <1>4 DEF TypeOK, NumbersOK, GamestateOK
<1>6. MapsOK'
  BY <1>1, <1>2, <1>3, <1>4 DEF MapsOK
<1>7. FramesOK'
  BY <1>1, <1>2, <1>3, <1>4 DEF FramesOK
<1>8. SlotsOK' /\ BasesOK'
  BY <1>1, <1>2, <1>3, <1>4 DEF SlotsOK, BasesOK
<1> QED
  BY <1>5, <1>6, <1>7, <1>8 DEF IInv

(* What the cgame is shown rests on this: the numbers in use stand for     *)
(* frames the server still has, the client's slots hold them as they were  *)
(* made, and what differences are from is among them.                      *)
THEOREM Invariance == Spec => []IInv
<1>1. ASSUME IInv, Next PROVE IInv'
  <2>1. CASE SV_Netchan_TransmitNextFragment
    BY <1>1, <2>1, FragmentKeeps
  <2>2. CASE SV_SendClientSnapshot
    BY <1>1, <2>2, SendSnapshotKeeps
  <2>3. CASE SV_SpawnServer
    BY <1>1, <2>3, SpawnKeeps
  <2>4. CASE SV_MapRestart_f
    BY <1>1, <2>4, RestartKeeps
  <2>5. CASE SV_ExecuteClientMessage
    BY <1>1, <2>5, ExecuteKeeps
  <2>6. CASE CL_WritePacket
    BY <1>1, <2>6, WritePacketKeeps
  <2>7. CASE CL_ParseServerMessage
    BY <1>1, <2>7, ParseKeeps
  <2> QED
    BY <1>1, <2>1, <2>2, <2>3, <2>4, <2>5, <2>6, <2>7 DEF Next
<1>2. ASSUME IInv, [Next]_vars PROVE IInv'
  BY <1>1, <1>2, StutterKeeps
<1> QED
  BY <1>2, InitIInv, PTL DEF Spec

(* No message between is newer than the one a difference is from, for the  *)
(* server takes none that is PACKET_BACKUP - 3 or more before it.          *)
LEMMA DeltaFollows == IInv => DeltaFromValid
<1> SUFFICES ASSUME IInv, toClient # <<>>, ~clc.astray,
                    Head(toClient).message.kind = "snapshot",
                    Head(toClient).message.lastframe > 0
             PROVE  /\ OldSnapshot(Head(toClient).sequence, Head(toClient).message).valid
                    /\ OldSnapshot(Head(toClient).sequence,
                                   Head(toClient).message).messageNum
                         = Head(toClient).sequence - Head(toClient).message.lastframe
  BY DEF DeltaFromValid
<1>1. TypeOK /\ NumbersOK /\ FramesOK /\ BasesOK
  BY DEF IInv
<1>2. PICK p \in Snapshots :
        p = Head(toClient) /\ p \in Coming /\ clc.serverMessageSequence < p.sequence
  BY <1>1, HeadIsFirst DEF Snapshots
<1>3. PICK n \in Nat, d \in Nat : n = p.sequence /\ d = p.message.lastframe
  BY <1>1, <1>2, ComingType, MessageFields DEF Snapshots
<1>4. PICK o \in Nat, P \in Nat : o = clc.serverMessageSequence /\ P = PACKET_BACKUP
  BY <1>1, BackupAssumption DEF TypeOK
<1>5. PICK k \in Int : k = n - d
  OBVIOUS
<1>6. o < n /\ d <= P - 4
  BY <1>1, <1>2, <1>3, <1>4, ComingType, MessageFields DEF Snapshots
<1>7. ~(k + P <= o)
  BY ONLY <1>5, <1>6, n \in Nat, d \in Nat, o \in Nat, P \in Nat
<1>8. Holds(clc, k)
  BY <1>1, <1>2, <1>3, <1>5 DEF BasesOK
<1>9. clc.snapshots[Slot(k)].valid /\ clc.snapshots[Slot(k)].messageNum = k
  BY <1>4, <1>7, <1>8 DEF Holds
<1> QED
  BY <1>2, <1>3, <1>5, <1>9 DEF OldSnapshot

(* The client can read every difference it is sent, unless it has gone     *)
(* astray: it holds the snapshot the difference was taken from, under its  *)
(* number (SV_WriteSnapshotToClient, CL_ParseSnapshot).                    *)
THEOREM DifferencesReadable == Spec => []Inv
<1>1. IInv => Inv
  BY DeltaFollows, Zenon DEF Inv
<1> QED
  BY <1>1, Invariance, PTL

LEMMA IntactFollows == IInv => SnapshotIntact
<1> SUFFICES ASSUME IInv, NEW n \in 1..clc.snap.messageNum, MayGetSnapshot(n)
             PROVE  /\ clc.snapshots[Slot(n)].messageNum = n
                    /\ ~clc.snapshots[Slot(n)].crowded => clc.snapshots[Slot(n)].frame = n
  BY DEF SnapshotIntact
<1>1. TypeOK /\ SlotsOK
  BY DEF IInv
<1>2. PICK s : s = clc.snapshots[Slot(n)]
  OBVIOUS
<1>3. PICK h \in Nat, P \in Nat : h = clc.snap.messageNum /\ P = PACKET_BACKUP /\ P > 3
  BY <1>1, BackupAssumption DEF TypeOK, ClientFrame
<1>4. n \in Nat /\ n <= h /\ Slot(n) \in 0..PACKET_BACKUP - 1
  BY <1>3, SlotType
<1>5. h - n < P /\ s.valid
  BY <1>2, <1>3 DEF MayGetSnapshot
<1>6. PICK k \in Nat : /\ k = s.messageNum /\ Slot(n) = Slot(k) /\ (~s.crowded => s.frame = k)
                       /\ k <= h /\ h < k + P
  BY <1>1, <1>2, <1>3, <1>4, <1>5, FrameNumbers DEF SlotsOK
<1>7. n < k + P /\ k < n + P
  BY <1>3, <1>4, <1>5, <1>6
<1>8. n = k
  BY <1>3, <1>4, <1>6, <1>7, SameSlot
<1> QED
  BY <1>2, <1>6, <1>8, Zenon

(* The snapshot the cgame gets for a number is the one the server made     *)
(* under it, whole, whatever was lost on the way, and however many         *)
(* differences it was rebuilt from, none of more entities than ParseMargin *)
(* (SV_WriteSnapshotToClient, CL_ParseSnapshot, CL_GetSnapshot).           *)
THEOREM SnapshotsIntact == Spec => []SnapshotIntact
BY IntactFollows, Invariance, PTL

=============================================================================
