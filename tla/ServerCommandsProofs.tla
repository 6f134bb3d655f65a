------------------------ MODULE ServerCommandsProofs ------------------------
(***************************************************************************)
(* Commands to a client are kept, delivered and executed as ReliableStream *)
(* says, for every size of the ring and any number of commands and         *)
(* messages.                                                               *)
(***************************************************************************)
EXTENDS ServerCommands, WellFoundedInduction, SequenceTheorems, TLAPS

(* Numbers less than M apart differ modulo M. *)
LEMMA ModDiffers ==
  ASSUME NEW M \in Nat \ {0}, NEW n \in Nat, NEW k \in Nat, n < k, k < n + M
  PROVE  n % M # k % M
<1> DEFINE turns == (k \div M) - (n \div M)
<1> SUFFICES ASSUME n % M = k % M PROVE FALSE
  OBVIOUS
<1>1. /\ n = M * (n \div M) + (n % M) /\ k = M * (k \div M) + (k % M)
      /\ n \div M \in Int /\ k \div M \in Int
  OBVIOUS
<1>2. turns \in Int /\ k - n = M * turns
  BY <1>1
<1>3. turns >= 1
  BY <1>2
<1> HIDE DEF turns
<1>4. M * turns >= M
  BY <1>2, <1>3
<1> QED
  BY <1>2, <1>4

(* A nonempty set of natural numbers has a least element. *)
LEMMA LeastNat ==
  ASSUME NEW S, S \subseteq Nat, S # {}
  PROVE  \E n \in S : \A o \in S : n <= o
<1> DEFINE Less == {p \in Nat \X Nat : p[1] < p[2]}
<1>1. IsWellFoundedOn(Less, Nat)
  BY NatLessThanWellFounded, Zenon DEF OpToRel
<1>2. PICK n \in S : \A o \in S : <<o, n>> \notin Less
  BY <1>1, WFMin, Zenon
<1>3. \A o \in S : ~(o < n)
  BY <1>2
<1> QED
  BY <1>3

(* A bounded one has a greatest element. *)
LEMMA GreatestNat ==
  ASSUME NEW high \in Nat, NEW S, S \subseteq 0..high, S # {}
  PROVE  \E n \in S : \A o \in S : o <= n
<1> DEFINE T == {high - n : n \in S}
<1>1. T \subseteq Nat /\ T # {}
  <2>1. \A n \in S : n \in Nat /\ n <= high
    OBVIOUS
  <2>2. T \subseteq Nat
    BY <2>1
  <2> QED
    BY <2>2
<1>2. PICK t \in T : \A u \in T : t <= u
  BY <1>1, LeastNat
<1>3. PICK n \in S : t = high - n
  BY <1>2
<1>4. \A o \in S : high - o \in T
  OBVIOUS
<1> HIDE DEF T
<1>5. \A o \in S : high - n <= high - o
  BY <1>2, <1>3, <1>4
<1> QED
  BY <1>5

LEMMA SlotType == ASSUME NEW n \in Nat PROVE Slot(n) \in Slots
  BY RingAssumption DEF Slot, Slots

LEMMA SlotsDiffer ==
  ASSUME NEW n \in Nat, NEW k \in Nat, n < k, k < n + MAX_RELIABLE_COMMANDS
  PROVE  Slot(n) # Slot(k)
  BY RingAssumption, ModDiffers DEF Slot

-----------------------------------------------------------------------------
(* The server's client_t, as it is between any two of the nested calls.    *)
Good(c) ==
  /\ c \in client_t /\ RingKept(c)
  /\ c.overflowed <= c.reliableSequence
  /\ c.reliableAcknowledge <= c.reliableSequence
  /\ c.state = "live" => c.overflowed = 0 /\ Pending(c) <= MAX_RELIABLE_COMMANDS

Later(c, d) ==
  /\ Good(d)
  /\ d.reliableAcknowledge = c.reliableAcknowledge
  /\ c.reliableSequence <= d.reliableSequence
  /\ c.overflowed # 0 => d.overflowed = c.overflowed

LEMMA LaterTransitive ==
  ASSUME NEW c \in client_t, NEW d, NEW e, Later(c, d), Later(d, e)
  PROVE  Later(c, e)
  BY DEF Later, Good, client_t

(* A command is put in its own slot, over the one a ring before it. *)
LEMMA PutKeeps ==
  ASSUME NEW c \in client_t, RingKept(c), NEW final \in BOOLEAN
  PROVE  LET d == Put(c, final)
         IN  /\ d \in client_t /\ RingKept(d)
             /\ d.reliableSequence = c.reliableSequence + 1
             /\ d.reliableAcknowledge = c.reliableAcknowledge
             /\ d.overflowed = c.overflowed /\ d.state = c.state
<1> DEFINE d == Put(c, final)
           s == c.reliableSequence
<1>0. PICK last : last = IF final THEN s + 1 ELSE c.disconnect
  OBVIOUS
<1> DEFINE q == [c EXCEPT !.reliableSequence = s + 1, !.disconnect = last]
<1>1. s \in Nat /\ Slot(s + 1) \in Slots /\ \A n \in 0..s : Slot(n) \in Slots
  BY SlotType DEF client_t
<1>2. /\ q \in client_t /\ q.reliableCommands = c.reliableCommands
      /\ q.reliableSequence = s + 1 /\ q.state = c.state
      /\ q.reliableAcknowledge = c.reliableAcknowledge
      /\ q.overflowed = c.overflowed
  <2>1. last \in Nat
    <3>1. s + 1 \in Nat /\ c.disconnect \in Nat
      BY DEF client_t
    <3>2. last = s + 1 \/ last = c.disconnect
      BY <1>0
    <3> HIDE DEF s
    <3> QED
      BY <3>1, <3>2
  <2>2. PICK n \in Nat : n = s + 1
    BY <1>1
  <2> HIDE DEF s
  <2> QED
    BY <2>1, <2>2 DEF client_t
<1>3. d = [q EXCEPT !.reliableCommands[Slot(s + 1)] = s + 1]
  BY <1>0 DEF Put, client_t
<1> HIDE DEF d, q
<1>4. /\ d.reliableCommands = [c.reliableCommands EXCEPT ![Slot(s + 1)] = s + 1]
      /\ d = [q EXCEPT !.reliableCommands = d.reliableCommands]
  BY <1>2, <1>3 DEF client_t
<1>5. \A i \in Slots : d.reliableCommands[i] =
                         IF i = Slot(s + 1) THEN s + 1 ELSE c.reliableCommands[i]
  BY <1>4 DEF client_t
<1>6. /\ d.reliableSequence = s + 1 /\ d.state = c.state
      /\ d.reliableAcknowledge = c.reliableAcknowledge
      /\ d.overflowed = c.overflowed
  BY <1>2, <1>4 DEF client_t
<1>7. d \in client_t
  <2>1. d.reliableCommands \in [Slots -> Nat]
    BY <1>1, <1>4 DEF client_t
  <2> QED
    BY <1>2, <1>4, <2>1 DEF client_t
<1>8. ASSUME NEW n \in 0..s + 1, n + MAX_RELIABLE_COMMANDS > s + 1
      PROVE  d.reliableCommands[Slot(n)] = n \/ Overflown(d, n)
  <2>1. CASE n = s + 1
    BY <1>1, <1>5, <2>1
  <2>2. CASE n # s + 1
    <3>1. n \in 0..s /\ Slot(n) # Slot(s + 1) /\ n + MAX_RELIABLE_COMMANDS > s
      BY <1>1, <1>8, <2>2, SlotsDiffer, RingAssumption
    <3>2. c.reliableCommands[Slot(n)] = n \/ Overflown(c, n)
      BY <3>1 DEF RingKept
    <3> QED
      BY <1>1, <1>5, <1>6, <3>1, <3>2 DEF Overflown
  <2> QED
    BY <2>1, <2>2
<1> QED
  BY <1>6, <1>7, <1>8 DEF d, RingKept

LEMMA ZombieLater ==
  ASSUME NEW c, Good(c)
  PROVE  Later(c, [c EXCEPT !.state = "zombie"])
<1> DEFINE d == [c EXCEPT !.state = "zombie"]
<1>1. /\ d \in client_t /\ d.state = "zombie"
      /\ d.reliableSequence = c.reliableSequence
      /\ d.reliableAcknowledge = c.reliableAcknowledge
      /\ d.reliableCommands = c.reliableCommands /\ d.overflowed = c.overflowed
  BY DEF Good, client_t
<1> HIDE DEF d
<1>2. RingKept(d)
  BY <1>1 DEF Good, RingKept, Overflown
<1>3. Later(c, d)
  BY <1>1, <1>2 DEF Later, Good, client_t
<1> QED
  BY <1>3 DEF d

LEMMA ToldLater ==
  ASSUME NEW c, Good(c)
  PROVE  LET d == [c EXCEPT !.gameDisconnects = @ + 1]
         IN  Later(c, d) /\ d.state = c.state
<1> DEFINE d == [c EXCEPT !.gameDisconnects = @ + 1]
<1>1. /\ d \in client_t /\ d.state = c.state
      /\ d.reliableSequence = c.reliableSequence
      /\ d.reliableAcknowledge = c.reliableAcknowledge
      /\ d.reliableCommands = c.reliableCommands /\ d.overflowed = c.overflowed
  BY DEF Good, client_t
<1> HIDE DEF d
<1>2. RingKept(d)
  BY <1>1 DEF Good, RingKept, Overflown
<1>3. Later(c, d)
  BY <1>1, <1>2 DEF Later, Good, client_t, Pending
<1> QED
  BY <1>1, <1>3 DEF d

(* The overflow of the ring: whatever is numbered after the lost command,  *)
(* the ring is kept but for that one.                                      *)
LEMMA OverflowLater ==
  ASSUME NEW c, Good(c), c.state = "live", NEW k \in {0, 1}
  PROVE  Later(c, Overflow(c, k))
<1> DEFINE s       == c.reliableSequence
           lost    == [c EXCEPT !.reliableSequence = s + 1, !.overflowed = s + 1]
           printed == Put(lost, FALSE)
           called  == [printed EXCEPT !.gameDisconnects = @ + 1]
           told    == PutSome(called, k)
           last    == Put(told, TRUE)
<1>1. /\ s \in Nat /\ c.reliableAcknowledge \in Nat /\ c.reliableAcknowledge <= s
      /\ c.overflowed = 0 /\ c \in client_t /\ RingKept(c)
  BY DEF Good, client_t
<1>2. /\ lost \in client_t /\ lost.reliableSequence = s + 1
      /\ lost.overflowed = s + 1 /\ lost.reliableCommands = c.reliableCommands
      /\ lost.reliableAcknowledge = c.reliableAcknowledge
  <2>1. PICK n : n = s + 1
    OBVIOUS
  <2>2. n \in Nat
    BY <1>1, <2>1
  <2> QED
    BY <1>1, <2>1, <2>2 DEF client_t
<1>3. Overflow(c, k) = [last EXCEPT !.state = "zombie"]
  BY DEF Overflow
<1> HIDE DEF lost
<1>4. RingKept(lost)
  <2> SUFFICES ASSUME NEW n \in 0..s + 1, n + MAX_RELIABLE_COMMANDS > s + 1
               PROVE  lost.reliableCommands[Slot(n)] = n \/ Overflown(lost, n)
    BY <1>2 DEF RingKept
  <2>1. CASE n = s + 1
    BY <1>1, <1>2, <2>1 DEF Overflown
  <2>2. CASE n # s + 1
    <3>1. n \in 0..s /\ n + MAX_RELIABLE_COMMANDS > s
      BY <1>1, <2>2, RingAssumption
    <3> QED
      BY <1>1, <1>2, <3>1 DEF RingKept, Overflown
  <2> QED
    BY <2>1, <2>2
<1>5. /\ printed \in client_t /\ RingKept(printed)
      /\ printed.reliableSequence = s + 2 /\ printed.overflowed = s + 1
      /\ printed.reliableAcknowledge = c.reliableAcknowledge
  <2>1. /\ printed \in client_t /\ RingKept(printed)
        /\ printed.reliableSequence = lost.reliableSequence + 1
        /\ printed.reliableAcknowledge = lost.reliableAcknowledge
        /\ printed.overflowed = lost.overflowed
    BY <1>2, <1>4, PutKeeps, Zenon
  <2> HIDE DEF printed, s
  <2> QED
    BY <1>1, <1>2, <2>1
<1> HIDE DEF printed
<1>6. /\ called \in client_t /\ RingKept(called)
      /\ called.reliableSequence = s + 2 /\ called.overflowed = s + 1
      /\ called.reliableAcknowledge = c.reliableAcknowledge
  <2>1. /\ called \in client_t /\ called.reliableCommands = printed.reliableCommands
        /\ called.reliableSequence = s + 2 /\ called.overflowed = s + 1
        /\ called.reliableAcknowledge = c.reliableAcknowledge
    BY <1>1, <1>5 DEF client_t
  <2> HIDE DEF called
  <2> QED
    BY <1>5, <2>1 DEF RingKept, Overflown
<1> HIDE DEF called
<1>7. /\ told \in client_t /\ RingKept(told)
      /\ told.reliableSequence >= s + 2 /\ told.overflowed = s + 1
      /\ told.reliableAcknowledge = c.reliableAcknowledge
  <2>1. CASE k = 0
    BY <1>1, <1>6, <2>1 DEF PutSome
  <2>2. CASE k = 1
    <3>1. told = Put(called, FALSE)
      BY <2>2 DEF PutSome
    <3> HIDE DEF told
    <3>2. /\ told \in client_t /\ RingKept(told)
          /\ told.reliableSequence = called.reliableSequence + 1
          /\ told.reliableAcknowledge = called.reliableAcknowledge
          /\ told.overflowed = called.overflowed
      BY <1>6, <3>1, PutKeeps, Zenon
    <3> QED
      BY <1>1, <1>6, <3>2
  <2> QED
    BY <2>1, <2>2
<1> HIDE DEF told
<1>8. /\ last \in client_t /\ RingKept(last)
      /\ last.reliableSequence >= s + 3 /\ last.overflowed = s + 1
      /\ last.reliableAcknowledge = c.reliableAcknowledge
  <2>1. told.reliableSequence \in Nat
    BY <1>7 DEF client_t
  <2>2. /\ last \in client_t /\ RingKept(last)
        /\ last.reliableSequence = told.reliableSequence + 1
        /\ last.reliableAcknowledge = told.reliableAcknowledge
        /\ last.overflowed = told.overflowed
    BY <1>7, PutKeeps, Zenon
  <2> HIDE DEF last, s
  <2> QED
    BY <1>1, <1>7, <2>1, <2>2
<1> HIDE DEF last
<1> DEFINE d == [last EXCEPT !.state = "zombie"]
<1>9. /\ d \in client_t /\ d.state = "zombie"
      /\ d.reliableSequence = last.reliableSequence
      /\ d.reliableAcknowledge = c.reliableAcknowledge
      /\ d.reliableCommands = last.reliableCommands /\ d.overflowed = s + 1
  BY <1>8 DEF client_t
<1> HIDE DEF d
<1>10. RingKept(d)
  BY <1>8, <1>9 DEF RingKept, Overflown
<1>11. d.reliableSequence \in Nat
  BY <1>9 DEF client_t
<1>12. Later(c, d)
  BY <1>1, <1>8, <1>9, <1>10, <1>11 DEF Later, Good
<1> QED
  BY <1>3, <1>12 DEF d

LEMMA AddLater ==
  ASSUME NEW c, Good(c), NEW k \in {0, 1}, NEW final \in BOOLEAN
  PROVE  Later(c, Add(c, k, final))
<1>1. CASE c.state = "zombie"
  <2>1. Add(c, k, final) = c
    BY <1>1, Zenon DEF Add
  <2>2. Later(c, c)
    BY DEF Later, Good, client_t
  <2> QED
    BY <2>1, <2>2
<1>2. CASE c.state # "zombie" /\ Pending(c) = MAX_RELIABLE_COMMANDS
  <2>1. c.state = "live"
    BY <1>2 DEF Good, client_t
  <2> QED
    BY <1>2, <2>1, OverflowLater DEF Add
<1>3. CASE c.state # "zombie" /\ Pending(c) # MAX_RELIABLE_COMMANDS
  <2> DEFINE d == Put(c, final)
  <2>1. c.state = "live" /\ c \in client_t /\ RingKept(c)
    BY <1>3 DEF Good, client_t
  <2>2. /\ d \in client_t /\ RingKept(d)
        /\ d.reliableSequence = c.reliableSequence + 1
        /\ d.reliableAcknowledge = c.reliableAcknowledge
        /\ d.overflowed = c.overflowed /\ d.state = c.state
    BY <2>1, PutKeeps
  <2> HIDE DEF d
  <2>3. /\ c.reliableSequence \in Nat /\ c.reliableAcknowledge \in Nat
        /\ c.overflowed \in Nat
    BY <2>1 DEF client_t
  <2>4. Later(c, d)
    BY <1>3, <2>1, <2>2, <2>3, RingAssumption DEF Later, Good, Pending
  <2> QED
    BY <1>3, <2>4 DEF Add, d
<1> QED
  BY <1>1, <1>2, <1>3

LEMMA DropLater ==
  ASSUME NEW c, Good(c), NEW k \in {0, 1}
  PROVE  Later(c, Drop(c, k))
<1> DEFINE printed == Add(c, k, FALSE)
           called  == [printed EXCEPT !.gameDisconnects = @ + 1]
           told    == IF k = 0 THEN called ELSE Add(called, k, FALSE)
           last    == Add(told, k, TRUE)
<1>1. Drop(c, k) = [last EXCEPT !.state = "zombie"]
  BY DEF Drop
<1>2. Later(c, printed)
  BY AddLater
<1> HIDE DEF printed
<1>3. Later(printed, called)
  BY <1>2, ToldLater DEF Later
<1> HIDE DEF called
<1>4. Later(called, told)
  <2>1. CASE k = 0
    <3>1. Later(called, called)
      BY <1>3 DEF Later, Good, client_t
    <3> QED
      BY <2>1, <3>1
  <2>2. CASE k # 0
    BY <1>3, <2>2, AddLater, Zenon DEF Later
  <2> QED
    BY <2>1, <2>2
<1> HIDE DEF told
<1>5. Later(told, last)
  BY <1>4, AddLater DEF Later
<1> HIDE DEF last
<1>6. Later(last, [last EXCEPT !.state = "zombie"])
  BY <1>5, ZombieLater DEF Later
<1>7. /\ c \in client_t /\ printed \in client_t /\ called \in client_t
      /\ told \in client_t /\ last \in client_t
  BY <1>2, <1>3, <1>4, <1>5 DEF Later, Good
<1>8. Later(c, called)
  BY <1>2, <1>3, <1>7, LaterTransitive
<1>9. Later(c, told)
  BY <1>4, <1>8, <1>7, LaterTransitive
<1>10. Later(c, last)
  BY <1>5, <1>9, <1>7, LaterTransitive
<1> QED
  BY <1>1, <1>6, <1>10, <1>7, LaterTransitive

-----------------------------------------------------------------------------
LEMMA ServerGood == ASSUME IInv PROVE Good(cl)
  BY DEF IInv, TypeOK, PendingKept, ServerOK, Good, client_t, clientConnection_t

(* The server issues commands and may drop the client. *)
LEMMA ServerStep ==
  ASSUME IInv, Later(cl, cl'), UNCHANGED <<svSent, clientVars, toClient, toServer>>
  PROVE  IInv'
<1>1. /\ cl' \in client_t /\ cl \in client_t
      /\ cl'.reliableAcknowledge = cl.reliableAcknowledge
      /\ cl.reliableSequence \in Nat /\ cl'.reliableSequence \in Nat
      /\ cl.reliableAcknowledge \in Nat
      /\ cl.reliableSequence <= cl'.reliableSequence
      /\ \A n : Overflown(cl, n) => Overflown(cl', n)
  BY DEF IInv, TypeOK, Later, Good, Overflown, client_t
<1>2. UNCHANGED <<svSent, clc, snaps, executed, toClient, toServer>>
  BY DEF clientVars
<1>3. clc \in clientConnection_t /\ clc.serverCommandSequence \in Nat
  BY DEF IInv, TypeOK, clientConnection_t
<1>4. TypeOK'
  BY <1>1, <1>2, <1>3 DEF IInv, TypeOK
<1>5. ServerOK'
  BY DEF Later, Good, ServerOK
<1>6. PendingKept'
  <2> SUFFICES ASSUME cl'.state = "live"
               PROVE  /\ Pending(cl') <= MAX_RELIABLE_COMMANDS
                      /\ \A n \in cl'.reliableAcknowledge + 1..cl'.reliableSequence :
                           cl'.reliableCommands[Slot(n)] = n
    BY DEF PendingKept
  <2>1. Pending(cl') <= MAX_RELIABLE_COMMANDS /\ cl'.overflowed = 0 /\ RingKept(cl')
    BY DEF Later, Good
  <2>2. ASSUME NEW n \in cl'.reliableAcknowledge + 1..cl'.reliableSequence
        PROVE  cl'.reliableCommands[Slot(n)] = n
    <3>1. n \in 0..cl'.reliableSequence /\ n + MAX_RELIABLE_COMMANDS > cl'.reliableSequence
      BY <1>1, <2>1, <2>2, RingAssumption DEF Pending
    <3> QED
      BY <2>1, <3>1 DEF RingKept, Overflown
  <2> QED
    BY <2>1, <2>2
<1>7. ClientOK'
  BY <1>1, <1>2 DEF IInv, ClientOK
<1>8. ToClientOK'
  <2>1. ASSUME NEW m, NEW low, HasCommands(m, low) PROVE HasCommands(m, low)'
    BY <1>1, <2>1 DEF HasCommands
  <2>2. \A m \in toClient :
          m.issued \in clc.serverCommandSequence..cl.reliableSequence
            => m.issued \in clc.serverCommandSequence..cl'.reliableSequence
    BY <1>1, <1>3
  <2> QED
    BY <1>2, <2>1, <2>2 DEF IInv, ToClientOK
<1>9. ToServerOK' /\ SnapsOK' /\ ExecutedOK'
  BY <1>1, <1>2 DEF IInv, ToServerOK, SnapsOK, ExecutedOK
<1> QED
  BY <1>4, <1>5, <1>6, <1>7, <1>8, <1>9 DEF IInv

(* A message for the client has the pending commands. *)
LEMMA SendStep ==
  ASSUME IInv, NEW message, SendToClient(message),
         message \in {ServerMessage("snapshot"), ServerMessage("gamestate"),
                      ClearedMessage}
  PROVE  IInv'
<1>1. /\ cl \in client_t /\ clc \in clientConnection_t /\ svSent \in Nat
      /\ cl.reliableSequence \in Nat /\ cl.reliableAcknowledge \in Nat
      /\ clc.serverCommandSequence \in Nat
      /\ cl.reliableAcknowledge <= clc.serverCommandSequence
      /\ clc.serverCommandSequence <= cl.reliableSequence
  BY DEF IInv, TypeOK, client_t, clientConnection_t
<1>2. /\ toClient' = toClient \cup {message} /\ svSent' = svSent + 1
      /\ UNCHANGED <<cl, clc, snaps, executed, toServer>>
  BY DEF SendToClient, clientVars
<1>3. /\ message.sequence = svSent + 1 /\ message.issued = cl.reliableSequence
      /\ message.kind # "cleared" =>
           message.commands = [n \in cl.reliableAcknowledge + 1..cl.reliableSequence |->
                                 cl.reliableCommands[Slot(n)]]
  <2>1. CASE message = ClearedMessage
    BY <2>1 DEF ClearedMessage
  <2>2. CASE message = ServerMessage("snapshot")
    BY <2>2 DEF ServerMessage
  <2>3. CASE message = ServerMessage("gamestate")
    BY <2>3 DEF ServerMessage
  <2> QED
    BY <2>1, <2>2, <2>3
<1>4. message.kind # "cleared" => HasCommands(message, cl.reliableAcknowledge)
  <2> SUFFICES ASSUME message.kind # "cleared",
                      NEW n \in cl.reliableAcknowledge + 1..cl.reliableSequence
               PROVE  /\ cl.reliableCommands[Slot(n)] \in Nat
                      /\ n + MAX_RELIABLE_COMMANDS > cl.reliableSequence =>
                           cl.reliableCommands[Slot(n)] = n \/ Overflown(cl, n)
    BY <1>3 DEF HasCommands
  <2>1. n \in Nat /\ n \in 0..cl.reliableSequence
    BY <1>1
  <2>2. Slot(n) \in Slots
    BY <2>1, SlotType
  <2> QED
    BY <1>1, <2>1, <2>2 DEF IInv, ServerOK, RingKept, client_t
<1>5. ToClientOK'
  <2>1. ASSUME NEW m \in toClient'
        PROVE  /\ m.sequence \in 1..svSent'
               /\ m.issued \in clc.serverCommandSequence..cl.reliableSequence
               /\ m.kind # "cleared" =>
                    \E low \in 0..clc.serverCommandSequence : HasCommands(m, low)
    <3>1. CASE m = message
      BY <1>1, <1>2, <1>3, <1>4, <3>1
    <3>2. CASE m \in toClient
      BY <1>1, <1>2, <3>2 DEF IInv, ToClientOK
    <3> QED
      BY <1>2, <3>1, <3>2
  <2>2. ASSUME NEW m \in toClient', NEW o \in toClient', o.sequence >= m.sequence
        PROVE  o.issued >= m.issued
    <3>1. CASE o = message
      BY <1>1, <1>3, <2>1, <3>1
    <3>2. CASE o \in toClient /\ m \in toClient
      BY <2>2, <3>2 DEF IInv, ToClientOK
    <3>3. CASE o \in toClient /\ m = message
      <4>1. o.sequence \in 1..svSent
        BY <3>3 DEF IInv, ToClientOK
      <4> QED
        BY <1>1, <1>3, <2>2, <3>3, <4>1
    <3> QED
      BY <1>2, <3>1, <3>2, <3>3
  <2>3. \A m, low : HasCommands(m, low) => HasCommands(m, low)'
    BY <1>2 DEF HasCommands
  <2> QED
    BY <1>2, <2>1, <2>2, <2>3 DEF ToClientOK
<1>6. TypeOK' /\ PendingKept' /\ ServerOK' /\ ClientOK'
  BY <1>1, <1>2 DEF IInv, TypeOK, PendingKept, ServerOK, ClientOK
<1>7. ToServerOK' /\ SnapsOK' /\ ExecutedOK'
  BY <1>2 DEF IInv, ToServerOK, SnapsOK, ExecutedOK
<1> QED
  BY <1>5, <1>6, <1>7 DEF IInv

(* The newest of a nonempty set of numbers up to high. *)
LEMMA NewestIs ==
  ASSUME NEW high \in Nat, NEW S, S \subseteq 0..high, S # {}, NEW default
  PROVE  Newest(S, default) \in S /\ \A o \in S : o <= Newest(S, default)
<1>1. \E n \in S : \A o \in S : o <= n
  BY GreatestNat
<1>2. Newest(S, default) = CHOOSE n \in S : \A o \in S : o <= n
  BY DEF Newest
<1> QED
  BY <1>1, <1>2

(* The client reads the commands it has not, up to the last one issued. *)
LEMMA ParseFacts ==
  ASSUME IInv, NEW m \in toClient, m.kind # "cleared"
  PROVE  LET c == Parse(clc, m)
         IN  /\ c \in clientConnection_t
             /\ c.serverCommandSequence = m.issued
             /\ c.sent = clc.sent /\ c.state = clc.state
             /\ \A n \in 0..m.issued : n + MAX_RELIABLE_COMMANDS > m.issued =>
                  c.serverCommands[Slot(n)] = n \/ Overflown(cl, n)
<1> DEFINE s       == clc.serverCommandSequence
           last    == m.issued
           new     == {n \in DOMAIN m.commands : n > s}
           here(i) == {n \in new : Slot(n) = i}
           ring    == Store(clc.serverCommands, m, new)
           seq     == IF m.kind = "gamestate" THEN m.issued ELSE Newest(new, s)
<1>1. PICK low \in 0..s : HasCommands(m, low)
  BY DEF IInv, ToClientOK
<1>2. /\ s \in Nat /\ last \in Nat /\ s <= last /\ low \in Nat /\ low <= s
      /\ m.sequence \in Nat /\ clc.serverCommands \in [Slots -> Nat]
      /\ clc \in clientConnection_t
  <2>1. cl.reliableSequence \in Nat /\ svSent \in Nat /\ clc \in clientConnection_t
    BY DEF IInv, TypeOK, client_t
  <2>2. s \in Nat /\ clc.serverCommands \in [Slots -> Nat]
    BY <2>1 DEF clientConnection_t
  <2>3. m.issued \in s..cl.reliableSequence /\ m.sequence \in 1..svSent
    BY DEF IInv, ToClientOK
  <2> QED
    BY <1>1, <2>1, <2>2, <2>3
<1>3. new = s + 1..last
  BY <1>1, <1>2 DEF HasCommands
<1>4. \A n \in new : n \in Nat /\ n \in low + 1..last
  BY <1>2, <1>3
<1> HIDE DEF new, s, last
<1>5. seq = last
  <2>1. CASE m.kind = "gamestate"
    BY <2>1 DEF last
  <2>2. CASE m.kind # "gamestate" /\ new = {}
    BY <1>2, <1>3, <2>2 DEF Newest
  <2>3. CASE m.kind # "gamestate" /\ new # {}
    <3>1. new \subseteq 0..last /\ last \in new
      BY <1>2, <1>3, <2>3
    <3>2. Newest(new, s) \in new /\ \A o \in new : o <= Newest(new, s)
      BY <1>2, <2>3, <3>1, NewestIs
    <3> QED
      BY <1>2, <1>3, <2>3, <3>1, <3>2
  <2> QED
    BY <2>1, <2>2, <2>3
<1>6. /\ DOMAIN ring = Slots
      /\ \A i \in Slots : ring[i] = IF here(i) = {} THEN clc.serverCommands[i]
                                    ELSE m.commands[Newest(here(i), 0)]
  BY <1>2 DEF Store
<1>7. ASSUME NEW i \in Slots, here(i) # {}
      PROVE  /\ Newest(here(i), 0) \in here(i)
             /\ \A o \in here(i) : o <= Newest(here(i), 0)
  <2>1. here(i) \subseteq 0..last
    BY <1>2, <1>3
  <2> QED
    BY <1>2, <1>7, <2>1, NewestIs
<1>8. ring \in [Slots -> Nat]
  <2>1. ASSUME NEW i \in Slots PROVE ring[i] \in Nat
    <3>1. CASE here(i) = {}
      BY <1>2, <1>6, <3>1
    <3>2. CASE here(i) # {}
      <4>1. PICK n \in new : ring[i] = m.commands[n]
        BY <1>6, <1>7, <3>2
      <4> QED
        BY <1>1, <1>4, <4>1 DEF HasCommands, last
    <3> QED
      BY <3>1, <3>2
  <2>2. ring = [i \in Slots |-> ring[i]]
    BY <1>2 DEF Store
  <2> HIDE DEF ring
  <2> QED
    BY <2>1, <2>2
<1>9. ASSUME NEW n \in 0..last, n + MAX_RELIABLE_COMMANDS > last
      PROVE  ring[Slot(n)] = n \/ Overflown(cl, n)
  <2>1. n \in Nat /\ Slot(n) \in Slots
    BY <1>2, SlotType
  <2>2. \A k \in new : k > n => Slot(k) # Slot(n)
    BY <1>2, <1>3, <1>9, <2>1, SlotsDiffer, RingAssumption
  <2>3. CASE n > s
    <3>1. n \in here(Slot(n))
      BY <1>2, <1>3, <2>1, <2>3
    <3>2. PICK g \in here(Slot(n)) : /\ g = Newest(here(Slot(n)), 0)
                                     /\ \A o \in here(Slot(n)) : o <= g
      BY <1>7, <2>1, <3>1
    <3>3. g = n
      <4>1. g \in new /\ Slot(g) = Slot(n) /\ n <= g /\ g \in Nat
        BY <1>4, <3>1, <3>2
      <4> QED
        BY <2>1, <2>2, <4>1
    <3>4. ring[Slot(n)] = m.commands[n]
      BY <1>6, <2>1, <3>1, <3>2, <3>3
    <3> QED
      BY <1>1, <1>3, <1>4, <1>9, <3>1, <3>4 DEF HasCommands, last
  <2>4. CASE n <= s
    <3>1. here(Slot(n)) = {}
      BY <1>2, <1>3, <2>1, <2>2, <2>4
    <3>2. ring[Slot(n)] = clc.serverCommands[Slot(n)]
      BY <1>6, <2>1, <3>1
    <3>3. n \in 0..s /\ n + MAX_RELIABLE_COMMANDS > s
      BY <1>2, <1>9, <2>1, <2>4, RingAssumption
    <3> QED
      BY <3>2, <3>3 DEF IInv, ClientOK, s
  <2> QED
    BY <1>2, <2>1, <2>3, <2>4
<1> DEFINE c == [clc EXCEPT !.serverMessageSequence = m.sequence,
                            !.serverCommandSequence = seq, !.serverCommands = ring]
<1>10. Parse(clc, m) = c
  BY DEF Parse, new, s
<1> HIDE DEF ring, seq
<1>11. /\ c \in clientConnection_t /\ c.serverCommandSequence = last
       /\ c.sent = clc.sent /\ c.state = clc.state /\ c.serverCommands = ring
  BY <1>2, <1>5, <1>8 DEF clientConnection_t
<1> HIDE DEF c
<1> QED
  BY <1>9, <1>10, <1>11 DEF last

LEMMA ParseStep ==
  ASSUME IInv, NEW m \in toClient, CL_ParseServerMessage(m)
  PROVE  IInv'
<1>1. /\ cl \in client_t /\ clc \in clientConnection_t /\ svSent \in Nat
      /\ cl.reliableSequence \in Nat /\ clc.serverCommandSequence \in Nat
      /\ cl.reliableAcknowledge \in Nat
      /\ cl.reliableAcknowledge <= clc.serverCommandSequence
      /\ clc.serverCommandSequence <= cl.reliableSequence
  BY DEF IInv, TypeOK, client_t, clientConnection_t
<1>2. /\ toClient' = {o \in toClient : o.sequence > m.sequence}
      /\ UNCHANGED <<cl, svSent, executed, toServer>>
  BY DEF CL_ParseServerMessage, serverVars
<1>3. m.issued \in clc.serverCommandSequence..cl.reliableSequence /\ m.issued \in Nat
      /\ m.sequence \in 1..svSent /\ m.sequence \in Nat
  BY <1>1 DEF IInv, ToClientOK
<1>4. /\ clc' \in clientConnection_t /\ clc'.sent = clc.sent
      /\ clc'.serverCommandSequence \in clc.serverCommandSequence..m.issued
      /\ ClientOK'
      /\ snaps' \in Seq([serverCommandNum : Nat, issued : Nat])
      /\ SnapsOK'
  <2>1. CASE ReadPastEnd(m)
    <3>1. clc' = [clc EXCEPT !.state = "gone", !.serverMessageSequence = m.sequence]
          /\ snaps' = snaps
      BY <2>1 DEF ReadPastEnd
    <3>2. /\ clc' \in clientConnection_t /\ clc'.sent = clc.sent
          /\ clc'.serverCommandSequence = clc.serverCommandSequence
          /\ clc'.serverCommands = clc.serverCommands
      BY <1>1, <1>3, <3>1 DEF clientConnection_t
    <3>3. ClientOK' /\ SnapsOK'
      BY <1>2, <3>1, <3>2 DEF IInv, ClientOK, SnapsOK
    <3> QED
      BY <1>1, <1>3, <3>1, <3>2, <3>3 DEF IInv, TypeOK
  <2>2. CASE ParseMessage(m)
    <3>1. m.kind # "cleared" /\ clc' = Parse(clc, m)
      BY <2>2 DEF ParseMessage
    <3>2. /\ clc' \in clientConnection_t /\ clc'.serverCommandSequence = m.issued
          /\ clc'.sent = clc.sent
          /\ \A n \in 0..m.issued : n + MAX_RELIABLE_COMMANDS > m.issued =>
               clc'.serverCommands[Slot(n)] = n \/ Overflown(cl, n)
      BY <3>1, ParseFacts
    <3>3. ClientOK'
      BY <1>2, <3>2 DEF ClientOK
    <3>4. snaps \in Seq([serverCommandNum : Nat, issued : Nat])
      BY DEF IInv, TypeOK
    <3>5. ASSUME NEW i \in 1..Len(snaps)
          PROVE  /\ snaps[i].issued <= snaps[i].serverCommandNum
                 /\ snaps[i].serverCommandNum <= m.issued
                 /\ snaps[i].issued \in Nat /\ snaps[i].serverCommandNum \in Nat
      <4>1. /\ snaps[i].issued <= snaps[i].serverCommandNum
            /\ snaps[i].serverCommandNum <= clc.serverCommandSequence
        BY DEF IInv, SnapsOK
      <4>2. snaps[i] \in [serverCommandNum : Nat, issued : Nat]
        BY <3>4, ElementOfSeq
      <4> QED
        BY <1>1, <1>3, <4>1, <4>2
    <3>6. CASE snaps' = <<>>
      BY <1>3, <3>2, <3>3, <3>6 DEF SnapsOK
    <3>7. CASE snaps' = Append(snaps, [serverCommandNum |-> clc'.serverCommandSequence,
                                       issued |-> m.issued])
      <4> DEFINE e == [serverCommandNum |-> m.issued, issued |-> m.issued]
      <4>1. snaps' = Append(snaps, e) /\ e \in [serverCommandNum : Nat, issued : Nat]
        BY <1>3, <3>2, <3>7
      <4>2. /\ snaps' \in Seq([serverCommandNum : Nat, issued : Nat])
            /\ Len(snaps') = Len(snaps) + 1 /\ Len(snaps) \in Nat
            /\ \A i \in 1..Len(snaps) : snaps'[i] = snaps[i]
            /\ snaps'[Len(snaps) + 1] = e
        BY <3>4, <4>1, AppendProperties, LenProperties
      <4>3. ASSUME NEW i \in 1..Len(snaps')
            PROVE  /\ snaps'[i].issued <= snaps'[i].serverCommandNum
                   /\ snaps'[i].serverCommandNum <= clc'.serverCommandSequence
        <5>1. CASE i \in 1..Len(snaps)
          BY <3>2, <3>5, <4>2, <5>1
        <5>2. CASE i = Len(snaps) + 1
          BY <1>3, <3>2, <4>2, <5>2
        <5> QED
          BY <4>2, <5>1, <5>2
      <4>4. SnapsOK'
        BY <4>3 DEF SnapsOK
      <4> QED
        BY <1>3, <3>2, <3>3, <4>2, <4>4
    <3> QED
      BY <2>2, <3>6, <3>7 DEF ParseMessage
  <2> QED
    BY <2>1, <2>2 DEF CL_ParseServerMessage
<1> DEFINE s == clc'.serverCommandSequence
<1>5. s \in Nat /\ clc.serverCommandSequence <= s /\ s <= m.issued
  BY <1>1, <1>3, <1>4
<1> HIDE DEF s
<1>6. ToClientOK'
  <2>1. ASSUME NEW o \in toClient'
        PROVE  /\ o \in toClient /\ o.sequence \in 1..svSent
               /\ o.issued \in s..cl.reliableSequence
               /\ o.kind # "cleared" =>
                    \E low \in 0..s : HasCommands(o, low)
    <3>1. o \in toClient /\ o.sequence > m.sequence
      BY <1>2
    <3>2. /\ o.sequence \in 1..svSent
          /\ o.issued \in clc.serverCommandSequence..cl.reliableSequence
          /\ o.kind # "cleared" =>
               \E low \in 0..clc.serverCommandSequence : HasCommands(o, low)
      BY <3>1 DEF IInv, ToClientOK
    <3>3. o.issued >= m.issued
      <4>1. o.sequence >= m.sequence
        BY <1>1, <1>3, <3>1, <3>2
      <4> QED
        BY <3>1, <4>1 DEF IInv, ToClientOK
    <3> QED
      BY <1>1, <1>3, <1>5, <3>1, <3>2, <3>3
  <2>2. \A o, low : HasCommands(o, low) => HasCommands(o, low)'
    BY <1>2 DEF HasCommands
  <2>3. \A o \in toClient', u \in toClient' :
          u.sequence >= o.sequence => u.issued >= o.issued
    BY <2>1 DEF IInv, ToClientOK
  <2> QED
    BY <1>2, <2>1, <2>2, <2>3 DEF ToClientOK, s
<1>7. ToServerOK'
  <2>1. ASSUME NEW o \in toServer
        PROVE  o.reliableAcknowledge \in cl.reliableAcknowledge..s
    <3>1. o.reliableAcknowledge \in cl.reliableAcknowledge..clc.serverCommandSequence
      BY DEF IInv, ToServerOK
    <3> QED
      BY <1>1, <1>5, <3>1
  <2> QED
    BY <1>2, <1>4, <2>1 DEF IInv, ToServerOK, s, Overflown
<1>8. ExecutedOK'
  <2>1. Len(executed) \in Nat
    BY LenProperties DEF IInv, TypeOK
  <2> QED
    BY <1>1, <1>2, <1>5, <2>1 DEF IInv, ExecutedOK, s, Overflown
<1>9. TypeOK'
  BY <1>1, <1>2, <1>3, <1>4, <1>5 DEF IInv, TypeOK, s
<1>10. PendingKept' /\ ServerOK'
  BY <1>2 DEF IInv, PendingKept, ServerOK
<1> QED
  BY <1>4, <1>6, <1>7, <1>8, <1>9, <1>10 DEF IInv

-----------------------------------------------------------------------------
(* The cgame executes what it has not, up to the snapshot's command or to  *)
(* a disconnect before that.                                               *)
LEMMA TransitionFacts ==
  ASSUME IInv, CG_TransitionSnapshot
  PROVE  /\ snaps # <<>> /\ snaps' = Tail(snaps)
         /\ UNCHANGED <<cl, svSent, toClient, toServer>>
         /\ clc' = clc \/ clc' = [clc EXCEPT !.state = "gone"]
         /\ executed' \in Seq(Nat)
         /\ Len(executed') \in Len(executed)..clc.serverCommandSequence
         /\ \A i \in 1..Len(executed') : executed'[i] = i \/ Overflown(cl, i)
         /\ clc'.state = "live" => Len(executed') >= Head(snaps).issued
<1> DEFINE L     == Len(executed)
           n     == Head(snaps).serverCommandNum
           stop  == Stop(n)
           s     == clc.serverCommandSequence
           ring  == clc.serverCommands
           rest  == [i \in 1..stop - L |-> ring[Slot(L + i)]]
<1>1. /\ snaps # <<>> /\ snaps' = Tail(snaps)
      /\ UNCHANGED <<cl, svSent, toClient, toServer>>
  BY DEF CG_TransitionSnapshot, serverVars
<1>2. /\ executed \in Seq(Nat) /\ L \in Nat /\ L <= s /\ s \in Nat
      /\ ring \in [Slots -> Nat] /\ clc \in clientConnection_t
      /\ \A i \in 1..L : executed[i] = i \/ Overflown(cl, i)
  BY LenProperties DEF IInv, TypeOK, ExecutedOK, clientConnection_t
<1>3. n \in Nat /\ n <= s /\ Head(snaps).issued \in Nat /\ Head(snaps).issued <= n
  <2>1. snaps \in Seq([serverCommandNum : Nat, issued : Nat])
    BY DEF IInv, TypeOK
  <2>2. 1 \in 1..Len(snaps) /\ Head(snaps) = snaps[1]
    BY <1>1, <2>1
  <2>3. snaps[1] \in [serverCommandNum : Nat, issued : Nat]
    BY <2>1, <2>2, ElementOfSeq
  <2> QED
    BY <2>2, <2>3 DEF IInv, SnapsOK
<1>4. CASE L + 1 > n /\ UNCHANGED <<executed, clc>>
  BY <1>1, <1>2, <1>3, <1>4
<1>5. CASE clc' = [clc EXCEPT !.state = "gone"] /\ UNCHANGED executed
  <2>1. clc'.state = "gone"
    BY <1>2, <1>5 DEF clientConnection_t
  <2> QED
    BY <1>1, <1>2, <1>5, <2>1
<1>6. CASE /\ L + 1 <= n /\ ~CycledOut(L + 1)
           /\ executed' = executed \o rest
           /\ clc' = IF cl.disconnect \in {executed'[i] : i \in L + 1..stop}
                     THEN [clc EXCEPT !.state = "gone"] ELSE clc
  <2> DEFINE last == {i \in L + 1..n : ring[Slot(i)] # 0 /\ ring[Slot(i)] = cl.disconnect}
  <2>1. stop \in L + 1..n /\ (stop # n => ring[Slot(stop)] = cl.disconnect)
    <3>1. CASE last = {}
      <4>1. stop = n
        BY <3>1 DEF Stop
      <4> QED
        BY <1>2, <1>3, <1>6, <4>1
    <3>2. CASE last # {}
      <4>1. last \subseteq Nat
        BY <1>2, <1>3
      <4>2. \E i \in last : \A j \in last : i <= j
        BY <3>2, <4>1, LeastNat
      <4>3. stop = CHOOSE i \in last : \A j \in last : i <= j
        BY <3>2 DEF Stop
      <4>4. stop \in last
        <5> HIDE DEF last, stop
        <5> QED
          BY <4>2, <4>3
      <4> QED
        BY <4>4
    <3> QED
      BY <3>1, <3>2
  <2>2. stop \in Nat /\ stop - L \in Nat /\ stop <= s
    BY <1>2, <1>3, <2>1
  <2> HIDE DEF stop, last
  <2>3. \A i \in L + 1..stop : Slot(i) \in Slots /\ ring[Slot(i)] \in Nat
    BY <1>2, <2>2, SlotType
  <2>4. rest \in Seq(Nat) /\ Len(rest) = stop - L
    BY <1>2, <2>2, <2>3
  <2>5. \A i \in 1..stop - L : rest[i] = ring[Slot(L + i)]
    OBVIOUS
  <2> HIDE DEF rest
  <2>6. /\ executed' \in Seq(Nat) /\ Len(executed') = stop
        /\ \A i \in 1..stop : executed'[i] = IF i <= L THEN executed[i]
                                             ELSE rest[i - L]
    <3>1. /\ executed \o rest \in Seq(Nat)
          /\ Len(executed \o rest) = L + Len(rest)
          /\ \A i \in 1..L + Len(rest) : (executed \o rest)[i] =
               IF i <= L THEN executed[i] ELSE rest[i - L]
      BY <1>2, <2>4, ConcatProperties, Zenon
    <3>2. L + Len(rest) = stop
      BY <1>2, <2>2, <2>4
    <3>3. executed' = executed \o rest
      BY <1>6
    <3> QED
      BY <3>1, <3>2, <3>3, Zenon
  <2>7. ASSUME NEW i \in 1..stop PROVE executed'[i] = i \/ Overflown(cl, i)
    <3>1. CASE i <= L
      <4>1. executed'[i] = executed[i] /\ i \in 1..L
        BY <1>2, <2>2, <2>6, <3>1
      <4> QED
        BY <1>2, <4>1
    <3>2. CASE i > L
      <4>1. executed'[i] = ring[Slot(i)]
        <5>1. i - L \in 1..stop - L /\ L + (i - L) = i
          BY <1>2, <2>2, <3>2
        <5>2. rest[i - L] = ring[Slot(i)]
          BY <2>5, <5>1
        <5>3. executed'[i] = rest[i - L]
          BY <1>2, <2>2, <2>6, <3>2
        <5> QED
          BY <5>2, <5>3
      <4>2. i \in 0..s /\ i + MAX_RELIABLE_COMMANDS > s
        BY <1>2, <1>6, <2>2, <3>2, RingAssumption DEF CycledOut
      <4> QED
        BY <4>1, <4>2 DEF IInv, ClientOK
    <3> QED
      BY <1>2, <2>2, <3>1, <3>2
  <2>8. ASSUME clc'.state = "live" PROVE stop = n
    <3>1. cl.disconnect \notin {executed'[i] : i \in L + 1..stop}
      BY <1>2, <1>6, <2>8 DEF clientConnection_t
    <3>2. executed'[stop] = ring[Slot(stop)] /\ stop \in L + 1..stop
      <4>1. /\ stop - L \in 1..stop - L /\ L + (stop - L) = stop
            /\ stop \in 1..stop /\ ~(stop <= L) /\ stop \in L + 1..stop
        BY <1>2, <1>3, <2>1, <2>2
      <4>2. rest[stop - L] = ring[Slot(stop)]
        BY <2>5, <4>1
      <4>3. executed'[stop] = rest[stop - L]
        BY <2>6, <4>1
      <4> QED
        BY <4>1, <4>2, <4>3
    <3> QED
      BY <2>1, <3>1, <3>2
  <2>9. clc' = clc \/ clc' = [clc EXCEPT !.state = "gone"]
    BY <1>6
  <2>10. stop \in L..s /\ (stop = n => stop >= Head(snaps).issued)
    BY <1>2, <1>3, <2>1, <2>2
  <2> QED
    BY <1>1, <2>6, <2>7, <2>8, <2>9, <2>10
<1> QED
  BY <1>4, <1>5, <1>6 DEF CG_TransitionSnapshot

(* A waiting snapshot is shown or missed, and commands may be executed.    *)
LEMMA ShowStep ==
  ASSUME IInv, snaps # <<>>, snaps' = Tail(snaps),
         UNCHANGED <<cl, svSent, toClient, toServer>>,
         clc' = clc \/ clc' = [clc EXCEPT !.state = "gone"],
         executed' \in Seq(Nat), Len(executed') <= clc.serverCommandSequence,
         \A i \in 1..Len(executed') : executed'[i] = i \/ Overflown(cl, i)
  PROVE  IInv'
<1>1. /\ clc \in clientConnection_t /\ clc' \in clientConnection_t
      /\ clc'.serverCommandSequence = clc.serverCommandSequence
      /\ clc'.serverCommands = clc.serverCommands /\ clc'.sent = clc.sent
  BY DEF IInv, TypeOK, clientConnection_t
<1>2. SnapsOK' /\ snaps' \in Seq([serverCommandNum : Nat, issued : Nat])
  <2>1. snaps \in Seq([serverCommandNum : Nat, issued : Nat])
    BY DEF IInv, TypeOK
  <2>2. /\ snaps' \in Seq([serverCommandNum : Nat, issued : Nat])
        /\ Len(snaps') = Len(snaps) - 1 /\ Len(snaps) \in Nat
        /\ \A i \in 1..Len(snaps') : snaps'[i] = snaps[i + 1]
    BY <2>1, HeadTailProperties, LenProperties, SMTT(30)
  <2>3. \A i \in 1..Len(snaps') : i + 1 \in 1..Len(snaps)
    BY <2>2
  <2> QED
    BY <1>1, <2>2, <2>3 DEF IInv, SnapsOK
<1>3. ClientOK' /\ ExecutedOK'
  BY <1>1 DEF IInv, ClientOK, ExecutedOK, Overflown
<1>4. TypeOK' /\ PendingKept' /\ ServerOK'
  BY <1>1, <1>2 DEF IInv, TypeOK, PendingKept, ServerOK
<1>5. ToClientOK'
  <2>1. \A m, low : HasCommands(m, low) => HasCommands(m, low)'
    BY DEF HasCommands
  <2> QED
    BY <1>1, <2>1 DEF IInv, ToClientOK
<1>6. ToServerOK'
  BY <1>1 DEF IInv, ToServerOK, Overflown
<1> QED
  BY <1>2, <1>3, <1>4, <1>5, <1>6 DEF IInv

(* The client acknowledges the newest command; it has that one's text.     *)
LEMMA WriteStep ==
  ASSUME IInv, CL_WritePacket
  PROVE  IInv'
<1> DEFINE s == clc.serverCommandSequence
           message == [sequence |-> clc.sent + 1, reliableAcknowledge |-> s,
                       key |-> clc.serverCommands[Slot(s)]]
<1>1. /\ clc \in clientConnection_t /\ s \in Nat /\ clc.sent \in Nat
      /\ clc.serverCommands \in [Slots -> Nat]
      /\ cl.reliableAcknowledge \in Nat /\ cl.reliableAcknowledge <= s
  BY DEF IInv, TypeOK, clientConnection_t, client_t
<1>2. /\ toServer' = toServer \cup {message} /\ clc' = [clc EXCEPT !.sent = @ + 1]
      /\ UNCHANGED <<cl, svSent, snaps, executed, toClient>>
  BY DEF CL_WritePacket, serverVars
<1>3. /\ clc' \in clientConnection_t /\ clc'.sent = clc.sent + 1
      /\ clc'.serverCommandSequence = s /\ clc'.serverCommands = clc.serverCommands
  BY <1>1, <1>2 DEF clientConnection_t
<1>4. message.key \in Nat /\ (message.key = s \/ Overflown(cl, s))
  <2>1. Slot(s) \in Slots /\ s \in 0..s /\ s + MAX_RELIABLE_COMMANDS > s
    BY <1>1, SlotType, RingAssumption
  <2> QED
    BY <1>1, <2>1 DEF IInv, ClientOK
<1>5. ToServerOK'
  <2>1. ASSUME NEW m \in toServer'
        PROVE  /\ m.sequence \in 1..clc'.sent /\ m.key \in Nat
               /\ m.reliableAcknowledge \in cl.reliableAcknowledge..s
               /\ m.key = m.reliableAcknowledge \/ Overflown(cl, m.reliableAcknowledge)
    <3>1. CASE m = message
      BY <1>1, <1>3, <1>4, <3>1
    <3>2. CASE m \in toServer
      BY <1>1, <1>3, <3>2 DEF IInv, ToServerOK
    <3> QED
      BY <1>2, <3>1, <3>2
  <2>2. ASSUME NEW m \in toServer', NEW o \in toServer', o.sequence >= m.sequence
        PROVE  o.reliableAcknowledge >= m.reliableAcknowledge
    <3>1. CASE o = message
      BY <1>1, <2>1, <3>1
    <3>2. CASE o \in toServer /\ m \in toServer
      BY <2>2, <3>2 DEF IInv, ToServerOK
    <3>3. CASE o \in toServer /\ m = message
      <4>1. o.sequence \in 1..clc.sent
        BY <3>3 DEF IInv, ToServerOK
      <4> QED
        BY <1>1, <2>2, <3>3, <4>1
    <3> QED
      BY <1>2, <3>1, <3>2, <3>3
  <2> QED
    BY <1>2, <1>3, <2>1, <2>2 DEF ToServerOK, Overflown
<1>6. TypeOK' /\ PendingKept' /\ ServerOK' /\ ClientOK' /\ SnapsOK' /\ ExecutedOK'
  BY <1>2, <1>3 DEF IInv, TypeOK, PendingKept, ServerOK, ClientOK, SnapsOK,
                    ExecutedOK, Overflown
<1>7. ToClientOK'
  <2>1. \A m, low : HasCommands(m, low) => HasCommands(m, low)'
    BY <1>2 DEF HasCommands
  <2> QED
    BY <1>2, <1>3, <2>1 DEF IInv, ToClientOK
<1> QED
  BY <1>5, <1>6, <1>7 DEF IInv

(* No live client's acknowledgement is out of range, and the server's ring *)
(* still has the command acknowledged if it is not the one a ring behind.  *)
LEMMA AcknowledgementIn ==
  ASSUME IInv, NEW m \in toServer, cl.state # "zombie"
  PROVE  /\ ~OutOfRange(m)
         /\ m.key = m.reliableAcknowledge
         /\ cl.reliableSequence < m.reliableAcknowledge + MAX_RELIABLE_COMMANDS =>
              cl.reliableCommands[Slot(m.reliableAcknowledge)] = m.reliableAcknowledge
<1>1. /\ cl.state = "live" /\ cl.reliableSequence \in Nat
      /\ cl.reliableAcknowledge \in Nat /\ clc.serverCommandSequence \in Nat
      /\ clc.serverCommandSequence <= cl.reliableSequence
  BY DEF IInv, TypeOK, client_t, clientConnection_t
<1>2. /\ m.reliableAcknowledge \in cl.reliableAcknowledge..clc.serverCommandSequence
      /\ m.key = m.reliableAcknowledge \/ Overflown(cl, m.reliableAcknowledge)
  BY DEF IInv, ToServerOK
<1>3. Pending(cl) <= MAX_RELIABLE_COMMANDS /\ cl.overflowed = 0 /\ RingKept(cl)
  BY <1>1 DEF IInv, PendingKept, ServerOK
<1>4. ~OutOfRange(m)
  BY <1>1, <1>2, <1>3, RingAssumption DEF OutOfRange, Pending
<1>5. m.reliableAcknowledge \in 0..cl.reliableSequence
  BY <1>1, <1>2
<1> QED
  BY <1>1, <1>2, <1>3, <1>4, <1>5, RingAssumption DEF RingKept, Overflown

LEMMA ExecuteStep ==
  ASSUME IInv, NEW m \in toServer, SV_ExecuteClientMessage(m)
  PROVE  IInv'
<1> DEFINE a == m.reliableAcknowledge
<1>1. /\ cl \in client_t /\ cl.reliableSequence \in Nat /\ cl.reliableAcknowledge \in Nat
      /\ clc.serverCommandSequence \in Nat /\ clc.sent \in Nat
      /\ clc.serverCommandSequence <= cl.reliableSequence
  BY DEF IInv, TypeOK, client_t, clientConnection_t
<1>2. /\ a \in cl.reliableAcknowledge..clc.serverCommandSequence
      /\ m.sequence \in 1..clc.sent
  BY DEF IInv, ToServerOK
<1>3. /\ toServer' = {o \in toServer : o.sequence > m.sequence}
      /\ UNCHANGED <<svSent, clc, snaps, executed, toClient>>
      /\ cl.state = "zombie" => cl' = cl
  BY DEF SV_ExecuteClientMessage, clientVars
<1>4. /\ cl' \in client_t
      /\ cl'.reliableAcknowledge \in cl.reliableAcknowledge..a
      /\ cl'.reliableSequence = cl.reliableSequence /\ cl'.state = cl.state
      /\ cl'.reliableCommands = cl.reliableCommands /\ cl'.overflowed = cl.overflowed
  <2>1. CASE cl.state = "zombie"
    BY <1>1, <1>2, <1>3, <2>1
  <2>2. CASE cl.state # "zombie"
    <3>1. cl' = [cl EXCEPT !.reliableAcknowledge = a]
      <4>1. ~OutOfRange(m)
        BY <2>2, AcknowledgementIn
      <4>2. cl' = [cl EXCEPT !.reliableAcknowledge =
                     IF OutOfRange(m) THEN cl.reliableSequence ELSE a]
        BY <2>2 DEF SV_ExecuteClientMessage
      <4> QED
        BY <4>1, <4>2
    <3> QED
      BY <1>1, <1>2, <3>1 DEF client_t
  <2> QED
    BY <2>1, <2>2
<1> DEFINE b == cl'.reliableAcknowledge
<1>5. b \in Nat /\ cl.reliableAcknowledge <= b /\ b <= a /\ a \in Nat
  BY <1>1, <1>2, <1>4
<1>6. ToServerOK'
  <2>1. ASSUME NEW o \in toServer'
        PROVE  /\ o \in toServer
               /\ o.reliableAcknowledge \in b..clc.serverCommandSequence
    <3>1. o \in toServer /\ o.sequence > m.sequence
      BY <1>3
    <3>2. /\ o.sequence \in 1..clc.sent
          /\ o.reliableAcknowledge \in cl.reliableAcknowledge..clc.serverCommandSequence
      BY <3>1 DEF IInv, ToServerOK
    <3>3. o.reliableAcknowledge >= a
      <4>1. o.sequence >= m.sequence
        BY <1>1, <1>2, <3>1, <3>2
      <4> QED
        BY <3>1, <4>1 DEF IInv, ToServerOK
    <3> QED
      BY <1>1, <1>2, <1>5, <3>1, <3>2, <3>3
  <2> HIDE DEF b
  <2>2. \A o \in toServer' : /\ o.sequence \in 1..clc'.sent /\ o.key \in Nat
                             /\ o.key = o.reliableAcknowledge
                                  \/ Overflown(cl', o.reliableAcknowledge)
                             /\ \A u \in toServer' : u.sequence >= o.sequence =>
                                  u.reliableAcknowledge >= o.reliableAcknowledge
    BY <1>3, <1>4, <2>1 DEF IInv, ToServerOK, Overflown
  <2> QED
    BY <1>3, <2>1, <2>2 DEF ToServerOK, b
<1>7. TypeOK'
  BY <1>1, <1>2, <1>3, <1>4, <1>5 DEF IInv, TypeOK
<1>8. PendingKept' /\ ServerOK'
  <2>1. ServerOK'
    BY <1>4 DEF IInv, ServerOK, RingKept, Overflown
  <2>2. cl.state = "live" => Pending(cl) <= MAX_RELIABLE_COMMANDS
    BY DEF IInv, PendingKept
  <2>3. cl.state = "live" => Pending(cl') <= MAX_RELIABLE_COMMANDS
    BY <1>1, <1>4, <1>5, <2>2, RingAssumption DEF Pending
  <2>4. \A n \in b + 1..cl.reliableSequence :
          n \in cl.reliableAcknowledge + 1..cl.reliableSequence
    BY <1>1, <1>5
  <2> QED
    BY <1>4, <2>1, <2>3, <2>4 DEF IInv, PendingKept
<1>9. ClientOK' /\ SnapsOK' /\ ExecutedOK'
  BY <1>3, <1>4 DEF IInv, ClientOK, SnapsOK, ExecutedOK, Overflown
<1>10. ToClientOK'
  <2>1. \A o, low : HasCommands(o, low) => HasCommands(o, low)'
    BY <1>4 DEF HasCommands, Overflown
  <2> QED
    BY <1>3, <1>4, <2>1 DEF IInv, ToClientOK
<1> QED
  BY <1>6, <1>7, <1>8, <1>9, <1>10 DEF IInv

-----------------------------------------------------------------------------
LEMMA InitInvariant == ASSUME Init PROVE IInv
<1>1. /\ EmptyRing \in [Slots -> Nat] /\ \A i \in Slots : EmptyRing[i] = 0
      /\ Slot(0) = 0 /\ 0 \in Slots
  BY RingAssumption DEF EmptyRing, Slots, Slot
<1>2. cl \in client_t /\ clc \in clientConnection_t
  BY <1>1 DEF Init, client_t, clientConnection_t
<1>3. TypeOK
  BY <1>2 DEF Init, TypeOK
<1>4. PendingKept /\ ServerOK /\ ClientOK
  BY <1>1, RingAssumption DEF Init, PendingKept, Pending, ServerOK, RingKept, ClientOK
<1>5. ToClientOK /\ ToServerOK /\ SnapsOK /\ ExecutedOK
  BY DEF Init, ToClientOK, ToServerOK, SnapsOK, ExecutedOK
<1> QED
  BY <1>3, <1>4, <1>5 DEF IInv

(* No step of server, client or cgame loses what either ring must keep.    *)
THEOREM CommandsInvariance == Spec => []IInv
<1>1. Init => IInv
  BY InitInvariant
<1>2. IInv /\ [Next]_vars => IInv'
  <2> SUFFICES ASSUME IInv, [Next]_vars PROVE IInv'
    OBVIOUS
  <2>1. CASE SV_AddServerCommand
    <3>1. PICK k \in {0, 1} : cl' = Add(cl, k, FALSE)
      BY <2>1 DEF SV_AddServerCommand
    <3>2. Later(cl, Add(cl, k, FALSE))
      BY ServerGood, AddLater, Zenon
    <3>3. Later(cl, cl')
      BY <3>1, <3>2, Zenon
    <3> QED
      BY <2>1, <3>3, ServerStep DEF SV_AddServerCommand
  <2>2. CASE SV_DropClient
    <3>1. Later(cl, cl')
      BY <2>2, ServerGood, DropLater DEF SV_DropClient
    <3> QED
      BY <2>2, <3>1, ServerStep DEF SV_DropClient
  <2>3. CASE SV_SendClientSnapshot
    BY <2>3, SendStep DEF SV_SendClientSnapshot
  <2>4. CASE SV_SendClientGameState
    BY <2>4, SendStep DEF SV_SendClientGameState
  <2>5. ASSUME NEW m \in toClient, CL_ParseServerMessage(m) PROVE IInv'
    BY <2>5, ParseStep
  <2>6. CASE CG_TransitionSnapshot
    <3>1. Len(executed) \in Nat /\ clc.serverCommandSequence \in Nat
      BY LenProperties DEF IInv, TypeOK, clientConnection_t
    <3> QED
      BY <2>6, <3>1, TransitionFacts, ShowStep
  <2>7. CASE CG_MissSnapshot
    <3>1. /\ snaps # <<>> /\ snaps' = Tail(snaps)
          /\ UNCHANGED <<cl, svSent, toClient, toServer, clc, executed>>
      BY <2>7 DEF CG_MissSnapshot, serverVars
    <3>2. /\ executed' \in Seq(Nat) /\ Len(executed') <= clc.serverCommandSequence
          /\ \A i \in 1..Len(executed') : executed'[i] = i \/ Overflown(cl, i)
      BY <3>1 DEF IInv, TypeOK, ExecutedOK
    <3> QED
      BY <3>1, <3>2, ShowStep
  <2>8. CASE CL_WritePacket
    BY <2>8, WriteStep
  <2>9. ASSUME NEW m \in toServer, SV_ExecuteClientMessage(m) PROVE IInv'
    BY <2>9, ExecuteStep
  <2>10. CASE UNCHANGED vars
    <3>1. UNCHANGED <<cl, svSent, clc, snaps, executed, toClient, toServer>>
      BY <2>10 DEF vars, serverVars, clientVars
    <3>2. \A m, low : HasCommands(m, low) => HasCommands(m, low)'
      BY <3>1 DEF HasCommands
    <3> QED
      BY <3>1, <3>2 DEF IInv, TypeOK, PendingKept, ServerOK, ClientOK, ToClientOK,
                        ToServerOK, SnapsOK, ExecutedOK, Overflown
  <2> QED
    BY <2>1, <2>2, <2>3, <2>4, <2>5, <2>6, <2>7, <2>8, <2>9, <2>10 DEF Next
<1> QED
  BY <1>1, <1>2, PTL DEF Spec

(* Every command a live client has not acknowledged is still in the ring,  *)
(* under its own number.                                                   *)
THEOREM CommandsKept == Spec => []PendingKept
<1>1. IInv => PendingKept
  BY DEF IInv
<1> QED
  BY <1>1, CommandsInvariance, PTL

(* When the cgame moves to a snapshot it has executed every command issued *)
(* before the server built it.                                             *)
THEOREM CommandsFirst == Spec => CommandsBeforeSnapshot
<1>1. IInv /\ [Next]_vars =>
        [CG_TransitionSnapshot /\ clc'.state = "live" =>
           Len(executed') >= Head(snaps).issued]_vars
  BY TransitionFacts
<1> QED
  BY <1>1, CommandsInvariance, PTL DEF Spec, CommandsBeforeSnapshot

(* Client and server take the same command into the key of a move.         *)
THEOREM KeysAgree == Spec => KeysAgreeBelowLimit
<1>1. IInv /\ [Next]_vars =>
        [\A m \in toServer :
           SV_ExecuteClientMessage(m) /\ cl.state = "live"
             /\ cl.reliableSequence < m.reliableAcknowledge + MAX_RELIABLE_COMMANDS
           => keys'.client = keys'.server]_vars
  <2> SUFFICES ASSUME IInv, NEW m \in toServer, SV_ExecuteClientMessage(m),
                      cl.state = "live",
                      cl.reliableSequence < m.reliableAcknowledge + MAX_RELIABLE_COMMANDS
               PROVE  keys'.client = keys'.server
    OBVIOUS
  <2>1. /\ ~OutOfRange(m) /\ m.key = m.reliableAcknowledge
        /\ cl.reliableCommands[Slot(m.reliableAcknowledge)] = m.reliableAcknowledge
    BY AcknowledgementIn
  <2>2. keys' = [client |-> m.key,
                 server |-> cl.reliableCommands[Slot(m.reliableAcknowledge)]]
    BY <2>1 DEF SV_ExecuteClientMessage
  <2> QED
    BY <2>1, <2>2
<1> QED
  BY <1>1, CommandsInvariance, PTL DEF Spec, KeysAgreeBelowLimit

-----------------------------------------------------------------------------
(* But for the command that overflowed the cgame has executed 1, 2, 3, ... *)
LEMMA AsIssuedIs ==
  ASSUME IInv PROVE AsIssued = [i \in 1..Len(executed) |-> i] /\ Len(executed) \in Nat
<1>1. DOMAIN executed = 1..Len(executed) /\ Len(executed) \in Nat
  BY LenProperties DEF IInv, TypeOK
<1>2. \A i \in 1..Len(executed) : i = cl.overflowed \/ executed[i] = i
  BY DEF IInv, ExecutedOK, Overflown
<1> QED
  BY <1>1, <1>2 DEF AsIssued

(* Commands are issued by the server and executed by the cgame. *)
LEMMA IssueOrExecute ==
  ASSUME IInv, [Next]_vars
  PROVE  \/ CG_TransitionSnapshot
         \/ UNCHANGED executed /\ cl.reliableSequence <= cl'.reliableSequence
<1>1. cl.reliableSequence \in Nat /\ cl \in client_t
  BY DEF IInv, TypeOK, client_t
<1>2. CASE SV_AddServerCommand
  <2>1. PICK k \in {0, 1} : cl' = Add(cl, k, FALSE)
    BY <1>2 DEF SV_AddServerCommand
  <2>2. Later(cl, Add(cl, k, FALSE))
    BY ServerGood, AddLater, Zenon
  <2>3. Later(cl, cl')
    BY <2>1, <2>2, Zenon
  <2> QED
    BY <1>2, <2>3 DEF SV_AddServerCommand, clientVars, Later
<1>3. CASE SV_DropClient
  BY <1>3, ServerGood, DropLater DEF SV_DropClient, clientVars, Later
<1>4. CASE SV_SendClientSnapshot \/ SV_SendClientGameState
  BY <1>1, <1>4
     DEF SV_SendClientSnapshot, SV_SendClientGameState, SendToClient, clientVars
<1>5. ASSUME NEW m \in toClient, CL_ParseServerMessage(m)
      PROVE  UNCHANGED executed /\ cl.reliableSequence <= cl'.reliableSequence
  BY <1>1, <1>5 DEF CL_ParseServerMessage, serverVars
<1>6. CASE CG_MissSnapshot \/ CL_WritePacket \/ UNCHANGED vars
  BY <1>1, <1>6 DEF CG_MissSnapshot, CL_WritePacket, vars, serverVars, clientVars
<1>7. ASSUME NEW m \in toServer, SV_ExecuteClientMessage(m)
      PROVE  UNCHANGED executed /\ cl.reliableSequence <= cl'.reliableSequence
  BY <1>1, <1>7 DEF SV_ExecuteClientMessage, clientVars, client_t
<1> QED
  BY <1>2, <1>3, <1>4, <1>5, <1>6, <1>7 DEF Next

(* What the cgame executes is the stream the server issued. *)
THEOREM CommandsRefineStream == Spec => StreamSpec
<1>1. Init => Stream!Init
  <2> SUFFICES ASSUME Init PROVE Stream!Init
    OBVIOUS
  <2>1. cl.reliableSequence = 0 /\ executed = <<>>
    BY DEF Init
  <2>2. AsIssued = <<>>
    BY <2>1 DEF AsIssued
  <2> QED
    BY <2>1, <2>2 DEF Stream!Init
<1>2. IInv' => (AsIssued = [i \in 1..Len(executed) |-> i] /\ Len(executed) \in Nat)'
  <2>1. IInv => AsIssued = [i \in 1..Len(executed) |-> i] /\ Len(executed) \in Nat
    BY AsIssuedIs
  <2> QED
    BY <2>1, PTL
<1>3. IInv /\ IInv' /\ [Next]_vars => [Stream!Next]_Stream!vars
  <2> SUFFICES ASSUME IInv, IInv', [Next]_vars PROVE [Stream!Next]_Stream!vars
    OBVIOUS
  <2> PICK s, s2, l, l2 :
        /\ s = cl.reliableSequence /\ s2 = cl.reliableSequence'
        /\ l = Len(executed) /\ l2 = Len(executed')
    OBVIOUS
  <2>1. s \in Nat /\ s2 \in Nat
    BY DEF IInv, TypeOK, client_t
  <2>2. /\ AsIssued = [i \in 1..l |-> i] /\ AsIssued' = [i \in 1..l2 |-> i]
        /\ l \in Nat /\ l2 \in Nat
    BY <1>2, AsIssuedIs
  <2>3. Len(AsIssued) = l
    BY <2>2
  <2>4. CASE l2 = l /\ s <= s2
    <3>1. UNCHANGED AsIssued
      BY <2>2, <2>4
    <3>2. CASE s2 > s
      <4>1. s2 = s + (s2 - s)
        BY <2>1
      <4> QED
        BY <3>1, <3>2, <4>1 DEF Stream!Next, Stream!Issue
    <3>3. CASE s2 = s
      BY <3>1, <3>3 DEF Stream!vars
    <3> QED
      BY <2>1, <2>4, <3>2, <3>3
  <2>5. CASE s2 = s /\ l <= l2 /\ l2 <= s
    <3>1. CASE l2 = l
      BY <2>1, <2>4, <2>5, <3>1
    <3>2. CASE l2 # l
      <4>1. l2 \in 1..s /\ l2 > l
        BY <2>1, <2>2, <2>5, <3>2
      <4> QED
        BY <2>2, <2>3, <2>5, <4>1 DEF Stream!Next, Stream!Execute
    <3> QED
      BY <3>1, <3>2
  <2>6. CASE CG_TransitionSnapshot
    <3>1. UNCHANGED cl /\ l2 \in l..clc.serverCommandSequence
      BY <2>6, TransitionFacts
    <3>2. clc.serverCommandSequence \in Nat /\ clc.serverCommandSequence <= s
      BY DEF IInv, TypeOK, clientConnection_t
    <3>3. s2 = s /\ l <= l2 /\ l2 <= s
      BY <2>1, <2>2, <3>1, <3>2
    <3> QED
      BY <2>5, <3>3
  <2>7. CASE UNCHANGED executed /\ cl.reliableSequence <= cl'.reliableSequence
    BY <2>4, <2>7
  <2> QED
    BY <2>6, <2>7, IssueOrExecute
<1> QED
  BY <1>1, <1>3, CommandsInvariance, PTL DEF Spec, StreamSpec, Stream!Spec

=============================================================================
