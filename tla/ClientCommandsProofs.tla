------------------------ MODULE ClientCommandsProofs ------------------------
(***************************************************************************)
(* The client's commands are never lost, for every size of the ring and    *)
(* any number of commands and messages, and the server executes them as    *)
(* ReliableStream says.                                                    *)
(***************************************************************************)
EXTENDS ClientCommands, FiniteSetTheorems, SequenceTheorems, TLAPS

(* Numbers less than M apart differ modulo M. *)
LEMMA ModDiffers ==
  ASSUME NEW M \in Nat \ {0}, NEW n \in Nat, NEW k \in Nat, n < k, k < n + M
  PROVE  n % M # k % M
<1> DEFINE turns == (k \div M) - (n \div M)
<1> SUFFICES ASSUME n % M = k % M PROVE FALSE
  OBVIOUS
<1>1. /\ n = M * (n \div M) + (n % M) /\ k = M * (k \div M) + (k % M)
      /\ n \div M \in Int /\ k \div M \in Int
  OBVIOUS
<1>2. turns \in Int /\ k - n = M * turns
  BY <1>1
<1>3. turns >= 1
  BY <1>2
<1> HIDE DEF turns
<1>4. M * turns >= M
  BY <1>2, <1>3
<1> QED
  BY <1>2, <1>4

LEMMA SlotType == ASSUME NEW n \in Nat PROVE Slot(n) \in Slots
  BY RingAssumption DEF Slot, Slots

LEMMA SlotsDiffer ==
  ASSUME NEW n \in Nat, NEW k \in Nat, n < k, k < n + MAX_RELIABLE_COMMANDS
  PROVE  Slot(n) # Slot(k)
  BY RingAssumption, ModDiffers DEF Slot

(* A command is put in its own slot, over the one a ring before it. *)
LEMMA PutKeeps ==
  ASSUME NEW c \in clientConnection_t, NEW text \in Text,
         \A n \in 0..c.reliableSequence :
           n + MAX_RELIABLE_COMMANDS > c.reliableSequence =>
             c.reliableCommands[Slot(n)] = n
  PROVE  LET p == Put(c, text)
             s == c.reliableSequence
         IN  /\ p \in clientConnection_t
             /\ p.reliableSequence = s + 1 /\ p.state = c.state
             /\ p.reliableAcknowledge = c.reliableAcknowledge /\ p.sent = c.sent
             /\ p.reliableCommands[Slot(s + 1)] = text
             /\ \A n \in 0..s : n + MAX_RELIABLE_COMMANDS > s + 1 =>
                  p.reliableCommands[Slot(n)] = n
             /\ \A n \in 0..s : n + MAX_RELIABLE_COMMANDS > s =>
                  p.reliableCommands[Slot(n)] \in {n, text}
<1> DEFINE p == Put(c, text)
           s == c.reliableSequence
<1>1. s \in Nat /\ Slot(s + 1) \in Slots /\ \A n \in 0..s : Slot(n) \in Slots
  BY SlotType DEF clientConnection_t
<1> DEFINE q == [c EXCEPT !.reliableSequence = s + 1]
<1>2. /\ q \in clientConnection_t /\ q.reliableCommands = c.reliableCommands
      /\ q.reliableSequence = s + 1 /\ q.state = c.state
      /\ q.reliableAcknowledge = c.reliableAcknowledge /\ q.sent = c.sent
  BY <1>1 DEF clientConnection_t
<1>3. p = [q EXCEPT !.reliableCommands[Slot(s + 1)] = text]
  BY DEF Put
<1> HIDE DEF p, q
<1>4. /\ p.reliableCommands = [c.reliableCommands EXCEPT ![Slot(s + 1)] = text]
      /\ p = [q EXCEPT !.reliableCommands = p.reliableCommands]
  BY <1>2, <1>3 DEF clientConnection_t
<1>5. \A i \in Slots : p.reliableCommands[i] =
                         IF i = Slot(s + 1) THEN text ELSE c.reliableCommands[i]
  BY <1>4 DEF clientConnection_t
<1>6. ASSUME NEW n \in 0..s, n + MAX_RELIABLE_COMMANDS > s + 1
      PROVE  p.reliableCommands[Slot(n)] = n
  <2>1. Slot(n) # Slot(s + 1)
    BY <1>1, <1>6, SlotsDiffer, RingAssumption
  <2> QED
    BY <1>1, <1>5, <1>6, <2>1, RingAssumption
<1>7. ASSUME NEW n \in 0..s, n + MAX_RELIABLE_COMMANDS > s
      PROVE  p.reliableCommands[Slot(n)] \in {n, text}
  BY <1>1, <1>5, <1>7
<1>8. p \in clientConnection_t
  <2>1. p.reliableCommands \in [Slots -> Text]
    BY <1>1, <1>4 DEF clientConnection_t
  <2> QED
    BY <1>2, <1>4, <2>1 DEF clientConnection_t
<1>9. /\ p.reliableSequence = s + 1 /\ p.state = c.state
      /\ p.reliableAcknowledge = c.reliableAcknowledge /\ p.sent = c.sent
  BY <1>2, <1>4 DEF clientConnection_t
<1> QED
  BY <1>5, <1>1, <1>6, <1>7, <1>8, <1>9 DEF p

(* A step that issues no command keeps the messages on their way to the    *)
(* server as they are.                                                     *)
LEMMA HasCommandsStill ==
  ASSUME NEW m, NEW low \in Int, NEW high \in Nat, HasCommands(m, low, high),
         cl.lastClientCommand \in Nat, cl.lastClientCommand' \in Nat,
         cl.lastClientCommand <= cl.lastClientCommand',
         clc.state = "error" => clc.state' = "error",
         clc.state' = "connected" => clc.state = "connected"
  PROVE  HasCommands(m, low, high)'
  BY DEF HasCommands

LEMMA ToServerKept ==
  ASSUME ToServerOK, toServer' \subseteq toServer,
         clc.reliableSequence \in Nat, clc.reliableSequence' \in Nat,
         clc.reliableSequence <= clc.reliableSequence',
         cl.lastClientCommand \in Nat, cl.lastClientCommand' \in Nat,
         cl.lastClientCommand <= cl.lastClientCommand',
         clc.state = "error" => clc.state' = "error",
         clc.state' = "connected" => clc.state = "connected"
  PROVE  ToServerOK'
<1> SUFFICES ASSUME NEW m \in toServer'
             PROVE  \E low \in -1..clc.reliableSequence',
                       high \in 0..clc.reliableSequence' :
                      HasCommands(m, low, high)'
  BY DEF ToServerOK
<1>1. PICK low \in -1..clc.reliableSequence, high \in 0..clc.reliableSequence :
        HasCommands(m, low, high)
  BY DEF ToServerOK
<1>2. HasCommands(m, low, high)'
  BY <1>1, HasCommandsStill
<1> QED
  BY <1>1, <1>2

(* A step that makes no message for the client keeps those to come. *)
LEMMA ToClientKept ==
  ASSUME ToClientOK, ToCome' \subseteq ToCome,
         cl.lastClientCommand \in Nat, cl.lastClientCommand' \in Nat,
         cl.lastClientCommand <= cl.lastClientCommand',
         clc.state' = "connected" =>
           /\ clc.state = "connected"
           /\ \A m \in ToCome' : m.reliableAcknowledge # Cleared =>
                clc.reliableAcknowledge' <= m.reliableAcknowledge
  PROVE  ToClientOK'
  BY DEF ToClientOK, Cleared

-----------------------------------------------------------------------------
(* The client says goodbye, from c: it is connected, but may have been     *)
(* misled about what the server has acknowledged.                          *)
LEMMA CloseStep ==
  ASSUME IInv, clc.state = "connected",
         NEW c \in clientConnection_t,
         c.reliableSequence = clc.reliableSequence, c.sent = clc.sent,
         c.reliableCommands = clc.reliableCommands,
         c.reliableAcknowledge <= clc.reliableSequence,
         Unacknowledged(c) <= MAX_RELIABLE_COMMANDS,
         NEW state \in {"disconnected", "error"},
         state = "error" \/ c.reliableAcknowledge <= cl.lastClientCommand,
         CloseConnection(c, state), toClient' \subseteq toClient,
         UNCHANGED <<cl, queue, svSent, executed>>
  PROVE  IInv'
<1>0. PICK s : s = clc.reliableSequence
  OBVIOUS
<1> DEFINE a      == c.reliableAcknowledge
           last   == AddDisconnect(c)
           new(i) == ClientMessage([last EXCEPT !.sent = @ + i])
<1>1. /\ s \in Nat /\ a \in Nat \cup {-1} /\ clc.sent \in Nat
      /\ s - a <= MAX_RELIABLE_COMMANDS /\ a <= s
      /\ cl.lastClientCommand \in Nat /\ cl.lastClientCommand <= s
      /\ clc \in clientConnection_t
  BY <1>0 DEF IInv, TypeOK, clientConnection_t, Unacknowledged, Cleared
<1>2. /\ last \in clientConnection_t
      /\ last.reliableSequence = s + 1 /\ last.reliableAcknowledge = a
      /\ last.sent = clc.sent
      /\ last.reliableCommands[Slot(s + 1)] = Disconnect
      /\ \A n \in 0..s : n + MAX_RELIABLE_COMMANDS > s + 1 =>
           last.reliableCommands[Slot(n)] = n
      /\ \A n \in 0..s : n + MAX_RELIABLE_COMMANDS > s =>
           last.reliableCommands[Slot(n)] \in {n, Disconnect}
  <2>1. last = Put(c, Disconnect)
    BY <1>0, <1>1, RingAssumption DEF AddDisconnect, Unacknowledged
  <2>2. \A n \in 0..c.reliableSequence :
          n + MAX_RELIABLE_COMMANDS > c.reliableSequence =>
            c.reliableCommands[Slot(n)] = n
    BY DEF IInv, RingKept
  <2>3. Disconnect \in Text
    BY DEF Text
  <2> HIDE DEF last
  <2> QED
    BY <1>0, <2>1, <2>2, <2>3, PutKeeps
<1>3. /\ toServer' = toServer \cup {new(i) : i \in 0..2}
      /\ clc' = [last EXCEPT !.state = state, !.sent = @ + 3]
  BY DEF CloseConnection
<1> HIDE DEF last
<1>4. /\ clc' \in clientConnection_t /\ clc'.state = state
      /\ clc'.sent = clc.sent + 3 /\ clc'.reliableSequence = s + 1
  <2> DEFINE half == [last EXCEPT !.state = state]
  <2>1. /\ half \in clientConnection_t /\ half.sent = clc.sent
        /\ half.state = state /\ half.reliableSequence = s + 1
    BY <1>2 DEF clientConnection_t
  <2>2. clc' = [half EXCEPT !.sent = @ + 3]
    BY <1>3
  <2> HIDE DEF half
  <2> QED
    BY <1>1, <2>1, <2>2 DEF clientConnection_t
<1>5. ASSUME NEW i \in 0..2, NEW m, m = new(i)
      PROVE  /\ m.sequence \in 1..clc'.sent
             /\ HasCommands(m, a, s + 1)'
  <2>1. /\ m.sequence = clc.sent + i + 1
        /\ m.commands =
             [n \in a + 1..s + 1 |-> last.reliableCommands[Slot(n)]]
    BY <1>1, <1>2, <1>5 DEF ClientMessage, clientConnection_t
  <2>2. ASSUME NEW n \in 1..s + 1, n > a
        PROVE  \/ m.commands[n] = n
               \/ m.commands[n] = Disconnect /\ n \in {a + 1, s + 1}
    <3>1. n \in a + 1..s + 1 /\ m.commands[n] = last.reliableCommands[Slot(n)]
      BY <1>1, <2>1, <2>2
    <3>2. CASE n = s + 1
      BY <1>2, <3>1, <3>2
    <3>3. CASE n # s + 1 /\ n + MAX_RELIABLE_COMMANDS > s + 1
      BY <1>1, <1>2, <3>1, <3>3
    <3>4. CASE n # s + 1 /\ ~(n + MAX_RELIABLE_COMMANDS > s + 1)
      <4>1. n = a + 1 /\ n \in 0..s /\ n + MAX_RELIABLE_COMMANDS > s
        BY <1>1, <2>2, <3>4, RingAssumption
      <4> QED
        BY <1>2, <3>1, <4>1
    <3> QED
      BY <3>2, <3>3, <3>4
  <2>3. a <= cl'.lastClientCommand \/ clc'.state = "error"
    BY <1>4
  <2>4. DOMAIN m.commands = a + 1..s + 1
    BY <2>1
  <2>5. m.sequence \in 1..clc'.sent
    <3>1. PICK sent \in Nat : sent = clc.sent
      BY <1>1
    <3>2. m.sequence = sent + i + 1 /\ clc'.sent = sent + 3
      BY <1>4, <2>1, <3>1
    <3>3. sent + i + 1 \in 1..sent + 3
      OBVIOUS
    <3> QED
      BY <3>2, <3>3
  <2>6. clc'.state # "connected"
    BY <1>4
  <2>7. HasCommands(m, a, s + 1)'
    BY <2>2, <2>3, <2>4, <2>6, SMTT(30) DEF HasCommands
  <2> QED
    BY <2>5, <2>7
<1>6. ToServerOK'
  <2> SUFFICES ASSUME NEW m \in toServer'
               PROVE  \E low \in -1..s + 1, high \in 0..s + 1 :
                        HasCommands(m, low, high)'
    BY <1>4 DEF ToServerOK
  <2>1. CASE m \in toServer
    <3>1. PICK low \in -1..s, high \in 0..s : HasCommands(m, low, high)
      BY <1>0, <2>1 DEF IInv, ToServerOK
    <3>2. HasCommands(m, low, high)'
      BY <1>1, <1>4, <3>1, HasCommandsStill
    <3> QED
      BY <1>1, <3>1, <3>2
  <2>2. CASE m \notin toServer
    <3>1. PICK i \in 0..2 : m = new(i)
      BY <1>3, <2>2
    <3>2. a \in -1..s + 1 /\ s + 1 \in 0..s + 1
      BY <1>1
    <3> QED
      BY <1>5, <3>1, <3>2
  <2> QED
    BY <2>1, <2>2
<1>7. TypeOK'
  <2>1. ASSUME NEW m \in toServer' PROVE m.sequence \in 1..clc'.sent
    <3>1. CASE m \in toServer
      <4>1. m.sequence \in 1..clc.sent
        BY <3>1 DEF IInv, TypeOK
      <4> QED
        BY <1>1, <1>4, <4>1
    <3>2. CASE \E i \in 0..2 : m = new(i)
      BY <1>5, <3>2
    <3> QED
      BY <1>3, <3>1, <3>2
  <2> QED
    BY <1>1, <1>4, <2>1 DEF IInv, TypeOK
<1>8. ToClientOK'
  <2>1. ToCome' \subseteq ToCome
    BY DEF ToCome
  <2> QED
    BY <1>1, <1>4, <2>1, ToClientKept DEF IInv
<1>9. PendingKept' /\ RingKept' /\ ExecutedOK' /\ NeverLost'
  BY <1>4 DEF IInv, PendingKept, RingKept, ExecutedOK, NeverLost
<1> QED
  BY <1>6, <1>7, <1>8, <1>9 DEF IInv

LEMMA DisconnectStep == ASSUME IInv, CL_Disconnect PROVE IInv'
<1>1. /\ clc \in clientConnection_t /\ clc.reliableAcknowledge <= clc.reliableSequence
      /\ clc.reliableAcknowledge <= cl.lastClientCommand
      /\ Unacknowledged(clc) <= MAX_RELIABLE_COMMANDS
  BY DEF IInv, TypeOK, clientConnection_t, PendingKept, CL_Disconnect
<1>2. clc.state = "connected" /\ CloseConnection(clc, "disconnected")
      /\ UNCHANGED <<cl, queue, svSent, toClient, executed>>
  BY DEF CL_Disconnect
<1> QED
  BY <1>1, <1>2, CloseStep

LEMMA AddStep == ASSUME IInv, CL_AddReliableCommand PROVE IInv'
<1>0. PICK s : s = clc.reliableSequence
  OBVIOUS
<1>1. /\ clc \in clientConnection_t /\ clc.state = "connected"
      /\ s \in Nat /\ clc.reliableAcknowledge \in 0..cl.lastClientCommand
      /\ cl.lastClientCommand \in Nat /\ cl.lastClientCommand <= s
      /\ Unacknowledged(clc) <= MAX_RELIABLE_COMMANDS
      /\ UNCHANGED <<cl, queue, svSent, toClient, executed>>
  BY <1>0 DEF IInv, TypeOK, clientConnection_t, PendingKept, CL_AddReliableCommand
<1>2. CASE CloseConnection(clc, "disconnected")
  BY <1>0, <1>1, <1>2, CloseStep
<1>3. CASE /\ Unacknowledged(clc) < MAX_RELIABLE_COMMANDS
           /\ clc' = Put(clc, s + 1) /\ UNCHANGED toServer
  <2>1. /\ clc' \in clientConnection_t
        /\ clc'.reliableSequence = s + 1 /\ clc'.state = "connected"
        /\ clc'.reliableAcknowledge = clc.reliableAcknowledge
        /\ clc'.sent = clc.sent
        /\ clc'.reliableCommands[Slot(s + 1)] = s + 1
        /\ \A n \in 0..s : n + MAX_RELIABLE_COMMANDS > s + 1 =>
             clc'.reliableCommands[Slot(n)] = n
    BY <1>0, <1>1, <1>3, PutKeeps DEF IInv, RingKept, Text
  <2>2. TypeOK'
    BY <1>0, <1>1, <1>3, <2>1 DEF IInv, TypeOK
  <2>3. RingKept'
    BY <1>1, <2>1 DEF RingKept
  <2>4. PendingKept'
    <3>1. (Unacknowledged(clc) <= MAX_RELIABLE_COMMANDS)'
      BY <1>0, <1>1, <1>3, <2>1, RingAssumption DEF Unacknowledged
    <3>2. ASSUME NEW n \in clc'.reliableAcknowledge + 1..clc'.reliableSequence
          PROVE  clc'.reliableCommands[Slot(n)] = n
      BY <1>0, <1>1, <2>1, <3>1, <3>2, RingAssumption DEF Unacknowledged
    <3> QED
      BY <3>1, <3>2 DEF PendingKept
  <2>5. ToServerOK'
    BY <1>0, <1>1, <1>3, <2>1, ToServerKept DEF IInv
  <2>6. ToClientOK'
    <3>1. ToCome' = ToCome
      BY <1>1 DEF ToCome
    <3>2. \A m \in ToCome : m.reliableAcknowledge # Cleared =>
            clc'.reliableAcknowledge <= m.reliableAcknowledge
      BY <1>1, <2>1 DEF IInv, ToClientOK
    <3> QED
      BY <1>1, <2>1, <3>1, <3>2, ToClientKept DEF IInv
  <2>7. ExecutedOK' /\ NeverLost'
    BY <1>1, <2>1 DEF IInv, ExecutedOK, NeverLost
  <2> QED
    BY <2>2, <2>3, <2>4, <2>5, <2>6, <2>7 DEF IInv
<1> QED
  BY <1>0, <1>2, <1>3 DEF CL_AddReliableCommand

LEMMA WriteStep == ASSUME IInv, CL_WritePacket PROVE IInv'
<1>0. PICK m : m = ClientMessage(clc)
  OBVIOUS
<1>1. /\ clc \in clientConnection_t /\ clc.state = "connected"
      /\ clc.reliableAcknowledge \in 0..cl.lastClientCommand
      /\ cl.lastClientCommand \in Nat
      /\ cl.lastClientCommand <= clc.reliableSequence
      /\ UNCHANGED <<cl, queue, svSent, toClient, executed>>
      /\ toServer' = toServer \cup {m}
      /\ clc' = [clc EXCEPT !.sent = @ + 1]
  BY <1>0 DEF IInv, TypeOK, CL_WritePacket
<1>2. /\ clc' \in clientConnection_t /\ clc'.sent = clc.sent + 1
      /\ clc.sent \in Nat /\ clc.reliableSequence \in Nat
      /\ clc'.reliableSequence = clc.reliableSequence
      /\ clc'.reliableAcknowledge = clc.reliableAcknowledge
      /\ clc'.reliableCommands = clc.reliableCommands /\ clc'.state = clc.state
  BY <1>1 DEF clientConnection_t
<1>3. /\ m.sequence = clc.sent + 1
      /\ m.commands = [n \in clc.reliableAcknowledge + 1..clc.reliableSequence |->
                         clc.reliableCommands[Slot(n)]]
  BY <1>0 DEF ClientMessage
<1>4. TypeOK'
  <2>1. \A o \in toServer' : o.sequence \in 1..clc'.sent
    BY <1>1, <1>2, <1>3 DEF IInv, TypeOK
  <2> QED
    BY <1>1, <1>2, <2>1 DEF IInv, TypeOK
<1>5. PendingKept' /\ RingKept' /\ NeverLost' /\ ExecutedOK'
  BY <1>1, <1>2
  DEF IInv, PendingKept, Unacknowledged, RingKept, NeverLost, ExecutedOK
<1> PICK a, s : a = clc.reliableAcknowledge /\ s = clc.reliableSequence
  OBVIOUS
<1>6. HasCommands(m, a, s)'
  <2>1. \A n \in 1..s : n > a => m.commands[n] = n
    BY <1>1, <1>2, <1>3 DEF IInv, PendingKept
  <2>2. DOMAIN m.commands = a + 1..s
    BY <1>3
  <2>3. a <= cl'.lastClientCommand
    BY <1>1
  <2> QED
    BY <2>1, <2>2, <2>3 DEF HasCommands
<1>7. ToServerOK'
  <2> SUFFICES ASSUME NEW o \in toServer'
               PROVE  \E low \in -1..clc.reliableSequence',
                         high \in 0..clc.reliableSequence' :
                        HasCommands(o, low, high)'
    BY DEF ToServerOK
  <2>1. CASE o \in toServer
    <3>1. PICK low \in -1..clc.reliableSequence, high \in 0..clc.reliableSequence :
            HasCommands(o, low, high)
      BY <2>1 DEF IInv, ToServerOK
    <3> QED
      BY <1>1, <1>2, <3>1, HasCommandsStill
  <2>2. CASE o = m
    <3>1. a \in -1..clc.reliableSequence' /\ s \in 0..clc.reliableSequence'
      BY <1>1, <1>2
    <3> QED
      BY <1>6, <2>2, <3>1
  <2> QED
    BY <1>1, <2>1, <2>2
<1>8. ToClientOK'
  <2>1. ToCome' = ToCome
    BY <1>1 DEF ToCome
  <2>2. \A o \in ToCome : o.reliableAcknowledge # Cleared =>
          clc'.reliableAcknowledge <= o.reliableAcknowledge
    BY <1>1, <1>2 DEF IInv, ToClientOK
  <2> QED
    BY <1>1, <1>2, <2>1, <2>2, ToClientKept DEF IInv
<1> QED
  BY <1>4, <1>5, <1>7, <1>8 DEF IInv

(* The messages that still wait in the queue come after those sent. *)
LEMMA ToComeType ==
  ASSUME TypeOK
  PROVE  /\ \A m \in ToCome : /\ m.sequence \in Nat
                             /\ m.reliableAcknowledge \in Nat \cup {Cleared}
                             /\ m.sequence <= svSent
         /\ \A m \in ToCome : \/ m \in toClient
                             \/ m.sequence > svSent - Len(queue)
<1> SUFFICES ASSUME NEW m \in ToCome
             PROVE  /\ m.sequence \in Nat
                    /\ m.reliableAcknowledge \in Nat \cup {Cleared}
                    /\ m.sequence <= svSent
                    /\ m \in toClient \/ m.sequence > svSent - Len(queue)
  OBVIOUS
<1>1. svSent \in Nat /\ Len(queue) \in Nat /\ Len(queue) <= svSent
  BY LenProperties DEF TypeOK
<1>2. CASE m \in toClient
  BY <1>1, <1>2 DEF TypeOK
<1>3. CASE m \notin toClient
  <2>1. PICK i \in 1..Len(queue) :
          m = [sequence |-> svSent - Len(queue) + i,
               reliableAcknowledge |-> queue[i].reliableAcknowledge,
               key |-> queue[i].clientCommandString]
    BY <1>3 DEF ToCome
  <2>2. queue[i] \in [reliableAcknowledge : Nat \cup {Cleared},
                     clientCommandString : Text]
    BY <1>1, ElementOfSeq DEF TypeOK
  <2> QED
    BY <1>1, <2>1, <2>2
<1> QED
  BY <1>2, <1>3

LEMMA ParseStep ==
  ASSUME IInv, NEW m \in toClient, CL_ParseServerMessage(m) PROVE IInv'
<1> PICK n : n = m.reliableAcknowledge
  OBVIOUS
<1> PICK c : c = [clc EXCEPT !.reliableAcknowledge = Acknowledged(n)]
  OBVIOUS
<1>1. /\ clc \in clientConnection_t /\ clc.state = "connected"
      /\ clc.reliableSequence \in Nat
      /\ clc.reliableAcknowledge \in 0..cl.lastClientCommand
      /\ cl.lastClientCommand \in Nat
      /\ cl.lastClientCommand <= clc.reliableSequence
      /\ n \in Nat \cup {Cleared}
      /\ clc.reliableSequence - clc.reliableAcknowledge <= MAX_RELIABLE_COMMANDS
      /\ UNCHANGED <<cl, queue, svSent, executed>>
      /\ toClient' = {o \in toClient : o.sequence > m.sequence}
  BY DEF IInv, TypeOK, clientConnection_t, PendingKept, Unacknowledged,
         CL_ParseServerMessage
<1>2. Acknowledged(n) \in Nat \cup {Cleared}
  BY <1>1 DEF Acknowledged
<1>3. /\ c \in clientConnection_t /\ c.reliableAcknowledge = Acknowledged(n)
      /\ c.reliableSequence = clc.reliableSequence /\ c.sent = clc.sent
      /\ c.reliableCommands = clc.reliableCommands /\ c.state = "connected"
  BY <1>1, <1>2 DEF clientConnection_t
<1>4. CASE n = Cleared /\ CloseConnection(c, "error")
  <2>1. /\ Acknowledged(n) <= clc.reliableSequence
        /\ clc.reliableSequence - Acknowledged(n) <= MAX_RELIABLE_COMMANDS
    BY <1>1, <1>4, RingAssumption DEF Acknowledged, Cleared
  <2> QED
    BY <1>1, <1>3, <1>4, <2>1, CloseStep DEF Unacknowledged
<1>5. CASE n # Cleared /\ clc' = c /\ UNCHANGED toServer
  <2>1. m \in ToCome /\ n \in clc.reliableAcknowledge..cl.lastClientCommand
    BY <1>1, <1>5 DEF IInv, ToClientOK, ToCome
  <2>2. Acknowledged(n) = n
    BY <1>1, <2>1, RingAssumption DEF Acknowledged
  <2>3. TypeOK'
    BY <1>1, <1>3, <1>5, <2>1, <2>2 DEF IInv, TypeOK
  <2>4. PendingKept'
    BY <1>1, <1>3, <1>5, <2>1, <2>2, RingAssumption
    DEF IInv, PendingKept, Unacknowledged
  <2>5. RingKept' /\ NeverLost' /\ ExecutedOK'
    BY <1>1, <1>3, <1>5 DEF IInv, RingKept, NeverLost, ExecutedOK
  <2>6. ToServerOK'
    BY <1>1, <1>3, <1>5, ToServerKept DEF IInv
  <2>7. ToClientOK'
    <3>1. ToCome' \subseteq ToCome
      BY <1>1 DEF ToCome
    <3>2. \A o \in ToCome' : o.sequence >= m.sequence
      <4>1. m.sequence \in Nat /\ m.sequence <= svSent - Len(queue)
            /\ svSent - Len(queue) \in Nat
        BY LenProperties DEF IInv, TypeOK
      <4>2. ASSUME NEW o \in ToCome' PROVE o.sequence >= m.sequence
        <5>1. o.sequence \in Nat
          BY <3>1, ToComeType DEF IInv
        <5>2. o \in toClient' \/ o.sequence > svSent - Len(queue)
          BY <1>1, <2>3, <4>1, <4>2, ToComeType, LenProperties DEF ToCome
        <5> QED
          BY <1>1, <4>1, <5>1, <5>2
      <4> QED
        BY <4>2
    <3>3. \A o \in ToCome' : o.reliableAcknowledge # Cleared =>
            clc'.reliableAcknowledge <= o.reliableAcknowledge
      BY <1>3, <1>5, <2>1, <2>2, <3>1, <3>2 DEF IInv, ToClientOK
    <3> QED
      BY <1>1, <1>3, <1>5, <3>1, <3>3, ToClientKept DEF IInv
  <2> QED
    BY <2>3, <2>4, <2>5, <2>6, <2>7 DEF IInv
<1> QED
  BY <1>1, <1>4, <1>5 DEF CL_ParseServerMessage

-----------------------------------------------------------------------------
(* The server.  Dropping the client frees what waits in the queue. *)
LEMMA FreeQueue ==
  ASSUME TypeOK, SV_Netchan_FreeQueue, UNCHANGED toClient
  PROVE  /\ svSent' \in Nat /\ Len(queue') <= svSent'
         /\ queue' = <<>> /\ svSent' - Len(queue') = svSent - Len(queue)
         /\ ToCome' \subseteq ToCome
  BY EmptySeq, LenProperties DEF TypeOK, SV_Netchan_FreeQueue, ToCome

LEMMA DropStep == ASSUME IInv, SV_DropClient PROVE IInv'
<1>1. /\ cl \in [state : {"connected", "zombie"}, lastClientCommand : Nat,
                 lastClientCommandString : Text, lost : BOOLEAN]
      /\ cl' = [cl EXCEPT !.state = "zombie"]
      /\ SV_Netchan_FreeQueue
      /\ UNCHANGED <<clc, toServer, toClient, executed>>
      /\ clc.reliableSequence \in Nat
  BY DEF IInv, TypeOK, clientConnection_t, SV_DropClient
<1>2. /\ cl' \in [state : {"connected", "zombie"}, lastClientCommand : Nat,
                  lastClientCommandString : Text, lost : BOOLEAN]
      /\ cl'.lastClientCommand = cl.lastClientCommand
      /\ cl'.lastClientCommandString = cl.lastClientCommandString
      /\ cl'.lost = cl.lost /\ cl.lastClientCommand \in Nat
  BY <1>1
<1>3. /\ svSent' \in Nat /\ Len(queue') <= svSent' /\ queue' = <<>>
      /\ svSent' - Len(queue') = svSent - Len(queue) /\ ToCome' \subseteq ToCome
  BY <1>1, FreeQueue DEF IInv
<1>4. TypeOK'
  BY <1>1, <1>2, <1>3, EmptySeq DEF IInv, TypeOK
<1>5. PendingKept' /\ RingKept' /\ NeverLost' /\ ExecutedOK'
  BY <1>1, <1>2
  DEF IInv, PendingKept, Unacknowledged, RingKept, NeverLost, ExecutedOK
<1>6. ToServerOK'
  BY <1>1, <1>2, ToServerKept DEF IInv
<1>7. ToClientOK'
  <2>1. clc.state = "connected" =>
          \A m \in ToCome' : m.reliableAcknowledge # Cleared =>
            clc'.reliableAcknowledge <= m.reliableAcknowledge
    BY <1>1, <1>3 DEF IInv, ToClientOK
  <2> QED
    BY <1>1, <1>2, <1>3, <2>1, ToClientKept DEF IInv
<1> QED
  BY <1>4, <1>5, <1>6, <1>7 DEF IInv

(* What SV_ClientCommand executes of a message are the next commands, in   *)
(* order, up to the last or to the disconnect.                             *)
LEMMA ExecutableCommands ==
  ASSUME IInv, NEW m \in toServer, ~Gap(m.commands)
  PROVE  \E n \in Nat :
           LET l == cl.lastClientCommand
           IN  /\ l <= n /\ n <= clc.reliableSequence
               /\ Executable(m.commands) = l + 1..n
               /\ Cardinality(Executable(m.commands)) = n - l
               /\ \A i \in l + 1..n :
                    \/ m.commands[i] = i
                    \/ m.commands[i] = Disconnect /\ clc.state # "connected"
<1> PICK l, s : l = cl.lastClientCommand /\ s = clc.reliableSequence
  OBVIOUS
<1>1. l \in Nat /\ s \in Nat /\ l <= s
  BY DEF IInv, TypeOK, clientConnection_t
<1>2. PICK low \in -1..s, high \in 0..s : HasCommands(m, low, high)
  BY DEF IInv, ToServerOK
<1>3. Fresh(m.commands) = {n \in low + 1..high : n > l}
  BY <1>2 DEF Fresh, HasCommands
<1>4. CASE Fresh(m.commands) = {}
  <2>1. Executable(m.commands) = {} /\ l + 1..l = {}
    BY <1>1, <1>4 DEF Executable
  <2>2. Cardinality({}) = l - l
    BY <1>1, FS_EmptySet
  <2> QED
    BY <1>1, <2>1, <2>2
<1>5. CASE Fresh(m.commands) # {}
  <2>1. low <= l /\ l < high
    BY <1>1, <1>2, <1>3, <1>5 DEF Gap, HasCommands
  <2>2. Fresh(m.commands) = l + 1..high
    BY <1>1, <1>2, <1>3, <2>1
  <2>3. \A i \in l + 1..high :
          \/ m.commands[i] = i
          \/ /\ m.commands[i] = Disconnect /\ clc.state # "connected"
             /\ i \in {l + 1, high}
    BY <1>1, <1>2, <2>1 DEF HasCommands
  <2>4. CASE m.commands[l + 1] = Disconnect
    <3>1. Executable(m.commands) = l + 1..l + 1
      BY <1>1, <2>1, <2>2, <2>4 DEF Executable
    <3>2. Cardinality(l + 1..l + 1) = (l + 1) - l
      <4>1. l + 1..l + 1 = {l + 1}
        BY <1>1
      <4>2. Cardinality({l + 1}) = 1
        BY FS_Singleton
      <4> QED
        BY <1>1, <4>1, <4>2
    <3>3. l + 1 \in Nat /\ l <= l + 1 /\ l + 1 <= s
      BY <1>1, <2>1
    <3>4. \A i \in l + 1..l + 1 : i \in l + 1..high
      BY <1>1, <2>1
    <3> QED
      BY <1>1, <2>3, <3>1, <3>2, <3>3, <3>4
  <2>5. CASE m.commands[l + 1] # Disconnect
    <3>1. \A i \in l + 1..high : m.commands[i] = Disconnect => i = high
      BY <1>1, <2>3, <2>5, DisconnectAssumption
    <3>2. Executable(m.commands) = l + 1..high
      BY <1>1, <2>1, <2>2, <3>1 DEF Executable
    <3>3. Cardinality(l + 1..high) = high - l
      BY <1>1, <2>1, FS_Interval
    <3> QED
      BY <1>1, <2>1, <2>3, <3>2, <3>3
  <2> QED
    BY <2>4, <2>5
<1> QED
  BY <1>4, <1>5

LEMMA ExecuteStep ==
  ASSUME IInv, NEW m \in toServer, SV_ExecuteClientMessage(m) PROVE IInv'
<1> DEFINE CL == [state : {"connected", "zombie"}, lastClientCommand : Nat,
                  lastClientCommandString : Text, lost : BOOLEAN]
<1> PICK l : l = cl.lastClientCommand
  OBVIOUS
<1>1. /\ cl \in CL /\ l \in Nat /\ l <= clc.reliableSequence
      /\ clc.reliableSequence \in Nat
      /\ clc.state = "connected" => clc.reliableAcknowledge \in 0..l
      /\ executed \in Seq(Text) /\ Len(executed) = l
  BY DEF IInv, TypeOK, clientConnection_t, ExecutedOK
<1>2. /\ UNCHANGED <<clc, toClient>> /\ toServer' \subseteq toServer
  BY DEF SV_ExecuteClientMessage
(* What is left to show of a step is what it does to the client_t. *)
<1>3. ASSUME cl' \in CL, l <= cl'.lastClientCommand,
             cl'.lastClientCommand <= clc.reliableSequence,
             SV_Netchan_FreeQueue \/ UNCHANGED <<queue, svSent>>,
             NeverLost', ExecutedOK'
      PROVE  IInv'
  <2>1. cl'.lastClientCommand \in Nat
    BY <1>3
  <2>2. /\ svSent' \in Nat /\ Len(queue') <= svSent' /\ Len(queue') \in Nat
        /\ queue' \in Seq([reliableAcknowledge : Nat \cup {Cleared},
                           clientCommandString : Text])
        /\ svSent' - Len(queue') = svSent - Len(queue) /\ ToCome' \subseteq ToCome
    <3>1. CASE SV_Netchan_FreeQueue
      BY <1>2, <3>1, FreeQueue, EmptySeq DEF IInv
    <3>2. CASE UNCHANGED <<queue, svSent>>
      BY <1>2, <3>2, LenProperties DEF IInv, TypeOK, ToCome
    <3> QED
      BY <1>3, <3>1, <3>2
  <2>3. TypeOK'
    BY <1>1, <1>2, <1>3, <2>1, <2>2 DEF IInv, TypeOK
  <2>4. PendingKept' /\ RingKept'
    BY <1>2 DEF IInv, PendingKept, Unacknowledged, RingKept
  <2>5. ToServerOK'
    <3>1. /\ clc.reliableSequence' = clc.reliableSequence
          /\ clc.state' = clc.state /\ cl.lastClientCommand \in Nat
          /\ cl.lastClientCommand <= cl.lastClientCommand'
          /\ cl.lastClientCommand' \in Nat /\ ToServerOK
      BY <1>1, <1>2, <1>3, <2>1 DEF IInv
    <3> QED
      BY <1>1, <1>2, <3>1, ToServerKept
  <2>6. ToClientOK'
    <3>1. clc.state = "connected" =>
            \A o \in ToCome' : o.reliableAcknowledge # Cleared =>
              clc'.reliableAcknowledge <= o.reliableAcknowledge
      BY <1>2, <2>2 DEF IInv, ToClientOK
    <3> QED
      BY <1>1, <1>2, <1>3, <2>1, <2>2, <3>1, ToClientKept DEF IInv
  <2> QED
    BY <1>3, <2>3, <2>4, <2>5, <2>6 DEF IInv
<1>4. CASE UNCHANGED <<cl, executed, queue, svSent>>
  BY <1>1, <1>2, <1>3, <1>4 DEF IInv, NeverLost, ExecutedOK
<1>5. CASE /\ Gap(m.commands) /\ UNCHANGED executed
           /\ cl' = [cl EXCEPT !.state = "zombie", !.lost = TRUE]
           /\ SV_Netchan_FreeQueue
  <2>1. /\ cl' \in CL /\ cl'.lastClientCommand = l
        /\ cl'.lastClientCommandString = cl.lastClientCommandString
    BY <1>1, <1>5
  <2>2. clc.state = "error"
    <3>1. PICK low \in -1..clc.reliableSequence, high \in 0..clc.reliableSequence :
            HasCommands(m, low, high)
      BY DEF IInv, ToServerOK
    <3> QED
      BY <1>1, <1>5, <3>1 DEF Gap, Fresh, HasCommands
  <2>3. NeverLost' /\ ExecutedOK'
    BY <1>1, <1>2, <1>5, <2>1, <2>2 DEF IInv, NeverLost, ExecutedOK
  <2> QED
    BY <1>1, <1>3, <1>5, <2>1, <2>3
<1>6. CASE ~Gap(m.commands) /\ SV_ClientCommands(m.commands)
  <2>1. PICK n \in Nat :
          /\ l <= n /\ n <= clc.reliableSequence
          /\ Cardinality(Executable(m.commands)) = n - l
          /\ \A i \in l + 1..n :
               \/ m.commands[i] = i
               \/ m.commands[i] = Disconnect /\ clc.state # "connected"
    BY <1>6, ExecutableCommands
  <2>2. /\ n = l + Cardinality(Executable(m.commands))
        /\ \A i \in l + 1..n : m.commands[i] \in Text
    BY <1>1, <2>1 DEF Text
  <2>3. /\ executed' = executed \o [i \in 1..n - l |-> m.commands[l + i]]
        /\ cl' = IF n = l THEN cl
                 ELSE [cl EXCEPT !.lastClientCommand = n,
                                 !.lastClientCommandString = m.commands[n],
                                 !.state = IF m.commands[n] = Disconnect
                                           THEN "zombie" ELSE @]
        /\ SV_Netchan_FreeQueue \/ UNCHANGED <<queue, svSent>>
    BY <1>6, <2>2 DEF SV_ClientCommands
  <2>4. /\ cl' \in CL /\ cl'.lastClientCommand = n /\ cl'.lost = cl.lost
        /\ cl'.lastClientCommandString =
             IF n = l THEN cl.lastClientCommandString ELSE m.commands[n]
    <3>1. CASE n = l
      BY <1>1, <2>3, <3>1
    <3>2. CASE n # l
      <4>1. m.commands[n] \in Text
        BY <1>1, <2>1, <2>2, <3>2
      <4> QED
        BY <1>1, <2>3, <3>2, <4>1
    <3> QED
      BY <3>1, <3>2
  <2>5. ExecutedOK'
    <3> DEFINE new == [i \in 1..n - l |-> m.commands[l + i]]
    <3>1. new \in Seq(Text) /\ Len(new) = n - l
      <4>1. n - l \in Nat
        BY <1>1, <2>1
      <4>2. \A i \in 1..n - l : l + i \in l + 1..n
        BY <1>1, <2>1
      <4>3. new \in [1..n - l -> Text]
        BY <2>2, <4>2
      <4>4. new \in Seq(Text)
        BY <4>1, <4>3, SeqDef
      <4>5. Len(new) = n - l
        BY <4>1, <4>4, LenProperties
      <4> QED
        BY <4>4, <4>5
    <3>2. /\ executed' \in Seq(Text) /\ Len(executed') = n
          /\ \A i \in 1..n : executed'[i] = IF i <= l THEN executed[i]
                                           ELSE m.commands[i]
      BY <1>1, <2>1, <2>3, <3>1, ConcatProperties
    <3>3. \A i \in DOMAIN executed' : executed'[i] \in {i, Disconnect}
      BY <1>1, <2>1, <3>2 DEF IInv, ExecutedOK
    <3>4. clc.state = "connected" => cl'.lastClientCommandString = n
      BY <1>1, <2>1, <2>4 DEF IInv, ExecutedOK
    <3> QED
      BY <1>2, <2>4, <3>2, <3>3, <3>4 DEF ExecutedOK
  <2>6. NeverLost'
    BY <1>2, <2>4 DEF IInv, NeverLost
  <2> QED
    BY <1>3, <2>1, <2>3, <2>4, <2>5, <2>6
<1> QED
  BY <1>4, <1>5, <1>6 DEF SV_ExecuteClientMessage

-----------------------------------------------------------------------------
(* The server's messages.  A new one, sent or queued, is the latest.       *)
LEMMA SendStep == ASSUME IInv, SV_SendMessageToClient PROVE IInv'
<1> PICK l, q : l = cl.lastClientCommand /\ q = Len(queue)
  OBVIOUS
<1>0. PICK n \in {l, Cleared} :
        LET m == [reliableAcknowledge |-> n,
                  clientCommandString |-> cl.lastClientCommandString]
        IN  \/ queue = <<>> /\ Transmit(m) /\ UNCHANGED queue
            \/ queue' = Append(queue, m) /\ UNCHANGED toClient
  BY DEF SV_SendMessageToClient
<1> PICK m : m = [reliableAcknowledge |-> n,
                  clientCommandString |-> cl.lastClientCommandString]
  OBVIOUS
<1>1. /\ m = [reliableAcknowledge |-> n,
              clientCommandString |-> cl.lastClientCommandString]
      /\ \/ queue = <<>> /\ Transmit(m) /\ UNCHANGED queue
         \/ queue' = Append(queue, m) /\ UNCHANGED toClient
  BY <1>0
<1> DEFINE new == [sequence |-> svSent + 1, reliableAcknowledge |-> n,
                   key |-> cl.lastClientCommandString]
           QT  == [reliableAcknowledge : Nat \cup {Cleared},
                   clientCommandString : Text]
<1>2. /\ svSent \in Nat /\ svSent' = svSent + 1
      /\ UNCHANGED <<clc, toServer, cl, executed>>
      /\ l \in Nat /\ m \in QT /\ queue \in Seq(QT) /\ q \in Nat /\ q <= svSent
      /\ toClient \subseteq [sequence : 1..svSent - q,
                             reliableAcknowledge : Nat \cup {Cleared}, key : Text]
  BY <1>1, LenProperties DEF IInv, TypeOK, SV_SendMessageToClient
<1>3. /\ queue' \in Seq(QT) /\ Len(queue') \in Nat /\ Len(queue') <= svSent'
      /\ toClient' \subseteq [sequence : 1..svSent' - Len(queue'),
                             reliableAcknowledge : Nat \cup {Cleared}, key : Text]
      /\ \A o \in ToCome' : o \in ToCome \/ o = new
  <2>1. CASE queue = <<>> /\ Transmit(m) /\ UNCHANGED queue
    <3>1. Len(queue) = 0 /\ Len(queue') = 0 /\ q = 0
      BY <1>1, <2>1, EmptySeq
    <3>2. toClient' = toClient \cup {new}
      BY <1>1, <1>2, <2>1, <3>1 DEF Transmit
    <3>3. new \in [sequence : 1..svSent' - Len(queue'),
                   reliableAcknowledge : Nat \cup {Cleared}, key : Text]
      BY <1>1, <1>2, <3>1
    <3>4. ToCome' = toClient' /\ toClient \subseteq ToCome
      BY <3>1 DEF ToCome
    <3> QED
      BY <1>2, <2>1, <3>1, <3>2, <3>3, <3>4
  <2>2. CASE queue' = Append(queue, m) /\ UNCHANGED toClient
    <3>1. /\ queue' \in Seq(QT) /\ Len(queue') = q + 1
          /\ \A i \in 1..q : queue'[i] = queue[i]
          /\ queue'[q + 1] = m
      BY <1>1, <1>2, <2>2, AppendProperties
    <3>2. svSent' - Len(queue') = svSent - q /\ Len(queue') <= svSent'
      BY <1>2, <3>1
    <3>3. ASSUME NEW o \in ToCome' PROVE o \in ToCome \/ o = new
      <4>1. CASE o \in toClient'
        BY <2>2, <4>1 DEF ToCome
      <4>2. CASE o \notin toClient'
        <5>1. PICK i \in 1..q + 1 :
                o = [sequence |-> svSent - q + i,
                     reliableAcknowledge |-> queue'[i].reliableAcknowledge,
                     key |-> queue'[i].clientCommandString]
          BY <3>1, <3>2, <3>3, <4>2 DEF ToCome
        <5>2. CASE i = q + 1
          BY <1>1, <1>2, <3>1, <5>1, <5>2
        <5>3. CASE i # q + 1
          <6>1. /\ i \in 1..Len(queue)
                /\ o = [sequence |-> svSent - Len(queue) + i,
                        reliableAcknowledge |-> queue[i].reliableAcknowledge,
                        key |-> queue[i].clientCommandString]
            BY <1>2, <3>1, <5>1, <5>3
          <6> QED
            BY <6>1 DEF ToCome
        <5> QED
          BY <5>2, <5>3
      <4> QED
        BY <4>1, <4>2
    <3> QED
      BY <1>2, <2>2, <3>1, <3>2, <3>3
  <2> QED
    BY <1>1, <2>1, <2>2
<1>4. TypeOK'
  BY <1>2, <1>3 DEF IInv, TypeOK
<1>5. PendingKept' /\ RingKept' /\ NeverLost' /\ ExecutedOK'
  BY <1>2 DEF IInv, PendingKept, Unacknowledged, RingKept, NeverLost, ExecutedOK
<1>6. ToServerOK'
  BY <1>2 DEF IInv, ToServerOK, HasCommands
<1>7. ToClientOK'
  <2>1. \A o \in ToCome : /\ o.sequence \in Nat /\ o.sequence <= svSent
                          /\ o.reliableAcknowledge \in Nat \cup {Cleared}
    BY ToComeType DEF IInv
  <2>2. new.sequence = svSent + 1 /\ new.reliableAcknowledge = n
        /\ new.key = cl.lastClientCommandString
    OBVIOUS
  <2>3. n # Cleared => n = l
    OBVIOUS
  <2>4. clc.state = "connected" =>
          /\ clc.reliableAcknowledge <= l
          /\ cl.lastClientCommandString = l
    BY <1>1, <1>2 DEF IInv, TypeOK, ExecutedOK
  <2> HIDE DEF new
  <2>5. SUFFICES ASSUME NEW o \in ToCome', o.reliableAcknowledge # Cleared
        PROVE  /\ o.reliableAcknowledge \in 0..l
               /\ clc.state = "connected" =>
                    /\ clc.reliableAcknowledge <= o.reliableAcknowledge
                    /\ o.key = o.reliableAcknowledge
               /\ \A p \in ToCome' :
                    p.reliableAcknowledge # Cleared /\ p.sequence >= o.sequence =>
                      p.reliableAcknowledge >= o.reliableAcknowledge
    BY <1>1, <1>2 DEF ToClientOK
  <2>6. CASE o \in ToCome
    <3>1. /\ o.reliableAcknowledge \in 0..l
          /\ clc.state = "connected" =>
               /\ clc.reliableAcknowledge <= o.reliableAcknowledge
               /\ o.key = o.reliableAcknowledge
          /\ \A p \in ToCome :
               p.reliableAcknowledge # Cleared /\ p.sequence >= o.sequence =>
                 p.reliableAcknowledge >= o.reliableAcknowledge
      BY <1>1, <2>5, <2>6 DEF IInv, ToClientOK
    <3> QED
      BY <1>2, <1>3, <2>2, <2>3, <3>1
  <2>7. CASE o = new
    <3>1. \A p \in ToCome : ~(p.sequence >= o.sequence)
      BY <1>2, <2>1, <2>2, <2>7
    <3> QED
      BY <1>2, <1>3, <2>2, <2>3, <2>4, <2>5, <2>7, <3>1
  <2> QED
    BY <1>3, <2>6, <2>7
<1> QED
  BY <1>4, <1>5, <1>6, <1>7 DEF IInv

(* One that has waited is sent as it was made. *)
LEMMA NextInQueueStep == ASSUME IInv, SV_Netchan_TransmitNextInQueue PROVE IInv'
<1> PICK q : q = Len(queue)
  OBVIOUS
<1> DEFINE QT  == [reliableAcknowledge : Nat \cup {Cleared},
                   clientCommandString : Text]
           first == [sequence |-> svSent + 1 - q,
                     reliableAcknowledge |-> queue[1].reliableAcknowledge,
                     key |-> queue[1].clientCommandString]
<1>1. /\ svSent \in Nat /\ q \in Nat /\ q <= svSent /\ q >= 1
      /\ queue \in Seq(QT) /\ queue # <<>> /\ queue[1] \in QT
      /\ UNCHANGED <<clc, toServer, cl, svSent, executed>>
      /\ queue' = Tail(queue)
      /\ toClient \subseteq [sequence : 1..svSent - q,
                             reliableAcknowledge : Nat \cup {Cleared}, key : Text]
  <2>1. queue \in Seq(QT) /\ queue # <<>> /\ q \in Nat /\ q # 0
    BY EmptySeq, LenProperties DEF IInv, TypeOK, SV_Netchan_TransmitNextInQueue
  <2>2. queue[1] \in QT
    <3>1. 1 \in 1..Len(queue)
      BY <2>1
    <3> QED
      BY <2>1, <3>1, ElementOfSeq
  <2> QED
    BY <2>1, <2>2 DEF IInv, TypeOK, SV_Netchan_TransmitNextInQueue
<1>2. /\ queue' \in Seq(QT) /\ Len(queue') = q - 1
      /\ \A i \in 1..q - 1 : queue'[i] = queue[i + 1]
      /\ Head(queue) = queue[1]
  BY <1>1, HeadTailProperties
<1>3. toClient' = toClient \cup {first}
  BY <1>1, <1>2 DEF SV_Netchan_TransmitNextInQueue, Transmit
<1>4. TypeOK'
  <2>1. /\ Len(queue') <= svSent' /\ svSent' - Len(queue') = svSent - q + 1
        /\ first.sequence \in 1..svSent - q + 1
    BY <1>1, <1>2
  <2>2. toClient' \subseteq [sequence : 1..svSent' - Len(queue'),
                            reliableAcknowledge : Nat \cup {Cleared}, key : Text]
    BY <1>1, <1>3, <2>1
  <2> QED
    BY <1>1, <1>2, <2>1, <2>2 DEF IInv, TypeOK
<1>5. PendingKept' /\ RingKept' /\ NeverLost' /\ ExecutedOK'
  BY <1>1 DEF IInv, PendingKept, Unacknowledged, RingKept, NeverLost, ExecutedOK
<1>6. ToServerOK'
  <2>1. /\ clc.reliableSequence \in Nat /\ cl.lastClientCommand \in Nat
        /\ UNCHANGED <<clc, toServer, cl>> /\ ToServerOK
    BY <1>1 DEF IInv, TypeOK, clientConnection_t
  <2> QED
    BY <2>1, ToServerKept
<1>7. ToCome' \subseteq ToCome
  <2> SUFFICES ASSUME NEW o \in ToCome' PROVE o \in ToCome
    OBVIOUS
  <2>1. CASE o \in toClient
    BY <2>1 DEF ToCome
  <2>2. CASE o = first
    <3>1. o = [sequence |-> svSent - q + 1,
               reliableAcknowledge |-> queue[1].reliableAcknowledge,
               key |-> queue[1].clientCommandString]
      BY <1>1, <2>2
    <3>2. 1 \in 1..Len(queue)
      BY <1>1
    <3> QED
      BY <3>1, <3>2 DEF ToCome
  <2>3. CASE o \notin toClient'
    <3>1. PICK i \in 1..q - 1 :
            o = [sequence |-> svSent - (q - 1) + i,
                 reliableAcknowledge |-> queue[i + 1].reliableAcknowledge,
                 key |-> queue[i + 1].clientCommandString]
      <4>1. PICK i \in 1..Len(queue') :
              o = [sequence |-> svSent' - Len(queue') + i,
                   reliableAcknowledge |-> queue'[i].reliableAcknowledge,
                   key |-> queue'[i].clientCommandString]
        BY <2>3 DEF ToCome
      <4>2. i \in 1..q - 1 /\ queue'[i] = queue[i + 1]
        BY <1>2, <4>1
      <4> QED
        BY <1>1, <1>2, <4>1, <4>2
    <3>2. i + 1 \in 1..Len(queue) /\ svSent - (q - 1) + i = svSent - q + (i + 1)
      BY <1>1
    <3>3. o = [sequence |-> svSent - Len(queue) + (i + 1),
               reliableAcknowledge |-> queue[i + 1].reliableAcknowledge,
               key |-> queue[i + 1].clientCommandString]
      BY <3>1, <3>2
    <3> QED
      BY <3>2, <3>3 DEF ToCome
  <2> QED
    BY <1>3, <2>1, <2>2, <2>3
<1>8. ToClientOK'
  BY <1>1, <1>7 DEF IInv, ToClientOK
<1> QED
  BY <1>4, <1>5, <1>6, <1>8 DEF IInv

-----------------------------------------------------------------------------
LEMMA Initial == Init => IInv
<1> SUFFICES ASSUME Init PROVE IInv
  OBVIOUS
<1>1. /\ clc = [state |-> "connected", reliableSequence |-> 0,
                reliableAcknowledge |-> 0, sent |-> 0,
                reliableCommands |-> [i \in Slots |-> 0]]
      /\ cl = [state |-> "connected", lastClientCommand |-> 0,
               lastClientCommandString |-> 0, lost |-> FALSE]
      /\ toServer = {} /\ toClient = {} /\ queue = <<>> /\ svSent = 0
      /\ executed = <<>> /\ Len(queue) = 0 /\ Len(executed) = 0
      /\ 0 \in Text
  BY EmptySeq DEF Init, Text
<1>2. TypeOK
  <2>1. clc \in clientConnection_t
    BY <1>1 DEF clientConnection_t
  <2> QED
    BY <1>1, <2>1, EmptySeq DEF TypeOK
<1>3. RingKept /\ PendingKept /\ NeverLost
  BY <1>1, SlotType, RingAssumption
  DEF RingKept, PendingKept, Unacknowledged, NeverLost
<1>4. ToServerOK /\ ToClientOK
  BY <1>1 DEF ToServerOK, ToClientOK, ToCome
<1>5. ExecutedOK
  BY <1>1, EmptySeq DEF ExecutedOK
<1> QED
  BY <1>2, <1>3, <1>4, <1>5 DEF IInv

LEMMA Inductive == IInv /\ [Next]_vars => IInv'
<1> SUFFICES ASSUME IInv, [Next]_vars PROVE IInv'
  OBVIOUS
<1>1. CASE CL_AddReliableCommand
  BY <1>1, AddStep
<1>2. CASE CL_WritePacket
  BY <1>2, WriteStep
<1>3. CASE CL_Disconnect
  BY <1>3, DisconnectStep
<1>4. CASE \E m \in toClient : CL_ParseServerMessage(m)
  BY <1>4, ParseStep
<1>5. CASE \E m \in toServer : SV_ExecuteClientMessage(m)
  BY <1>5, ExecuteStep
<1>6. CASE SV_DropClient
  BY <1>6, DropStep
<1>7. CASE SV_SendMessageToClient
  BY <1>7, SendStep
<1>8. CASE SV_Netchan_TransmitNextInQueue
  BY <1>8, NextInQueueStep
<1>9. CASE UNCHANGED vars
  BY <1>9 DEF vars, IInv, TypeOK, PendingKept, Unacknowledged, NeverLost, RingKept,
              ToServerOK, HasCommands, ToClientOK, ToCome, ExecutedOK
<1> QED
  BY <1>1, <1>2, <1>3, <1>4, <1>5, <1>6, <1>7, <1>8, <1>9 DEF Next

(* The state of both ends and what is on its way agree as the invariant    *)
(* says, whatever is lost, repeated, delayed or queued.                    *)
THEOREM CommandsInvariance == Spec => []IInv
  BY Initial, Inductive, PTL DEF Spec

(* The server never drops a client that keeps to the protocol with "Lost   *)
(* reliable commands" (SV_ClientCommand), unless the client has read a     *)
(* message that was cleared because it was too long.                       *)
THEOREM CommandsNeverLost == Spec => []NeverLost
<1>1. IInv => NeverLost
  BY DEF IInv
<1> QED
  BY <1>1, CommandsInvariance, PTL

(* A connected client of the older protocol whose ring is not full decodes *)
(* with the text the server encoded with (CL_Netchan_Decode).              *)
THEOREM CommandsDecodable == Spec => []DecodableBelowLimit
<1>1. IInv => DecodableBelowLimit
  <2> SUFFICES ASSUME IInv, NEW m \in toClient,
                      clc.state = "connected", m.reliableAcknowledge # Cleared,
                      clc.reliableSequence <
                        m.reliableAcknowledge + MAX_RELIABLE_COMMANDS
               PROVE  clc.reliableCommands[Slot(m.reliableAcknowledge)] = m.key
    BY DEF DecodableBelowLimit
  <2>1. /\ m.reliableAcknowledge \in 0..cl.lastClientCommand
        /\ m.key = m.reliableAcknowledge
    BY DEF IInv, ToClientOK, ToCome
  <2>2. /\ m.reliableAcknowledge \in 0..clc.reliableSequence
        /\ m.reliableAcknowledge + MAX_RELIABLE_COMMANDS > clc.reliableSequence
    BY <2>1, RingAssumption DEF IInv, TypeOK, clientConnection_t
  <2> QED
    BY <2>1, <2>2 DEF IInv, RingKept
<1> QED
  BY <1>1, CommandsInvariance, PTL

-----------------------------------------------------------------------------
(* The refinement: a step issues commands, or executes some, or neither.   *)
LEMMA AsIssuedValue ==
  IInv => /\ AsIssued = [i \in 1..cl.lastClientCommand |-> i]
          /\ Len(AsIssued) = cl.lastClientCommand
<1> SUFFICES ASSUME IInv
             PROVE  /\ AsIssued = [i \in 1..cl.lastClientCommand |-> i]
                    /\ Len(AsIssued) = cl.lastClientCommand
  OBVIOUS
<1>1. /\ cl.lastClientCommand \in Nat /\ executed \in Seq(Text)
      /\ Len(executed) = cl.lastClientCommand
      /\ \A i \in DOMAIN executed : executed[i] \in {i, Disconnect}
  BY DEF IInv, TypeOK, ExecutedOK
<1>2. DOMAIN executed = 1..cl.lastClientCommand
  BY <1>1, LenProperties
<1>3. AsIssued = [i \in 1..cl.lastClientCommand |-> i]
  BY <1>1, <1>2 DEF AsIssued
<1> HIDE DEF AsIssued
<1>4. AsIssued \in Seq(Nat)
  BY <1>1, <1>3, SeqDef
<1> QED
  BY <1>1, <1>3, <1>4, LenProperties

LEMMA CloseIssues ==
  ASSUME NEW c \in clientConnection_t, NEW state, CloseConnection(c, state)
  PROVE  clc'.reliableSequence \in {c.reliableSequence, c.reliableSequence + 1}
<1>1. /\ AddDisconnect(c).reliableSequence
           \in {c.reliableSequence, c.reliableSequence + 1}
      /\ clc' = [AddDisconnect(c) EXCEPT !.state = state, !.sent = @ + 3]
      /\ \/ AddDisconnect(c) = c
         \/ AddDisconnect(c) = Put(c, Disconnect)
  BY DEF CloseConnection, AddDisconnect, Put, clientConnection_t
<1> QED
  BY <1>1 DEF clientConnection_t, Put

LEMMA IssueOrExecute ==
  ASSUME IInv, [Next]_vars
  PROVE  \/ /\ clc.reliableSequence' \in {clc.reliableSequence,
                                          clc.reliableSequence + 1}
            /\ UNCHANGED executed
         \/ /\ clc.reliableSequence' = clc.reliableSequence
            /\ cl.lastClientCommand <= cl.lastClientCommand'
<1>1. clc \in clientConnection_t /\ cl.lastClientCommand \in Nat
  BY DEF IInv, TypeOK
<1>2. CASE CL_AddReliableCommand
  <2>1. CASE clc' = Put(clc, clc.reliableSequence + 1)
    BY <1>1, <1>2, <2>1 DEF CL_AddReliableCommand, Put, clientConnection_t
  <2>2. CASE CloseConnection(clc, "disconnected")
    BY <1>1, <1>2, <2>2, CloseIssues DEF CL_AddReliableCommand
  <2> QED
    BY <1>2, <2>1, <2>2 DEF CL_AddReliableCommand
<1>3. CASE CL_WritePacket
  BY <1>1, <1>3 DEF CL_WritePacket, clientConnection_t
<1>4. CASE CL_Disconnect
  BY <1>1, <1>4, CloseIssues DEF CL_Disconnect
<1>5. CASE \E m \in toClient : CL_ParseServerMessage(m)
  <2> PICK m \in toClient : CL_ParseServerMessage(m)
    BY <1>5
  <2> DEFINE c == [clc EXCEPT !.reliableAcknowledge =
                                Acknowledged(m.reliableAcknowledge)]
  <2>1. m.reliableAcknowledge \in Nat \cup {Cleared}
    BY DEF IInv, TypeOK
  <2>2. Acknowledged(m.reliableAcknowledge) \in Nat \cup {Cleared}
    BY <1>1, <2>1 DEF Acknowledged, clientConnection_t
  <2>3. c \in clientConnection_t /\ c.reliableSequence = clc.reliableSequence
    BY <1>1, <2>2 DEF clientConnection_t
  <2>4. UNCHANGED executed /\ (clc' = c \/ CloseConnection(c, "error"))
    BY DEF CL_ParseServerMessage
  <2> HIDE DEF c
  <2> QED
    BY <2>3, <2>4, CloseIssues
<1>6. CASE \E m \in toServer : SV_ExecuteClientMessage(m)
  <2> PICK m \in toServer : SV_ExecuteClientMessage(m)
    BY <1>6
  <2>1. UNCHANGED clc
    BY DEF SV_ExecuteClientMessage
  <2>2. CASE ~Gap(m.commands) /\ SV_ClientCommands(m.commands)
    <3>1. PICK n \in Nat :
            /\ cl.lastClientCommand <= n
            /\ Cardinality(Executable(m.commands)) = n - cl.lastClientCommand
      BY <2>2, ExecutableCommands
    <3>2. n = cl.lastClientCommand + Cardinality(Executable(m.commands))
      BY <1>1, <3>1
    <3>3. cl.lastClientCommand' = n
      BY <1>1, <2>2, <3>2 DEF IInv, TypeOK, SV_ClientCommands
    <3> QED
      BY <2>1, <3>1, <3>3
  <2> QED
    BY <1>1, <2>1, <2>2 DEF SV_ExecuteClientMessage
<1>7. CASE SV_DropClient
  BY <1>7 DEF SV_DropClient
<1>8. CASE SV_SendMessageToClient
  BY <1>8 DEF SV_SendMessageToClient
<1>9. CASE SV_Netchan_TransmitNextInQueue
  BY <1>9 DEF SV_Netchan_TransmitNextInQueue
<1>10. CASE UNCHANGED vars
  BY <1>10 DEF vars
<1> QED
  BY <1>2, <1>3, <1>4, <1>5, <1>6, <1>7, <1>8, <1>9, <1>10 DEF Next

(* The server executes the client's commands as the abstract stream does:  *)
(* each once, in the order of their numbers, none left out, however often  *)
(* they are sent and whatever is lost (SV_ClientCommand).                  *)
THEOREM CommandsRefineStream == Spec => StreamSpec
<1>1. Init => Stream!Init
  <2> SUFFICES ASSUME Init PROVE Stream!Init
    OBVIOUS
  <2>1. clc.reliableSequence = 0 /\ executed = <<>>
    BY DEF Init
  <2>2. AsIssued = <<>>
    BY <2>1 DEF AsIssued
  <2> QED
    BY <2>1, <2>2 DEF Stream!Init
<1>2. IInv' => (AsIssued = [i \in 1..cl.lastClientCommand |-> i])'
  <2>1. IInv => AsIssued = [i \in 1..cl.lastClientCommand |-> i]
    BY AsIssuedValue
  <2> QED
    BY <2>1, PTL
<1>3. IInv /\ IInv' /\ [Next]_vars => [Stream!Next]_Stream!vars
  <2> SUFFICES ASSUME IInv, IInv', [Next]_vars PROVE [Stream!Next]_Stream!vars
    OBVIOUS
  <2> PICK s, s2, l, l2 :
        /\ s = clc.reliableSequence /\ s2 = clc.reliableSequence'
        /\ l = cl.lastClientCommand /\ l2 = cl.lastClientCommand'
    OBVIOUS
  <2>1. s \in Nat /\ s2 \in Nat /\ l \in Nat /\ l2 \in Nat /\ l2 <= s2
    BY DEF IInv, TypeOK, clientConnection_t
  <2>2. /\ AsIssued = [i \in 1..l |-> i] /\ Len(AsIssued) = l
        /\ AsIssued' = [i \in 1..l2 |-> i]
    <3>1. AsIssued = [i \in 1..l |-> i] /\ Len(AsIssued) = l
      BY AsIssuedValue
    <3> QED
      BY <1>2, <3>1
  <2>3. CASE s2 = s + 1 /\ UNCHANGED executed
    <3>1. UNCHANGED AsIssued
      BY <2>3 DEF AsIssued
    <3>2. s2 > s /\ s2 = s + (s2 - s)
      BY <2>1, <2>3
    <3> QED
      BY <3>1, <3>2 DEF Stream!Next, Stream!Issue
  <2>4. CASE s2 = s /\ l <= l2
    <3>1. CASE l2 = l
      BY <2>2, <2>4, <3>1 DEF Stream!vars
    <3>2. CASE l2 # l
      <4>1. l2 \in 1..s /\ l2 > l
        BY <2>1, <2>4, <3>2
      <4> QED
        BY <2>2, <2>4, <4>1 DEF Stream!Next, Stream!Execute
    <3> QED
      BY <3>1, <3>2
  <2>5. CASE s2 = s /\ UNCHANGED executed
    <3>1. UNCHANGED AsIssued
      BY <2>5 DEF AsIssued
    <3> QED
      BY <2>5, <3>1 DEF Stream!vars
  <2> QED
    BY <2>3, <2>4, <2>5, IssueOrExecute
<1> QED
  BY <1>1, <1>3, CommandsInvariance, PTL DEF Spec, StreamSpec, Stream!Spec

=============================================================================
