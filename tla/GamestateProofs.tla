-------------------------- MODULE GamestateProofs --------------------------
(***************************************************************************)
(* A client in the game has the configstrings of the server, and is sent   *)
(* the gamestate again only when it has lost it: for any number of maps,   *)
(* restarts, changes and messages.                                         *)
(***************************************************************************)
EXTENDS Gamestate, WellFoundedInduction, TLAPS

(* A nonempty set of natural numbers has a least element. *)
LEMMA LeastNat ==
  ASSUME NEW S, S \subseteq Nat, S # {}
  PROVE  \E n \in S : \A o \in S : n <= o
<1> DEFINE Less == {p \in Nat \X Nat : p[1] < p[2]}
<1>1. IsWellFoundedOn(Less, Nat)
  BY NatLessThanWellFounded, Zenon DEF OpToRel
<1>2. PICK n \in S : \A o \in S : <<o, n>> \notin Less
  BY <1>1, WFMin, Zenon
<1>3. \A o \in S : ~(o < n)
  BY <1>2
<1> QED
  BY <1>3

(* A bounded one has a greatest element. *)
LEMMA GreatestNat ==
  ASSUME NEW high \in Nat, NEW S, S \subseteq 0..high, S # {}
  PROVE  \E n \in S : \A o \in S : o <= n
<1> DEFINE T == {high - n : n \in S}
<1>1. T \subseteq Nat /\ T # {}
  <2>1. \A n \in S : n \in Nat /\ n <= high
    OBVIOUS
  <2>2. T \subseteq Nat
    BY <2>1
  <2> QED
    BY <2>2
<1>2. PICK t \in T : \A u \in T : t <= u
  BY <1>1, LeastNat
<1>3. PICK n \in S : t = high - n
  BY <1>2
<1>4. \A o \in S : high - o \in T
  OBVIOUS
<1> HIDE DEF T
<1>5. \A o \in S : high - n <= high - o
  BY <1>2, <1>3, <1>4
<1> QED
  BY <1>5

-----------------------------------------------------------------------------
LEMMA CommandFields ==
  ASSUME NEW cmds \in Seq(Command), NEW i \in 1..Len(cmds)
  PROVE  cmds[i] \in Command /\ cmds[i].index \in Index /\ cmds[i].value \in Nat
<1>1. cmds[i] \in Command
  OBVIOUS
<1> QED
  BY <1>1 DEF Command

LEMMA BringsLast ==
  ASSUME NEW cmds \in Seq(Command), NEW c, NEW index, NEW v
  PROVE  Brings(cmds, c, Len(cmds), index, v) <=> c[index] = v
  BY DEF Brings

(* A command more. *)
LEMMA BringsSame ==
  ASSUME NEW cmds \in Seq(Command), NEW c, NEW k \in Nat, k <= Len(cmds),
         NEW j \in Index, NEW w \in Nat,
         NEW more, more = Append(cmds, [index |-> j, value |-> w])
  PROVE  Brings(more, c, k, j, w)
<1>1. PICK L \in Nat : L = Len(cmds) /\ k <= L
  OBVIOUS
<1>2. Len(more) = L + 1 /\ more[L + 1].index = j /\ more[L + 1].value = w
  BY <1>1
<1>3. L + 1 \in k + 1..L + 1 /\ \A i \in L + 1 + 1..L + 1 : FALSE
  BY <1>1
<1> QED
  BY <1>2, <1>3 DEF Brings

LEMMA BringsOther ==
  ASSUME NEW cmds \in Seq(Command), NEW c, NEW k \in Nat, k <= Len(cmds),
         NEW index, NEW v, Brings(cmds, c, k, index, v),
         NEW j, j # index, NEW w, [index |-> j, value |-> w] \in Command,
         NEW more, more = Append(cmds, [index |-> j, value |-> w])
  PROVE  Brings(more, c, k, index, v)
<1>1. PICK L \in Nat : L = Len(cmds) /\ k <= L
  OBVIOUS
<1>2. /\ Len(more) = L + 1 /\ more[L + 1].index = j
      /\ \A i \in 1..L : more[i] = cmds[i]
  BY <1>1
<1>3. CASE \E i \in k + 1..L :
             /\ cmds[i].index = index /\ cmds[i].value = v
             /\ \A o \in i + 1..L : cmds[o].index # index
  <2>1. PICK i \in k + 1..L : /\ cmds[i].index = index /\ cmds[i].value = v
                              /\ \A o \in i + 1..L : cmds[o].index # index
    BY <1>3
  <2>2. i \in k + 1..L + 1 /\ i \in 1..L
    OBVIOUS
  <2>3. \A o \in i + 1..L + 1 : o = L + 1 \/ o \in i + 1..L
    OBVIOUS
  <2>4. \A o \in i + 1..L : o \in 1..L
    BY <2>2
  <2>5. \A o \in i + 1..L + 1 : more[o].index # index
    BY <1>2, <2>1, <2>3, <2>4
  <2> QED
    BY <1>2, <2>1, <2>2, <2>5 DEF Brings
<1>4. CASE (\A o \in k + 1..L : cmds[o].index # index) /\ c[index] = v
  <2>1. \A o \in k + 1..L + 1 : o = L + 1 \/ o \in k + 1..L
    BY <1>1
  <2>2. \A o \in k + 1..L : o \in 1..L
    OBVIOUS
  <2>3. \A o \in k + 1..L + 1 : more[o].index # index
    BY <1>2, <1>4, <2>1, <2>2
  <2> QED
    BY <1>2, <1>4, <2>3 DEF Brings
<1> QED
  BY <1>1, <1>3, <1>4 DEF Brings

(* A configstring changes, and the command that says so is issued. *)
LEMMA FollowAppend ==
  ASSUME NEW cmds \in Seq(Command), NEW kept \in SUBSET Index, NEW s \in Configstrings,
         NEW id \in Nat, NEW c \in Configstrings, NEW k \in Nat,
         Follow(cmds, kept, s, id, c, k),
         NEW j \in Index, NEW w \in Nat, j = "systeminfo" => w >= id,
         NEW more, more = Append(cmds, [index |-> j, value |-> w])
  PROVE  Follow(more, kept \ {j}, [s EXCEPT ![j] = w], id, c, k)
<1>1. PICK L \in Nat : L = Len(cmds) /\ k <= L
  BY DEF Follow
<1>2. /\ Len(more) = L + 1 /\ more[L + 1].index = j /\ more[L + 1].value = w
      /\ \A i \in 1..L : more[i] = cmds[i]
  BY <1>1
<1>3. k <= Len(more)
  BY <1>1, <1>2
<1>4. PICK s2 : s2 = [s EXCEPT ![j] = w]
  OBVIOUS
<1>5. s2[j] = w /\ \A i \in Index : i # j => s2[i] = s[i]
  BY <1>4 DEF Configstrings
<1>6. ASSUME NEW index \in Index \ (kept \ {j}) PROVE Brings(more, c, k, index, s2[index])
  <2>1. CASE index = j
    <3>1. Brings(more, c, k, j, w)
      BY <1>1, BringsSame
    <3> QED
      BY <1>5, <2>1, <3>1
  <2>2. CASE index # j
    <3>1. Brings(cmds, c, k, index, s[index])
      BY <1>6, <2>2 DEF Follow
    <3>2. [index |-> j, value |-> w] \in Command
      BY DEF Command
    <3>3. PICK v : v = s[index]
      OBVIOUS
    <3>4. Brings(more, c, k, index, v)
      BY <1>1, <2>2, <3>1, <3>2, <3>3, BringsOther
    <3> QED
      BY <1>5, <2>2, <3>3, <3>4
  <2> QED
    BY <2>1, <2>2
<1>7. ASSUME NEW i \in k + 1..L + 1, more[i].index = "systeminfo" PROVE more[i].value >= id
  <2>1. CASE i = L + 1
    BY <1>2, <1>7, <2>1
  <2>2. CASE i \in k + 1..L
    <3>1. i \in 1..L
      BY <2>2
    <3> QED
      BY <1>1, <1>2, <1>7, <2>2, <3>1 DEF Follow
  <2>3. i = L + 1 \/ i \in k + 1..L
    OBVIOUS
  <2> QED
    BY <2>1, <2>2, <2>3
<1> QED
  BY <1>2, <1>3, <1>4, <1>6, <1>7 DEF Follow

(* A configstring changes, and the change is kept. *)
LEMMA FollowKept ==
  ASSUME NEW cmds \in Seq(Command), NEW kept \in SUBSET Index, NEW s \in Configstrings,
         NEW id \in Nat, NEW c \in Configstrings, NEW k \in Nat,
         Follow(cmds, kept, s, id, c, k), NEW j \in Index, NEW w \in Nat
  PROVE  Follow(cmds, kept \cup {j}, [s EXCEPT ![j] = w], id, c, k)
<1>1. \A i \in Index : i # j => [s EXCEPT ![j] = w][i] = s[i]
  BY DEF Configstrings
<1> QED
  BY <1>1 DEF Follow

(* The commands of SV_UpdateConfigstrings for one index. *)
UpdateOf(kept, s, j) ==
  IF j \in kept THEN <<[index |-> j, value |-> s[j]]>> ELSE <<>>

LEMMA FollowUpdate ==
  ASSUME NEW cmds \in Seq(Command), NEW kept \in SUBSET Index, NEW s \in Configstrings,
         NEW id \in Nat, NEW c \in Configstrings, NEW k \in Nat,
         Follow(cmds, kept, s, id, c, k), s["systeminfo"] >= id, NEW j \in Index,
         NEW more, more = cmds \o UpdateOf(kept, s, j)
  PROVE  Follow(more, kept \ {j}, s, id, c, k)
<1>1. CASE j \in kept
  <2>1. more = Append(cmds, [index |-> j, value |-> s[j]])
    <3>1. [index |-> j, value |-> s[j]] \in Command
      BY DEF Command, Configstrings
    <3> QED
      BY <1>1, <3>1 DEF UpdateOf
  <2>2. s[j] \in Nat /\ [s EXCEPT ![j] = s[j]] = s
    BY DEF Configstrings
  <2>3. j = "systeminfo" => s[j] >= id
    OBVIOUS
  <2>4. Follow(more, kept \ {j}, [s EXCEPT ![j] = s[j]], id, c, k)
    BY <2>1, <2>2, <2>3, FollowAppend
  <2> QED
    BY <2>2, <2>4
<1>2. CASE j \notin kept
  <2>1. more = cmds /\ kept \ {j} = kept
    BY <1>2 DEF UpdateOf
  <2> QED
    BY <2>1
<1> QED
  BY <1>1, <1>2

(* The client enters the world: nothing is kept any more. *)
LEMMA FollowEnter ==
  ASSUME NEW cmds \in Seq(Command), NEW kept \in SUBSET Index, NEW s \in Configstrings,
         NEW id \in Nat, NEW c \in Configstrings, NEW k \in Nat,
         Follow(cmds, kept, s, id, c, k), s["systeminfo"] >= id,
         NEW mid, mid = cmds \o UpdateOf(kept, s, "systeminfo"),
         NEW more, more = mid \o UpdateOf(kept, s, "other")
  PROVE  Follow(more, {}, s, id, c, k)
<1>1. "systeminfo" \in Index /\ "other" \in Index
  BY DEF Index
<1>2. Follow(mid, kept \ {"systeminfo"}, s, id, c, k)
  BY <1>1, FollowUpdate
<1>3. mid \in Seq(Command)
  <2>1. [index |-> "systeminfo", value |-> s["systeminfo"]] \in Command
    BY <1>1 DEF Command, Configstrings
  <2>2. CASE "systeminfo" \in kept
    BY <2>1, <2>2 DEF UpdateOf
  <2>3. CASE "systeminfo" \notin kept
    BY <2>3 DEF UpdateOf
  <2> QED
    BY <2>2, <2>3
<1>4. UpdateOf(kept \ {"systeminfo"}, s, "other") = UpdateOf(kept, s, "other")
  BY DEF UpdateOf
<1>5. more = mid \o UpdateOf(kept \ {"systeminfo"}, s, "other")
  BY <1>4
<1>6. PICK left \in SUBSET Index : left = kept \ {"systeminfo"}
  OBVIOUS
<1>7. Follow(more, left \ {"other"}, s, id, c, k)
  BY <1>1, <1>2, <1>3, <1>5, <1>6, FollowUpdate
<1>8. left \ {"other"} = {}
  BY <1>6 DEF Index
<1> QED
  BY <1>7, <1>8

(* No command tells of a newer id. *)
NoneNewer(cmds, S) ==
  \A i \in 1..Len(cmds) : cmds[i].index = "systeminfo" => cmds[i].value <= S

LEMMA UpdateType ==
  ASSUME NEW cmds \in Seq(Command), NEW kept \in SUBSET Index, NEW s \in Configstrings,
         NEW S \in Nat, NoneNewer(cmds, S), s["systeminfo"] <= S, NEW j \in Index,
         NEW more, more = cmds \o UpdateOf(kept, s, j)
  PROVE  more \in Seq(Command) /\ Len(cmds) <= Len(more) /\ NoneNewer(more, S)
<1>1. CASE j \in kept
  <2>1. [index |-> j, value |-> s[j]] \in Command
    BY DEF Command, Configstrings
  <2>2. PICK L \in Nat : L = Len(cmds)
    OBVIOUS
  <2>3. /\ more \in Seq(Command) /\ Len(more) = L + 1
        /\ more[L + 1] = [index |-> j, value |-> s[j]]
        /\ \A i \in 1..L : more[i] = cmds[i]
    BY <1>1, <2>1, <2>2 DEF UpdateOf
  <2>4. \A i \in 1..L + 1 : i = L + 1 \/ i \in 1..L
    OBVIOUS
  <2> QED
    BY <2>2, <2>3, <2>4 DEF NoneNewer
<1>2. CASE j \notin kept
  <2>1. more = cmds
    BY <1>2 DEF UpdateOf
  <2>2. Len(cmds) <= Len(cmds)
    OBVIOUS
  <2> QED
    BY <2>1, <2>2, Zenon
<1> QED
  BY <1>1, <1>2

(* The cgame executes the commands up to n. *)
LEMMA FollowExecuted ==
  ASSUME NEW kept \in SUBSET Index, NEW s \in Configstrings, NEW id \in Nat,
         NEW c \in Configstrings, NEW k \in Nat, NEW n \in Nat,
         commands \in Seq(Command), c = clc.configstrings,
         k = clc.lastExecutedServerCommand, k <= n, n <= Len(commands),
         Follow(commands, kept, s, id, c, k),
         NEW d, d = [index \in Index |-> Executed(n, index)]
  PROVE  Follow(commands, kept, s, id, d, n)
<1>1. PICK L \in Nat : L = Len(commands) /\ n <= L /\ k <= L
  BY DEF Follow
<1>2. ASSUME NEW index \in Index
      PROVE  \/ /\ \A i \in k + 1..n : commands[i].index # index
                /\ d[index] = c[index]
             \/ \E i \in k + 1..n :
                  /\ commands[i].index = index /\ d[index] = commands[i].value
                  /\ \A o \in k + 1..n : commands[o].index = index => o <= i
  <2> DEFINE changes == {i \in k + 1..n : commands[i].index = index}
  <2>1. CASE changes = {}
    BY <2>1 DEF Executed
  <2>2. CASE changes # {}
    <3>1. changes \subseteq 0..n
      OBVIOUS
    <3>2. d[index] = commands[CHOOSE i \in changes : \A o \in changes : o <= i].value
      BY <2>2 DEF Executed
    <3>3. \A i : i \in changes <=> i \in k + 1..n /\ commands[i].index = index
      OBVIOUS
    <3> HIDE DEF changes
    <3>4. \E i \in changes : \A o \in changes : o <= i
      BY <2>2, <3>1, GreatestNat
    <3>5. PICK i : i = CHOOSE e \in changes : \A o \in changes : o <= e
      OBVIOUS
    <3>6. i \in changes /\ \A o \in changes : o <= i
      BY <3>4, <3>5
    <3>7. d[index] = commands[i].value
      BY <3>2, <3>5
    <3> QED
      BY <3>3, <3>6, <3>7
  <2> QED
    BY <2>1, <2>2
<1>3. ASSUME NEW index \in Index \ kept PROVE Brings(commands, d, n, index, s[index])
  <2>1. Brings(commands, c, k, index, s[index])
    BY DEF Follow
  <2>2. CASE \E i \in n + 1..L : commands[i].index = index
    <3>1. PICK j \in n + 1..L : commands[j].index = index
      BY <2>2
    <3>2. j \in k + 1..L
      BY <1>1
    <3>3. PICK i \in k + 1..L : /\ commands[i].index = index /\ commands[i].value = s[index]
                                /\ \A o \in i + 1..L : commands[o].index # index
      BY <1>1, <2>1, <3>1, <3>2 DEF Brings
    <3>4. ~(i <= n)
      <4> SUFFICES ASSUME i <= n PROVE FALSE
        OBVIOUS
      <4>1. j \in i + 1..L
        OBVIOUS
      <4> QED
        BY <3>1, <3>3, <4>1
    <3>5. i \in n + 1..L
      BY <3>4
    <3> QED
      BY <1>1, <3>3, <3>5 DEF Brings
  <2>3. CASE \A i \in n + 1..L : commands[i].index # index
    <3>1. d[index] = s[index]
      <4>1. CASE \E i \in k + 1..n : commands[i].index = index
        <5>1. PICK i \in k + 1..n : /\ commands[i].index = index
                                    /\ d[index] = commands[i].value
                                    /\ \A o \in k + 1..n : commands[o].index = index => o <= i
          BY <1>2, <4>1
        <5>2. i \in k + 1..L
          BY <1>1
        <5>3. PICK j \in k + 1..L : /\ commands[j].index = index /\ commands[j].value = s[index]
                                    /\ \A o \in j + 1..L : commands[o].index # index
          BY <1>1, <2>1, <5>1, <5>2 DEF Brings
        <5>4. j \in k + 1..n
          <6>1. ~(j \in n + 1..L)
            BY <2>3, <5>3
          <6> QED
            BY <6>1
        <5>5. j <= i
          BY <5>1, <5>3, <5>4
        <5>6. ~(j < i)
          <6> SUFFICES ASSUME j < i PROVE FALSE
            OBVIOUS
          <6>1. i \in j + 1..L
            BY <5>2
          <6> QED
            BY <5>1, <5>3, <6>1
        <5>7. i = j
          BY <5>5, <5>6
        <5> QED
          BY <5>1, <5>3, <5>7
      <4>2. CASE \A i \in k + 1..n : commands[i].index # index
        <5>1. d[index] = c[index]
          BY <1>2, <4>2
        <5>2. \A i \in k + 1..L : i \in k + 1..n \/ i \in n + 1..L
          OBVIOUS
        <5>3. \A i \in k + 1..L : commands[i].index # index
          BY <2>3, <4>2, <5>2
        <5>4. c[index] = s[index]
          BY <1>1, <2>1, <5>3 DEF Brings
        <5> QED
          BY <5>1, <5>4
      <4> QED
        BY <4>1, <4>2
    <3> QED
      BY <1>1, <2>3, <3>1 DEF Brings
  <2> QED
    BY <2>2, <2>3
<1>4. \A i \in k + 1..L : commands[i].index = "systeminfo" => commands[i].value >= id
  BY <1>1 DEF Follow
<1>5. d["systeminfo"] >= id
  <2>1. "systeminfo" \in Index /\ c["systeminfo"] >= id
    BY DEF Index, Follow
  <2>2. \A i \in k + 1..n : i \in k + 1..L
    BY <1>1
  <2> QED
    BY <1>2, <1>4, <2>1, <2>2
<1>6. \A i \in n + 1..L : i \in k + 1..L
  OBVIOUS
<1> QED
  BY <1>1, <1>3, <1>4, <1>5, <1>6 DEF Follow

(* What it executes is of the type of configstrings, and of no newer id. *)
LEMMA ExecutedType ==
  ASSUME TypeOK, NEW n \in Nat, n <= Len(commands), NEW S \in Nat,
         clc.configstrings["systeminfo"] <= S,
         \A i \in 1..Len(commands) :
           commands[i].index = "systeminfo" => commands[i].value <= S,
         NEW d, d = [index \in Index |-> Executed(n, index)]
  PROVE  d \in Configstrings /\ d["systeminfo"] <= S
<1>1. PICK k \in Nat, L \in Nat : k = clc.lastExecutedServerCommand /\ L = Len(commands)
                                  /\ n <= L
  BY DEF TypeOK
<1>2. ASSUME NEW index \in Index
      PROVE  \/ d[index] = clc.configstrings[index]
             \/ \E i \in 1..Len(commands) :
                  commands[i].index = index /\ d[index] = commands[i].value
  <2> DEFINE changes == {i \in k + 1..n : commands[i].index = index}
  <2>1. CASE changes = {}
    BY <1>1, <2>1 DEF Executed
  <2>2. CASE changes # {}
    <3>1. changes \subseteq 0..n
      OBVIOUS
    <3>2. d[index] = commands[CHOOSE i \in changes : \A o \in changes : o <= i].value
      BY <1>1, <2>2 DEF Executed
    <3>3. \A i \in changes : i \in 1..L /\ commands[i].index = index
      BY <1>1
    <3> HIDE DEF changes
    <3>4. \E i \in changes : \A o \in changes : o <= i
      BY <2>2, <3>1, GreatestNat
    <3>5. PICK i : i = CHOOSE e \in changes : \A o \in changes : o <= e
      OBVIOUS
    <3>6. i \in changes
      BY <3>4, <3>5
    <3>7. d[index] = commands[i].value
      BY <3>2, <3>5
    <3> QED
      BY <1>1, <3>3, <3>6, <3>7
  <2> QED
    BY <2>1, <2>2
<1>3. commands \in Seq(Command) /\ clc.configstrings \in Configstrings
  BY DEF TypeOK
<1>4. ASSUME NEW index \in Index PROVE d[index] \in Nat
  <2>1. clc.configstrings[index] \in Nat
    BY <1>3 DEF Configstrings
  <2> QED
    BY <1>2, <1>3, <2>1, CommandFields
<1>5. d \in Configstrings
  BY <1>4 DEF Configstrings
<1>6. "systeminfo" \in Index
  BY DEF Index
<1>7. d["systeminfo"] <= S
  BY <1>2, <1>6
<1> QED
  BY <1>5, <1>7

-----------------------------------------------------------------------------
LEMMA ComingType ==
  ASSUME TypeOK
  PROVE  /\ \A p \in Coming : p \in ServerPacket /\ p.sequence \in Nat /\ p.message \in Message
         /\ \A m \in Message : m.kind \in {"gamestate", "snapshot"} /\ m.reliableSequence \in Nat
         /\ \A p \in Gamestates : /\ p \in Coming /\ p.message.map \in Nat
                                  /\ p.message.configstrings \in Configstrings
<1>1. \A p \in toClient : p \in ServerPacket
  BY DEF TypeOK
<1>2. ASSUME NEW i \in 1..Len(pending)
      PROVE  [sequence |-> sentCount + i, message |-> pending[i]] \in ServerPacket
  BY DEF TypeOK, ServerPacket
<1>3. \A p \in Coming : p \in ServerPacket
  BY <1>1, <1>2 DEF Coming
<1>4. \A p \in ServerPacket : p.sequence \in Nat /\ p.message \in Message
  BY DEF ServerPacket
<1>5. \A m \in Message : m.kind \in {"gamestate", "snapshot"} /\ m.reliableSequence \in Nat
  BY DEF Message
<1>6. \A m \in Message : m.kind = "gamestate" =>
        m.map \in Nat /\ m.configstrings \in Configstrings
  BY DEF Message
<1> QED
  BY <1>3, <1>4, <1>5, <1>6 DEF Gamestates

LEMMA ToServerType ==
  ASSUME TypeOK, NEW m \in toServer
  PROVE  /\ m \in ClientPacket /\ m.sequence \in Nat /\ m.serverId \in Nat
         /\ m.messageAcknowledge \in Nat
<1>1. m \in ClientPacket
  BY DEF TypeOK
<1> QED
  BY <1>1 DEF ClientPacket

(* A message goes out, or waits; nothing else comes. *)
LEMMA TransmitFacts ==
  ASSUME TypeOK, NumbersOK, NEW m \in Message, SV_Netchan_Transmit(m),
         m.kind = "snapshot" => pending = <<>>, NEW new,
         new = [sequence |-> sentCount + Len(pending) + 1, message |-> m]
  PROVE  /\ toClient' \subseteq ServerPacket /\ pending' \in Seq(Message)
         /\ sentCount' \in Nat /\ sentCount <= sentCount'
         /\ \A p \in toClient' :
              clc.serverMessageSequence < p.sequence /\ p.sequence <= sentCount'
         /\ \A i \in 1..Len(pending') : pending'[i].kind = "snapshot" => i = 1
         /\ Coming' \subseteq Coming \cup {new}
         /\ \A p \in Coming : p.sequence < new.sequence
<1>1. /\ toClient \subseteq ServerPacket /\ pending \in Seq(Message) /\ sentCount \in Nat
      /\ clc.serverMessageSequence \in Nat /\ clc.serverMessageSequence <= sentCount
      /\ \A p \in toClient :
           clc.serverMessageSequence < p.sequence /\ p.sequence <= sentCount
      /\ \A i \in 1..Len(pending) : pending[i].kind = "snapshot" => i = 1
  BY DEF TypeOK, NumbersOK
<1>2. PICK s \in Nat, L \in Nat : s = sentCount /\ L = Len(pending)
  <2>1. Len(pending) \in Nat
    BY <1>1
  <2> QED
    BY <1>1, <2>1, Zenon
<1>3. new.sequence = s + L + 1 /\ new.message = m
  BY <1>2
<1>4. ASSUME NEW p \in Coming PROVE p.sequence < new.sequence
  <2>1. CASE p \in toClient
    <3>1. p.sequence \in Nat /\ p.sequence <= s
      BY <1>1, <1>2, <2>1 DEF ServerPacket
    <3> QED
      BY <1>3, <3>1
  <2>2. CASE p \notin toClient
    <3>1. PICK i \in 1..L : p = [sequence |-> s + i, message |-> pending[i]]
      BY <1>2, <1>4, <2>2 DEF Coming
    <3> QED
      BY <1>3, <3>1
  <2> QED
    BY <2>1, <2>2
<1>5. CASE /\ pending = <<>> /\ pending' = pending /\ sentCount' = sentCount + 1
           /\ toClient' = toClient \cup {[sequence |-> outgoingSequence, message |-> m]}
  <2>1. L = 0 /\ Len(pending') = 0
    BY <1>2, <1>5
  <2>2. toClient' = toClient \cup {new}
    BY <1>1, <1>2, <1>5, <2>1 DEF outgoingSequence
  <2>3. new \in ServerPacket
    BY <1>1, <1>2 DEF ServerPacket
  <2>4. \A p \in toClient : p.sequence \in Nat
    BY <1>1 DEF ServerPacket
  <2>5. \A p \in toClient' :
          clc.serverMessageSequence < p.sequence /\ p.sequence <= sentCount'
    BY <1>1, <1>2, <1>3, <1>5, <2>1, <2>2, <2>4
  <2>6. Coming' \subseteq Coming \cup {new}
    BY <2>1, <2>2 DEF Coming
  <2> QED
    BY <1>1, <1>4, <1>5, <2>1, <2>2, <2>3, <2>5, <2>6
<1>6. CASE pending' = Append(pending, m) /\ toClient' = toClient /\ sentCount' = sentCount
  <2>1. /\ pending' \in Seq(Message) /\ Len(pending') = L + 1 /\ pending'[L + 1] = m
        /\ \A i \in 1..L : pending'[i] = pending[i]
    BY <1>1, <1>2, <1>6
  <2>2. \A i \in 1..L + 1 : i = L + 1 \/ i \in 1..L
    OBVIOUS
  <2>3. m.kind = "snapshot" => L = 0
    BY <1>2
  <2>4. \A i \in 1..L + 1 : pending'[i].kind = "snapshot" => i = 1
    BY <1>1, <1>2, <2>1, <2>2, <2>3
  <2>5. Coming' = toClient \cup
          {[sequence |-> s + i, message |-> pending'[i]] : i \in 1..L + 1}
    BY <1>2, <1>6, <2>1 DEF Coming
  <2>6. \A i \in 1..L : [sequence |-> s + i, message |-> pending[i]] \in Coming
    BY <1>2 DEF Coming
  <2>7. [sequence |-> s + (L + 1), message |-> m] = new
    <3>1. s + (L + 1) = s + L + 1
      OBVIOUS
    <3> QED
      BY <1>2, <3>1
  <2>8. \A i \in 1..L + 1 :
          [sequence |-> s + i, message |-> pending'[i]] \in Coming \cup {new}
    BY <2>1, <2>2, <2>6, <2>7
  <2>9. toClient \subseteq Coming
    BY DEF Coming
  <2>10. Coming' \subseteq Coming \cup {new}
    BY <2>5, <2>8, <2>9
  <2> QED
    BY <1>1, <1>2, <1>4, <1>6, <2>1, <2>4, <2>10
<1> QED
  BY <1>5, <1>6 DEF SV_Netchan_Transmit

LEMMA FragmentFacts ==
  ASSUME TypeOK, NumbersOK, SV_Netchan_TransmitNextFragment
  PROVE  /\ toClient' \subseteq ServerPacket /\ pending' \in Seq(Message)
         /\ sentCount' \in Nat /\ sentCount <= sentCount'
         /\ \A p \in toClient' :
              clc.serverMessageSequence < p.sequence /\ p.sequence <= sentCount'
         /\ \A i \in 1..Len(pending') : pending'[i].kind = "snapshot" => i = 1
         /\ Coming' \subseteq Coming
<1>1. /\ toClient \subseteq ServerPacket /\ pending \in Seq(Message) /\ sentCount \in Nat
      /\ clc.serverMessageSequence \in Nat /\ clc.serverMessageSequence <= sentCount
      /\ \A p \in toClient :
           clc.serverMessageSequence < p.sequence /\ p.sequence <= sentCount
      /\ \A i \in 1..Len(pending) : pending[i].kind = "snapshot" => i = 1
  BY DEF TypeOK, NumbersOK
<1>2. /\ pending # <<>> /\ sentCount' = sentCount + 1 /\ pending' = Tail(pending)
      /\ toClient' = toClient \cup {[sequence |-> outgoingSequence, message |-> Head(pending)]}
  BY DEF SV_Netchan_TransmitNextFragment
<1>3. PICK s \in Nat, L \in Nat : s = sentCount /\ L = Len(pending) /\ L >= 1
  BY <1>1, <1>2
<1>4. /\ pending' \in Seq(Message) /\ Len(pending') = L - 1
      /\ \A i \in 1..L - 1 : pending'[i] = pending[i + 1]
      /\ Head(pending) = pending[1] /\ pending[1] \in Message
  BY <1>1, <1>2, <1>3
<1>5. PICK new : new = [sequence |-> s + 1, message |-> pending[1]]
  OBVIOUS
<1>6. toClient' = toClient \cup {new} /\ new.sequence = s + 1 /\ new \in ServerPacket
  BY <1>2, <1>3, <1>4, <1>5 DEF outgoingSequence, ServerPacket
<1>7. \A p \in toClient' :
        clc.serverMessageSequence < p.sequence /\ p.sequence <= sentCount'
  <2>1. \A p \in toClient : p.sequence \in Nat
    BY <1>1 DEF ServerPacket
  <2> QED
    BY <1>1, <1>2, <1>3, <1>6, <2>1
<1>8. \A i \in 1..L - 1 : ~(pending'[i].kind = "snapshot")
  <2> SUFFICES ASSUME NEW i \in 1..L - 1, pending'[i].kind = "snapshot" PROVE FALSE
    OBVIOUS
  <2>1. pending[i + 1].kind = "snapshot" /\ i + 1 \in 1..L /\ i + 1 # 1
    BY <1>4
  <2> QED
    BY <1>1, <1>3, <2>1
<1>9. \A i \in 1..L : [sequence |-> s + i, message |-> pending[i]] \in Coming
  BY <1>3 DEF Coming
<1>10. new \in Coming
  BY <1>3, <1>5, <1>9
<1>11. \A i \in 1..L - 1 : [sequence |-> sentCount' + i, message |-> pending'[i]] \in Coming
  <2> SUFFICES ASSUME NEW i \in 1..L - 1
               PROVE  [sequence |-> sentCount' + i, message |-> pending'[i]] \in Coming
    OBVIOUS
  <2>1. i + 1 \in 1..L /\ sentCount' + i = s + (i + 1)
    BY <1>2, <1>3
  <2> QED
    BY <1>4, <1>9, <2>1
<1>12. Coming' \subseteq Coming
  <2>1. Coming' = toClient \cup {new} \cup
          {[sequence |-> sentCount' + i, message |-> pending'[i]] : i \in 1..L - 1}
    BY <1>4, <1>6 DEF Coming
  <2>2. toClient \subseteq Coming
    BY DEF Coming
  <2> QED
    BY ONLY <1>10, <1>11, <2>1, <2>2
<1>13. toClient' \subseteq ServerPacket /\ sentCount' \in Nat /\ sentCount <= sentCount'
  BY <1>1, <1>2, <1>6
<1> QED
  BY <1>4, <1>7, <1>8, <1>12, <1>13

(* The client takes a message: only newer ones can still come. *)
LEMMA ReceivedFacts ==
  ASSUME TypeOK, NumbersOK, NEW m \in toClient,
         toClient' = {o \in toClient : o.sequence > m.sequence},
         UNCHANGED <<pending, sentCount>>
  PROVE  /\ m \in Coming /\ m.sequence \in Nat /\ clc.serverMessageSequence < m.sequence
         /\ m.sequence <= sentCount
         /\ toClient' \subseteq ServerPacket
         /\ \A p \in toClient' : m.sequence < p.sequence /\ p.sequence <= sentCount
         /\ Coming' \subseteq Coming
         /\ \A p \in Coming' : m.sequence < p.sequence
<1>1. m \in Coming
  BY DEF Coming
<1>2. m.sequence \in Nat /\ \A p \in toClient : p.sequence \in Nat
  BY <1>1, ComingType DEF Coming
<1>3. clc.serverMessageSequence < m.sequence /\ m.sequence <= sentCount
  BY DEF NumbersOK
<1>4. toClient' \subseteq toClient /\ toClient' \subseteq ServerPacket
  BY DEF TypeOK
<1>5. \A p \in toClient' : m.sequence < p.sequence /\ p.sequence <= sentCount
  BY <1>2 DEF NumbersOK
<1>6. Coming' = toClient' \cup
        {[sequence |-> sentCount + i, message |-> pending[i]] : i \in 1..Len(pending)}
  BY DEF Coming
<1>7. Coming' \subseteq Coming
  BY <1>4, <1>6 DEF Coming
<1>8. \A i \in 1..Len(pending) : m.sequence < sentCount + i
  <2>1. sentCount \in Nat /\ Len(pending) \in Nat
    BY DEF TypeOK
  <2> QED
    BY <1>2, <1>3, <2>1
<1>9. \A p \in Coming' : m.sequence < p.sequence
  BY <1>5, <1>6, <1>8
<1> QED
  BY <1>1, <1>2, <1>3, <1>4, <1>5, <1>7, <1>9

-----------------------------------------------------------------------------
(* What a step of the server on its map does to configstrings and commands. *)
ConfigstringStep ==
  /\ sv' \in [serverId : Nat, restartedServerId : Nat, configstrings : Configstrings]
  /\ cl' \in [state : {"connected", "primed", "active"},
              gamestateMessageNum : Nat \cup {-1}, csUpdated : SUBSET Index]
  /\ commands' \in Seq(Command)
  /\ sv'.restartedServerId = sv.restartedServerId /\ sv.serverId <= sv'.serverId
  /\ sv.restartedServerId <= sv'.configstrings["systeminfo"]
  /\ sv'.configstrings["systeminfo"] <= sv'.serverId
  /\ cl'.gamestateMessageNum = cl.gamestateMessageNum
  /\ cl'.state = "connected" => cl.state = "connected"
  /\ cl'.state = "active" => cl'.csUpdated = {}
  /\ Len(commands) <= Len(commands')
  /\ \A i \in 1..Len(commands') :
       commands'[i].index = "systeminfo" => commands'[i].value <= sv'.serverId
  /\ \/ cl.state = "connected"
     \/ \A c \in Configstrings, k \in Nat :
          Follow(commands, cl.csUpdated, sv.configstrings, sv.restartedServerId, c, k) =>
          Follow(commands', cl'.csUpdated, sv'.configstrings, sv.restartedServerId, c, k)

(* What it does to the messages: at most a snapshot is new. *)
MessageStep(news) ==
  /\ toClient' \subseteq ServerPacket /\ pending' \in Seq(Message)
  /\ sentCount' \in Nat /\ sentCount <= sentCount'
  /\ \A p \in toClient' : clc.serverMessageSequence < p.sequence /\ p.sequence <= sentCount'
  /\ \A i \in 1..Len(pending') : pending'[i].kind = "snapshot" => i = 1
  /\ Coming' \subseteq Coming \cup news
  /\ \A p \in news :
       /\ p.sequence \in Nat /\ p.message.kind = "snapshot"
       /\ p.message.reliableSequence = Len(commands')
       /\ \A q \in Coming : q.sequence < p.sequence
       /\ \A q \in news : q = p

LEMMA ServerSteps ==
  ASSUME IInv, ConfigstringStep, NEW news, MessageStep(news),
         clc' = clc, toServer' \subseteq toServer, systemInfoModified' \in BOOLEAN
  PROVE  IInv'
<1>1. /\ TypeOK /\ NumbersOK /\ GamestateOK /\ CommandsOK /\ IdsOK /\ FollowsOK
  BY DEF IInv
<1>2. /\ sv.restartedServerId \in Nat /\ sv.serverId \in Nat /\ sv'.serverId \in Nat
      /\ sv'.restartedServerId = sv.restartedServerId
      /\ cl.gamestateMessageNum \in Nat \cup {-1}
      /\ cl'.gamestateMessageNum = cl.gamestateMessageNum
      /\ sv.serverId <= sv'.serverId
  BY <1>1 DEF TypeOK, ConfigstringStep
<1>3. TypeOK'
  BY <1>1 DEF TypeOK, ConfigstringStep, MessageStep
<1>4. Coming' \subseteq Coming \cup news
  BY DEF MessageStep
<1>5. /\ Gamestates' \subseteq Gamestates
      /\ \A p \in Gamestates : /\ p \in Coming /\ p.sequence \in Nat /\ p.message.map \in Nat
                               /\ p.message.reliableSequence \in Nat
                               /\ p.message.configstrings \in Configstrings
                               /\ p.message.configstrings["systeminfo"] \in Nat
  <2>1. \A p \in news : p.message.kind # "gamestate"
    BY DEF MessageStep
  <2>2. Gamestates' = {p \in Coming' : p.message.kind = "gamestate"}
    BY DEF Gamestates
  <2>3. "systeminfo" \in Index
    BY DEF Index
  <2> QED
    BY <1>1, <1>4, <2>1, <2>2, <2>3, ComingType DEF Gamestates, Configstrings
<1>6. NumbersOK'
  <2>1. \A p \in toClient' :
          clc.serverMessageSequence < p.sequence /\ p.sequence <= sentCount'
    BY DEF MessageStep
  <2>2. \A i \in 1..Len(pending') : pending'[i].kind = "snapshot" => i = 1
    BY DEF MessageStep
  <2>3. clc.serverMessageSequence <= sentCount'
    BY <1>1 DEF MessageStep, NumbersOK, TypeOK
  <2>4. \A m \in toServer' : m.messageAcknowledge <= clc.serverMessageSequence
    BY <1>1 DEF NumbersOK
  <2> QED
    BY <2>1, <2>2, <2>3, <2>4 DEF NumbersOK
<1>7. GamestateOK'
  <2>1. PICK s \in Nat, r \in Nat, g \in Nat \cup {-1} :
          s = sentCount /\ r = sentCount' /\ g = cl.gamestateMessageNum
    BY <1>1, <1>2 DEF MessageStep, TypeOK
  <2>2. s <= r /\ g <= s + 1
    BY <1>1, <2>1 DEF MessageStep, GamestateOK, outgoingSequence
  <2>3. g <= r + 1
    BY ONLY <2>2, s \in Nat, r \in Nat, g \in Nat \cup {-1}
  <2> QED
    BY <1>1, <1>2, <1>5, <2>1, <2>3 DEF GamestateOK, outgoingSequence
<1>8. CommandsOK'
  <2>1. PICK L \in Nat, M \in Nat : L = Len(commands) /\ M = Len(commands') /\ L <= M
    <3>1. Len(commands) \in Nat /\ Len(commands') \in Nat
      BY <1>1 DEF TypeOK, ConfigstringStep
    <3> QED
      BY <3>1 DEF ConfigstringStep
  <2>2. PICK e \in Nat, g \in Nat :
          e = clc.lastExecutedServerCommand /\ g = clc.gamestateCommand /\ e <= L /\ g <= L
    BY <1>1, <2>1 DEF TypeOK, CommandsOK
  <2>3. \A p \in Coming : /\ p.sequence \in Nat /\ p.message.reliableSequence \in Nat
                          /\ e <= p.message.reliableSequence /\ g <= p.message.reliableSequence
                          /\ p.message.reliableSequence <= L
    BY <1>1, <2>1, <2>2, ComingType DEF CommandsOK
  <2>4. \A p \in news : /\ p.sequence \in Nat /\ p.message.reliableSequence = M
                        /\ \A q \in Coming : q.sequence < p.sequence
                        /\ \A q \in news : q = p
    BY <2>1 DEF MessageStep
  <2>5. \A p \in Coming' : /\ e <= p.message.reliableSequence
                           /\ g <= p.message.reliableSequence
                           /\ p.message.reliableSequence <= M
    BY <1>4, <2>1, <2>2, <2>3, <2>4
  <2>6. ASSUME NEW p \in Coming', NEW q \in Coming', p.sequence < q.sequence
        PROVE  p.message.reliableSequence <= q.message.reliableSequence
    <3>1. CASE q \in news
      BY <2>1, <2>4, <2>5, <3>1
    <3>2. CASE q \in Coming /\ p \in Coming
      BY <1>1, <2>6, <3>2 DEF CommandsOK
    <3>3. CASE q \in Coming /\ p \in news
      <4>1. q.sequence < p.sequence /\ p.sequence \in Nat /\ q.sequence \in Nat
        BY <2>3, <2>4, <3>3
      <4> QED
        BY <2>6, <4>1
    <3> QED
      BY <1>4, <3>1, <3>2, <3>3
  <2>7. ASSUME clc.snap # NoSnapshot
        PROVE  /\ e <= clc.snap.serverCommandNum /\ g <= clc.snap.serverCommandNum
               /\ clc.snap.serverCommandNum <= M
               /\ \A p \in Coming' : clc.snap.serverCommandNum <= p.message.reliableSequence
    <3>1. /\ e <= clc.snap.serverCommandNum /\ g <= clc.snap.serverCommandNum
          /\ clc.snap.serverCommandNum <= L
          /\ \A p \in Coming : clc.snap.serverCommandNum <= p.message.reliableSequence
      BY <1>1, <2>1, <2>2, <2>7 DEF CommandsOK
    <3>2. clc.snap.serverCommandNum \in Int
      BY <1>1 DEF TypeOK
    <3> QED
      BY <1>4, <2>1, <2>4, <3>1, <3>2
  <2> QED
    BY <2>1, <2>2, <2>5, <2>6, <2>7 DEF CommandsOK
<1>9. IdsOK'
  <2>1. PICK R \in Nat, S \in Nat, T \in Nat :
          R = sv.restartedServerId /\ S = sv.serverId /\ T = sv'.serverId /\ S <= T
    BY <1>2
  <2>2. /\ R <= sv'.configstrings["systeminfo"] /\ sv'.configstrings["systeminfo"] <= T
        /\ \A i \in 1..Len(commands') :
             commands'[i].index = "systeminfo" => commands'[i].value <= T
    BY <2>1 DEF ConfigstringStep
  <2>3. clc.configstrings["systeminfo"] <= T
    <3>1. clc.configstrings["systeminfo"] \in Nat
      BY <1>1 DEF TypeOK, Configstrings, Index
    <3> QED
      BY <1>1, <2>1, <3>1 DEF IdsOK
  <2>4. \A m \in toServer' : m.serverId <= T
    <3>1. \A m \in toServer : m.serverId \in Nat
      BY <1>1, ToServerType
    <3> QED
      BY <1>1, <2>1, <3>1 DEF IdsOK
  <2>5. \A p \in Gamestates' :
          p.message.map <= R /\ p.message.configstrings["systeminfo"] <= T
    <3>1. \A p \in Gamestates :
            p.message.map <= R /\ p.message.configstrings["systeminfo"] <= S
      BY <1>1, <2>1 DEF IdsOK
    <3> QED
      BY <1>5, <2>1, <3>1
  <2>6. cl'.state = "connected" =>
          clc.map # R /\ \A p \in Gamestates' : p.message.map # R
    BY <1>1, <1>5, <2>1 DEF IdsOK, ConfigstringStep
  <2>7. clc.map <= R
    BY <1>1, <2>1 DEF IdsOK
  <2> QED
    BY <1>2, <2>1, <2>2, <2>3, <2>4, <2>5, <2>6, <2>7 DEF IdsOK
<1>10. FollowsOK'
  <2>1. PICK R \in Nat : R = sv.restartedServerId /\ R = sv'.restartedServerId
    BY <1>2
  <2>2. PICK k \in Nat : k = InConfigstrings /\ k = InConfigstrings'
    BY <1>1 DEF TypeOK, InConfigstrings
  <2>3. ASSUME NEW c \in Configstrings, NEW n \in Nat, cl.state # "connected",
               Follow(commands, cl.csUpdated, sv.configstrings, R, c, n)
        PROVE  Follow(commands', cl'.csUpdated, sv'.configstrings, R, c, n)
    BY <2>1, <2>3 DEF ConfigstringStep
  <2>4. ASSUME NEW p \in Gamestates', p.message.map = R
        PROVE  Follow(commands', cl'.csUpdated, sv'.configstrings, R,
                      p.message.configstrings, p.message.reliableSequence)
    <3>1. p \in Gamestates /\ cl.state # "connected"
      BY <1>1, <1>5, <2>1, <2>4 DEF IdsOK
    <3>2. Follow(commands, cl.csUpdated, sv.configstrings, R,
                 p.message.configstrings, p.message.reliableSequence)
      BY <1>1, <2>1, <2>4, <3>1 DEF FollowsOK
    <3> QED
      BY <1>5, <2>3, <3>1, <3>2
  <2>5. ASSUME clc.map = R, ~clc.replayed
        PROVE  /\ Follow(commands', cl'.csUpdated, sv'.configstrings, R,
                         clc.configstrings, k)
               /\ Gamestates' = {}
               /\ \A m \in toServer' : m.messageAcknowledge > cl'.gamestateMessageNum =>
                    m.serverId >= R
    <3>1. /\ Follow(commands, cl.csUpdated, sv.configstrings, R, clc.configstrings, k)
          /\ Gamestates = {}
          /\ \A m \in toServer : m.messageAcknowledge > cl.gamestateMessageNum =>
               m.serverId >= R
      BY <1>1, <2>1, <2>2, <2>5 DEF FollowsOK
    <3>2. cl.state # "connected" /\ clc.configstrings \in Configstrings
      BY <1>1, <2>1, <2>5 DEF IdsOK, TypeOK
    <3> QED
      BY <1>2, <1>5, <2>3, <3>1, <3>2
  <2>6. cl'.state = "active" => cl'.csUpdated = {}
    BY DEF ConfigstringStep
  <2> QED
    BY <2>1, <2>2, <2>4, <2>5, <2>6 DEF FollowsOK
<1> QED
  BY <1>3, <1>6, <1>7, <1>8, <1>9, <1>10 DEF IInv

LEMMA ServerTypes ==
  ASSUME IInv
  PROVE  /\ sv \in [serverId : Nat, restartedServerId : Nat, configstrings : Configstrings]
         /\ cl \in [state : {"connected", "primed", "active"},
                    gamestateMessageNum : Nat \cup {-1}, csUpdated : SUBSET Index]
         /\ commands \in Seq(Command) /\ Len(commands) \in Nat
         /\ sv.serverId \in Nat /\ sv.restartedServerId \in Nat
         /\ sv.configstrings \in Configstrings
         /\ \A index \in Index : sv.configstrings[index] \in Nat
         /\ sv.configstrings["systeminfo"] \in Nat
         /\ sv.restartedServerId <= sv.configstrings["systeminfo"]
         /\ sv.configstrings["systeminfo"] <= sv.serverId
         /\ cl.state = "active" => cl.csUpdated = {}
         /\ cl.csUpdated \in SUBSET Index
         /\ \A i \in 1..Len(commands) :
              commands[i].index = "systeminfo" => commands[i].value <= sv.serverId
  BY DEF IInv, TypeOK, IdsOK, FollowsOK, Configstrings, Index

LEMMA NoConfigstringStep ==
  ASSUME IInv, UNCHANGED <<sv, cl, commands>>
  PROVE  ConfigstringStep
<1>1. sv.serverId <= sv.serverId /\ Len(commands) <= Len(commands)
  BY ServerTypes
<1> QED
  BY <1>1, ServerTypes DEF ConfigstringStep

LEMMA SetConfigstringStep ==
  ASSUME IInv, NEW j \in Index, NEW w \in Nat, SV_SetConfigstring(j, w),
         j = "systeminfo" => sv.restartedServerId <= w /\ w <= sv.serverId
  PROVE  ConfigstringStep
<1>1. PICK s : s = [sv.configstrings EXCEPT ![j] = w]
  OBVIOUS
<1>2. /\ s \in Configstrings /\ s[j] = w
      /\ \A i \in Index : i # j => s[i] = sv.configstrings[i]
  BY <1>1, ServerTypes DEF Configstrings
<1>3. sv' = [sv EXCEPT !.configstrings = s]
  BY <1>1, ServerTypes DEF SV_SetConfigstring
<1>4. /\ sv' \in [serverId : Nat, restartedServerId : Nat, configstrings : Configstrings]
      /\ sv'.restartedServerId = sv.restartedServerId /\ sv'.serverId = sv.serverId
      /\ sv'.configstrings = s
  BY <1>2, <1>3, ServerTypes
<1>5. \/ s["systeminfo"] = w /\ j = "systeminfo"
      \/ s["systeminfo"] = sv.configstrings["systeminfo"]
  BY <1>2 DEF Index
<1>6. /\ sv.restartedServerId <= s["systeminfo"] /\ s["systeminfo"] <= sv.serverId
  BY <1>5, ServerTypes
<1>7. sv.serverId <= sv'.serverId
  BY <1>4, ServerTypes
<1>8. PICK S \in Nat, R \in Nat : S = sv.serverId /\ R = sv.restartedServerId
  BY ServerTypes
<1>9. CASE cl.state = "active"
  <2>1. cl' = cl /\ commands' = Append(commands, [index |-> j, value |-> w])
    BY <1>9 DEF SV_SetConfigstring
  <2>2. PICK L \in Nat : L = Len(commands)
    BY ServerTypes
  <2>3. [index |-> j, value |-> w] \in Command
    BY DEF Command
  <2>4. /\ commands' \in Seq(Command) /\ Len(commands') = L + 1
        /\ commands'[L + 1] = [index |-> j, value |-> w]
        /\ \A i \in 1..L : commands'[i] = commands[i]
    BY <2>1, <2>2, <2>3, ServerTypes
  <2>5. \A i \in 1..L + 1 : i = L + 1 \/ i \in 1..L
    OBVIOUS
  <2>6. \A i \in 1..Len(commands') :
          commands'[i].index = "systeminfo" => commands'[i].value <= S
    BY <1>8, <2>2, <2>4, <2>5, ServerTypes
  <2>7. ASSUME NEW c \in Configstrings, NEW k \in Nat,
               Follow(commands, cl.csUpdated, sv.configstrings, R, c, k)
        PROVE  Follow(commands', cl'.csUpdated, s, R, c, k)
    <3>1. j = "systeminfo" => w >= R
      BY <1>8
    <3>2. Follow(commands', cl.csUpdated \ {j}, [sv.configstrings EXCEPT ![j] = w], R, c, k)
      <4>1. PICK cmds, kept, old : cmds = commands /\ kept = cl.csUpdated /\ old = sv.configstrings
        OBVIOUS
      <4>2. /\ cmds \in Seq(Command) /\ kept \in SUBSET Index /\ old \in Configstrings
            /\ Follow(cmds, kept, old, R, c, k)
            /\ commands' = Append(cmds, [index |-> j, value |-> w])
        BY <2>1, <2>7, <4>1, ServerTypes
      <4>3. Follow(commands', kept \ {j}, [old EXCEPT ![j] = w], R, c, k)
        BY <3>1, <4>2, FollowAppend
      <4> QED
        BY <4>1, <4>3
    <3>3. cl.csUpdated = {} /\ cl.csUpdated \ {j} = {}
      BY <1>9, ServerTypes
    <3> QED
      BY <1>1, <2>1, <3>2, <3>3
  <2>8. Len(commands) <= Len(commands')
    BY <2>2, <2>4
  <2> QED
    BY <1>4, <1>6, <1>7, <1>8, <2>1, <2>4, <2>6, <2>7, <2>8, ServerTypes DEF ConfigstringStep
<1>10. CASE cl.state # "active"
  <2>1. commands' = commands /\ Len(commands) <= Len(commands)
    BY <1>10, ServerTypes DEF SV_SetConfigstring
  <2>2. \/ cl' = cl /\ cl.state = "connected"
        \/ cl' = [cl EXCEPT !.csUpdated = cl.csUpdated \cup {j}] /\ cl.state = "primed"
    BY <1>10, ServerTypes DEF SV_SetConfigstring
  <2>3. /\ cl' \in [state : {"connected", "primed", "active"},
                    gamestateMessageNum : Nat \cup {-1}, csUpdated : SUBSET Index]
        /\ cl'.state = cl.state /\ cl'.gamestateMessageNum = cl.gamestateMessageNum
        /\ cl.state = "connected" \/ cl'.csUpdated = cl.csUpdated \cup {j}
    BY <2>2, ServerTypes
  <2>4. ASSUME NEW c \in Configstrings, NEW k \in Nat, cl.state # "connected",
               Follow(commands, cl.csUpdated, sv.configstrings, R, c, k)
        PROVE  Follow(commands, cl'.csUpdated, s, R, c, k)
    <3>1. PICK cmds, kept, old : cmds = commands /\ kept = cl.csUpdated /\ old = sv.configstrings
      OBVIOUS
    <3>2. /\ cmds \in Seq(Command) /\ kept \in SUBSET Index /\ old \in Configstrings
          /\ Follow(cmds, kept, old, R, c, k)
      BY <2>4, <3>1, ServerTypes
    <3>3. Follow(cmds, kept \cup {j}, [old EXCEPT ![j] = w], R, c, k)
      BY <3>2, FollowKept
    <3> QED
      BY <1>1, <2>3, <2>4, <3>1, <3>3
  <2> QED
    BY <1>4, <1>6, <1>7, <1>8, <1>10, <2>1, <2>3, <2>4, ServerTypes DEF ConfigstringStep
<1> QED
  BY <1>9, <1>10

(* The client enters the world, perhaps because the map starts again. *)
LEMMA EnterWorldStep ==
  ASSUME IInv, SV_ClientEnterWorld, NEW T \in Nat, sv.serverId <= T,
         sv' = [sv EXCEPT !.serverId = T]
  PROVE  ConfigstringStep
<1>1. /\ sv' \in [serverId : Nat, restartedServerId : Nat, configstrings : Configstrings]
      /\ sv'.restartedServerId = sv.restartedServerId /\ sv'.serverId = T
      /\ sv'.configstrings = sv.configstrings
  BY ServerTypes
<1>2. /\ cl' \in [state : {"connected", "primed", "active"},
                  gamestateMessageNum : Nat \cup {-1}, csUpdated : SUBSET Index]
      /\ cl'.gamestateMessageNum = cl.gamestateMessageNum
      /\ cl'.state = "active" /\ cl'.csUpdated = {}
  BY ServerTypes DEF SV_ClientEnterWorld
<1>3. PICK cmds, kept, s : cmds = commands /\ kept = cl.csUpdated /\ s = sv.configstrings
  OBVIOUS
<1>4. PICK R \in Nat, S \in Nat : R = sv.restartedServerId /\ S = sv.serverId
  BY ServerTypes
<1>5. /\ cmds \in Seq(Command) /\ kept \in SUBSET Index /\ s \in Configstrings
      /\ s["systeminfo"] \in Nat /\ R <= s["systeminfo"] /\ s["systeminfo"] <= S
      /\ NoneNewer(cmds, S)
  BY <1>3, <1>4, ServerTypes DEF NoneNewer
<1>6. PICK mid : mid = cmds \o UpdateOf(kept, s, "systeminfo")
  OBVIOUS
<1>7. commands' = mid \o UpdateOf(kept, s, "other")
  BY <1>3, <1>6 DEF SV_ClientEnterWorld, UpdateConfigstrings, UpdateOf
<1>8. "systeminfo" \in Index /\ "other" \in Index
  BY DEF Index
<1>9. mid \in Seq(Command) /\ Len(cmds) <= Len(mid) /\ NoneNewer(mid, S)
  BY <1>4, <1>5, <1>6, <1>8, UpdateType
<1>10. commands' \in Seq(Command) /\ Len(mid) <= Len(commands') /\ NoneNewer(commands', S)
  BY <1>4, <1>5, <1>7, <1>8, <1>9, UpdateType
<1>11. Len(commands) <= Len(commands')
  BY <1>3, <1>5, <1>9, <1>10
<1>12. \A i \in 1..Len(commands') :
         commands'[i].index = "systeminfo" => commands'[i].value <= T
  <2>1. \A i \in 1..Len(commands') : commands'[i].value \in Nat
    BY <1>10, CommandFields
  <2> QED
    BY <1>4, <1>10, <2>1 DEF NoneNewer
<1>13. ASSUME NEW c \in Configstrings, NEW k \in Nat, Follow(cmds, kept, s, R, c, k)
       PROVE  Follow(commands', {}, s, R, c, k)
  BY <1>5, <1>6, <1>7, <1>13, FollowEnter
<1>14. R <= s["systeminfo"] /\ s["systeminfo"] <= T
  BY <1>4, <1>5
<1> QED
  BY <1>1, <1>2, <1>3, <1>4, <1>10, <1>11, <1>12, <1>13, <1>14 DEF ConfigstringStep

LEMMA NoMessageStep ==
  ASSUME IInv, UNCHANGED <<pending, sentCount, toClient>>
  PROVE  MessageStep({})
<1>1. Coming' = Coming
  BY DEF Coming
<1>2. sentCount \in Nat /\ sentCount <= sentCount
  BY DEF IInv, TypeOK
<1> QED
  BY <1>1, <1>2 DEF MessageStep, IInv, TypeOK, NumbersOK

LEMMA FragmentStep ==
  ASSUME IInv, SV_Netchan_TransmitNextFragment
  PROVE  MessageStep({})
BY FragmentFacts DEF IInv, MessageStep

LEMMA SnapshotStep ==
  ASSUME IInv, SendClientSnapshot, Len(commands') \in Nat
  PROVE  \E news : MessageStep(news)
<1>1. PICK m : m = [kind |-> "snapshot", reliableSequence |-> Len(commands'),
                    active |-> cl.state = "active"]
  OBVIOUS
<1>2. (cl.state = "active") \in BOOLEAN
  OBVIOUS
<1>3. m \in Message /\ m.kind = "snapshot" /\ m.reliableSequence = Len(commands')
  <2>1. PICK b \in BOOLEAN : b = (cl.state = "active")
    BY <1>2
  <2>2. m = [kind |-> "snapshot", reliableSequence |-> Len(commands'), active |-> b]
    BY <1>1, <2>1
  <2> QED
    BY <2>2 DEF Message
<1>4. SV_Netchan_Transmit(m) /\ pending = <<>>
  BY <1>1 DEF SendClientSnapshot, SnapshotAllowed
<1>5. PICK new : new = [sequence |-> sentCount + Len(pending) + 1, message |-> m]
  OBVIOUS
<1>6. TypeOK /\ NumbersOK
  BY DEF IInv
<1>7. /\ toClient' \subseteq ServerPacket /\ pending' \in Seq(Message)
      /\ sentCount' \in Nat /\ sentCount <= sentCount'
      /\ \A p \in toClient' :
           clc.serverMessageSequence < p.sequence /\ p.sequence <= sentCount'
      /\ \A i \in 1..Len(pending') : pending'[i].kind = "snapshot" => i = 1
      /\ Coming' \subseteq Coming \cup {new}
      /\ \A p \in Coming : p.sequence < new.sequence
  BY <1>3, <1>4, <1>5, <1>6, TransmitFacts
<1>8. new.sequence \in Nat /\ new.message = m
  BY <1>5, <1>6 DEF TypeOK
<1>9. MessageStep({new})
  BY <1>3, <1>7, <1>8 DEF MessageStep
<1> QED
  BY <1>9

-----------------------------------------------------------------------------
LEMMA FragmentKeeps == IInv /\ SV_Netchan_TransmitNextFragment => IInv'
<1> SUFFICES ASSUME IInv, SV_Netchan_TransmitNextFragment PROVE IInv'
  OBVIOUS
<1>1. MessageStep({})
  BY FragmentStep
<1>2. /\ UNCHANGED <<sv, cl, commands>> /\ clc' = clc /\ toServer' \subseteq toServer
      /\ systemInfoModified' \in BOOLEAN
  BY DEF SV_Netchan_TransmitNextFragment, IInv, TypeOK
<1> QED
  BY <1>1, <1>2, NoConfigstringStep, ServerSteps

LEMMA GameKeeps == IInv /\ GameSetsConfigstring => IInv'
<1> SUFFICES ASSUME IInv, GameSetsConfigstring PROVE IInv'
  OBVIOUS
<1>1. "other" \in Index /\ "other" # "systeminfo"
  BY DEF Index
<1>2. sv.configstrings["other"] + 1 \in Nat
  BY <1>1, ServerTypes
<1>3. SV_SetConfigstring("other", sv.configstrings["other"] + 1)
  BY DEF GameSetsConfigstring
<1>4. ConfigstringStep
  BY <1>1, <1>2, <1>3, SetConfigstringStep
<1>5. /\ UNCHANGED <<pending, sentCount, toClient>> /\ clc' = clc
      /\ toServer' \subseteq toServer /\ systemInfoModified' \in BOOLEAN
  BY DEF GameSetsConfigstring, IInv, TypeOK
<1> QED
  BY <1>4, <1>5, NoMessageStep, ServerSteps

LEMMA RestartKeeps == IInv /\ SV_MapRestart_f => IInv'
<1> SUFFICES ASSUME IInv, SV_MapRestart_f PROVE IInv'
  OBVIOUS
<1>1. SV_ClientEnterWorld /\ sv' = [sv EXCEPT !.serverId = sv.serverId + 1]
  BY DEF SV_MapRestart_f
<1>2. sv.serverId + 1 \in Nat /\ sv.serverId <= sv.serverId + 1
  BY ServerTypes
<1>3. ConfigstringStep
  BY <1>1, <1>2, EnterWorldStep
<1>4. /\ UNCHANGED <<pending, sentCount, toClient>> /\ clc' = clc
      /\ toServer' \subseteq toServer /\ systemInfoModified' \in BOOLEAN
  BY DEF SV_MapRestart_f
<1> QED
  BY <1>3, <1>4, NoMessageStep, ServerSteps

LEMMA FrameKeeps == IInv /\ SV_Frame => IInv'
<1> SUFFICES ASSUME IInv, SV_Frame PROVE IInv'
  OBVIOUS
<1>1. ConfigstringStep
  <2>1. CASE SV_SetConfigstring("systeminfo", sv.serverId)
    <3>1. /\ "systeminfo" \in Index /\ sv.serverId \in Nat
          /\ sv.restartedServerId <= sv.serverId /\ sv.serverId <= sv.serverId
      BY ServerTypes DEF Index
    <3> QED
      BY <2>1, <3>1, SetConfigstringStep
  <2>2. CASE UNCHANGED <<sv, cl, commands>>
    BY <2>2, NoConfigstringStep
  <2> QED
    BY <2>1, <2>2 DEF SV_Frame
<1>2. Len(commands') \in Nat
  BY <1>1 DEF ConfigstringStep
<1>3. \E news : MessageStep(news)
  <2>1. SendClientSnapshot \/ UNCHANGED <<pending, sentCount, toClient>>
    BY DEF SV_Frame
  <2> QED
    BY <1>2, <2>1, NoMessageStep, SnapshotStep
<1>4. clc' = clc /\ toServer' \subseteq toServer /\ systemInfoModified' \in BOOLEAN
  BY DEF SV_Frame
<1> QED
  BY <1>1, <1>3, <1>4, ServerSteps

LEMMA IgnoredKeeps ==
  ASSUME IInv, NEW m \in toServer, SV_ExecuteClientMessage(m), ~LostGamestate(m)
  PROVE  IInv'
<1>1. /\ UNCHANGED <<pending, sentCount, toClient>> /\ clc' = clc /\ sv' = sv
      /\ toServer' \subseteq toServer /\ systemInfoModified' \in BOOLEAN
      /\ SV_ClientEnterWorld \/ UNCHANGED <<cl, commands>>
  BY DEF SV_ExecuteClientMessage, IInv, TypeOK
<1>2. ConfigstringStep
  <2>1. CASE SV_ClientEnterWorld
    <3>1. /\ sv.serverId \in Nat /\ sv.serverId <= sv.serverId
          /\ sv' = [sv EXCEPT !.serverId = sv.serverId]
      BY <1>1, ServerTypes
    <3> QED
      BY <2>1, <3>1, EnterWorldStep
  <2>2. CASE UNCHANGED <<cl, commands>>
    BY <1>1, <2>2, NoConfigstringStep
  <2> QED
    BY <1>1, <2>1, <2>2
<1> QED
  BY <1>1, <1>2, NoMessageStep, ServerSteps

(* A new map: what the client has, and what is coming, is of an old one. *)
LEMMA SpawnKeeps == IInv /\ SV_SpawnServer => IInv'
<1> SUFFICES ASSUME IInv, SV_SpawnServer PROVE IInv'
  OBVIOUS
<1>1. /\ TypeOK /\ NumbersOK /\ GamestateOK /\ CommandsOK /\ IdsOK
  BY DEF IInv
<1>2. /\ cl' = [cl EXCEPT !.state = "connected"]
      /\ UNCHANGED <<commands, pending, sentCount, toClient, clc, toServer>>
      /\ systemInfoModified' = FALSE
  BY DEF SV_SpawnServer
<1>3. PICK S \in Nat, R \in Nat : S = sv.serverId /\ R = sv.restartedServerId /\ R <= S
  <2>1. /\ sv.serverId \in Nat /\ sv.restartedServerId \in Nat
        /\ sv.configstrings["systeminfo"] \in Nat
        /\ sv.restartedServerId <= sv.configstrings["systeminfo"]
        /\ sv.configstrings["systeminfo"] <= sv.serverId
    BY ServerTypes
  <2> QED
    BY <2>1
<1>4. PICK c \in Configstrings :
        /\ sv' = [serverId |-> S + 1, restartedServerId |-> S + 1, configstrings |-> c]
        /\ c["systeminfo"] = S + 1
  <2>1. PICK c : c = [index \in Index |-> IF index = "systeminfo" THEN S + 1
                                          ELSE sv.configstrings["other"] + 1]
    OBVIOUS
  <2>2. c \in Configstrings /\ c["systeminfo"] = S + 1
    BY <2>1, ServerTypes DEF Configstrings, Index
  <2>3. sv' = [serverId |-> S + 1, restartedServerId |-> S + 1, configstrings |-> c]
    BY <1>3, <2>1 DEF SV_SpawnServer
  <2> QED
    BY <2>2, <2>3
<1>5. /\ sv'.serverId = S + 1 /\ sv'.restartedServerId = S + 1
      /\ sv'.configstrings["systeminfo"] = S + 1
      /\ sv' \in [serverId : Nat, restartedServerId : Nat, configstrings : Configstrings]
  BY <1>4
<1>6. /\ cl' \in [state : {"connected", "primed", "active"},
                  gamestateMessageNum : Nat \cup {-1}, csUpdated : SUBSET Index]
      /\ cl'.gamestateMessageNum = cl.gamestateMessageNum /\ cl'.state = "connected"
  BY <1>2, ServerTypes
<1>7. TypeOK'
  BY <1>1, <1>2, <1>5, <1>6 DEF TypeOK
<1>8. Coming' = Coming /\ Gamestates' = Gamestates
  BY <1>2 DEF Coming, Gamestates
<1>9. NumbersOK'
  BY <1>1, <1>2 DEF NumbersOK
<1>10. GamestateOK'
  BY <1>1, <1>2, <1>6, <1>8 DEF GamestateOK, outgoingSequence
<1>11. CommandsOK'
  BY <1>1, <1>2, <1>8 DEF CommandsOK
<1>12. clc.map \in Nat /\ clc.map <= R
  BY <1>1, <1>3 DEF TypeOK, IdsOK
<1>13. \A p \in Gamestates : /\ p.message.map \in Nat /\ p.message.map <= R
                             /\ p.message.configstrings["systeminfo"] <= S + 1
  <2>1. "systeminfo" \in Index
    BY DEF Index
  <2>2. \A p \in Gamestates :
          p.message.map \in Nat /\ p.message.configstrings["systeminfo"] \in Nat
    BY <1>1, <2>1, ComingType DEF Configstrings
  <2>3. \A p \in Gamestates :
          p.message.map <= R /\ p.message.configstrings["systeminfo"] <= S
    BY <1>1, <1>3 DEF IdsOK
  <2> QED
    BY <2>2, <2>3
<1>14. IdsOK'
  <2>1. \A m \in toServer : m.serverId <= S + 1
    <3>1. \A m \in toServer : m.serverId \in Nat
      BY <1>1, ToServerType
    <3> QED
      BY <1>1, <1>3, <3>1 DEF IdsOK
  <2>2. clc.configstrings["systeminfo"] <= S + 1
    <3>1. clc.configstrings["systeminfo"] \in Nat
      BY <1>1 DEF TypeOK, Configstrings, Index
    <3> QED
      BY <1>1, <1>3, <3>1 DEF IdsOK
  <2>3. \A i \in 1..Len(commands) :
          commands[i].index = "systeminfo" => commands[i].value <= S + 1
    <3>1. \A i \in 1..Len(commands) : commands[i].value \in Nat
      BY ServerTypes, CommandFields
    <3> QED
      BY <1>1, <1>3, <3>1 DEF IdsOK
  <2>4. clc.map # S + 1 /\ \A p \in Gamestates : p.message.map # S + 1
    BY <1>3, <1>12, <1>13
  <2>5. clc.map <= S + 1 /\ \A p \in Gamestates : p.message.map <= S + 1
    BY <1>3, <1>12, <1>13
  <2>6. S + 1 <= S + 1
    OBVIOUS
  <2> QED
    BY <1>2, <1>5, <1>8, <1>13, <2>1, <2>2, <2>3, <2>4, <2>5, <2>6 DEF IdsOK
<1>15. FollowsOK'
  <2>1. clc.map # S + 1 /\ \A p \in Gamestates : p.message.map # S + 1
    BY <1>3, <1>12, <1>13
  <2> QED
    BY <1>2, <1>5, <1>6, <1>8, <2>1 DEF FollowsOK
<1> QED
  BY <1>7, <1>9, <1>10, <1>11, <1>14, <1>15 DEF IInv

(* The client has received something newer than the last gamestate, so no  *)
(* gamestate is on its way; and a client that has the map loses none.      *)
LEMMA ResentFacts ==
  ASSUME IInv, NEW m \in toServer, LostGamestate(m)
  PROVE  /\ Gamestates = {} /\ Len(pending) <= 1
         /\ clc.map = sv.restartedServerId => clc.replayed
<1>1. TypeOK /\ NumbersOK /\ GamestateOK /\ CommandsOK /\ IdsOK /\ FollowsOK
  BY DEF IInv
<1>2. PICK a \in Nat, r \in Nat, s \in Nat, g \in Nat \cup {-1} :
        /\ a = m.messageAcknowledge /\ r = clc.serverMessageSequence /\ s = sentCount
        /\ g = cl.gamestateMessageNum /\ g < a /\ a <= r /\ r <= s
  <2>1. /\ m.messageAcknowledge \in Nat /\ clc.serverMessageSequence \in Nat
        /\ sentCount \in Nat /\ cl.gamestateMessageNum \in Nat \cup {-1}
    BY <1>1, ToServerType DEF TypeOK
  <2>2. cl.gamestateMessageNum < m.messageAcknowledge
    BY <2>1 DEF LostGamestate
  <2> QED
    BY <1>1, <2>1, <2>2 DEF NumbersOK
<1>3. \A p \in Coming : p.sequence \in Nat /\ r < p.sequence
  <2> SUFFICES ASSUME NEW p \in Coming PROVE p.sequence \in Nat /\ r < p.sequence
    OBVIOUS
  <2>1. p.sequence \in Nat
    BY <1>1, ComingType
  <2>2. CASE p \in toClient
    BY <1>1, <1>2, <2>1, <2>2 DEF NumbersOK
  <2>3. CASE p \notin toClient
    <3>1. PICK i \in 1..Len(pending) : p = [sequence |-> s + i, message |-> pending[i]]
      BY <1>2, <2>3 DEF Coming
    <3>2. i \in Nat /\ i >= 1 /\ p.sequence = s + i
      BY <3>1, <1>1 DEF TypeOK
    <3> QED
      BY <1>2, <3>2
  <2> QED
    BY <2>1, <2>2, <2>3
<1>4. Gamestates = {}
  <2> SUFFICES ASSUME NEW p \in Gamestates PROVE FALSE
    OBVIOUS
  <2>1. p.sequence \in Nat /\ r < p.sequence
    BY <1>3 DEF Gamestates
  <2>2. p.sequence <= g + 1
    BY <1>1, <1>2 DEF GamestateOK
  <2> QED
    BY <1>2, <2>1, <2>2
<1>5. Len(pending) <= 1
  <2> SUFFICES ASSUME ~(Len(pending) <= 1) PROVE FALSE
    OBVIOUS
  <2>1. Len(pending) \in Nat /\ pending \in Seq(Message)
    BY <1>1 DEF TypeOK
  <2>2. 2 \in 1..Len(pending)
    BY <2>1
  <2>3. pending[2].kind # "snapshot" /\ pending[2] \in Message
    BY <1>1, <2>1, <2>2 DEF NumbersOK
  <2>4. pending[2].kind = "gamestate"
    BY <1>1, <2>3, ComingType
  <2>5. [sequence |-> sentCount + 2, message |-> pending[2]] \in Coming
    BY <2>2 DEF Coming
  <2> QED
    BY <1>4, <2>4, <2>5 DEF Gamestates
<1>6. ASSUME clc.map = sv.restartedServerId, ~clc.replayed PROVE FALSE
  <2>1. m.serverId >= sv.restartedServerId
    BY <1>1, <1>2, <1>6 DEF FollowsOK
  <2>2. m.serverId <= sv.serverId
    BY <1>1 DEF IdsOK
  <2>3. m.serverId \in Nat /\ sv.serverId \in Nat /\ sv.restartedServerId \in Nat
    BY <1>1, ToServerType, ServerTypes
  <2>4. m.serverId # sv.serverId /\ m.serverId \notin sv.restartedServerId..sv.serverId - 1
    BY DEF LostGamestate, Outdated
  <2> QED
    BY <2>1, <2>2, <2>3, <2>4
<1> QED
  BY <1>4, <1>5, <1>6

LEMMA ResentKeeps ==
  ASSUME IInv, NEW m \in toServer, SV_ExecuteClientMessage(m), LostGamestate(m)
  PROVE  IInv'
<1>1. TypeOK /\ NumbersOK /\ GamestateOK /\ CommandsOK /\ IdsOK /\ FollowsOK
  BY DEF IInv
<1>2. /\ UNCHANGED <<sv, commands, clc>> /\ toServer' \subseteq toServer
      /\ systemInfoModified' \in BOOLEAN /\ SV_SendClientGameState
  <2>1. m.serverId # sv.serverId
    BY DEF LostGamestate
  <2>2. SV_SendClientGameState /\ UNCHANGED commands
    BY <2>1 DEF SV_ExecuteClientMessage
  <2>3. /\ UNCHANGED <<sv, systemInfoModified, clc>>
        /\ toServer' = {o \in toServer : o.sequence > m.sequence}
    BY DEF SV_ExecuteClientMessage
  <2> QED
    BY <1>1, <2>2, <2>3 DEF TypeOK
<1>3. Gamestates = {} /\ Len(pending) <= 1 /\ (clc.map = sv.restartedServerId => clc.replayed)
  BY ResentFacts
<1>4. PICK g : g = [kind |-> "gamestate", reliableSequence |-> Len(commands),
                    configstrings |-> sv.configstrings, map |-> sv.restartedServerId]
  OBVIOUS
<1>5. /\ g \in Message /\ g.kind = "gamestate" /\ g.reliableSequence = Len(commands)
      /\ g.configstrings = sv.configstrings /\ g.map = sv.restartedServerId
  BY <1>4, ServerTypes DEF Message
<1>6. SV_Netchan_Transmit(g)
  BY <1>2, <1>4 DEF SV_SendClientGameState
<1>7. /\ cl' \in [state : {"connected", "primed", "active"},
                  gamestateMessageNum : Nat \cup {-1}, csUpdated : SUBSET Index]
      /\ cl'.gamestateMessageNum = sentCount + 1 /\ cl'.state = "primed"
      /\ cl'.csUpdated = cl.csUpdated
  <2>1. sentCount + 1 \in Nat
    BY <1>1 DEF TypeOK
  <2>2. cl' = [cl EXCEPT !.state = "primed", !.gamestateMessageNum = sentCount + 1]
    BY <1>2 DEF SV_SendClientGameState, outgoingSequence
  <2> QED
    BY <2>1, <2>2, ServerTypes
<1>8. PICK new : new = [sequence |-> sentCount + Len(pending) + 1, message |-> g]
  OBVIOUS
<1>9. /\ toClient' \subseteq ServerPacket /\ pending' \in Seq(Message)
      /\ sentCount' \in Nat /\ sentCount <= sentCount'
      /\ \A p \in toClient' :
           clc.serverMessageSequence < p.sequence /\ p.sequence <= sentCount'
      /\ \A i \in 1..Len(pending') : pending'[i].kind = "snapshot" => i = 1
      /\ Coming' \subseteq Coming \cup {new}
      /\ \A p \in Coming : p.sequence < new.sequence
  BY <1>1, <1>5, <1>6, <1>8, TransmitFacts
<1>10. PICK s \in Nat, L \in Nat, C \in Nat :
         s = sentCount /\ L = Len(pending) /\ L <= 1 /\ C = Len(commands)
  <2>1. sentCount \in Nat /\ Len(pending) \in Nat /\ Len(commands) \in Nat
    BY <1>1, ServerTypes DEF TypeOK
  <2> QED
    BY <1>3, <2>1
<1>11. new.sequence = s + L + 1 /\ new.message = g /\ new.sequence <= s + 1 + 1
  BY <1>8, <1>10
<1>12. \A p \in Gamestates' : p = new
  BY <1>3, <1>9 DEF Gamestates
<1>13. TypeOK'
  BY <1>1, <1>2, <1>7, <1>9 DEF TypeOK
<1>14. NumbersOK'
  <2>1. clc.serverMessageSequence <= sentCount'
    BY <1>1, <1>9 DEF TypeOK, NumbersOK
  <2>2. \A o \in toServer' : o.messageAcknowledge <= clc.serverMessageSequence
    BY <1>1, <1>2 DEF NumbersOK
  <2> QED
    BY <1>2, <1>9, <2>1, <2>2 DEF NumbersOK
<1>15. GamestateOK'
  <2>1. sentCount + 1 <= sentCount' + 1
    <3>1. sentCount \in Nat /\ sentCount' \in Nat /\ sentCount <= sentCount'
      BY <1>1, <1>9 DEF TypeOK
    <3>2. PICK t \in Nat : t = sentCount' /\ s <= t
      BY <1>10, <3>1
    <3>3. s <= t
      BY <3>2
    <3>4. s + 1 <= t + 1
      BY ONLY s \in Nat, t \in Nat, <3>3
    <3> QED
      BY <1>10, <3>2, <3>4
  <2> QED
    BY <1>7, <1>10, <1>11, <1>12, <2>1 DEF GamestateOK, outgoingSequence
<1>16. CommandsOK'
  <2>1. PICK e \in Nat, c \in Nat :
          e = clc.lastExecutedServerCommand /\ c = clc.gamestateCommand /\ e <= C /\ c <= C
    BY <1>1, <1>10 DEF TypeOK, CommandsOK
  <2>2. \A p \in Coming : /\ p.sequence \in Nat /\ p.message.reliableSequence \in Nat
                          /\ e <= p.message.reliableSequence /\ c <= p.message.reliableSequence
                          /\ p.message.reliableSequence <= C
    BY <1>1, <1>10, <2>1, ComingType DEF CommandsOK
  <2>3. new.message.reliableSequence = C /\ new.sequence \in Nat
    BY <1>5, <1>10, <1>11
  <2>4. \A p \in Coming' : /\ e <= p.message.reliableSequence
                           /\ c <= p.message.reliableSequence
                           /\ p.message.reliableSequence <= C
    BY <1>9, <2>1, <2>2, <2>3
  <2>5. ASSUME NEW p \in Coming', NEW q \in Coming', p.sequence < q.sequence
        PROVE  p.message.reliableSequence <= q.message.reliableSequence
    <3>1. CASE q = new
      BY <2>3, <2>4, <3>1
    <3>2. CASE q \in Coming /\ p \in Coming
      BY <1>1, <2>5, <3>2 DEF CommandsOK
    <3>3. CASE q \in Coming /\ p = new
      <4>1. q.sequence < p.sequence /\ p.sequence \in Nat /\ q.sequence \in Nat
        BY <1>9, <2>2, <2>3, <3>3
      <4> QED
        BY <2>5, <4>1
    <3> QED
      BY <1>9, <3>1, <3>2, <3>3
  <2>6. ASSUME clc.snap # NoSnapshot
        PROVE  /\ e <= clc.snap.serverCommandNum /\ c <= clc.snap.serverCommandNum
               /\ clc.snap.serverCommandNum <= C
               /\ \A p \in Coming' : clc.snap.serverCommandNum <= p.message.reliableSequence
    <3>1. /\ e <= clc.snap.serverCommandNum /\ c <= clc.snap.serverCommandNum
          /\ clc.snap.serverCommandNum <= C
          /\ \A p \in Coming : clc.snap.serverCommandNum <= p.message.reliableSequence
      BY <1>1, <1>10, <2>1, <2>6 DEF CommandsOK
    <3> QED
      BY <1>9, <2>3, <3>1
  <2> QED
    BY <1>2, <1>10, <2>1, <2>4, <2>5, <2>6 DEF CommandsOK
<1>17. IdsOK'
  <2>1. /\ new.message.map = sv.restartedServerId
        /\ new.message.configstrings["systeminfo"] <= sv.serverId
    BY <1>5, <1>11, ServerTypes
  <2>2. sv.restartedServerId <= sv.restartedServerId
    BY ServerTypes
  <2> QED
    BY <1>1, <1>2, <1>7, <1>12, <2>1, <2>2 DEF IdsOK
<1>18. FollowsOK'
  <2>1. Follow(commands, cl.csUpdated, sv.configstrings, sv.restartedServerId,
               sv.configstrings, Len(commands))
    <3>1. \A index \in Index : Brings(commands, sv.configstrings, Len(commands), index,
                                      sv.configstrings[index])
      BY ServerTypes, BringsLast
    <3>2. Len(commands) <= Len(commands) /\ \A i \in Len(commands) + 1..Len(commands) : FALSE
      BY <1>10
    <3>3. sv.configstrings["systeminfo"] >= sv.restartedServerId
      BY ServerTypes
    <3> QED
      BY <3>1, <3>2, <3>3 DEF Follow
  <2>2. \A p \in Gamestates' : /\ p.message.configstrings = sv.configstrings
                               /\ p.message.reliableSequence = Len(commands)
    BY <1>5, <1>11, <1>12
  <2> QED
    BY <1>2, <1>3, <1>7, <2>1, <2>2 DEF FollowsOK
<1> QED
  BY <1>13, <1>14, <1>15, <1>16, <1>17, <1>18 DEF IInv

LEMMA PacketFacts ==
  ASSUME TypeOK, NEW c, c.sent \in Nat, c.configstrings["systeminfo"] \in Nat,
         c.serverMessageSequence \in Nat
  PROVE  /\ Packet(c) \in ClientPacket
         /\ Packet(c).messageAcknowledge = c.serverMessageSequence
         /\ Packet(c).serverId = c.configstrings["systeminfo"]
<1>1. PICK b \in BOOLEAN : b = (c.state # "connected")
  OBVIOUS
<1>2. Packet(c) = [sequence |-> c.sent + 1, serverId |-> c.configstrings["systeminfo"],
                   messageAcknowledge |-> c.serverMessageSequence, move |-> b]
  BY <1>1 DEF Packet
<1> QED
  BY <1>2 DEF ClientPacket

LEMMA ClientTypes ==
  ASSUME IInv
  PROVE  /\ clc \in [state : {"connected", "primed", "active"}, serverMessageSequence : Nat,
                     lastExecutedServerCommand : Nat,
                     snap : [active : BOOLEAN, serverCommandNum : Nat \cup {-1}],
                     configstrings : Configstrings, map : Nat, gamestateCommand : Nat,
                     replayed : BOOLEAN, sent : Nat]
         /\ clc.configstrings \in Configstrings /\ clc.configstrings["systeminfo"] \in Nat
         /\ clc.serverMessageSequence \in Nat /\ clc.sent \in Nat
         /\ clc.lastExecutedServerCommand \in Nat /\ clc.gamestateCommand \in Nat
         /\ clc.snap.serverCommandNum \in Nat \cup {-1}
  BY DEF IInv, TypeOK, Configstrings, Index

LEMMA WriteKeeps == IInv /\ CL_WritePacket => IInv'
<1> SUFFICES ASSUME IInv, CL_WritePacket PROVE IInv'
  OBVIOUS
<1>1. TypeOK /\ NumbersOK /\ GamestateOK /\ CommandsOK /\ IdsOK /\ FollowsOK
  BY DEF IInv
<1>2. PICK packet : packet = Packet(clc)
  OBVIOUS
<1>3. /\ UNCHANGED <<sv, systemInfoModified, cl, commands, pending, sentCount, toClient>>
      /\ toServer' = toServer \cup {packet} /\ clc' = [clc EXCEPT !.sent = clc.sent + 1]
  BY <1>2 DEF CL_WritePacket, serverVars
<1>4. /\ packet \in ClientPacket /\ packet.messageAcknowledge = clc.serverMessageSequence
      /\ packet.serverId = clc.configstrings["systeminfo"]
  BY <1>1, <1>2, ClientTypes, PacketFacts
<1>5. /\ clc' \in [state : {"connected", "primed", "active"}, serverMessageSequence : Nat,
                   lastExecutedServerCommand : Nat,
                   snap : [active : BOOLEAN, serverCommandNum : Nat \cup {-1}],
                   configstrings : Configstrings, map : Nat, gamestateCommand : Nat,
                   replayed : BOOLEAN, sent : Nat]
      /\ clc'.serverMessageSequence = clc.serverMessageSequence
      /\ clc'.lastExecutedServerCommand = clc.lastExecutedServerCommand
      /\ clc'.snap = clc.snap /\ clc'.configstrings = clc.configstrings
      /\ clc'.map = clc.map /\ clc'.gamestateCommand = clc.gamestateCommand
      /\ clc'.replayed = clc.replayed
  <2>1. clc.sent + 1 \in Nat
    BY ClientTypes
  <2> QED
    BY <1>3, <2>1, ClientTypes
<1>6. Coming' = Coming /\ Gamestates' = Gamestates /\ InConfigstrings' = InConfigstrings
  BY <1>3, <1>5 DEF Coming, Gamestates, InConfigstrings
<1>7. TypeOK'
  BY <1>1, <1>3, <1>4, <1>5 DEF TypeOK
<1>8. NumbersOK'
  <2>1. clc.serverMessageSequence <= clc.serverMessageSequence
    BY ClientTypes
  <2>2. \A o \in toServer' : o.messageAcknowledge <= clc.serverMessageSequence
    BY <1>1, <1>3, <1>4, <2>1 DEF NumbersOK
  <2> QED
    BY <1>1, <1>3, <1>5, <2>2 DEF NumbersOK
<1>9. GamestateOK'
  BY <1>1, <1>3, <1>6 DEF GamestateOK, outgoingSequence
<1>10. CommandsOK'
  BY <1>1, <1>3, <1>5, <1>6 DEF CommandsOK
<1>11. IdsOK'
  <2>1. \A o \in toServer' : o.serverId <= sv.serverId
    BY <1>1, <1>3, <1>4 DEF IdsOK
  <2> QED
    BY <1>1, <1>3, <1>5, <1>6, <2>1 DEF IdsOK
<1>12. FollowsOK'
  <2>1. ASSUME clc.map = sv.restartedServerId, ~clc.replayed
        PROVE  \A o \in toServer' : o.messageAcknowledge > cl.gamestateMessageNum =>
                 o.serverId >= sv.restartedServerId
    <3>1. packet.serverId >= sv.restartedServerId
      BY <1>1, <1>4, <2>1 DEF FollowsOK, Follow
    <3> QED
      BY <1>1, <1>3, <2>1, <3>1 DEF FollowsOK
  <2> QED
    BY <1>1, <1>3, <1>5, <1>6, <2>1 DEF FollowsOK
<1> QED
  BY <1>7, <1>8, <1>9, <1>10, <1>11, <1>12 DEF IInv

(* The client loads the one gamestate that was coming. *)
LEMMA GamestateKeeps ==
  ASSUME IInv, NEW m \in toClient, CL_ParseServerMessage(m), m.message.kind = "gamestate"
  PROVE  IInv'
<1>1. TypeOK /\ NumbersOK /\ GamestateOK /\ CommandsOK /\ IdsOK /\ FollowsOK
  BY DEF IInv
<1>2. /\ UNCHANGED <<sv, systemInfoModified, cl, commands, pending, sentCount>>
      /\ toClient' = {o \in toClient : o.sequence > m.sequence}
      /\ ParseGamestate(m.sequence, m.message)
  BY DEF CL_ParseServerMessage, serverVars
<1>3. /\ m \in Coming /\ m.sequence \in Nat /\ clc.serverMessageSequence < m.sequence
      /\ m.sequence <= sentCount
      /\ toClient' \subseteq ServerPacket
      /\ \A p \in toClient' : m.sequence < p.sequence /\ p.sequence <= sentCount
      /\ Coming' \subseteq Coming
      /\ \A p \in Coming' : m.sequence < p.sequence
  BY <1>1, <1>2, ReceivedFacts
<1>4. m \in Gamestates
  BY <1>3 DEF Gamestates
<1>5. PICK n \in Nat, c \in Configstrings, w \in Nat, k \in Nat :
        /\ n = m.sequence /\ c = m.message.configstrings /\ w = m.message.map
        /\ k = m.message.reliableSequence
  <2>1. /\ m.message.configstrings \in Configstrings /\ m.message.map \in Nat
        /\ m.message.reliableSequence \in Nat
    BY <1>1, <1>4, ComingType
  <2> QED
    BY <1>3, <2>1
<1>6. PICK loaded : loaded = [clc EXCEPT
        !.state = "primed", !.serverMessageSequence = n, !.snap = NoSnapshot,
        !.configstrings = c, !.map = w, !.gamestateCommand = k, !.replayed = FALSE]
  OBVIOUS
<1>7. /\ toServer' = toServer \cup {Packet(loaded)}
      /\ clc' = [loaded EXCEPT !.sent = loaded.sent + 1]
  BY <1>2, <1>5, <1>6 DEF ParseGamestate
<1>8. NoSnapshot \in [active : BOOLEAN, serverCommandNum : Nat \cup {-1}]
  BY DEF NoSnapshot
<1>9. /\ loaded \in [state : {"connected", "primed", "active"}, serverMessageSequence : Nat,
                     lastExecutedServerCommand : Nat,
                     snap : [active : BOOLEAN, serverCommandNum : Nat \cup {-1}],
                     configstrings : Configstrings, map : Nat, gamestateCommand : Nat,
                     replayed : BOOLEAN, sent : Nat]
      /\ loaded.state = "primed" /\ loaded.serverMessageSequence = n
      /\ loaded.snap = NoSnapshot
      /\ loaded.configstrings = c /\ loaded.map = w /\ loaded.gamestateCommand = k
      /\ loaded.replayed = FALSE /\ loaded.sent = clc.sent
      /\ loaded.lastExecutedServerCommand = clc.lastExecutedServerCommand
  BY <1>6, <1>8, ClientTypes
<1>10. /\ clc' \in [state : {"connected", "primed", "active"}, serverMessageSequence : Nat,
                    lastExecutedServerCommand : Nat,
                    snap : [active : BOOLEAN, serverCommandNum : Nat \cup {-1}],
                    configstrings : Configstrings, map : Nat, gamestateCommand : Nat,
                    replayed : BOOLEAN, sent : Nat]
       /\ clc'.serverMessageSequence = n /\ clc'.snap = NoSnapshot
       /\ clc'.configstrings = c /\ clc'.map = w /\ clc'.gamestateCommand = k
       /\ clc'.replayed = FALSE
       /\ clc'.lastExecutedServerCommand = clc.lastExecutedServerCommand
  <2>1. loaded.sent + 1 \in Nat
    BY <1>9, ClientTypes
  <2> QED
    BY <1>7, <1>9, <2>1
<1>11. PICK packet : /\ packet = Packet(loaded) /\ packet \in ClientPacket
                     /\ packet.messageAcknowledge = n /\ packet.serverId = c["systeminfo"]
  <2>1. c["systeminfo"] \in Nat /\ loaded.sent \in Nat
    BY <1>9, ClientTypes DEF Configstrings, Index
  <2>2. /\ Packet(loaded) \in ClientPacket
        /\ Packet(loaded).messageAcknowledge = loaded.serverMessageSequence
        /\ Packet(loaded).serverId = loaded.configstrings["systeminfo"]
    BY <1>1, <1>9, <2>1, PacketFacts
  <2> QED
    BY <1>9, <2>2
<1>12. toServer' = toServer \cup {packet}
  BY <1>7, <1>11
<1>13. Gamestates' = {}
  <2> SUFFICES ASSUME NEW p \in Gamestates' PROVE FALSE
    OBVIOUS
  <2>1. p \in Coming' /\ p.message.kind = "gamestate"
    BY DEF Gamestates
  <2>2. m.sequence < p.sequence /\ p \in Gamestates
    BY <1>3, <2>1 DEF Gamestates
  <2>3. p = m
    BY <1>1, <1>4, <2>2 DEF GamestateOK
  <2> QED
    BY <1>3, <2>2, <2>3
<1>14. \A o \in toServer : /\ o.messageAcknowledge <= n
                           /\ o.messageAcknowledge <= cl.gamestateMessageNum
  <2> SUFFICES ASSUME NEW o \in toServer
               PROVE  /\ o.messageAcknowledge <= n
                      /\ o.messageAcknowledge <= cl.gamestateMessageNum
    OBVIOUS
  <2>1. PICK a \in Nat, r \in Nat, g \in Nat \cup {-1} :
          /\ a = o.messageAcknowledge /\ r = clc.serverMessageSequence
          /\ g = cl.gamestateMessageNum
    <3>1. o.messageAcknowledge \in Nat /\ cl.gamestateMessageNum \in Nat \cup {-1}
      BY <1>1, ToServerType, ServerTypes
    <3> QED
      BY <3>1, ClientTypes
  <2>2. a <= r /\ r < n /\ n <= g + 1
    BY <1>1, <1>3, <1>4, <1>5, <2>1 DEF NumbersOK, GamestateOK
  <2> QED
    BY <2>1, <2>2
<1>15. TypeOK'
  BY <1>1, <1>2, <1>3, <1>10, <1>11, <1>12 DEF TypeOK
<1>16. NumbersOK'
  <2>1. \A o \in toServer' : o.messageAcknowledge <= n
    BY <1>11, <1>12, <1>14
  <2> QED
    BY <1>1, <1>2, <1>3, <1>5, <1>10, <2>1 DEF NumbersOK
<1>17. GamestateOK'
  BY <1>1, <1>2, <1>13 DEF GamestateOK, outgoingSequence
<1>18. CommandsOK'
  <2>1. /\ clc.lastExecutedServerCommand <= k /\ k <= Len(commands)
        /\ clc.lastExecutedServerCommand <= Len(commands)
    BY <1>1, <1>3, <1>5 DEF CommandsOK
  <2>2. \A p \in Coming' : k <= p.message.reliableSequence
    BY <1>1, <1>3, <1>5 DEF CommandsOK
  <2> QED
    BY <1>1, <1>2, <1>3, <1>10, <2>1, <2>2 DEF CommandsOK
<1>19. IdsOK'
  <2>1. /\ c["systeminfo"] <= sv.serverId /\ w <= sv.restartedServerId
        /\ cl.state = "connected" => w # sv.restartedServerId
    BY <1>1, <1>4, <1>5 DEF IdsOK
  <2>2. \A o \in toServer' : o.serverId <= sv.serverId
    BY <1>1, <1>11, <1>12, <2>1 DEF IdsOK
  <2> QED
    BY <1>1, <1>2, <1>10, <1>13, <2>1, <2>2 DEF IdsOK
<1>20. FollowsOK'
  <2>1. InConfigstrings' = k
    <3>1. clc.lastExecutedServerCommand <= k
      BY <1>1, <1>3, <1>5 DEF CommandsOK
    <3> QED
      BY <1>10, <3>1, ClientTypes DEF InConfigstrings
  <2>2. ASSUME w = sv.restartedServerId
        PROVE  /\ Follow(commands, cl.csUpdated, sv.configstrings, sv.restartedServerId, c, k)
               /\ \A o \in toServer' : o.messageAcknowledge > cl.gamestateMessageNum =>
                    o.serverId >= sv.restartedServerId
    <3>1. Follow(commands, cl.csUpdated, sv.configstrings, sv.restartedServerId, c, k)
      BY <1>1, <1>4, <1>5, <2>2 DEF FollowsOK
    <3>2. packet.serverId >= sv.restartedServerId
      BY <1>11, <3>1 DEF Follow
    <3>3. \A o \in toServer : ~(o.messageAcknowledge > cl.gamestateMessageNum)
      <4>1. \A o \in toServer : o.messageAcknowledge \in Nat
        BY <1>1, ToServerType
      <4>2. cl.gamestateMessageNum \in Int
        BY ServerTypes
      <4> QED
        BY <1>14, <4>1, <4>2
    <3> QED
      BY <1>12, <3>1, <3>2, <3>3
  <2>3. cl.state = "active" => cl.csUpdated = {}
    BY ServerTypes
  <2> QED
    BY <1>2, <1>10, <1>13, <2>1, <2>2, <2>3 DEF FollowsOK
<1> QED
  BY <1>15, <1>16, <1>17, <1>18, <1>19, <1>20 DEF IInv

LEMMA SnapshotKeeps ==
  ASSUME IInv, NEW m \in toClient, CL_ParseServerMessage(m), m.message.kind = "snapshot"
  PROVE  IInv'
<1>1. TypeOK /\ NumbersOK /\ GamestateOK /\ CommandsOK /\ IdsOK /\ FollowsOK
  BY DEF IInv
<1>2. /\ UNCHANGED <<sv, systemInfoModified, cl, commands, pending, sentCount, toServer>>
      /\ toClient' = {o \in toClient : o.sequence > m.sequence}
      /\ ParseSnapshot(m.sequence, m.message)
  BY DEF CL_ParseServerMessage, ParseSnapshot, serverVars
<1>3. /\ m \in Coming /\ m.sequence \in Nat /\ clc.serverMessageSequence < m.sequence
      /\ m.sequence <= sentCount
      /\ toClient' \subseteq ServerPacket
      /\ \A p \in toClient' : m.sequence < p.sequence /\ p.sequence <= sentCount
      /\ Coming' \subseteq Coming
      /\ \A p \in Coming' : m.sequence < p.sequence
  BY <1>1, <1>2, ReceivedFacts
<1>4. PICK n \in Nat, k \in Nat : n = m.sequence /\ k = m.message.reliableSequence
  <2>1. m.message.reliableSequence \in Nat
    BY <1>1, <1>3, ComingType
  <2> QED
    BY <1>3, <2>1
<1>5. PICK b \in BOOLEAN : b = m.message.active
  <2>1. m.message \in Message
    BY <1>1, <1>3, ComingType
  <2> QED
    BY <2>1 DEF Message
<1>6. PICK s \in [active : BOOLEAN, serverCommandNum : Nat \cup {-1}] :
        /\ s = clc.snap \/ s = [active |-> b, serverCommandNum |-> k]
        /\ clc' = [clc EXCEPT !.serverMessageSequence = n, !.snap = s]
  <2>1. clc.snap \in [active : BOOLEAN, serverCommandNum : Nat \cup {-1}]
    BY ClientTypes
  <2>2. [active |-> b, serverCommandNum |-> k] \in
          [active : BOOLEAN, serverCommandNum : Nat \cup {-1}]
    OBVIOUS
  <2>3. CASE clc.state = "connected"
    <3>1. clc' = [clc EXCEPT !.serverMessageSequence = n, !.snap = clc.snap]
      BY <1>2, <1>4, <2>3 DEF ParseSnapshot
    <3> QED
      BY <2>1, <3>1
  <2>4. CASE clc.state # "connected"
    <3>1. clc' = [clc EXCEPT !.serverMessageSequence = n,
                             !.snap = [active |-> b, serverCommandNum |-> k]]
      BY <1>2, <1>4, <1>5, <2>4 DEF ParseSnapshot
    <3> QED
      BY <2>2, <3>1
  <2> QED
    BY <2>3, <2>4
<1>7. /\ clc' \in [state : {"connected", "primed", "active"}, serverMessageSequence : Nat,
                   lastExecutedServerCommand : Nat,
                   snap : [active : BOOLEAN, serverCommandNum : Nat \cup {-1}],
                   configstrings : Configstrings, map : Nat, gamestateCommand : Nat,
                   replayed : BOOLEAN, sent : Nat]
      /\ clc'.serverMessageSequence = n /\ clc'.snap = s
      /\ clc'.lastExecutedServerCommand = clc.lastExecutedServerCommand
      /\ clc'.configstrings = clc.configstrings
      /\ clc'.map = clc.map /\ clc'.gamestateCommand = clc.gamestateCommand
      /\ clc'.replayed = clc.replayed
  BY <1>6, ClientTypes
<1>8. Gamestates' \subseteq Gamestates /\ InConfigstrings' = InConfigstrings
  BY <1>3, <1>7 DEF Gamestates, InConfigstrings
<1>9. TypeOK'
  BY <1>1, <1>2, <1>3, <1>7 DEF TypeOK
<1>10. NumbersOK'
  <2>1. \A o \in toServer : o.messageAcknowledge <= n
    <3>1. \A o \in toServer : o.messageAcknowledge \in Nat
      BY <1>1, ToServerType
    <3>2. \A o \in toServer : o.messageAcknowledge <= clc.serverMessageSequence
      BY <1>1 DEF NumbersOK
    <3> QED
      BY <1>3, <1>4, <3>1, <3>2, ClientTypes
  <2> QED
    BY <1>1, <1>2, <1>3, <1>4, <1>7, <2>1 DEF NumbersOK
<1>11. GamestateOK'
  BY <1>1, <1>2, <1>8 DEF GamestateOK, outgoingSequence
<1>12. CommandsOK'
  <2>1. ASSUME s # NoSnapshot
        PROVE  /\ clc.lastExecutedServerCommand <= s.serverCommandNum
               /\ clc.gamestateCommand <= s.serverCommandNum
               /\ s.serverCommandNum <= Len(commands)
               /\ \A p \in Coming' : s.serverCommandNum <= p.message.reliableSequence
    <3>1. CASE s = clc.snap
      BY <1>1, <1>3, <2>1, <3>1 DEF CommandsOK
    <3>2. CASE s = [active |-> b, serverCommandNum |-> k]
      <4>1. s.serverCommandNum = k
        BY <3>2
      <4>2. /\ clc.lastExecutedServerCommand <= k /\ clc.gamestateCommand <= k
            /\ k <= Len(commands)
        BY <1>1, <1>3, <1>4 DEF CommandsOK
      <4>3. \A p \in Coming' : k <= p.message.reliableSequence
        BY <1>1, <1>3, <1>4 DEF CommandsOK
      <4> QED
        BY <4>1, <4>2, <4>3
    <3> QED
      BY <1>6, <3>1, <3>2
  <2> QED
    BY <1>1, <1>2, <1>3, <1>7, <2>1 DEF CommandsOK
<1>13. IdsOK'
  BY <1>1, <1>2, <1>7, <1>8 DEF IdsOK
<1>14. FollowsOK'
  BY <1>1, <1>2, <1>7, <1>8 DEF FollowsOK
<1> QED
  BY <1>9, <1>10, <1>11, <1>12, <1>13, <1>14 DEF IInv

(* The cgame goes on to the newest snapshot. *)
LEMMA ProcessKeeps == IInv /\ CG_ProcessSnapshots => IInv'
<1> SUFFICES ASSUME IInv, CG_ProcessSnapshots PROVE IInv'
  OBVIOUS
<1>1. TypeOK /\ NumbersOK /\ GamestateOK /\ CommandsOK /\ IdsOK /\ FollowsOK
  BY DEF IInv
<1>2. /\ clc.snap # NoSnapshot
      /\ UNCHANGED <<sv, systemInfoModified, cl, commands, pending, sentCount, toClient, toServer>>
  BY DEF CG_ProcessSnapshots, serverVars
<1>3. PICK k \in Nat, g \in Nat, n \in Nat :
        /\ k = clc.lastExecutedServerCommand /\ g = clc.gamestateCommand
        /\ n = clc.snap.serverCommandNum
        /\ k <= n /\ g <= n /\ n <= Len(commands)
        /\ \A p \in Coming : n <= p.message.reliableSequence
  <2>1. /\ clc.lastExecutedServerCommand <= clc.snap.serverCommandNum
        /\ clc.gamestateCommand <= clc.snap.serverCommandNum
        /\ clc.snap.serverCommandNum <= Len(commands)
        /\ \A p \in Coming : clc.snap.serverCommandNum <= p.message.reliableSequence
    BY <1>1, <1>2 DEF CommandsOK
  <2>2. clc.snap.serverCommandNum \in Nat
    BY <2>1, ClientTypes
  <2> QED
    BY <2>1, <2>2, ClientTypes
<1>4. Coming' = Coming /\ Gamestates' = Gamestates
  BY <1>2 DEF Coming, Gamestates
<1>5. NoSnapshot \in [active : BOOLEAN, serverCommandNum : Nat \cup {-1}]
  BY DEF NoSnapshot
<1>6. PICK S \in Nat : S = sv.serverId
  BY ServerTypes
<1>7. CASE clc' = [clc EXCEPT !.snap = NoSnapshot]
  <2>1. /\ clc' \in [state : {"connected", "primed", "active"}, serverMessageSequence : Nat,
                     lastExecutedServerCommand : Nat,
                     snap : [active : BOOLEAN, serverCommandNum : Nat \cup {-1}],
                     configstrings : Configstrings, map : Nat, gamestateCommand : Nat,
                     replayed : BOOLEAN, sent : Nat]
        /\ clc'.serverMessageSequence = clc.serverMessageSequence
        /\ clc'.snap = NoSnapshot
        /\ clc'.lastExecutedServerCommand = clc.lastExecutedServerCommand
        /\ clc'.configstrings = clc.configstrings
        /\ clc'.map = clc.map /\ clc'.gamestateCommand = clc.gamestateCommand
        /\ clc'.replayed = clc.replayed
    BY <1>5, <1>7, ClientTypes
  <2>2. InConfigstrings' = InConfigstrings
    BY <2>1 DEF InConfigstrings
  <2>3. TypeOK'
    BY <1>1, <1>2, <2>1 DEF TypeOK
  <2>4. NumbersOK' /\ GamestateOK'
    BY <1>1, <1>2, <1>4, <2>1 DEF NumbersOK, GamestateOK, outgoingSequence
  <2>5. CommandsOK'
    BY <1>1, <1>2, <1>4, <2>1 DEF CommandsOK
  <2>6. IdsOK' /\ FollowsOK'
    BY <1>1, <1>2, <1>4, <2>1, <2>2 DEF IdsOK, FollowsOK
  <2> QED
    BY <2>3, <2>4, <2>5, <2>6 DEF IInv
<1>8. CASE clc' = [clc EXCEPT
             !.state = "active", !.snap = NoSnapshot, !.lastExecutedServerCommand = n,
             !.replayed = clc.replayed \/ k < g,
             !.configstrings = [index \in Index |-> Executed(n, index)]]
  <2>1. PICK d : d = [index \in Index |-> Executed(n, index)]
    OBVIOUS
  <2>2. d \in Configstrings /\ d["systeminfo"] <= S
    <3>1. /\ clc.configstrings["systeminfo"] <= S
          /\ \A i \in 1..Len(commands) :
               commands[i].index = "systeminfo" => commands[i].value <= S
      BY <1>1, <1>6 DEF IdsOK
    <3> QED
      BY <1>1, <1>3, <2>1, <3>1, ExecutedType
  <2>3. PICK r \in BOOLEAN : r = (clc.replayed \/ k < g)
    OBVIOUS
  <2>4. clc' = [clc EXCEPT !.state = "active", !.snap = NoSnapshot,
                  !.lastExecutedServerCommand = n, !.replayed = r, !.configstrings = d]
    BY <1>8, <2>1, <2>3
  <2>5. /\ clc' \in [state : {"connected", "primed", "active"}, serverMessageSequence : Nat,
                     lastExecutedServerCommand : Nat,
                     snap : [active : BOOLEAN, serverCommandNum : Nat \cup {-1}],
                     configstrings : Configstrings, map : Nat, gamestateCommand : Nat,
                     replayed : BOOLEAN, sent : Nat]
        /\ clc'.serverMessageSequence = clc.serverMessageSequence
        /\ clc'.snap = NoSnapshot /\ clc'.lastExecutedServerCommand = n
        /\ clc'.configstrings = d /\ clc'.map = clc.map
        /\ clc'.gamestateCommand = g /\ clc'.replayed = r
    BY <1>3, <1>5, <2>2, <2>4, ClientTypes
  <2>6. TypeOK'
    BY <1>1, <1>2, <2>5 DEF TypeOK
  <2>7. NumbersOK' /\ GamestateOK'
    BY <1>1, <1>2, <1>4, <2>5 DEF NumbersOK, GamestateOK, outgoingSequence
  <2>8. CommandsOK'
    <3>1. g <= Len(commands) /\ \A p \in Coming : g <= p.message.reliableSequence
      BY <1>1, <1>3 DEF CommandsOK
    <3> QED
      BY <1>1, <1>2, <1>3, <1>4, <2>5, <3>1 DEF CommandsOK
  <2>9. IdsOK'
    BY <1>1, <1>2, <1>4, <1>6, <2>2, <2>5 DEF IdsOK
  <2>10. InConfigstrings' = n
    BY <1>3, <2>5 DEF InConfigstrings
  <2>11. ASSUME clc.map = sv.restartedServerId, r = FALSE
         PROVE  /\ Follow(commands, cl.csUpdated, sv.configstrings, sv.restartedServerId, d, n)
                /\ ~clc.replayed
    <3>1. ~clc.replayed /\ ~(k < g)
      BY <2>3, <2>11
    <3>2. InConfigstrings = k
      BY <1>3, <3>1 DEF InConfigstrings
    <3>3. PICK c \in Configstrings, kept \in SUBSET Index, s \in Configstrings, R \in Nat :
            /\ c = clc.configstrings /\ kept = cl.csUpdated /\ s = sv.configstrings
            /\ R = sv.restartedServerId
      BY ServerTypes, ClientTypes
    <3>4. Follow(commands, kept, s, R, c, k)
      BY <1>1, <2>11, <3>1, <3>2, <3>3 DEF FollowsOK
    <3>5. Follow(commands, kept, s, R, d, n)
      BY <1>3, <2>1, <3>3, <3>4, ServerTypes, FollowExecuted
    <3> QED
      BY <3>1, <3>3, <3>5
  <2>12. FollowsOK'
    BY <1>1, <1>2, <1>4, <2>5, <2>10, <2>11 DEF FollowsOK
  <2> QED
    BY <2>6, <2>7, <2>8, <2>9, <2>12 DEF IInv
<1> QED
  BY <1>3, <1>7, <1>8 DEF CG_ProcessSnapshots

LEMMA StutterKeeps == IInv /\ UNCHANGED vars => IInv'
<1> SUFFICES ASSUME IInv, UNCHANGED vars PROVE IInv'
  OBVIOUS
<1>1. UNCHANGED <<sv, systemInfoModified, cl, commands, pending, sentCount>>
  BY DEF vars, serverVars
<1>2. UNCHANGED <<toClient, clc, toServer>>
  BY DEF vars
<1> QED
  BY <1>1, <1>2 DEF IInv, TypeOK, NumbersOK, GamestateOK, CommandsOK, IdsOK, FollowsOK,
     Gamestates, Coming, InConfigstrings, outgoingSequence

LEMMA InitOK == Init => IInv
<1> SUFFICES ASSUME Init PROVE IInv
  OBVIOUS
<1>1. /\ sv = [serverId |-> 1, restartedServerId |-> 1,
               configstrings |-> [index \in Index |-> 1]]
      /\ systemInfoModified = FALSE
      /\ cl = [state |-> "connected", gamestateMessageNum |-> -1, csUpdated |-> {}]
      /\ commands = <<>> /\ pending = <<>> /\ sentCount = 0
      /\ toClient = {} /\ toServer = {}
      /\ clc = [state |-> "connected", serverMessageSequence |-> 0,
                lastExecutedServerCommand |-> 0, snap |-> NoSnapshot,
                configstrings |-> [index \in Index |-> 0],
                map |-> 0, gamestateCommand |-> 0, replayed |-> FALSE, sent |-> 0]
  BY DEF Init
<1>2. /\ [index \in Index |-> 0] \in Configstrings /\ [index \in Index |-> 1] \in Configstrings
      /\ [index \in Index |-> 0]["systeminfo"] = 0 /\ [index \in Index |-> 1]["systeminfo"] = 1
  BY DEF Configstrings, Index
<1>3. NoSnapshot \in [active : BOOLEAN, serverCommandNum : Nat \cup {-1}]
  BY DEF NoSnapshot
<1>4. Len(commands) = 0 /\ Len(pending) = 0
  BY <1>1
<1>5. Coming = {} /\ Gamestates = {}
  <2>1. 1..0 = {}
    OBVIOUS
  <2>2. Coming = {}
    BY <1>1, <1>4, <2>1 DEF Coming
  <2> QED
    BY <2>2 DEF Gamestates
<1>6. /\ sv.serverId = 1 /\ sv.restartedServerId = 1 /\ sv.configstrings["systeminfo"] = 1
      /\ cl.state = "connected" /\ cl.gamestateMessageNum = -1 /\ cl.csUpdated = {}
      /\ clc.serverMessageSequence = 0 /\ clc.lastExecutedServerCommand = 0
      /\ clc.snap = NoSnapshot /\ clc.configstrings["systeminfo"] = 0
      /\ clc.map = 0 /\ clc.gamestateCommand = 0
  BY <1>1, <1>2
<1>7. TypeOK
  <2>1. sv \in [serverId : Nat, restartedServerId : Nat, configstrings : Configstrings]
    BY <1>1, <1>2
  <2>2. cl \in [state : {"connected", "primed", "active"},
                gamestateMessageNum : Nat \cup {-1}, csUpdated : SUBSET Index]
    BY <1>1
  <2>3. clc \in [state : {"connected", "primed", "active"}, serverMessageSequence : Nat,
                 lastExecutedServerCommand : Nat,
                 snap : [active : BOOLEAN, serverCommandNum : Nat \cup {-1}],
                 configstrings : Configstrings, map : Nat, gamestateCommand : Nat,
                 replayed : BOOLEAN, sent : Nat]
    BY <1>1, <1>2, <1>3
  <2>4. /\ commands \in Seq(Command) /\ pending \in Seq(Message) /\ sentCount \in Nat
        /\ toClient \subseteq ServerPacket /\ toServer \subseteq ClientPacket
        /\ systemInfoModified \in BOOLEAN
    <3>1. <<>> \in Seq(Command) /\ <<>> \in Seq(Message)
      OBVIOUS
    <3>2. /\ commands = <<>> /\ pending = <<>> /\ sentCount = 0 /\ toClient = {}
          /\ toServer = {} /\ systemInfoModified = FALSE
      BY <1>1
    <3> QED
      BY ONLY <3>1, <3>2
  <2> QED
    BY <2>1, <2>2, <2>3, <2>4, Zenon DEF TypeOK
<1>8. NumbersOK /\ GamestateOK
  BY <1>1, <1>4, <1>5, <1>6 DEF NumbersOK, GamestateOK, outgoingSequence
<1>9. CommandsOK
  BY <1>4, <1>5, <1>6 DEF CommandsOK
<1>10. IdsOK
  BY <1>1, <1>4, <1>5, <1>6 DEF IdsOK
<1>11. FollowsOK
  BY <1>5, <1>6 DEF FollowsOK
<1> QED
  BY <1>7, <1>8, <1>9, <1>10, <1>11 DEF IInv

-----------------------------------------------------------------------------
LEMMA ExecuteKeeps ==
  ASSUME IInv, NEW m \in toServer, SV_ExecuteClientMessage(m)
  PROVE  IInv'
BY IgnoredKeeps, ResentKeeps

LEMMA ParseKeeps ==
  ASSUME IInv, NEW m \in toClient, CL_ParseServerMessage(m)
  PROVE  IInv'
<1>1. m.message.kind = "gamestate" \/ m.message.kind = "snapshot"
  BY DEF CL_ParseServerMessage
<1> QED
  BY <1>1, GamestateKeeps, SnapshotKeeps

(* The inductive invariant holds whatever the maps, restarts and changes   *)
(* are, and however many messages are sent, lost or come late.             *)
THEOREM Invariance == Spec => []IInv
<1>1. ASSUME IInv, [Next]_vars PROVE IInv'
  <2>1. CASE SV_Netchan_TransmitNextFragment
    BY <1>1, <2>1, FragmentKeeps
  <2>2. CASE GameSetsConfigstring
    BY <1>1, <2>2, GameKeeps
  <2>3. CASE SV_SpawnServer
    BY <1>1, <2>3, SpawnKeeps
  <2>4. CASE SV_MapRestart_f
    BY <1>1, <2>4, RestartKeeps
  <2>5. CASE SV_Frame
    BY <1>1, <2>5, FrameKeeps
  <2>6. CASE \E m \in toServer : SV_ExecuteClientMessage(m)
    BY <1>1, <2>6, ExecuteKeeps
  <2>7. CASE CL_WritePacket
    BY <1>1, <2>7, WriteKeeps
  <2>8. CASE \E m \in toClient : CL_ParseServerMessage(m)
    BY <1>1, <2>8, ParseKeeps
  <2>9. CASE CG_ProcessSnapshots
    BY <1>1, <2>9, ProcessKeeps
  <2>10. CASE UNCHANGED vars
    BY <1>1, <2>10, StutterKeeps
  <2> QED
    BY <1>1, <2>1, <2>2, <2>3, <2>4, <2>5, <2>6, <2>7, <2>8, <2>9, <2>10 DEF Next
<1> QED
  BY InitOK, <1>1, PTL DEF Spec

(* A client that is on the server's map and has executed every command has *)
(* nothing left to follow.                                                 *)
LEMMA AgreeFromIInv == IInv => ConfigstringsAgreeUnlessReplayed
<1> SUFFICES ASSUME IInv, ~clc.replayed, InGame,
                    clc.lastExecutedServerCommand = Len(commands)
             PROVE  clc.configstrings = sv.configstrings
  BY DEF ConfigstringsAgreeUnlessReplayed, ConfigstringsAgree
<1>1. cl.state = "active" /\ clc.map = sv.restartedServerId
  BY DEF InGame
<1>2. InConfigstrings = Len(commands)
  <2>1. clc.gamestateCommand <= Len(commands)
    BY DEF IInv, CommandsOK
  <2> QED
    BY <2>1, ClientTypes DEF InConfigstrings
<1>3. cl.csUpdated = {}
  BY <1>1, ServerTypes
<1>4. Follow(commands, cl.csUpdated, sv.configstrings, sv.restartedServerId,
             clc.configstrings, Len(commands))
  BY <1>1, <1>2 DEF IInv, FollowsOK
<1>5. ASSUME NEW index \in Index PROVE clc.configstrings[index] = sv.configstrings[index]
  <2>1. Brings(commands, clc.configstrings, Len(commands), index, sv.configstrings[index])
    BY <1>3, <1>4 DEF Follow
  <2> QED
    BY <2>1, ServerTypes, BringsLast
<1> QED
  BY <1>5, ServerTypes, ClientTypes DEF Configstrings

(* "... reliably communicated to all clients" (g_public.h): a client in    *)
(* the game that has executed every command has the server's configstrings *)
(* (SV_SetConfigstring, SV_UpdateConfigstrings, CL_ConfigstringModified).  *)
THEOREM ConfigstringsFollow == Spec => []Inv
<1>1. IInv => Inv
  BY AgreeFromIInv DEF Inv
<1> QED
  BY Invariance, <1>1, PTL

(* A client that has the map loses no gamestate of it: its messages either *)
(* carry an id of the map, or were written before it was told of one       *)
(* (SV_ExecuteClientMessage).                                              *)
THEOREM ResentOnlyIfDropped == Spec => ResendOnlyIfDropped
<1>1. ASSUME IInv, NEW m \in toServer, LostGamestate(m), ~clc.replayed
      PROVE  clc.map # sv.restartedServerId
  BY <1>1, ResentFacts
<1>2. IInv /\ [Next]_vars =>
        [\A m \in toServer :
           SV_ExecuteClientMessage(m) /\ LostGamestate(m) /\ ~clc.replayed
           => clc.map # sv.restartedServerId]_vars
  BY <1>1
<1> QED
  BY Invariance, <1>2, PTL DEF Spec, ResendOnlyIfDropped

=============================================================================
