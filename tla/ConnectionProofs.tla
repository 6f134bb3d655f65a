-------------------------- MODULE ConnectionProofs --------------------------
(***************************************************************************)
(* Slots, players and challenges agree, and a client that waits in a       *)
(* gamestate for ever does so for one of two reasons, for every number of  *)
(* clients, slots, challenges and packets.                                 *)
(***************************************************************************)
EXTENDS Connection, FiniteSetTheorems, WellFoundedInduction, TLAPS

(* A set of numbers that is not empty has a least one: the one below which *)
(* the fewest are.                                                         *)
LEMMA MinIsMember ==
  ASSUME NEW S \in SUBSET Int, IsFiniteSet(S), S # {}
  PROVE  /\ Min(S) \in S
         /\ \A n \in S : Min(S) <= n
<1> DEFINE UpTo(n) == {m \in S : m <= n}
           sets == {UpTo(n) : n \in S}
<1>1. sets \subseteq FiniteSubsetsOf(S) /\ sets # {}
  <2>1. ASSUME NEW n \in S PROVE UpTo(n) \in SUBSET S /\ IsFiniteSet(UpTo(n))
    BY FS_Subset
  <2> QED
    BY <2>1 DEF FiniteSubsetsOf
<1>2. PICK T \in sets : \A U \in sets : ~(<<U, T>> \in StrictSubsetOrdering(S))
  <2> HIDE DEF sets
  <2> QED
    BY <1>1, FS_StrictSubsetOrderingWellFounded, WFMin
<1>3. PICK n \in S : T = UpTo(n)
  BY <1>2
<1>4. ASSUME NEW m \in S PROVE n <= m
  <2> SUFFICES ASSUME m < n PROVE FALSE
    OBVIOUS
  <2>0. m \in Int /\ n \in Int
    OBVIOUS
  <2>1. UpTo(m) \in sets /\ \A x \in UpTo(m) : x \in T
    <3>1. \A x \in S : x \in Int /\ (x <= m => x <= n)
      BY <2>0
    <3>2. \A x \in UpTo(m) : x \in UpTo(n)
      BY <3>1
    <3> QED
      BY <1>3, <3>2
  <2>2. n \in T /\ n \notin UpTo(m)
    BY <1>3
  <2>3. <<UpTo(m), T>> \in StrictSubsetOrdering(S)
    BY <1>3, <2>1, <2>2 DEF StrictSubsetOrdering
  <2> QED
    BY <1>2, <2>1, <2>3
<1> QED
  BY <1>3, <1>4 DEF Min

(* The searches of the server find what they look for. *)
LEMMA FirstFound ==
  ASSUME NEW n \in Nat, NEW S \in SUBSET (1..n), S # {}
  PROVE  Min(S) \in S
<1>1. IsFiniteSet(1..n) /\ S \in SUBSET Int
  BY FS_Interval
<1> QED
  BY <1>1, FS_Subset, MinIsMember

LEMMA FirstSlot ==
  ASSUME NEW S \in SUBSET Slots, S # {} PROVE Min(S) \in S
BY BoundAssumption, FirstFound DEF Slots

-----------------------------------------------------------------------------
(* The network holds no more than MaxInFlight packets, and a step adds     *)
(* none but those it sends.                                                *)
Bounded(set) == IsFiniteSet(set) /\ Cardinality(set) <= MaxInFlight

LEMMA CarriedBounded ==
  ASSUME NEW old, NEW new, Bounded(old), IsFiniteSet(new)
  PROVE  Bounded(Carried(old, new)) /\ Carried(old, new) \subseteq old \cup new
<1>1. IsFiniteSet(old \cup new)
  BY FS_Union DEF Bounded
<1> QED
  BY <1>1 DEF Bounded, Carried

LEMMA LessIsBounded ==
  ASSUME NEW set, NEW p, Bounded(set)
  PROVE  Bounded(set \ {p})
<1>1. /\ IsFiniteSet(set \ {p}) /\ Cardinality(set \ {p}) <= Cardinality(set)
  BY FS_Subset DEF Bounded
<1>2. Cardinality(set \ {p}) \in Nat /\ Cardinality(set) \in Nat
  BY <1>1, FS_CardinalityType DEF Bounded
<1> QED
  BY <1>1, <1>2, BoundAssumption DEF Bounded

LEMMA ReceiveBounded ==
  ASSUME Bounded(packets), NEW p, NEW new, IsFiniteSet(new),
         Receive(p, new) \/ Send(new)
  PROVE  Bounded(packets') /\ packets' \subseteq packets \cup new
<1>1. Bounded(packets \ {p})
  BY LessIsBounded
<1>2. /\ Bounded(Carried(packets \ {p}, new))
      /\ Carried(packets \ {p}, new) \subseteq (packets \ {p}) \cup new
  BY <1>1, CarriedBounded
<1>3. /\ Bounded(Carried(packets, new))
      /\ Carried(packets, new) \subseteq packets \cup new
  BY CarriedBounded
<1>4. packets' = Carried(packets \ {p}, new) \/ packets' = Carried(packets, new)
  BY DEF Receive, Send
<1> QED
  BY <1>2, <1>3, <1>4

-----------------------------------------------------------------------------
(* What holds of one entry, one slot and one client. *)
EntryOK(e) ==
  /\ e \in [adr : Clients \cup {NoClient}, challenge : 0..MaxChallenge,
            clientChallenge : Nat, connected : BOOLEAN, wasrefused : BOOLEAN]
  /\ e.challenge # 0 => /\ WasGiven(e.challenge, e.adr)
                        /\ given[e.challenge].attempt = e.clientChallenge

SlotOK(x) ==
  /\ x \in [state : {"free", "zombie", "connected", "primed", "active"},
            adr : Clients \cup {NoClient}, challenge : 0..MaxChallenge,
            incoming : 0..MaxSequence, outgoing : 1..MaxSequence + 1,
            gamestateMessageNum : -1..MaxSequence]
  /\ x.state = "free" <=> x.adr = NoClient
  /\ x.gamestateMessageNum < x.outgoing
  /\ x.state # "free" => /\ WasGiven(x.challenge, x.adr)
                         /\ given[x.challenge].used > 0

ClientOK(c, d) ==
  /\ d \in [state : {"disconnected", "connecting", "challenging",
                     "connected", "primed"},
            challenge : Nat, incoming : Nat,
            outgoing : 1..MaxSequence + 1, attempt : Nat,
            gamestate : [challenge : Nat, sequence : Nat]]
  /\ d.state = "connecting" => d.challenge = d.attempt
  /\ d.state \in {"challenging", "connected", "primed"} =>
       WasGiven(d.challenge, c) /\ given[d.challenge].attempt = d.attempt
  /\ d.state = "primed" =>
       /\ Served(d.gamestate.challenge)
       /\ \/ d.gamestate.sequence = 1
          \/ d.gamestate.challenge = d.challenge

(* A slot is in use by no two, said without counting. *)
Apart(f) == \A s, t \in Slots : f[s].adr \in Clients /\ f[s].adr = f[t].adr => s = t

LEMMA OneSlotIsApart ==
  ASSUME NEW f
  PROVE  (\A c \in Clients : Cardinality({s \in Slots : f[s].adr = c}) <= 1)
           <=> Apart(f)
<1> DEFINE Of(c) == {s \in Slots : f[s].adr = c}
<1>1. \A c : IsFiniteSet(Of(c)) /\ Cardinality(Of(c)) \in Nat
  <2> TAKE c
  <2>1. IsFiniteSet(Slots) /\ Of(c) \in SUBSET Slots
    BY BoundAssumption, FS_Interval DEF Slots
  <2> QED
    BY <2>1, FS_Subset, FS_CardinalityType
<1>2. ASSUME NEW c, Cardinality(Of(c)) <= 1, NEW s \in Of(c), NEW t \in Of(c)
      PROVE  s = t
  <2> HIDE DEF Of
  <2>1. Cardinality(Of(c)) = 0 \/ Cardinality(Of(c)) = 1
    BY <1>1, <1>2
  <2>2. Of(c) = {} \/ \E x : Of(c) = {x}
    BY <1>1, <2>1, FS_EmptySet, FS_Singleton
  <2> QED
    BY <2>2
<1>3. ASSUME Apart(f), NEW c \in Clients PROVE Cardinality(Of(c)) <= 1
  <2>1. Of(c) = {} \/ \E x : Of(c) = {x}
    BY <1>3 DEF Apart
  <2>2. Cardinality(Of(c)) = 0 \/ Cardinality(Of(c)) = 1
    <3> HIDE DEF Of
    <3> QED
      BY <2>1, FS_EmptySet, FS_Singleton
  <2> HIDE DEF Of
  <2> QED
    BY <2>2
<1>4. ASSUME \A c \in Clients : Cardinality(Of(c)) <= 1 PROVE Apart(f)
  BY <1>2, <1>4 DEF Apart
<1> QED
  BY <1>3, <1>4

(* The invariant, told by entries, slots and clients. *)
LEMMA Parts ==
  ASSUME IInv
  PROVE  /\ \A i \in Entries : EntryOK(challenges[i])
         /\ \A s \in Slots : SlotOK(slots[s])
         /\ \A c \in Clients : ClientOK(c, cl[c])
         /\ Apart(slots) /\ Bounded(packets)
<1>1. \A i \in Entries : EntryOK(challenges[i])
  BY DEF IInv, ChallengesOK, EntryOK
<1>2. \A s \in Slots : SlotOK(slots[s])
  BY DEF IInv, SlotsOK, TypeOK, SlotOK
<1>3. \A c \in Clients : ClientOK(c, cl[c])
  BY DEF IInv, ClientsOK, AnswersThisAttempt, ClientOK, WasGiven
<1>4. Apart(slots)
  BY OneSlotIsApart DEF IInv, OneSlotEach
<1>5. Bounded(packets)
  BY DEF IInv, PacketsOK, TypeOK, Bounded
<1> QED
  BY <1>1, <1>2, <1>3, <1>4, <1>5

(* What a step has to show. *)
LEMMA FromParts ==
  ASSUME challenges' = [i \in Entries |-> challenges'[i]],
         slots' = [s \in Slots |-> slots'[s]], cl' = [c \in Clients |-> cl'[c]],
         \A i \in Entries : EntryOK(challenges[i])',
         \A s \in Slots : SlotOK(slots[s])',
         \A c \in Clients : ClientOK(c, cl[c])',
         Apart(slots'), Bounded(packets'), \A p \in packets' : PacketOK(p)',
         inGame' \subseteq Slots, ghosts' \subseteq inGame', GameAgrees',
         \A s \in ghosts' : slots'[s].state = "free", GivenOK'
  PROVE  IInv'
<1>1. ChallengesOK'
  BY DEF ChallengesOK, EntryOK
<1>2. SlotsOK'
  BY DEF SlotsOK, SlotOK
<1>3. ClientsOK' /\ AnswersThisAttempt'
  BY DEF ClientsOK, AnswersThisAttempt, ClientOK, WasGiven
<1>4. OneSlotEach'
  BY OneSlotIsApart DEF OneSlotEach
<1>5. TypeOK'
  BY DEF TypeOK, SlotOK, EntryOK, Bounded
<1>6. PacketsOK'
  BY DEF PacketsOK, Bounded
<1> QED
  BY <1>1, <1>2, <1>3, <1>4, <1>5, <1>6 DEF IInv

LEMMA Initially == Init => IInv
<1> SUFFICES ASSUME Init PROVE IInv
  OBVIOUS
<1>1. /\ MaxChallenge \in Nat /\ MaxSequence \in Nat /\ MaxInFlight \in Nat
  BY BoundAssumption
<1>2. GivenOK
  <2>1. 0 \in 0..MaxChallenge /\ given = [i \in 1..0 |-> given[i]] /\ 1..0 = {}
    <3>1. 1..0 = {} /\ DOMAIN given = {}
      BY DEF Init
    <3> QED
      BY <1>1, <3>1 DEF Init
  <2> QED
    BY <2>1 DEF GivenOK
<1>3. ChallengesOK
  BY <1>1 DEF ChallengesOK, Init, NoChallenge
<1>4. SlotsOK
  BY <1>1 DEF SlotsOK, Init, FreeSlot
<1>5. ClientsOK /\ AnswersThisAttempt
  BY <1>1 DEF ClientsOK, AnswersThisAttempt, Init, Disconnected
<1>6. OneSlotEach
  <2>1. Apart(slots)
    BY ClientAssumption DEF Apart, Init, FreeSlot
  <2> QED
    BY <2>1, OneSlotIsApart DEF OneSlotEach
<1>7. PacketsOK /\ Cardinality(packets) <= MaxInFlight
  BY <1>1, FS_EmptySet DEF PacketsOK, Init
<1>8. TypeOK
  BY <1>1, <1>7 DEF TypeOK, Init, NoChallenge, FreeSlot
<1>9. GameAgrees /\ ghosts = {}
  BY DEF GameAgrees, Init, Live, FreeSlot
<1> QED
  BY <1>2, <1>3, <1>4, <1>5, <1>6, <1>7, <1>8, <1>9 DEF IInv

-----------------------------------------------------------------------------
(* A challenge, once given, stays given to the same attempt. *)
GivenGrows ==
  \A n \in DOMAIN given :
    /\ n \in DOMAIN given' /\ given'[n].used >= given[n].used
    /\ given'[n].client = given[n].client /\ given'[n].attempt = given[n].attempt

LEMMA GivenNumbers ==
  ASSUME GivenOK
  PROVE  \A n \in DOMAIN given :
           n \in 1..MaxChallenge /\ given[n].used \in Nat
           /\ given[n].client \in Clients /\ given[n].attempt \in Nat
  BY BoundAssumption DEF GivenOK

LEMMA GivenStays == ASSUME UNCHANGED given, GivenOK PROVE GivenGrows /\ GivenOK'
<1>1. \A n \in DOMAIN given : given[n].used \in Nat
  BY GivenNumbers
<1> QED
  BY <1>1 DEF GivenGrows, GivenOK

(* The slot of t may be left to others, or used again, and nothing else,   *)
(* by a step after which a gamestate that was sent is no longer noted.     *)
LEMMA ServedStays ==
  ASSUME IInv, GivenGrows, GivenOK',
         \A t \in Slots :
           \/ slots'[t].state = "free"
           \/ /\ slots[t].state # "free"
              /\ slots'[t].challenge = slots[t].challenge
              /\ slots[t].gamestateMessageNum # -1 =>
                   slots'[t].gamestateMessageNum # -1
           \/ given'[slots'[t].challenge].used > given[slots'[t].challenge].used,
         NEW n, Served(n)
  PROVE  Served(n)'
<1>1. /\ n \in DOMAIN given /\ given[n].used \in Nat \ {0}
      /\ n \in DOMAIN given' /\ given'[n].used \in Nat
      /\ given'[n].used >= given[n].used
  <2>1. n \in DOMAIN given /\ given[n].used > 0
    BY DEF Served
  <2>2. given[n].used \in Nat
    BY <2>1, GivenNumbers DEF IInv
  <2>3. n \in DOMAIN given' /\ given'[n].used >= given[n].used
    BY <2>1 DEF GivenGrows
  <2>4. given'[n].used \in Nat
    BY <2>3 DEF GivenOK
  <2> QED
    BY <2>1, <2>2, <2>3, <2>4
<1>2. CASE given'[n].used > 1
  BY <1>1, <1>2 DEF Served
<1>3. CASE ~(given'[n].used > 1)
  <2>1. given[n].used = 1 /\ given'[n].used = 1
    BY <1>1, <1>3
  <2>2. ASSUME NEW t \in Slots, slots'[t].state # "free", slots'[t].challenge = n
        PROVE  slots'[t].gamestateMessageNum # -1
    <3>1. ~(given'[n].used > given[n].used)
      BY <2>1
    <3>2. /\ slots[t].state # "free" /\ slots[t].challenge = n
          /\ slots[t].gamestateMessageNum # -1 =>
               slots'[t].gamestateMessageNum # -1
      BY <2>2, <3>1
    <3>3. slots[t].gamestateMessageNum # -1
      BY <2>1, <3>2 DEF Served
    <3> QED
      BY <3>2, <3>3
  <2> QED
    BY <1>1, <2>1, <2>2 DEF Served
<1> QED
  BY <1>2, <1>3

(* What was said of a challenge remains so. *)
LEMMA PacketStays ==
  ASSUME GivenGrows, NEW p, PacketOK(p), \A n : Served(n) => Served(n)'
  PROVE  PacketOK(p)'
BY DEF PacketOK, GivenGrows, WasGiven

LEMMA ClientStays ==
  ASSUME GivenGrows, UNCHANGED cl, NEW c, ClientOK(c, cl[c]),
         \A n : Served(n) => Served(n)'
  PROVE  ClientOK(c, cl[c])'
BY DEF ClientOK, GivenGrows, WasGiven

LEMMA EntryStays ==
  ASSUME GivenGrows, NEW e, EntryOK(e) PROVE EntryOK(e)'
BY DEF EntryOK, GivenGrows, WasGiven

LEMMA SlotStays ==
  ASSUME GivenOK, GivenOK', GivenGrows, NEW x, SlotOK(x) PROVE SlotOK(x)'
<1>1. CASE x.state = "free"
  BY <1>1 DEF SlotOK
<1>2. CASE x.state # "free"
  <2>1. x.challenge \in DOMAIN given /\ given[x.challenge].used > 0
    BY <1>2 DEF SlotOK, WasGiven
  <2>2. /\ given[x.challenge].used \in Nat /\ x.challenge \in DOMAIN given'
        /\ given'[x.challenge].used >= given[x.challenge].used
        /\ given'[x.challenge].client = given[x.challenge].client
    BY <2>1, GivenNumbers DEF GivenGrows
  <2>3. given'[x.challenge].used \in Nat
    BY <2>2 DEF GivenOK
  <2>4. given'[x.challenge].used > 0
    BY <2>1, <2>2, <2>3
  <2>5. WasGiven(x.challenge, x.adr)'
    BY <1>2, <2>2 DEF SlotOK, WasGiven
  <2> QED
    BY <2>4, <2>5 DEF SlotOK
<1> QED
  BY <1>1, <1>2

-----------------------------------------------------------------------------
(* The challenges after a step. *)
EntriesOK ==
  /\ challenges = [i \in Entries |-> challenges[i]]
  /\ \A i \in Entries : EntryOK(challenges[i])

LEMMA EntriesUnchanged ==
  ASSUME IInv, GivenGrows, UNCHANGED challenges PROVE EntriesOK'
<1>1. challenges = [i \in Entries |-> challenges[i]]
  BY DEF IInv, ChallengesOK
<1>2. \A i \in Entries : EntryOK(challenges[i])
  BY Parts
<1>3. ASSUME NEW i \in Entries PROVE EntryOK(challenges[i])'
  <2>1. PICK e : e = challenges[i]
    OBVIOUS
  <2>2. EntryOK(e)'
    BY <1>2, <2>1, EntryStays
  <2> QED
    BY <2>1, <2>2 DEF EntryOK
<1> QED
  BY <1>1, <1>3 DEF EntriesOK

LEMMA EntryPut ==
  ASSUME IInv, GivenGrows, NEW i, NEW e, EntryOK(e)',
         challenges' = [challenges EXCEPT ![i] = e]
  PROVE  EntriesOK'
<1>1. challenges = [j \in Entries |-> challenges[j]]
  BY DEF IInv, ChallengesOK
<1>2. \A j \in Entries : EntryOK(challenges[j])
  BY Parts
<1>3. ASSUME NEW j \in Entries PROVE EntryOK(challenges[j])'
  <2>1. PICK d : d = challenges[j]
    OBVIOUS
  <2>2. EntryOK(d)'
    BY <1>2, <2>1, EntryStays
  <2>3. challenges'[j] = d \/ challenges'[j] = e
    BY <1>1, <2>1
  <2> QED
    BY <2>2, <2>3 DEF EntryOK
<1> QED
  BY <1>1, <1>3 DEF EntriesOK

LEMMA EntryCleared ==
  ASSUME IInv, GivenGrows, NEW i,
         challenges' = [challenges EXCEPT ![i] = NoChallenge]
  PROVE  EntriesOK'
<1>1. EntryOK(NoChallenge)'
  BY BoundAssumption DEF EntryOK, NoChallenge
<1>2. PICK e : e = NoChallenge /\ EntryOK(e)'
  BY <1>1 DEF NoChallenge
<1> QED
  BY <1>2, EntryPut

LEMMA FirstForgotten ==
  ASSUME IInv, GivenGrows, NEW c, challenges' = WithoutFirst(c)
  PROVE  EntriesOK'
<1>1. \/ UNCHANGED challenges
      \/ \E i : challenges' = [challenges EXCEPT ![i] = NoChallenge]
  BY DEF WithoutFirst
<1> QED
  BY <1>1, EntriesUnchanged, EntryCleared

(* A step of the server that leaves x in slot s. *)
LEMMA SlotPut ==
  ASSUME IInv, GivenGrows, GivenOK', UNCHANGED cl, EntriesOK',
         NEW s \in Slots, NEW x, slots' = [slots EXCEPT ![s] = x], SlotOK(x)',
         \A t \in Slots \ {s} : x.adr \in Clients => slots[t].adr # x.adr,
         \/ x.state = "free"
         \/ /\ slots[s].state # "free" /\ x.challenge = slots[s].challenge
            /\ slots[s].gamestateMessageNum # -1 => x.gamestateMessageNum # -1
         \/ given'[x.challenge].used > given[x.challenge].used,
         inGame' \subseteq Slots, ghosts' \subseteq inGame',
         \A t \in Slots \ {s} : /\ t \in inGame' <=> t \in inGame
                                /\ t \in ghosts' <=> t \in ghosts,
         s \in inGame' <=> x.state \notin {"free", "zombie"} \/ s \in ghosts',
         s \in ghosts' => x.state = "free",
         Bounded(packets'),
         ASSUME \A n : Served(n) => Served(n)', NEW p \in packets', p \notin packets
         PROVE  PacketOK(p)'
  PROVE  IInv'
<1>1. slots = [t \in Slots |-> slots[t]] /\ cl = [c \in Clients |-> cl[c]]
  BY DEF IInv, SlotsOK, ClientsOK
<1>2. slots'[s] = x /\ \A t \in Slots \ {s} : slots'[t] = slots[t]
  BY <1>1
<1>3. \A n : Served(n) => Served(n)'
  <2>1. ASSUME NEW t \in Slots
        PROVE  \/ slots'[t].state = "free"
               \/ /\ slots[t].state # "free"
                  /\ slots'[t].challenge = slots[t].challenge
                  /\ slots[t].gamestateMessageNum # -1 =>
                       slots'[t].gamestateMessageNum # -1
               \/ given'[slots'[t].challenge].used > given[slots'[t].challenge].used
    BY <1>2
  <2> QED
    BY <2>1, ServedStays
<1>4. \A t \in Slots : SlotOK(slots[t])'
  <2> TAKE t \in Slots
  <2>1. PICK y : y = slots[t]
    OBVIOUS
  <2>2. SlotOK(y)'
    BY <2>1, Parts, SlotStays DEF IInv
  <2>3. slots'[t] = x \/ slots'[t] = y
    BY <1>2, <2>1
  <2> QED
    BY <2>2, <2>3 DEF SlotOK
<1>5. \A c \in Clients : ClientOK(c, cl[c])'
  BY <1>3, Parts, ClientStays
<1>6. Apart(slots')
  BY <1>2, Parts DEF Apart
<1>7. \A p \in packets' : PacketOK(p)'
  <2> TAKE p \in packets'
  <2>1. CASE p \in packets
    BY <1>3, <2>1, PacketStays DEF IInv, PacketsOK
  <2>2. CASE p \notin packets
    BY <1>3, <2>2
  <2> QED
    BY <2>1, <2>2
<1>8. GameAgrees' /\ \A t \in ghosts' : slots'[t].state = "free"
  <2>1. ASSUME NEW t \in Slots
        PROVE  t \in inGame' <=> slots'[t].state \notin {"free", "zombie"}
                                   \/ t \in ghosts'
    BY <1>2 DEF IInv, GameAgrees, Live
  <2>2. ASSUME NEW t \in ghosts' PROVE slots'[t].state = "free"
    BY <1>2 DEF IInv
  <2> QED
    BY <2>1, <2>2 DEF GameAgrees, Live
<1> QED
  BY <1>1, <1>4, <1>5, <1>6, <1>7, <1>8, FromParts DEF EntriesOK

(* A step of the server that leaves the slots alone. *)
LEMMA SlotsKept ==
  ASSUME IInv, GivenGrows, GivenOK', EntriesOK',
         UNCHANGED <<cl, slots, inGame, ghosts>>, Bounded(packets'),
         \A p \in packets' : p \in packets \/ PacketOK(p)'
  PROVE  IInv'
<1>1. slots = [t \in Slots |-> slots[t]] /\ cl = [c \in Clients |-> cl[c]]
  BY DEF IInv, SlotsOK, ClientsOK
<1>2. \A n : Served(n) => Served(n)'
  <2>1. ASSUME NEW t \in Slots
        PROVE  \/ slots'[t].state = "free"
               \/ /\ slots[t].state # "free"
                  /\ slots'[t].challenge = slots[t].challenge
                  /\ slots[t].gamestateMessageNum # -1 =>
                       slots'[t].gamestateMessageNum # -1
               \/ given'[slots'[t].challenge].used > given[slots'[t].challenge].used
    OBVIOUS
  <2> QED
    BY <2>1, ServedStays
<1>3. \A t \in Slots : SlotOK(slots[t])'
  <2> TAKE t \in Slots
  <2>1. PICK y : y = slots[t]
    OBVIOUS
  <2>2. SlotOK(y)'
    BY <2>1, Parts, SlotStays DEF IInv
  <2> QED
    BY <2>1, <2>2 DEF SlotOK
<1>4. \A c \in Clients : ClientOK(c, cl[c])'
  BY <1>2, Parts, ClientStays
<1>5. Apart(slots')
  BY Parts DEF Apart
<1>6. \A p \in packets' : PacketOK(p)'
  BY <1>2, PacketStays DEF IInv, PacketsOK
<1>7. GameAgrees' /\ \A t \in ghosts' : slots'[t].state = "free"
  BY DEF IInv, GameAgrees, Live
<1>8. inGame' \subseteq Slots /\ ghosts' \subseteq inGame'
  BY DEF IInv, TypeOK
<1> QED
  BY <1>1, <1>3, <1>4, <1>5, <1>6, <1>7, <1>8, FromParts DEF EntriesOK

-----------------------------------------------------------------------------
(* The server's steps. *)
LEMMA GetChallengeKeeps ==
  ASSUME IInv, NEW p \in packets, SV_GetChallenge(p)
  PROVE  IInv'
<1> DEFINE n == Cardinality(DOMAIN given) + 1
           c == p.client
           g == [client |-> c, attempt |-> p.challenge, used |-> 0]
           e == [NoChallenge EXCEPT !.adr = c, !.challenge = n,
                                    !.clientChallenge = p.challenge]
           R == [client : Clients, attempt : Nat, used : Nat]
<1>1. /\ n <= MaxChallenge
      /\ challenges' = [challenges EXCEPT ![Oldest(c)] = e]
      /\ given' = [i \in 1..n |-> IF i # n THEN given[i] ELSE g]
      /\ \/ Receive(p, {ChallengeResponse(c, n, p.challenge)})
         \/ Receive(p, {IpAuthorize(n)})
      /\ UNCHANGED <<cl, slots, inGame, ghosts>>
  BY DEF SV_GetChallenge
<1>2. c \in Clients /\ p.challenge \in Nat
  BY DEF IInv, PacketsOK, PacketOK, SV_GetChallenge
<1>3. n \in Nat \ {0} /\ given \in [1..n - 1 -> R]
  <2>1. PICK k \in 0..MaxChallenge : given \in [1..k -> R]
    BY DEF IInv, GivenOK
  <2>2. k \in Nat /\ DOMAIN given = 1..k /\ Cardinality(1..k) = k
    BY <2>1, FS_Interval, BoundAssumption
  <2>3. n = k + 1
    BY <2>2
  <2> QED
    BY <2>1, <2>2, <2>3
<1> HIDE DEF n
<1>4. /\ given' \in [1..n -> R] /\ given'[n] = g
      /\ DOMAIN given = 1..n - 1 /\ DOMAIN given' = 1..n
      /\ \A i \in 1..n - 1 : given'[i] = given[i]
  <2>1. /\ g \in R
        /\ \A i \in 1..n : i # n => i \in 1..n - 1 /\ given[i] \in R
    BY <1>2, <1>3
  <2>2. n \in 1..n /\ \A i \in 1..n - 1 : i \in 1..n /\ i # n
    BY <1>3
  <2> HIDE DEF g, R
  <2> QED
    BY <1>1, <1>3, <2>1, <2>2
<1>5. GivenGrows /\ GivenOK'
  <2>1. n \in 0..MaxChallenge
    BY <1>1, <1>3, BoundAssumption
  <2>2. ASSUME NEW i \in DOMAIN given
        PROVE  /\ i \in DOMAIN given' /\ given'[i].used >= given[i].used
               /\ given'[i].client = given[i].client
               /\ given'[i].attempt = given[i].attempt
    <3>1. i \in 1..n - 1 /\ i \in 1..n /\ given[i].used \in Nat
      BY <1>3, <1>4
    <3> QED
      BY <1>4, <3>1
  <2> QED
    BY <1>4, <2>1, <2>2 DEF GivenOK, GivenGrows
<1>6. n \in DOMAIN given' /\ given'[n].client = c /\ given'[n].attempt = p.challenge
  BY <1>3, <1>4
<1>7. EntriesOK'
  <2>1. PICK d : d = e
    OBVIOUS
  <2>2. /\ d \in [adr : Clients \cup {NoClient}, challenge : 0..MaxChallenge,
                 clientChallenge : Nat, connected : BOOLEAN, wasrefused : BOOLEAN]
        /\ d.adr = c /\ d.challenge = n /\ d.clientChallenge = p.challenge
    <3>1. n \in 0..MaxChallenge
      BY <1>1, <1>3, BoundAssumption
    <3> QED
      BY <1>2, <2>1, <3>1 DEF NoChallenge
  <2>3. EntryOK(d)'
    BY <1>6, <2>2 DEF EntryOK, WasGiven
  <2>4. challenges' = [challenges EXCEPT ![Oldest(c)] = d]
    BY <1>1, <2>1
  <2> QED
    BY <1>5, <2>3, <2>4, EntryPut
<1>8. Bounded(packets') /\ \A q \in packets' : q \in packets \/ PacketOK(q)'
  <2>1. PICK new : /\ new \in {ChallengeResponse(c, n, p.challenge), IpAuthorize(n)}
                   /\ Receive(p, {new})
    BY <1>1
  <2>2. PacketOK(new)'
    BY <1>2, <1>6, <2>1 DEF PacketOK, WasGiven, ChallengeResponse, IpAuthorize
  <2>3. IsFiniteSet({new})
    BY FS_Singleton
  <2>4. Bounded(packets') /\ packets' \subseteq packets \cup {new}
    BY <2>1, <2>3, Parts, ReceiveBounded
  <2> QED
    BY <2>2, <2>4 DEF PacketOK
<1> QED
  BY <1>1, <1>5, <1>7, <1>8, SlotsKept

LEMMA AuthorizeKeeps ==
  ASSUME IInv, NEW p \in packets, SV_AuthorizeIpPacket(p)
  PROVE  IInv'
<1> DEFINE found == {i \in Entries : challenges[i].challenge = p.challenge}
<1>1. UNCHANGED <<given, cl, slots, inGame, ghosts>>
  BY DEF SV_AuthorizeIpPacket
<1>2. GivenGrows /\ GivenOK'
  BY <1>1, GivenStays DEF IInv
<1>3. ASSUME Receive(p, {})
      PROVE  Bounded(packets') /\ packets' \subseteq packets
  <2>1. Bounded(packets') /\ packets' \subseteq packets \cup {}
    BY <1>3, FS_EmptySet, Parts, ReceiveBounded
  <2> QED
    BY <2>1
<1>4. CASE UNCHANGED challenges /\ Receive(p, {})
  BY <1>1, <1>2, <1>3, <1>4, EntriesUnchanged, SlotsKept
<1>5. ASSUME NEW i \in found,
             Receive(p, {ChallengeResponse(challenges[i].adr, p.challenge,
                                           challenges[i].clientChallenge)}),
             UNCHANGED challenges
      PROVE  IInv'
  <2>1. PICK new : /\ new = ChallengeResponse(challenges[i].adr, p.challenge,
                                             challenges[i].clientChallenge)
                   /\ Receive(p, {new})
    BY <1>5
  <2>2. PacketOK(new)'
    <3>1. p.challenge \in DOMAIN given
      BY DEF IInv, PacketsOK, PacketOK, SV_AuthorizeIpPacket
    <3>2. p.challenge # 0 /\ given[p.challenge].client \in Clients
      BY <3>1, GivenNumbers DEF IInv
    <3>3. /\ WasGiven(p.challenge, challenges[i].adr)
          /\ given[p.challenge].attempt = challenges[i].clientChallenge
      BY <3>2, Parts DEF EntryOK
    <3> QED
      BY <1>1, <2>1, <3>2, <3>3 DEF PacketOK, WasGiven, ChallengeResponse
  <2>3. IsFiniteSet({new})
    BY FS_Singleton
  <2>4. Bounded(packets') /\ packets' \subseteq packets \cup {new}
    BY <2>1, <2>3, Parts, ReceiveBounded
  <2>5. \A q \in packets' : q \in packets \/ PacketOK(q)'
    BY <2>2, <2>4 DEF PacketOK
  <2> QED
    BY <1>1, <1>2, <1>5, <2>4, <2>5, EntriesUnchanged, SlotsKept
<1>6. ASSUME NEW i \in found, Receive(p, {}),
             challenges' = [challenges EXCEPT ![i] = NoChallenge]
      PROVE  IInv'
  <2>1. EntriesOK'
    BY <1>2, <1>6, EntryCleared
  <2> QED
    BY <1>1, <1>2, <1>3, <1>6, <2>1, SlotsKept
<1> QED
  BY <1>4, <1>5, <1>6 DEF SV_AuthorizeIpPacket

LEMMA EntryFlagged ==
  ASSUME IInv, GivenGrows, NEW i \in Entries,
         \/ challenges' = [challenges EXCEPT ![i].wasrefused = TRUE]
         \/ challenges' = [challenges EXCEPT ![i].connected = TRUE]
  PROVE  EntriesOK'
<1>1. EntryOK(challenges[i])
  BY Parts
<1>2. PICK e : /\ \/ e = [challenges[i] EXCEPT !.wasrefused = TRUE]
                  \/ e = [challenges[i] EXCEPT !.connected = TRUE]
               /\ challenges' = [challenges EXCEPT ![i] = e]
  OBVIOUS
<1>3. EntryOK(e)
  BY <1>1, <1>2 DEF EntryOK
<1> QED
  BY <1>2, <1>3, EntryStays, EntryPut

LEMMA NothingSent ==
  ASSUME IInv, NEW p, Receive(p, {})
  PROVE  Bounded(packets') /\ packets' \subseteq packets
<1>1. Bounded(packets') /\ packets' \subseteq packets \cup {}
  BY FS_EmptySet, Parts, ReceiveBounded
<1> QED
  BY <1>1

LEMMA OneSent ==
  ASSUME IInv, NEW p, NEW new, Receive(p, {new}) \/ Send({new})
  PROVE  Bounded(packets') /\ \A q \in packets' : q \in packets \/ q = new
<1>1. Bounded(packets') /\ packets' \subseteq packets \cup {new}
  BY FS_Singleton, Parts, ReceiveBounded
<1> QED
  BY <1>1

LEMMA DenyKeeps ==
  ASSUME IInv, NEW p, NEW s \in Slots, Deny(p, s), EntriesOK', UNCHANGED cl
  PROVE  IInv'
<1>1. GivenGrows /\ GivenOK'
  BY GivenStays DEF IInv, Deny
<1>2. PICK x : x = FreeSlot
  OBVIOUS
<1>3. SlotOK(x)' /\ x.state = "free" /\ x.adr = NoClient
  BY <1>2, BoundAssumption DEF FreeSlot, SlotOK
<1>4. slots' = [slots EXCEPT ![s] = x] /\ inGame' = inGame
  BY <1>2 DEF Deny
<1>5. /\ inGame' \subseteq Slots /\ ghosts' \subseteq inGame'
      /\ \A t \in Slots \ {s} : t \in ghosts' <=> t \in ghosts
      /\ s \in inGame' <=> s \in ghosts'
  BY DEF IInv, TypeOK, Deny
<1>6. Bounded(packets') /\ packets' \subseteq packets
  BY NothingSent DEF Deny
<1>7. \A t \in Slots \ {s} : x.adr \in Clients => slots[t].adr # x.adr
  BY <1>3, ClientAssumption
<1> QED
  BY <1>1, <1>3, <1>4, <1>5, <1>6, <1>7, SlotPut

LEMMA AcceptGrows ==
  ASSUME IInv, NEW p \in packets, p.type = "connect", NEW s, Accept(p, s)
  PROVE  /\ GivenGrows /\ GivenOK'
         /\ p.client \in Clients /\ p.challenge \in 1..MaxChallenge
         /\ WasGiven(p.challenge, p.client)'
         /\ given[p.challenge].used \in Nat
         /\ given'[p.challenge].used = given[p.challenge].used + 1
<1> DEFINE g == p.challenge
<1>1. p.client \in Clients /\ WasGiven(g, p.client)
  BY DEF IInv, PacketsOK, PacketOK
<1>2. /\ g \in DOMAIN given /\ g \in 1..MaxChallenge /\ given[g].used \in Nat
  BY <1>1, GivenNumbers DEF IInv, WasGiven
<1>3. PICK n : n = given[g].used + 1 /\ n \in Nat \ {0}
  BY <1>2
<1>4. given' = [given EXCEPT ![g].used = n]
  BY <1>3 DEF Accept
<1>5. GivenGrows /\ GivenOK' /\ given'[g].used = n /\ WasGiven(g, p.client)'
  <2>1. PICK k \in 0..MaxChallenge :
          given \in [1..k -> [client : Clients, attempt : Nat, used : Nat]]
    BY DEF IInv, GivenOK
  <2>2. given' \in [1..k -> [client : Clients, attempt : Nat, used : Nat]]
    BY <1>3, <1>4, <2>1
  <2>3. g \in 1..k
    BY <1>2, <2>1
  <2>4. ASSUME NEW i \in 1..k
        PROVE  /\ given'[i].client = given[i].client
               /\ given'[i].attempt = given[i].attempt
               /\ given'[i].used = IF i = g THEN n ELSE given[i].used
    BY <1>4, <2>1, <2>4
  <2>5. ASSUME NEW i \in 1..k PROVE given'[i].used >= given[i].used
    <3>1. given[i].used \in Nat
      BY <2>1
    <3>2. (given'[i].used = n /\ i = g) \/ given'[i].used = given[i].used
      BY <2>4
    <3> QED
      BY <1>3, <3>1, <3>2
  <2>6. GivenGrows
    BY <2>1, <2>2, <2>4, <2>5 DEF GivenGrows
  <2>7. GivenOK'
    BY <2>2 DEF GivenOK
  <2>8. WasGiven(g, p.client)'
    BY <1>1, <2>2, <2>3, <2>4 DEF WasGiven
  <2> QED
    BY <2>3, <2>4, <2>6, <2>7, <2>8
<1> QED
  BY <1>1, <1>2, <1>3, <1>5

LEMMA AcceptKeeps ==
  ASSUME IInv, NEW p \in packets, p.type = "connect", NEW s \in Slots,
         Accept(p, s), EntriesOK', UNCHANGED cl,
         \A t \in Slots \ {s} : slots[t].adr # p.client
  PROVE  IInv'
<1> DEFINE g == p.challenge
<1>1. p.client \in Clients /\ g \in 1..MaxChallenge
  BY AcceptGrows
<1>2. /\ GivenGrows /\ GivenOK' /\ WasGiven(g, p.client)'
      /\ given[g].used \in Nat /\ given'[g].used = given[g].used + 1
  BY AcceptGrows
<1>6. PICK x : x = [FreeSlot EXCEPT !.state = "connected", !.adr = p.client,
                                    !.challenge = g]
  OBVIOUS
<1>7. x.state = "connected" /\ x.adr = p.client /\ x.challenge = g
  BY <1>6 DEF FreeSlot
<1>8. SlotOK(x)'
  <2>1. /\ x \in [state : {"free", "zombie", "connected", "primed", "active"},
                  adr : Clients \cup {NoClient}, challenge : 0..MaxChallenge,
                  incoming : 0..MaxSequence, outgoing : 1..MaxSequence + 1,
                  gamestateMessageNum : -1..MaxSequence]
        /\ x.gamestateMessageNum < x.outgoing
    <3>1. /\ p.client \in Clients \cup {NoClient} /\ g \in 0..MaxChallenge
          /\ 0 \in 0..MaxSequence /\ 1 \in 1..MaxSequence + 1
          /\ -1 \in -1..MaxSequence /\ -1 < 1
      BY <1>1, BoundAssumption
    <3>2. x = [state |-> "connected", adr |-> p.client, challenge |-> g,
               incoming |-> 0, outgoing |-> 1, gamestateMessageNum |-> -1]
      BY <1>6 DEF FreeSlot
    <3> HIDE DEF g
    <3> QED
      BY <3>1, <3>2
  <2>2. given'[g].used > 0 /\ p.client # NoClient
    BY <1>1, <1>2, ClientAssumption
  <2> QED
    BY <1>2, <1>7, <2>1, <2>2 DEF SlotOK
<1>9. slots' = [slots EXCEPT ![s] = x]
  BY <1>6 DEF Accept
<1>10. /\ inGame' \subseteq Slots /\ ghosts' \subseteq inGame'
       /\ \A t \in Slots \ {s} : /\ t \in inGame' <=> t \in inGame
                                 /\ t \in ghosts' <=> t \in ghosts
       /\ s \in inGame' /\ s \notin ghosts'
  BY DEF IInv, TypeOK, Accept
<1>11. PICK new : new = ConnectResponse(p.client, g)
  OBVIOUS
<1>12. PacketOK(new)'
  BY <1>1, <1>11 DEF PacketOK, ConnectResponse
<1>13. Receive(p, {new})
  BY <1>11 DEF Accept
<1>14. Bounded(packets') /\ \A q \in packets' : q \in packets \/ PacketOK(q)'
  <2>1. Bounded(packets') /\ \A q \in packets' : q \in packets \/ q = new
    BY <1>13, OneSent
  <2> QED
    BY <1>12, <2>1
<1>15. given'[x.challenge].used > given[x.challenge].used
  BY <1>2, <1>7
<1>16. \A t \in Slots \ {s} : x.adr \in Clients => slots[t].adr # x.adr
  BY <1>7
<1> HIDE DEF g
<1> QED
  BY <1>2, <1>7, <1>8, <1>9, <1>10, <1>14, <1>15, <1>16, SlotPut

LEMMA DirectConnectKeeps ==
  ASSUME IInv, NEW p \in packets, SV_DirectConnect(p)
  PROVE  IInv'
<1>1. p.type = "connect" /\ UNCHANGED cl /\ p.client \in Clients
  BY DEF SV_DirectConnect, IInv, PacketsOK, PacketOK
<1> DEFINE i == Min(ValidChallenges(p))
           c == p.client
           s == Min(SlotsFor(c))
<1>2. ASSUME UNCHANGED given PROVE GivenGrows /\ GivenOK'
  BY <1>2, GivenStays DEF IInv
<1>3. CASE Refuse(p)
  <2>1. EntriesOK'
    BY <1>2, <1>3, EntriesUnchanged DEF Refuse
  <2>2. Bounded(packets') /\ packets' \subseteq packets
    BY <1>3, NothingSent DEF Refuse
  <2> QED
    BY <1>1, <1>2, <1>3, <2>1, <2>2, SlotsKept DEF Refuse
<1>4. ASSUME ValidChallenges(p) # {} PROVE i \in Entries
  BY <1>4, BoundAssumption, FirstFound DEF ValidChallenges, Entries
<1>5. CASE ValidChallenges(p) # {} /\ RefuseForPing(p, i)
  <2>1. EntriesOK'
    BY <1>2, <1>4, <1>5, EntryFlagged DEF RefuseForPing
  <2>2. Bounded(packets') /\ packets' \subseteq packets
    BY <1>5, NothingSent DEF RefuseForPing
  <2> QED
    BY <1>1, <1>2, <1>5, <2>1, <2>2, SlotsKept DEF RefuseForPing
<1>6. CASE /\ ValidChallenges(p) # {}
           /\ challenges' = [challenges EXCEPT ![i].connected = TRUE]
           /\ Receive(p, {}) /\ UNCHANGED <<slots, inGame, given, ghosts>>
  <2>1. EntriesOK'
    BY <1>2, <1>4, <1>6, EntryFlagged
  <2>2. Bounded(packets') /\ packets' \subseteq packets
    BY <1>6, NothingSent
  <2> QED
    BY <1>1, <1>2, <1>6, <2>1, <2>2, SlotsKept
<1>7. CASE /\ ValidChallenges(p) # {}
           /\ challenges' = [challenges EXCEPT ![i].connected = TRUE]
           /\ SlotsFor(c) # {}
           /\ Deny(p, s) \/ Accept(p, s)
  <2>1. s \in SlotsFor(c) /\ s \in Slots
    BY <1>7, FirstSlot DEF SlotsFor, SlotsOf
  <2>2. \A t \in Slots \ {s} : slots[t].adr # c
    BY <1>1, <2>1, Parts DEF SlotsFor, SlotsOf, Apart
  <2> HIDE DEF s
  <2>3. CASE Deny(p, s)
    <3>1. EntriesOK'
      BY <1>2, <1>4, <1>7, <2>3, EntryFlagged DEF Deny
    <3> QED
      BY <1>1, <2>1, <2>3, <3>1, DenyKeeps
  <2>4. CASE Accept(p, s)
    <3>1. EntriesOK'
      <4>1. GivenGrows
        BY <1>1, <2>4, AcceptGrows
      <4> QED
        BY <1>4, <1>7, <4>1, EntryFlagged
    <3> QED
      BY <1>1, <2>1, <2>2, <2>4, <3>1, AcceptKeeps
  <2> QED
    BY <1>7, <2>3, <2>4
<1> QED
  BY <1>1, <1>3, <1>5, <1>6, <1>7 DEF SV_DirectConnect

(* The slot goes on with the same client, at the same challenge. *)
LEMMA SlotGoesOn ==
  ASSUME IInv, UNCHANGED <<challenges, inGame, cl, given, ghosts>>,
         NEW s \in Slots, slots[s].state # "free",
         NEW x, slots' = [slots EXCEPT ![s] = x], SlotOK(x),
         x.adr = slots[s].adr, x.challenge = slots[s].challenge,
         slots[s].gamestateMessageNum # -1 => x.gamestateMessageNum # -1,
         x.state = "zombie" <=> slots[s].state = "zombie",
         Bounded(packets'),
         ASSUME \A n : Served(n) => Served(n)', NEW p \in packets', p \notin packets
         PROVE  PacketOK(p)'
  PROVE  IInv'
<1>1. GivenGrows /\ GivenOK'
  BY GivenStays DEF IInv
<1>2. EntriesOK'
  BY <1>1, EntriesUnchanged
<1>3. SlotOK(x)'
  BY <1>1, SlotStays DEF IInv
<1>4. x.state # "free"
  <2>1. SlotOK(slots[s])
    BY Parts
  <2> QED
    BY <2>1 DEF SlotOK
<1>5. \A t \in Slots \ {s} : x.adr \in Clients => slots[t].adr # x.adr
  BY Parts DEF Apart
<1>6. /\ inGame' \subseteq Slots /\ ghosts' \subseteq inGame'
      /\ \A t \in Slots \ {s} : /\ t \in inGame' <=> t \in inGame
                                /\ t \in ghosts' <=> t \in ghosts
      /\ s \in inGame' <=> x.state \notin {"free", "zombie"} \/ s \in ghosts'
      /\ s \notin ghosts'
  BY <1>4 DEF IInv, TypeOK, GameAgrees, Live
<1> QED
  BY <1>1, <1>2, <1>3, <1>5, <1>6, SlotPut

(* The slot is given up: for good, or to a zombie. *)
LEMMA DropKeeps ==
  ASSUME IInv, NEW s \in Slots, Live(s), NEW x, SV_DropClient(s, x),
         UNCHANGED <<cl, given>>, SlotOK(x),
         \/ x.state = "free"
         \/ /\ x.state = "zombie" /\ x.adr = slots[s].adr
            /\ x.challenge = slots[s].challenge
            /\ x.gamestateMessageNum = slots[s].gamestateMessageNum,
         Bounded(packets'), packets' \subseteq packets
  PROVE  IInv'
<1>1. GivenGrows /\ GivenOK'
  BY GivenStays DEF IInv
<1>2. EntriesOK'
  BY <1>1, FirstForgotten DEF SV_DropClient
<1>3. SlotOK(x)'
  BY <1>1, SlotStays DEF IInv
<1>4. \A t \in Slots \ {s} : x.adr \in Clients => slots[t].adr # x.adr
  <2>1. CASE x.state = "free"
    BY <2>1, ClientAssumption DEF SlotOK
  <2>2. CASE x.adr = slots[s].adr
    BY <2>2, Parts DEF Apart
  <2> QED
    BY <2>1, <2>2
<1>5. /\ inGame' = inGame \ {s} /\ ghosts' = ghosts /\ s \notin ghosts
      /\ slots' = [slots EXCEPT ![s] = x]
  BY DEF IInv, Live, SV_DropClient
<1>6. /\ inGame' \subseteq Slots /\ ghosts' \subseteq inGame'
      /\ \A t \in Slots \ {s} : /\ t \in inGame' <=> t \in inGame
                                /\ t \in ghosts' <=> t \in ghosts
      /\ s \notin inGame' /\ s \notin ghosts'
  BY <1>5 DEF IInv, TypeOK
<1>7. \/ x.state = "free"
      \/ /\ slots[s].state # "free" /\ x.challenge = slots[s].challenge
         /\ slots[s].gamestateMessageNum # -1 => x.gamestateMessageNum # -1
  BY DEF Live
<1>8. x.state \in {"free", "zombie"}
  OBVIOUS
<1> QED
  BY <1>1, <1>2, <1>3, <1>4, <1>5, <1>6, <1>7, <1>8, SlotPut

LEMMA FreeSlotOK == ASSUME NEW x, x = FreeSlot PROVE SlotOK(x) /\ x.state = "free"
  BY BoundAssumption DEF FreeSlot, SlotOK

LEMMA ZombieOK ==
  ASSUME NEW y, SlotOK(y), y.state # "free", NEW x, x = Zombie(y)
  PROVE  /\ SlotOK(x) /\ x.state = "zombie" /\ x.adr = y.adr
         /\ x.challenge = y.challenge
         /\ x.gamestateMessageNum = y.gamestateMessageNum
  BY DEF SlotOK, Zombie

LEMMA SamePackets ==
  ASSUME IInv, UNCHANGED packets
  PROVE  Bounded(packets') /\ packets' \subseteq packets
  BY Parts DEF Bounded

LEMMA TimeoutsKeep ==
  ASSUME IInv, NEW s \in Slots, SV_CheckTimeouts(s)
  PROVE  IInv'
<1>1. UNCHANGED <<cl, packets, given>>
  BY DEF SV_CheckTimeouts
<1>2. PICK x : x = FreeSlot /\ SlotOK(x) /\ x.state = "free"
  BY FreeSlotOK
<1>3. Bounded(packets') /\ packets' \subseteq packets
  BY <1>1, SamePackets
<1>4. CASE Live(s) /\ SV_DropClient(s, FreeSlot)
  BY <1>1, <1>2, <1>3, <1>4, DropKeeps
<1>5. CASE /\ slots[s].state = "zombie" /\ slots' = [slots EXCEPT ![s] = FreeSlot]
           /\ UNCHANGED <<challenges, inGame, ghosts>>
  <2>1. GivenGrows /\ GivenOK'
    BY <1>1, GivenStays DEF IInv
  <2>2. EntriesOK'
    BY <1>5, <2>1, EntriesUnchanged
  <2>3. SlotOK(x)'
    BY <1>2, <2>1, SlotStays DEF IInv
  <2>4. \A t \in Slots \ {s} : x.adr \in Clients => slots[t].adr # x.adr
    BY <1>2, ClientAssumption DEF SlotOK
  <2>5. /\ inGame' \subseteq Slots /\ ghosts' \subseteq inGame'
        /\ \A t \in Slots \ {s} : /\ t \in inGame' <=> t \in inGame
                                  /\ t \in ghosts' <=> t \in ghosts
        /\ s \notin inGame' /\ s \notin ghosts'
    BY <1>5 DEF IInv, TypeOK, GameAgrees, Live
  <2> QED
    BY <1>1, <1>2, <1>3, <1>5, <2>1, <2>2, <2>3, <2>4, <2>5, SlotPut
<1> QED
  BY <1>4, <1>5 DEF SV_CheckTimeouts

LEMMA KickKeeps ==
  ASSUME IInv, NEW s \in Slots, SV_Kick_f(s)
  PROVE  IInv'
<1>1. UNCHANGED <<cl, packets, given>> /\ Live(s)
  BY DEF SV_Kick_f
<1>2. PICK y : y = slots[s]
  OBVIOUS
<1>3. SlotOK(y) /\ y.state # "free"
  BY <1>1, <1>2, Parts DEF Live
<1>4. PICK x : x = Zombie(y)
  OBVIOUS
<1>5. /\ SlotOK(x) /\ x.state = "zombie" /\ x.adr = y.adr
      /\ x.challenge = y.challenge
      /\ x.gamestateMessageNum = y.gamestateMessageNum
  BY <1>3, <1>4, ZombieOK
<1>6. SV_DropClient(s, x)
  BY <1>2, <1>4 DEF SV_Kick_f
<1>7. Bounded(packets') /\ packets' \subseteq packets
  BY <1>1, SamePackets
<1> QED
  BY <1>1, <1>2, <1>5, <1>6, <1>7, DropKeeps

LEMMA SendKeeps ==
  ASSUME IInv, NEW s \in Slots, SV_SendClientMessages(s)
  PROVE  IInv'
<1>1. PICK y : y = slots[s] /\ SlotOK(y)
  BY Parts
<1>2. PICK new : /\ Send({new})
                 /\ new = ServerMessage(s, IF Live(s) THEN "snapshot" ELSE "disconnect")
  BY DEF SV_SendClientMessages
<1>3. PICK x : x = [y EXCEPT !.outgoing = y.outgoing + 1]
  OBVIOUS
<1>4. /\ y.state # "free" /\ y.outgoing <= MaxSequence
      /\ slots' = [slots EXCEPT ![s] = x]
      /\ UNCHANGED <<challenges, inGame, cl, given, ghosts>>
  BY <1>1, <1>3 DEF SV_SendClientMessages
<1>5. y.outgoing \in 1..MaxSequence /\ y.adr \in Clients /\ y.challenge \in Nat
      /\ y.outgoing + 1 \in 1..MaxSequence + 1 /\ y.outgoing \in Nat
  BY <1>1, <1>4, BoundAssumption DEF SlotOK
<1>6. /\ SlotOK(x) /\ x.adr = y.adr /\ x.challenge = y.challenge
      /\ x.gamestateMessageNum = y.gamestateMessageNum /\ x.state = y.state
  BY <1>1, <1>3, <1>5 DEF SlotOK
<1>7. PacketOK(new)'
  <2>1. /\ new.type = "server" /\ new.client = y.adr /\ new.challenge = y.challenge
        /\ new.sequence = y.outgoing /\ new.what # "gamestate"
    BY <1>1, <1>2 DEF ServerMessage
  <2> QED
    BY <1>5, <2>1 DEF PacketOK
<1>8. Bounded(packets') /\ \A q \in packets' : q \in packets \/ q = new
  BY <1>2, OneSent
<1>9. \A q \in packets' : q \notin packets => PacketOK(q)'
  BY <1>7, <1>8
<1> QED
  BY <1>1, <1>4, <1>6, <1>8, <1>9, SlotGoesOn

(* A message is taken in by the netchan of slot s. *)
LEMMA HeardOK ==
  ASSUME NEW s, SlotOK(slots[s]), NEW p, p.sequence \in 1..MaxSequence,
         NEW y, y = Heard(s, p)
  PROVE  /\ SlotOK(y) /\ y.state = slots[s].state /\ y.adr = slots[s].adr
         /\ y.challenge = slots[s].challenge /\ y.outgoing = slots[s].outgoing
         /\ y.gamestateMessageNum = slots[s].gamestateMessageNum
<1>1. PICK x : x = slots[s]
  OBVIOUS
<1>2. p.sequence \in 0..MaxSequence
  BY BoundAssumption
<1>3. y = [x EXCEPT !.incoming = p.sequence]
  BY <1>1 DEF Heard
<1> QED
  BY <1>1, <1>2, <1>3 DEF SlotOK

(* The gamestate goes out: the slot notes its number before it is sent. *)
LEMMA GamestateKeeps ==
  ASSUME IInv, NEW s \in Slots, Live(s), NEW p, NEW y, SlotOK(y),
         y.state = slots[s].state, y.adr = slots[s].adr,
         y.challenge = slots[s].challenge, y.outgoing = slots[s].outgoing,
         slots[s].outgoing <= MaxSequence,
         Receive(p, {ServerMessage(s, "gamestate")}),
         slots' = [slots EXCEPT ![s] = GamestateSent(y)],
         UNCHANGED <<challenges, inGame, cl, given, ghosts>>
  PROVE  IInv'
<1>1. PICK n : n = y.outgoing + 1
  OBVIOUS
<1>2. PICK x : x = [y EXCEPT !.state = "primed", !.outgoing = n,
                             !.gamestateMessageNum = y.outgoing]
  OBVIOUS
<1>3. /\ y.outgoing \in 1..MaxSequence /\ y.outgoing \in Nat \ {0}
      /\ n \in 1..MaxSequence + 1 /\ y.outgoing < n
      /\ y.outgoing \in -1..MaxSequence /\ y.outgoing # -1
  BY <1>1, BoundAssumption DEF SlotOK
<1>4. /\ y.state # "free" /\ y.adr \in Clients /\ y.challenge \in Nat
      /\ WasGiven(y.challenge, y.adr) /\ given[y.challenge].used > 0
  BY DEF SlotOK, Live
<1>5. /\ x.state = "primed" /\ x.adr = y.adr /\ x.challenge = y.challenge
      /\ x.gamestateMessageNum = y.outgoing
  BY <1>2 DEF SlotOK
<1>6. SlotOK(x)
  <2>1. /\ x \in [state : {"free", "zombie", "connected", "primed", "active"},
                  adr : Clients \cup {NoClient}, challenge : 0..MaxChallenge,
                  incoming : 0..MaxSequence, outgoing : 1..MaxSequence + 1,
                  gamestateMessageNum : -1..MaxSequence]
        /\ x.outgoing = n
    BY <1>2, <1>3 DEF SlotOK
  <2>2. x.adr # NoClient
    BY <1>4, <1>5 DEF SlotOK
  <2> QED
    BY <1>3, <1>4, <1>5, <2>1, <2>2 DEF SlotOK
<1>7. slots' = [slots EXCEPT ![s] = x]
  BY <1>1, <1>2 DEF GamestateSent
<1>8. PICK new : new = ServerMessage(s, "gamestate") /\ Receive(p, {new})
  OBVIOUS
<1>9. Served(y.challenge)'
  <2>1. slots = [t \in Slots |-> slots[t]]
    BY DEF IInv, SlotsOK
  <2>2. slots'[s] = x /\ \A t \in Slots \ {s} : slots'[t] = slots[t]
    BY <1>7, <2>1
  <2>3. ASSUME NEW t \in Slots, slots'[t].state # "free",
               slots'[t].challenge = y.challenge
        PROVE  t = s
    <3> SUFFICES ASSUME t # s PROVE FALSE
      OBVIOUS
    <3>1. WasGiven(y.challenge, slots[t].adr)
      BY <2>2, <2>3, Parts DEF SlotOK
    <3>2. slots[t].adr = slots[s].adr
      BY <1>4, <3>1 DEF WasGiven
    <3> QED
      BY <1>4, <3>2, Parts DEF Apart
  <2>4. y.challenge \in DOMAIN given' /\ given'[y.challenge].used > 0
    BY <1>4 DEF WasGiven
  <2>5. slots'[s].gamestateMessageNum # -1
    BY <1>3, <1>5, <2>2
  <2> QED
    BY <2>3, <2>4, <2>5 DEF Served
<1>10. PacketOK(new)'
  <2>1. /\ new.type = "server" /\ new.client = y.adr
        /\ new.challenge = y.challenge /\ new.sequence = y.outgoing
    BY <1>8 DEF ServerMessage
  <2> QED
    BY <1>3, <1>4, <1>9, <2>1 DEF PacketOK
<1>11. Bounded(packets') /\ \A q \in packets' : q \in packets \/ q = new
  BY <1>8, OneSent
<1>12. \A q \in packets' : q \notin packets => PacketOK(q)'
  BY <1>10, <1>11
<1>13. x.gamestateMessageNum # -1 /\ slots[s].state \notin {"free", "zombie"}
  BY <1>3, <1>5 DEF Live
<1> QED
  BY <1>5, <1>6, <1>7, <1>11, <1>12, <1>13, SlotGoesOn

LEMMA PacketEventKeeps ==
  ASSUME IInv, NEW p \in packets, SV_PacketEvent(p)
  PROVE  IInv'
<1>1. /\ p.client \in Clients /\ p.sequence \in 1..MaxSequence
      /\ UNCHANGED <<cl, given>>
  BY DEF IInv, PacketsOK, PacketOK, SV_PacketEvent
<1>2. CASE Receive(p, {}) /\ UNCHANGED <<challenges, slots, inGame, ghosts>>
  <2>1. GivenGrows /\ GivenOK'
    BY <1>1, GivenStays DEF IInv
  <2>2. EntriesOK'
    BY <1>2, <2>1, EntriesUnchanged
  <2>3. Bounded(packets') /\ packets' \subseteq packets
    BY <1>2, NothingSent
  <2> QED
    BY <1>1, <1>2, <2>1, <2>2, <2>3, SlotsKept
<1>3. CASE SlotsOf(p.client) # {}
  <2>1. PICK s \in Slots : s = Min(SlotsOf(p.client)) /\ slots[s].adr = p.client
    BY <1>3, FirstSlot DEF SlotsOf
  <2>2. SlotOK(slots[s]) /\ slots[s].state # "free"
    BY <1>1, <2>1, Parts, ClientAssumption DEF SlotOK
  <2>3. PICK y : y = Heard(s, p)
    OBVIOUS
  <2>4. /\ SlotOK(y) /\ y.state = slots[s].state /\ y.adr = slots[s].adr
        /\ y.challenge = slots[s].challenge /\ y.outgoing = slots[s].outgoing
        /\ y.gamestateMessageNum = slots[s].gamestateMessageNum
    BY <1>1, <2>2, <2>3, HeardOK
  <2>5. ASSUME Receive(p, {})
        PROVE  Bounded(packets') /\ packets' \subseteq packets
    BY <2>5, NothingSent
  <2>6. ASSUME Receive(p, {}), slots' = [slots EXCEPT ![s] = y],
               UNCHANGED <<challenges, inGame, ghosts>>
        PROVE  IInv'
    BY <1>1, <2>2, <2>4, <2>5, <2>6, SlotGoesOn
  <2>7. ASSUME slots[s].state = "primed", Receive(p, {}),
               slots' = [slots EXCEPT ![s] = [Heard(s, p) EXCEPT !.state = "active"]],
               UNCHANGED <<challenges, inGame, ghosts>>
        PROVE  IInv'
    <3>1. PICK x : x = [y EXCEPT !.state = "active"]
      OBVIOUS
    <3>2. /\ x.state = "active" /\ x.adr = y.adr /\ x.challenge = y.challenge
          /\ x.gamestateMessageNum = y.gamestateMessageNum
      BY <2>4, <3>1 DEF SlotOK
    <3>3. SlotOK(x)
      BY <2>4, <2>7, <3>1 DEF SlotOK
    <3>4. slots' = [slots EXCEPT ![s] = x]
      BY <2>3, <2>7, <3>1
    <3> QED
      BY <1>1, <2>2, <2>4, <2>5, <2>7, <3>2, <3>3, <3>4, SlotGoesOn
  <2>8. ASSUME Live(s), SV_DropClient(s, Zombie(Heard(s, p))), Receive(p, {})
        PROVE  IInv'
    <3>1. PICK x : x = Zombie(y)
      OBVIOUS
    <3>2. /\ SlotOK(x) /\ x.state = "zombie" /\ x.adr = y.adr
          /\ x.challenge = y.challenge
          /\ x.gamestateMessageNum = y.gamestateMessageNum
      BY <2>2, <2>4, <3>1, ZombieOK
    <3>3. SV_DropClient(s, x)
      BY <2>3, <2>8, <3>1
    <3> QED
      BY <1>1, <2>4, <2>5, <2>8, <3>2, <3>3, DropKeeps
  <2>9. ASSUME Live(s), slots[s].outgoing <= MaxSequence,
               Receive(p, {ServerMessage(s, "gamestate")}),
               slots' = [slots EXCEPT ![s] = GamestateSent(Heard(s, p))],
               UNCHANGED <<challenges, inGame, ghosts>>
        PROVE  IInv'
    <3>1. slots' = [slots EXCEPT ![s] = GamestateSent(y)]
      BY <2>3, <2>9
    <3> QED
      BY <1>1, <2>4, <2>9, <3>1, GamestateKeeps
  <2>10. CASE /\ slots[s].state = "zombie" /\ Receive(p, {})
              /\ slots' = [slots EXCEPT ![s] = Heard(s, p)]
              /\ UNCHANGED <<challenges, inGame, ghosts>>
    BY <2>3, <2>6, <2>10
  <2>11. CASE Live(s) /\ SV_ExecuteClientMessage(s, p)
    BY <2>3, <2>6, <2>7, <2>8, <2>9, <2>11 DEF SV_ExecuteClientMessage
  <2> QED
    BY <1>2, <1>3, <2>1, <2>10, <2>11 DEF SV_PacketEvent
<1>4. CASE SlotsOf(p.client) = {}
  BY <1>2, <1>4 DEF SV_PacketEvent
<1> QED
  BY <1>3, <1>4

-----------------------------------------------------------------------------
(* The clients' steps. *)
ServerUnchanged == UNCHANGED <<challenges, slots, inGame, given, ghosts>>

LEMMA ServerStays ==
  ASSUME IInv, ServerUnchanged, cl' = [c \in Clients |-> cl'[c]],
         \A c \in Clients : ClientOK(c, cl[c])', Bounded(packets'),
         \A p \in packets' : p \in packets \/ PacketOK(p)
  PROVE  IInv'
<1>1. UNCHANGED <<challenges, slots, inGame, given, ghosts>>
  BY DEF ServerUnchanged
<1>2. \A n : Served(n)' <=> Served(n)
  BY <1>1 DEF Served
<1>3. \A i \in Entries : EntryOK(challenges[i])'
  BY <1>1, Parts DEF EntryOK, WasGiven
<1>4. \A s \in Slots : SlotOK(slots[s])'
  BY <1>1, Parts DEF SlotOK, WasGiven
<1>5. \A p \in packets' : PacketOK(p)'
  <2>1. \A p \in packets' : PacketOK(p)
    BY DEF IInv, PacketsOK
  <2> QED
    BY <1>1, <1>2, <2>1 DEF PacketOK, WasGiven
<1>6. GameAgrees' /\ (\A s \in ghosts' : slots'[s].state = "free") /\ GivenOK'
  BY <1>1 DEF IInv, GameAgrees, Live, GivenOK
<1>7. /\ inGame' \subseteq Slots /\ ghosts' \subseteq inGame'
      /\ challenges' = [i \in Entries |-> challenges'[i]]
      /\ slots' = [s \in Slots |-> slots'[s]]
  BY <1>1 DEF IInv, TypeOK, ChallengesOK, SlotsOK
<1>8. Apart(slots')
  BY <1>1, Parts DEF Apart
<1> QED
  BY <1>3, <1>4, <1>5, <1>6, <1>7, <1>8, FromParts

(* A step that leaves d in client c. *)
LEMMA ClientPut ==
  ASSUME IInv, ServerUnchanged, NEW c \in Clients, NEW d, ClientOK(c, d),
         cl' = [cl EXCEPT ![c] = d], Bounded(packets'),
         \A p \in packets' : p \in packets \/ PacketOK(p)
  PROVE  IInv'
<1>1. cl = [b \in Clients |-> cl[b]]
  BY DEF IInv, ClientsOK
<1>2. UNCHANGED <<slots, given>>
  BY DEF ServerUnchanged
<1>3. ASSUME NEW b \in Clients PROVE ClientOK(b, cl[b])'
  <2>1. PICK e : e = IF b = c THEN d ELSE cl[b]
    OBVIOUS
  <2>2. ClientOK(b, e)
    BY <2>1, Parts
  <2>3. cl'[b] = e
    BY <1>1, <2>1
  <2> QED
    BY <1>2, <2>2, <2>3 DEF ClientOK, WasGiven, Served
<1> QED
  BY <1>1, <1>3, ServerStays

LEMMA ClientKept ==
  ASSUME IInv, ServerUnchanged, UNCHANGED cl, Bounded(packets'),
         \A p \in packets' : p \in packets \/ PacketOK(p)
  PROVE  IInv'
<1>1. UNCHANGED <<slots, given>> /\ cl' = [b \in Clients |-> cl'[b]]
  BY DEF ServerUnchanged, IInv, ClientsOK
<1>2. \A b \in Clients : ClientOK(b, cl[b])'
  BY <1>1, Parts DEF ClientOK, WasGiven, Served
<1> QED
  BY <1>1, <1>2, ServerStays

LEMMA DisconnectedOK ==
  ASSUME NEW c, NEW n \in Nat, NEW d, d = Disconnected(n)
  PROVE  ClientOK(c, d)
  BY BoundAssumption DEF Disconnected, ClientOK

(* The packets of CL_Disconnect say what is so. *)
LEMMA GoodbyeOK ==
  ASSUME IInv, NEW c \in Clients
  PROVE  IsFiniteSet(Goodbye(c)) /\ \A p \in Goodbye(c) : PacketOK(p)
<1>1. CASE Goodbye(c) = {}
  BY <1>1, FS_EmptySet
<1>2. CASE Goodbye(c) # {}
  <2>1. PICK new : new = ClientMessage(c, TRUE)
    OBVIOUS
  <2>2. Goodbye(c) = {new} /\ cl[c].outgoing <= MaxSequence
    BY <1>2, <2>1 DEF Goodbye
  <2>3. cl[c].outgoing \in 1..MaxSequence
    BY <2>2, Parts, BoundAssumption DEF ClientOK
  <2>4. new.type = "client" /\ new.client = c /\ new.sequence = cl[c].outgoing
    BY <2>1 DEF ClientMessage
  <2>5. PacketOK(new)
    BY <2>3, <2>4 DEF PacketOK
  <2> QED
    BY <2>2, <2>5, FS_Singleton
<1> QED
  BY <1>1, <1>2

LEMMA GoodbyeSent ==
  ASSUME IInv, NEW c \in Clients, NEW p,
         Receive(p, Goodbye(c)) \/ Send(Goodbye(c))
  PROVE  Bounded(packets') /\ \A q \in packets' : q \in packets \/ PacketOK(q)
<1>1. Bounded(packets') /\ packets' \subseteq packets \cup Goodbye(c)
  BY GoodbyeOK, Parts, ReceiveBounded
<1> QED
  BY <1>1, GoodbyeOK

LEMMA LeaveKeeps ==
  ASSUME IInv, NEW c \in Clients, NEW p,
         Receive(p, Goodbye(c)) \/ Send(Goodbye(c)),
         cl' = [cl EXCEPT ![c] = Disconnected(cl[c].attempt)], ServerUnchanged
  PROVE  IInv'
<1>1. PICK d : d = Disconnected(cl[c].attempt)
  OBVIOUS
<1>2. cl[c].attempt \in Nat
  BY Parts DEF ClientOK
<1>3. ClientOK(c, d)
  BY <1>1, <1>2, DisconnectedOK
<1> QED
  BY <1>1, <1>3, GoodbyeSent, ClientPut

LEMMA ConnectKeeps ==
  ASSUME IInv, NEW c \in Clients, CL_Connect_f(c)
  PROVE  IInv'
<1>1. PICK n : n = cl[c].attempt + 1
  OBVIOUS
<1>2. n \in Nat
  BY <1>1, Parts DEF ClientOK
<1>3. PICK d : d = [Disconnected(n) EXCEPT !.state = "connecting", !.challenge = n]
  OBVIOUS
<1>4. ClientOK(c, d)
  <2>1. d = [state |-> "connecting", challenge |-> n, incoming |-> 0,
             outgoing |-> 1, attempt |-> n,
             gamestate |-> [challenge |-> 0, sequence |-> 0]]
    BY <1>3 DEF Disconnected
  <2>2. 1 \in 1..MaxSequence + 1
    BY BoundAssumption
  <2> QED
    BY <1>2, <2>1, <2>2 DEF ClientOK
<1>5. /\ cl' = [cl EXCEPT ![c] = d] /\ ServerUnchanged /\ Send(Goodbye(c))
  BY <1>1, <1>3 DEF CL_Connect_f, ServerUnchanged
<1> QED
  BY <1>4, <1>5, GoodbyeSent, ClientPut

LEMMA ResendKeeps ==
  ASSUME IInv, NEW c \in Clients, CL_CheckForResend(c)
  PROVE  IInv'
<1>1. ServerUnchanged /\ UNCHANGED cl
  BY DEF CL_CheckForResend, ServerUnchanged
<1>2. PICK new : /\ Send({new})
                 /\ \/ new = GetChallenge(c)
                    \/ new = Connect(c) /\ cl[c].state = "challenging"
  BY DEF CL_CheckForResend
<1>3. PacketOK(new)
  BY <1>2, Parts DEF ClientOK, PacketOK, GetChallenge, Connect
<1>4. Bounded(packets') /\ \A q \in packets' : q \in packets \/ q = new
  BY <1>2, OneSent
<1> QED
  BY <1>1, <1>3, <1>4, ClientKept

LEMMA WriteKeeps ==
  ASSUME IInv, NEW c \in Clients, CL_WritePacket(c)
  PROVE  IInv'
<1>1. PICK y : y = cl[c] /\ ClientOK(c, y)
  BY Parts
<1>2. PICK d : d = [y EXCEPT !.outgoing = y.outgoing + 1]
  OBVIOUS
<1>3. /\ cl' = [cl EXCEPT ![c] = d] /\ ServerUnchanged /\ y.outgoing <= MaxSequence
  BY <1>1, <1>2 DEF CL_WritePacket, ServerUnchanged
<1>4. y.outgoing \in 1..MaxSequence /\ y.outgoing + 1 \in 1..MaxSequence + 1
  BY <1>1, <1>3, BoundAssumption DEF ClientOK
<1>5. ClientOK(c, d)
  BY <1>1, <1>2, <1>4 DEF ClientOK
<1>6. PICK new : new = ClientMessage(c, FALSE) /\ Send({new})
  BY DEF CL_WritePacket
<1>7. new.type = "client" /\ new.client = c /\ new.sequence = y.outgoing
  BY <1>1, <1>6 DEF ClientMessage
<1>8. PacketOK(new)
  BY <1>4, <1>7 DEF PacketOK
<1>9. Bounded(packets') /\ \A q \in packets' : q \in packets \/ q = new
  BY <1>6, OneSent
<1> QED
  BY <1>3, <1>5, <1>8, <1>9, ClientPut

LEMMA ConnectionlessKeeps ==
  ASSUME IInv, NEW p \in packets, CL_ConnectionlessPacket(p)
  PROVE  IInv'
<1> DEFINE c == p.client
<1>1. c \in Clients /\ ServerUnchanged
  BY DEF IInv, PacketsOK, PacketOK, CL_ConnectionlessPacket, ServerUnchanged
<1>2. Bounded(packets') /\ packets' \subseteq packets
  BY NothingSent DEF CL_ConnectionlessPacket
<1>3. PICK y : y = cl[c] /\ ClientOK(c, y)
  BY <1>1, Parts
<1>4. CASE /\ p.type = "challengeResponse" /\ MyChallenge(p)
           /\ cl' = [cl EXCEPT ![c].state = "challenging", ![c].challenge = p.challenge]
  <2>1. PICK d : d = [y EXCEPT !.state = "challenging", !.challenge = p.challenge]
    OBVIOUS
  <2>2. cl' = [cl EXCEPT ![c] = d]
    <3>1. cl = [b \in Clients |-> cl[b]]
      BY DEF IInv, ClientsOK
    <3>2. cl'[c] = d
      BY <1>1, <1>3, <1>4, <2>1, <3>1
    <3>3. \A b \in Clients : b # c => cl'[b] = cl[b]
      BY <1>4, <3>1
    <3> QED
      BY <1>4, <3>1, <3>2, <3>3
  <2>3. /\ WasGiven(p.challenge, c)
        /\ given[p.challenge].attempt = p.clientChallenge
    BY <1>4 DEF IInv, PacketsOK, PacketOK
  <2>4. p.clientChallenge = y.attempt
    BY <1>3, <1>4 DEF MyChallenge, ClientOK
  <2>5. p.challenge \in Nat
    BY <2>3, GivenNumbers DEF IInv, WasGiven
  <2>6. ClientOK(c, d)
    BY <1>3, <2>1, <2>3, <2>4, <2>5 DEF ClientOK
  <2> QED
    BY <1>1, <1>2, <2>2, <2>6, ClientPut
<1>5. CASE /\ cl[c].state = "challenging"
           /\ cl' = [cl EXCEPT ![c].state = "connected"]
  <2>1. PICK d : d = [y EXCEPT !.state = "connected"]
    OBVIOUS
  <2>2. cl' = [cl EXCEPT ![c] = d]
    BY <1>3, <1>5, <2>1
  <2>3. ClientOK(c, d)
    BY <1>3, <1>5, <2>1 DEF ClientOK
  <2> QED
    BY <1>1, <1>2, <2>2, <2>3, ClientPut
<1>6. CASE UNCHANGED cl
  BY <1>1, <1>2, <1>6, ClientKept
<1> QED
  BY <1>4, <1>5, <1>6 DEF CL_ConnectionlessPacket

LEMMA ClientPacketKeeps ==
  ASSUME IInv, NEW p \in packets, CL_PacketEvent(p)
  PROVE  IInv'
<1> DEFINE c == p.client
<1>1. /\ c \in Clients /\ ServerUnchanged
      /\ p.sequence \in 1..MaxSequence /\ p.sequence \in Nat /\ p.challenge \in Nat
  BY BoundAssumption
  DEF IInv, PacketsOK, PacketOK, CL_PacketEvent, ServerUnchanged
<1>2. ASSUME Receive(p, {}) PROVE Bounded(packets') /\ packets' \subseteq packets
  BY <1>2, NothingSent
<1>3. PICK y : y = cl[c] /\ ClientOK(c, y)
  BY <1>1, Parts
<1>4. PICK heard : heard = [y EXCEPT !.incoming = p.sequence]
  OBVIOUS
<1>5. CASE Receive(p, {}) /\ UNCHANGED cl
  BY <1>1, <1>2, <1>5, ClientKept
<1>6. CASE /\ InConnection(c) /\ Accepted(cl[c], p) /\ p.what = "gamestate"
           /\ Receive(p, {})
           /\ cl' = [cl EXCEPT ![c] = [heard EXCEPT !.state = "primed",
                !.gamestate = [challenge |-> p.challenge,
                               sequence |-> p.sequence]]]
  <2>1. PICK d : d = [heard EXCEPT !.state = "primed",
                        !.gamestate = [challenge |-> p.challenge,
                                       sequence |-> p.sequence]]
    OBVIOUS
  <2>2. /\ d.state = "primed" /\ d.challenge = y.challenge
        /\ d.attempt = y.attempt /\ d.gamestate.challenge = p.challenge
        /\ d.gamestate.sequence = p.sequence
        /\ d \in [state : {"disconnected", "connecting", "challenging",
                           "connected", "primed"},
                  challenge : Nat, incoming : Nat,
                  outgoing : 1..MaxSequence + 1, attempt : Nat,
                  gamestate : [challenge : Nat, sequence : Nat]]
    BY <1>1, <1>3, <1>4, <2>1 DEF ClientOK
  <2>3. Served(p.challenge)
    BY <1>6 DEF IInv, PacketsOK, PacketOK, CL_PacketEvent
  <2>4. p.sequence = 1 \/ p.challenge = y.challenge
    BY <1>3, <1>6 DEF Accepted, Checksum
  <2>5. WasGiven(y.challenge, c) /\ given[y.challenge].attempt = y.attempt
    BY <1>3, <1>6 DEF InConnection, ClientOK
  <2>6. ClientOK(c, d)
    BY <2>2, <2>3, <2>4, <2>5 DEF ClientOK
  <2> QED
    BY <1>1, <1>2, <1>6, <2>1, <2>6, ClientPut
<1>7. CASE /\ Receive(p, Goodbye(c))
           /\ cl' = [cl EXCEPT ![c] = Disconnected(cl[c].attempt)]
  BY <1>1, <1>7, LeaveKeeps
<1>8. CASE Receive(p, {}) /\ cl' = [cl EXCEPT ![c] = heard]
  <2>1. ClientOK(c, heard)
    BY <1>1, <1>3, <1>4 DEF ClientOK
  <2> QED
    BY <1>1, <1>2, <1>8, <2>1, ClientPut
<1> QED
  BY <1>3, <1>4, <1>5, <1>6, <1>7, <1>8 DEF CL_PacketEvent

LEMMA LoseKeeps ==
  ASSUME IInv, NEW p \in packets, Lose(p)
  PROVE  IInv'
<1>1. ServerUnchanged /\ UNCHANGED cl /\ packets' = packets \ {p}
  BY DEF Lose, ServerUnchanged
<1>2. Bounded(packets')
  BY <1>1, Parts, LessIsBounded
<1> QED
  BY <1>1, <1>2, ClientKept

-----------------------------------------------------------------------------
LEMMA StepKeeps == IInv /\ [Next]_vars => IInv'
<1> SUFFICES ASSUME IInv, [Next]_vars PROVE IInv'
  OBVIOUS
<1>1. ASSUME NEW p \in packets,
             \/ SV_GetChallenge(p) \/ SV_AuthorizeIpPacket(p)
             \/ SV_DirectConnect(p) \/ SV_PacketEvent(p)
      PROVE  IInv'
  BY <1>1, GetChallengeKeeps, AuthorizeKeeps, DirectConnectKeeps, PacketEventKeeps
<1>2. ASSUME NEW p \in packets,
             CL_ConnectionlessPacket(p) \/ CL_PacketEvent(p) \/ Lose(p)
      PROVE  IInv'
  BY <1>2, ConnectionlessKeeps, ClientPacketKeeps, LoseKeeps
<1>3. ASSUME NEW s \in Slots,
             SV_CheckTimeouts(s) \/ SV_Kick_f(s) \/ SV_SendClientMessages(s)
      PROVE  IInv'
  BY <1>3, TimeoutsKeep, KickKeeps, SendKeeps
<1>4. ASSUME NEW c \in Clients,
             CL_Connect_f(c) \/ CL_CheckForResend(c) \/ CL_WritePacket(c)
      PROVE  IInv'
  BY <1>4, ConnectKeeps, ResendKeeps, WriteKeeps
<1>5. ASSUME NEW c \in Clients, CL_Disconnect_f(c) \/ CL_CheckTimeout(c)
      PROVE  IInv'
  BY <1>5, LeaveKeeps DEF CL_Disconnect_f, CL_CheckTimeout, ServerUnchanged
<1>6. CASE UNCHANGED vars
  <2>1. ServerUnchanged /\ UNCHANGED cl /\ packets' = packets
    BY <1>6 DEF vars, ServerUnchanged
  <2> QED
    BY <2>1, SamePackets, ClientKept
<1> QED
  BY <1>1, <1>2, <1>3, <1>4, <1>5, <1>6 DEF Next

(* Packets, entries, slots and clients agree on who was given which        *)
(* challenge and who was sent a gamestate; a client has one slot at most.  *)
THEOREM Invariance == Spec => []IInv
<1> QED
  BY Initially, StepKeeps, PTL DEF Spec

(* The game has a player in exactly the slots in use, but for those taken  *)
(* from a player whose second connect it denied.                           *)
THEOREM GameKnows == Spec => []GameAgrees
<1>1. IInv => GameAgrees
  BY DEF IInv
<1> QED
  BY <1>1, Invariance, PTL

(* A client goes on only with the answer to the attempt it is making.      *)
THEOREM RightAttempt == Spec => []AnswersThisAttempt
<1>1. IInv => AnswersThisAttempt
  BY DEF IInv
<1> QED
  BY <1>1, Invariance, PTL

(* A client with a gamestate whose slot does not know of one was accepted  *)
(* twice, or took the first message of an earlier connection for its own.  *)
THEOREM StuckForOneReason == Spec => []StuckOnlyIf
<1>1. IInv => StuckOnlyIf
  <2> SUFFICES ASSUME IInv, NEW c \in Clients, NEW s \in SlotsOf(c),
                      cl[c].state = "primed", Live(s),
                      slots[s].challenge = cl[c].challenge
               PROVE  \/ slots[s].gamestateMessageNum # -1
                      \/ given[cl[c].challenge].used > 1
                      \/ /\ cl[c].gamestate.sequence = 1
                         /\ cl[c].gamestate.challenge # cl[c].challenge
    BY DEF StuckOnlyIf
  <2>1. /\ Served(cl[c].gamestate.challenge)
        /\ \/ cl[c].gamestate.sequence = 1
           \/ cl[c].gamestate.challenge = cl[c].challenge
    BY DEF IInv, ClientsOK
  <2>2. CASE cl[c].gamestate.challenge = cl[c].challenge
    <3>1. s \in Slots /\ slots[s].state # "free"
      BY DEF SlotsOf, Live
    <3> QED
      BY <2>1, <2>2, <3>1 DEF Served
  <2> QED
    BY <2>1, <2>2
<1> QED
  BY <1>1, Invariance, PTL
=============================================================================
