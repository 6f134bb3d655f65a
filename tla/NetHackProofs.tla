--------------------------- MODULE NetHackProofs ---------------------------
(***************************************************************************)
(* NetHack's two components.  KeyInput: the game never asks for a byte     *)
(* that is not there, and gets the bytes in the order in which they were   *)
(* typed, for every set of keys, every size of stdin's buffer and any      *)
(* number of keys.  SaveRestore: a game is kept on disk, and comes back as *)
(* it was, for every set of levels and of items and every number of runs.  *)
(*                                                                         *)
(* The components have nothing to do with each other: neither's theorems   *)
(* use the other's definitions.                                            *)
(***************************************************************************)
EXTENDS KeyInput, SaveRestore, SequenceTheorems, WellFoundedInduction,
        FiniteSetTheorems, TLAPS

-----------------------------------------------------------------------------
(* Keyboard input.                                                         *)

(* The unread bytes of the ByteArray are a sequence of their number. *)
LEMMA UnreadLen ==
  ASSUME NEW s \in Seq(Byte), NEW n \in 0 .. Len(s)
  PROVE  /\ SubSeq(s, n + 1, Len(s)) \in Seq(Byte)
         /\ Len(SubSeq(s, n + 1, Len(s))) = Len(s) - n
         /\ \A i \in 1 .. Len(s) - n : SubSeq(s, n + 1, Len(s))[i] = s[n + i]
<1>1. Len(s) \in Nat /\ n \in Nat /\ n <= Len(s)
  BY LenProperties
<1>2. \A i \in n + 1 .. Len(s) : s[i] \in Byte
  BY <1>1, ElementOfSeq
<1>3. n + 1 \in Int /\ Len(s) \in Int
  BY <1>1
<1>4. /\ SubSeq(s, n + 1, Len(s)) \in Seq(Byte)
      /\ Len(SubSeq(s, n + 1, Len(s))) =
           IF n + 1 <= Len(s) THEN Len(s) - (n + 1) + 1 ELSE 0
      /\ \A i \in 1 .. Len(s) - (n + 1) + 1 :
           SubSeq(s, n + 1, Len(s))[i] = s[n + 1 + i - 1]
  BY <1>2, <1>3, SubSeqProperties
<1>5. \A i \in 1 .. Len(s) - n :
        i \in 1 .. Len(s) - (n + 1) + 1 /\ n + 1 + i - 1 = n + i
  BY <1>1
<1> QED
  BY <1>1, <1>4, <1>5

(* A key's bytes are put behind the unread ones. *)
LEMMA UnreadAfterKey ==
  ASSUME NEW s \in Seq(Byte), NEW n \in 0 .. Len(s), NEW k \in Seq(Byte)
  PROVE  SubSeq(s \o k, n + 1, Len(s \o k)) = SubSeq(s, n + 1, Len(s)) \o k
<1> DEFINE lhs == SubSeq(s \o k, n + 1, Len(s \o k))
           old == SubSeq(s, n + 1, Len(s))
<1>1. Len(s) \in Nat /\ Len(k) \in Nat /\ n \in Nat /\ n <= Len(s)
  BY LenProperties
<1>2. /\ s \o k \in Seq(Byte) /\ Len(s \o k) = Len(s) + Len(k)
      /\ \A i \in 1 .. Len(s) + Len(k) :
           (s \o k)[i] = IF i <= Len(s) THEN s[i] ELSE k[i - Len(s)]
  BY ConcatProperties
<1>3. n \in 0 .. Len(s \o k)
  BY <1>1, <1>2
<1>4. /\ lhs \in Seq(Byte) /\ Len(lhs) = Len(s) + Len(k) - n
      /\ \A i \in 1 .. Len(s) + Len(k) - n : lhs[i] = (s \o k)[n + i]
  <2>1. PICK t \in Seq(Byte) : t = s \o k
    BY <1>2
  <2>2. n \in 0 .. Len(t)
    BY <1>3, <2>1
  <2>3. /\ SubSeq(t, n + 1, Len(t)) \in Seq(Byte)
        /\ Len(SubSeq(t, n + 1, Len(t))) = Len(t) - n
        /\ \A i \in 1 .. Len(t) - n : SubSeq(t, n + 1, Len(t))[i] = t[n + i]
    BY <2>2, UnreadLen
  <2>4. lhs = SubSeq(t, n + 1, Len(t)) /\ Len(t) = Len(s) + Len(k)
    BY <1>2, <2>1
  <2> QED
    BY <2>1, <2>3, <2>4
<1>5. /\ old \in Seq(Byte) /\ Len(old) = Len(s) - n
      /\ \A i \in 1 .. Len(s) - n : old[i] = s[n + i]
  BY UnreadLen
<1> HIDE DEF lhs, old
<1>6. /\ old \o k \in Seq(Byte) /\ Len(old \o k) = Len(s) - n + Len(k)
      /\ \A i \in 1 .. Len(s) - n + Len(k) :
           (old \o k)[i] = IF i <= Len(s) - n THEN old[i] ELSE k[i - (Len(s) - n)]
  <2>1. /\ old \o k \in Seq(Byte) /\ Len(old \o k) = Len(old) + Len(k)
        /\ \A i \in 1 .. Len(old) + Len(k) :
             (old \o k)[i] = IF i <= Len(old) THEN old[i] ELSE k[i - Len(old)]
    BY <1>5, ConcatProperties
  <2> QED
    BY <1>5, <2>1
<1>7. ASSUME NEW i \in 1 .. Len(lhs) PROVE lhs[i] = (old \o k)[i]
  <2>1. i \in Nat /\ i >= 1 /\ i <= Len(s) + Len(k) - n
    BY <1>1, <1>4
  <2>2. lhs[i] = (s \o k)[n + i]
    BY <1>1, <1>4, <2>1
  <2>3. CASE i <= Len(s) - n
    BY <1>1, <1>2, <1>5, <1>6, <2>1, <2>2, <2>3
  <2>4. CASE i > Len(s) - n
    <3>1. (s \o k)[n + i] = k[n + i - Len(s)]
      <4>1. n + i \in 1 .. Len(s) + Len(k) /\ ~(n + i <= Len(s))
        BY <1>1, <2>1, <2>4
      <4> QED
        BY <1>2, <4>1
    <3>2. (old \o k)[i] = k[i - (Len(s) - n)]
      BY <1>1, <1>6, <2>1, <2>4
    <3>3. n + i - Len(s) = i - (Len(s) - n)
      BY <1>1, <2>1
    <3> QED
      BY <2>2, <3>1, <3>2, <3>3
  <2>5. i <= Len(s) - n \/ i > Len(s) - n
    BY <1>1, <2>1
  <2> QED
    BY <2>3, <2>4, <2>5
<1>8. Len(lhs) = Len(old \o k)
  BY <1>1, <1>4, <1>6
<1>9. lhs = old \o k
  BY <1>4, <1>6, <1>7, <1>8, SeqEqual
<1> QED
  BY <1>9 DEF lhs, old

(* The game's read() takes the first of the unread bytes and leaves the    *)
(* rest.                                                                   *)
LEMMA UnreadAfterRead ==
  ASSUME NEW s \in Seq(Byte), NEW n \in 0 .. Len(s), NEW m \in 1 .. Len(s) - n
  PROVE  LET u == SubSeq(s, n + 1, Len(s))
         IN  /\ SubSeq(u, 1, m) \in Seq(Byte) /\ Len(SubSeq(u, 1, m)) = m
             /\ SubSeq(u, 1, m) \o SubSeq(s, n + m + 1, Len(s)) = u
<1> DEFINE u == SubSeq(s, n + 1, Len(s))
<1>1. Len(s) \in Nat /\ n \in Nat /\ m \in Nat /\ m >= 1 /\ n + m <= Len(s)
  BY LenProperties
<1>2. u \in Seq(Byte) /\ Len(u) = Len(s) - n
  BY UnreadLen
<1>3. SubSeq(u, 1, m) = SubSeq(s, n + 1, n + m)
  <2>1. /\ n + 1 \in 1 .. Len(s) /\ Len(s) \in 1 .. Len(s)
        /\ 1 \in 1 .. Len(s) - (n + 1) + 1 /\ m \in 1 .. Len(s) - (n + 1) + 1
    BY <1>1
  <2>2. SubSeq(u, 1, m) = SubSeq(s, n + 1 + 1 - 1, n + 1 + m - 1)
    BY <2>1, SubSeqOfSubSeq
  <2>3. n + 1 + 1 - 1 = n + 1 /\ n + 1 + m - 1 = n + m
    BY <1>1
  <2> QED
    BY <2>2, <2>3
<1>4. SubSeq(s, n + 1, n + m) \o SubSeq(s, n + m + 1, Len(s)) = u
  <2>1. /\ n + 1 \in 1 .. Len(s) + 1 /\ n + m \in n + 1 - 1 .. Len(s)
        /\ Len(s) \in n + m .. Len(s)
    BY <1>1
  <2> QED
    BY <2>1, ConcatAdjacentSubSeq
<1>5. SubSeq(u, 1, m) \in Seq(Byte) /\ Len(SubSeq(u, 1, m)) = m
  <2> HIDE DEF u
  <2>1. ASSUME NEW i \in 1 .. m PROVE u[i] \in Byte
    <3>1. i \in 1 .. Len(u)
      BY <1>1, <1>2
    <3> QED
      BY <1>2, <3>1, ElementOfSeq
  <2>2. 1 \in Int /\ m \in Int /\ m - 1 + 1 = m /\ 1 <= m
    BY <1>1
  <2> QED
    BY <2>1, <2>2, SubSeqProperties
<1> QED
  BY <1>3, <1>4, <1>5

-----------------------------------------------------------------------------
(* The inductive invariant. *)
LEMMA KeyInitially == KeyInit => KeyIInv
BY EmptySeq DEF KeyInit, KeyIInv, KeyTypeOK, Locked, Counted, Claimed

LEMMA KeyKeeps ==
  ASSUME KeyIInv, NEW k \in Key, bufferKeyDown(k)
  PROVE  KeyIInv'
<1>1. k \in Seq(Byte) /\ Len(k) \in Nat \ {0}
  BY KeyAssumption, EmptySeq
<1>2. /\ keybytes' \in Seq(Byte) /\ Len(keybytes') = Len(keybytes) + Len(k)
      /\ typed' \in Seq(Byte)
  BY <1>1, ConcatProperties DEF KeyIInv, KeyTypeOK, bufferKeyDown
<1>3. Len(keybytes) \in Nat /\ Len(stdin) \in Nat
  BY LenProperties DEF KeyIInv, KeyTypeOK
<1>4. KeyTypeOK'
  BY <1>1, <1>2, <1>3 DEF KeyIInv, KeyTypeOK, bufferKeyDown, gameVars
<1>5. Locked'
  BY <1>1 DEF KeyIInv, KeyTypeOK, Locked, bufferKeyDown, gameVars
<1>6. Counted'
  <2>1. /\ toAdd = 0 /\ toAdd' = Len(k) /\ available' = available
        /\ Claimed' = Claimed /\ kp' = kp /\ Len(stdin') = Len(stdin)
    BY DEF KeyIInv, Locked, Claimed, bufferKeyDown, gameVars
  <2>2. available \in Nat /\ kp \in Nat /\ Claimed \in Nat
    BY <1>3 DEF KeyIInv, KeyTypeOK, Claimed
  <2>3. available + toAdd + Claimed = Len(keybytes) - kp + Len(stdin)
    BY DEF KeyIInv, Counted
  <2>4. available' + toAdd' + Claimed' = available + toAdd + Claimed + Len(k)
    BY <1>1, <2>1, <2>2
  <2>5. Len(keybytes') - kp' + Len(stdin')
          = Len(keybytes) - kp + Len(stdin) + Len(k)
    BY <1>1, <1>2, <1>3, <2>1, <2>2
  <2> QED
    BY <2>3, <2>4, <2>5 DEF Counted
<1> QED
  BY <1>4, <1>5, <1>6 DEF KeyIInv

LEMMA CountingKeeps ==
  ASSUME KeyIInv, Counting
  PROVE  KeyIInv'
<1>1. Len(keybytes) \in Nat /\ Len(stdin) \in Nat
  BY LenProperties DEF KeyIInv, KeyTypeOK
<1>2. CASE IncrementEnter
  BY <1>1, <1>2 DEF KeyIInv, KeyTypeOK, Locked, Counted, Claimed, IncrementEnter,
                    gameVars, keyHistory
<1>3. CASE IncrementLeave
  <2>1. available \in Nat /\ toAdd \in Nat /\ toAdd # 0
    BY <1>3 DEF KeyIInv, KeyTypeOK, Locked, IncrementLeave
  <2>2. /\ available' = available + 1 /\ toAdd' = toAdd - 1
        /\ keybytes' = keybytes /\ kp' = kp /\ stdin' = stdin /\ worker' = worker
        /\ mutex' = "free" /\ ui' = IF toAdd' = 0 THEN "idle" ELSE "add"
        /\ gameSum' = gameSum /\ uiSum' = uiSum
        /\ typed' = typed /\ taken' = taken
    BY <1>3 DEF KeyIInv, Locked, IncrementLeave, gameVars, keyHistory
  <2>3. KeyTypeOK'
    BY <2>1, <2>2 DEF KeyIInv, KeyTypeOK
  <2>4. worker \notin {"test", "store"}
    BY <1>3 DEF KeyIInv, Locked, IncrementLeave
  <2>5. Locked'
    BY <2>1, <2>2, <2>4 DEF KeyIInv, Locked
  <2>6. Claimed' = Claimed /\ Claimed \in Nat
    BY <2>2 DEF Claimed
  <2>7. Counted'
    BY <1>1, <2>1, <2>2, <2>6 DEF KeyIInv, KeyTypeOK, Counted
  <2> QED
    BY <2>3, <2>5, <2>7 DEF KeyIInv
<1> QED
  BY <1>2, <1>3 DEF Counting

(* There is something to read, so the game does not see the end. *)
LEMMA SomethingThere ==
  ASSUME KeyIInv, worker = "read"
  PROVE  kp < Len(keybytes)
<1>1. Len(keybytes) \in Nat /\ Len(stdin) = 0
  BY LenProperties, EmptySeq DEF KeyIInv, KeyTypeOK, Locked
<1> QED
  BY <1>1 DEF KeyIInv, KeyTypeOK, Locked, Counted, Claimed

LEMMA ReadKeeps ==
  ASSUME KeyIInv, read
  PROVE  KeyIInv' /\ stdin \o Unread = (stdin \o Unread)'
<1>1. /\ keybytes \in Seq(Byte) /\ kp \in 0 .. Len(keybytes) /\ stdin = <<>>
      /\ Len(keybytes) \in Nat /\ kp \in Nat /\ kp < Len(keybytes)
      /\ ReadSize \in Nat \ {0} /\ worker = "read" /\ ui = "idle"
  BY SomethingThere, LenProperties, ReadAssumption
  DEF KeyIInv, KeyTypeOK, Locked, read
<1>2. Unread \in Seq(Byte) /\ Len(Unread) = Len(keybytes) - kp
  BY <1>1, UnreadLen DEF Unread
<1>3. /\ stdin' \in Seq(Byte) /\ keybytes' \in Seq(Byte)
      /\ Len(stdin') \in Nat \ {0}
      /\ kp' \in 0 .. Len(keybytes')
      /\ Len(keybytes') - kp' + Len(stdin') = Len(keybytes) - kp
      /\ stdin' \o Unread' = Unread
  <2>1. CASE Len(Unread) < ReadSize
    <3>1. stdin' = Unread /\ keybytes' = <<>> /\ kp' = 0
      BY <2>1 DEF read
    <3>2. Len(keybytes') = 0 /\ keybytes' \in Seq(Byte)
      BY <3>1, EmptySeq
    <3>3. Unread' = <<>>
      BY <3>1, <3>2, SubSeqEmpty DEF Unread
    <3> QED
      <4>1. Len(stdin') = Len(Unread) /\ stdin' \in Seq(Byte)
        BY <1>2, <3>1
      <4>2. stdin' \o Unread' = Unread
        BY <1>2, <3>1, <3>3, ConcatEmptySeq
      <4> QED
        BY <1>1, <1>2, <3>1, <3>2, <4>1, <4>2
  <2>2. CASE ~(Len(Unread) < ReadSize)
    <3>1. /\ stdin' = SubSeq(Unread, 1, ReadSize) /\ kp' = kp + ReadSize
          /\ keybytes' = keybytes
      BY <2>2 DEF read
    <3>2. ReadSize \in 1 .. Len(keybytes) - kp
      BY <1>1, <1>2, <2>2
    <3>3. /\ stdin' \in Seq(Byte) /\ Len(stdin') = ReadSize
          /\ stdin' \o SubSeq(keybytes, kp + ReadSize + 1, Len(keybytes)) = Unread
      BY <1>1, <3>1, <3>2, UnreadAfterRead DEF Unread
    <3> QED
      BY <1>1, <3>1, <3>2, <3>3 DEF Unread
  <2> QED
    BY <2>1, <2>2
<1>4. stdin' # <<>>
  BY <1>3, EmptySeq
<1>5. worker' = "getchar"
  BY <1>4 DEF read
<1>6. KeyTypeOK'
  BY <1>3, <1>5 DEF KeyIInv, KeyTypeOK, read, keyHistory
<1>7. Locked'
  BY <1>1, <1>5 DEF KeyIInv, Locked, read
<1>8. Counted'
  <2>1. Len(stdin) = 0
    BY <1>1, EmptySeq
  <2> QED
    BY <1>1, <1>3, <1>5, <2>1 DEF KeyIInv, Counted, Claimed, read
<1>9. stdin \o Unread = stdin' \o Unread'
  BY <1>1, <1>2, <1>3, ConcatEmptySeq
<1> QED
  BY <1>6, <1>7, <1>8, <1>9 DEF KeyIInv

LEMMA GameKeeps ==
  ASSUME KeyIInv, Ask \/ Locking \/ Unlocking \/ getchar \/ Fill
  PROVE  KeyIInv'
<1>1. Len(keybytes) \in Nat /\ Len(stdin) \in Nat /\ (stdin # <<>> => Len(stdin) > 0)
  BY LenProperties, EmptySeq DEF KeyIInv, KeyTypeOK
<1>2. CASE Ask
  BY <1>1, <1>2 DEF KeyIInv, KeyTypeOK, Locked, Counted, Claimed, Ask, uiVars, keyHistory
<1>3. CASE Locking
  BY <1>1, <1>3 DEF KeyIInv, KeyTypeOK, Locked, Counted, Claimed, Locking,
                    inputAvailableEnter, DecrementEnter, uiVars, keyHistory
<1>4. CASE Unlocking
  <2>1. CASE inputAvailableLeave
    BY <1>1, <2>1 DEF KeyIInv, KeyTypeOK, Locked, Counted, Claimed,
                      inputAvailableLeave, uiVars, keyHistory
  <2>2. CASE DecrementLeave
    <3>1. available \in Nat /\ available > 0
      BY <2>2 DEF KeyIInv, KeyTypeOK, Locked, DecrementLeave
    <3>2. /\ available' = available - 1 /\ worker = "store" /\ worker' = "getchar"
          /\ mutex' = "free" /\ gameSum' = gameSum /\ ui # "store"
      BY <2>2 DEF KeyIInv, Locked, DecrementLeave
    <3>3. /\ ui' = ui /\ uiSum' = uiSum /\ keybytes' = keybytes /\ kp' = kp
          /\ toAdd' = toAdd /\ stdin' = stdin /\ typed' = typed /\ taken' = taken
      BY <2>2 DEF DecrementLeave, uiVars, keyHistory
    <3>4. KeyTypeOK'
      BY <3>1, <3>2, <3>3 DEF KeyIInv, KeyTypeOK
    <3>5. Locked'
      BY <3>2, <3>3 DEF KeyIInv, Locked
    <3>6. Counted'
      <4>1. /\ available + toAdd + 0 = Len(keybytes) - kp + Len(stdin)
            /\ toAdd \in Nat /\ kp \in Nat
        BY <1>1, <3>2 DEF KeyIInv, KeyTypeOK, Counted, Claimed
      <4>2. available' + toAdd' + 1 = Len(keybytes') - kp' + Len(stdin')
        BY <1>1, <3>1, <3>2, <3>3, <4>1
      <4> QED
        BY <3>2, <4>2 DEF Counted, Claimed
    <3> QED
      BY <3>4, <3>5, <3>6 DEF KeyIInv
  <2> QED
    BY <1>4, <2>1, <2>2 DEF Unlocking
<1>5. CASE getchar
  <2>1. /\ Head(stdin) \in Byte /\ stdin' \in Seq(Byte)
        /\ Len(stdin') = Len(stdin) - 1
    BY <1>5, HeadTailProperties DEF KeyIInv, KeyTypeOK, getchar
  <2>2. taken' \in Seq(Byte)
    BY <1>5, <2>1, AppendProperties DEF KeyIInv, KeyTypeOK, getchar
  <2> QED
    BY <1>1, <1>5, <2>1, <2>2 DEF KeyIInv, KeyTypeOK, Locked, Counted, Claimed,
                                 getchar, uiVars
<1>6. CASE Fill
  BY <1>1, <1>6 DEF KeyIInv, KeyTypeOK, Locked, Counted, Claimed, Fill, uiVars, keyHistory
<1> QED
  BY <1>2, <1>3, <1>4, <1>5, <1>6

LEMMA KeyInductive == KeyIInv /\ [KeyNext]_keyVars => KeyIInv'
<1> SUFFICES ASSUME KeyIInv, [KeyNext]_keyVars PROVE KeyIInv'
  OBVIOUS
<1>1. ASSUME NEW k \in Key, bufferKeyDown(k) PROVE KeyIInv'
  BY <1>1, KeyKeeps
<1>2. CASE Counting
  BY <1>2, CountingKeeps
<1>3. CASE read
  BY <1>3, ReadKeeps
<1>4. CASE Ask \/ Locking \/ Unlocking \/ getchar \/ Fill
  BY <1>4, GameKeeps
<1>5. CASE UNCHANGED keyVars
  BY <1>5 DEF keyVars, uiVars, gameVars, keyHistory, KeyIInv, KeyTypeOK, Locked, Counted,
              Claimed
<1> QED
  BY <1>1, <1>2, <1>3, <1>4, <1>5 DEF KeyNext

(* The counter agrees with the bytes in every reachable state.             *)
(* (wintty.c, Console.as)                                                  *)
THEOREM KeyInvariance == KeySpec => []KeyIInv
BY KeyInitially, KeyInductive, PTL DEF KeySpec

(* The game never sees the end of the file: it never saves itself and ends *)
(* because it has outrun the keyboard.                                     *)
THEOREM NoEndOfFile == KeySpec => []NeverEof
<1>1. KeyIInv => NeverEof
  BY SomethingThere DEF NeverEof, KeyIInv, KeyTypeOK
<1> QED
  BY <1>1, KeyInvariance, PTL

-----------------------------------------------------------------------------
(* ConcatAssociative for bytes, quantified for Zenon. *)
LEMMA Associative ==
  \A s, t, u \in Seq(Byte) : (s \o t) \o u = s \o (t \o u)
BY ConcatAssociative

LEMMA OrderKept == KeyIInv /\ InOrder /\ [KeyNext]_keyVars => InOrder'
<1> SUFFICES ASSUME KeyIInv, InOrder, [KeyNext]_keyVars PROVE InOrder'
  OBVIOUS
<1>1. /\ keybytes \in Seq(Byte) /\ kp \in 0 .. Len(keybytes)
      /\ stdin \in Seq(Byte) /\ taken \in Seq(Byte) /\ Unread \in Seq(Byte)
  BY UnreadLen DEF KeyIInv, KeyTypeOK, Unread
<1>2. ASSUME NEW k \in Key, bufferKeyDown(k) PROVE InOrder'
  <2>1. k \in Seq(Byte)
    BY KeyAssumption
  <2>2. Unread' = Unread \o k
    BY <1>1, <1>2, <2>1, UnreadAfterKey DEF bufferKeyDown, Unread
  <2>3. /\ typed' = (taken \o stdin \o Unread) \o k
        /\ taken' = taken /\ stdin' = stdin
    BY <1>2 DEF bufferKeyDown, InOrder
  <2>4. taken \o stdin \in Seq(Byte)
    BY <1>1, ConcatProperties
  <2>5. (taken \o stdin \o Unread) \o k = taken \o stdin \o (Unread \o k)
    <3> DEFINE front == taken \o stdin
    <3>1. front \in Seq(Byte)
      BY <2>4
    <3> HIDE DEF front
    <3>2. Unread \in Seq(Byte)
      BY <1>1
    <3>3. (front \o Unread) \o k = front \o (Unread \o k)
      BY <2>1, <3>1, <3>2, Associative, ZenonT(30)
    <3> QED
      BY <3>3 DEF front
  <2> QED
    BY <2>2, <2>3, <2>5 DEF InOrder
<1>3. CASE read
  <2>1. stdin \o Unread = stdin' \o Unread'
    BY <1>3, ReadKeeps
  <2>2. stdin' \in Seq(Byte) /\ Unread' \in Seq(Byte)
    <3>1. KeyIInv'
      BY <1>3, ReadKeeps
    <3>2. keybytes' \in Seq(Byte) /\ kp' \in 0 .. Len(keybytes')
      BY <3>1 DEF KeyIInv, KeyTypeOK
    <3> QED
      BY <3>1, <3>2, UnreadLen DEF KeyIInv, KeyTypeOK, Unread
  <2>3. taken \o stdin \o Unread = taken \o (stdin \o Unread)
    BY <1>1, Associative, ZenonT(30)
  <2>4. taken \o stdin' \o Unread' = taken \o (stdin' \o Unread')
    <3>1. taken \in Seq(Byte)
      BY <1>1
    <3> QED
      BY <2>2, <3>1, Associative, ZenonT(30)
  <2>5. typed' = typed /\ taken' = taken
    BY <1>3 DEF read, keyHistory
  <2> QED
    BY <2>1, <2>3, <2>4, <2>5 DEF InOrder
<1>4. CASE getchar
  <2>1. /\ stdin # <<>> /\ taken' = Append(taken, Head(stdin))
        /\ stdin' = Tail(stdin) /\ typed' = typed /\ Unread' = Unread
    BY <1>4 DEF getchar, uiVars, Unread
  <2>2. taken \o stdin = Append(taken, Head(stdin)) \o Tail(stdin)
    <3>1. /\ Head(stdin) \in Byte /\ Tail(stdin) \in Seq(Byte)
          /\ <<Head(stdin)>> \in Seq(Byte)
      BY <1>1, <2>1, HeadTailProperties
    <3>2. Append(taken, Head(stdin)) = taken \o <<Head(stdin)>>
      BY <1>1, <3>1, AppendIsConcat
    <3>3. stdin = <<Head(stdin)>> \o Tail(stdin)
      <4>1. Len(stdin) \in Nat \ {0} /\ SubSeq(stdin, 1, Len(stdin)) = stdin
        BY <1>1, <2>1, EmptySeq, SubSeqFull
      <4>2. stdin = <<stdin[1]>> \o SubSeq(stdin, 1 + 1, Len(stdin))
        <5>1. 1 \in 1 .. Len(stdin) /\ Len(stdin) \in 1 .. Len(stdin)
          BY <4>1
        <5> QED
          BY <1>1, <4>1, <5>1, SubSeqRecursiveFirst
      <4>3. Tail(stdin) = SubSeq(stdin, 2, Len(stdin)) /\ Head(stdin) = stdin[1]
        BY <1>1, <2>1, TailIsSubSeq
      <4> QED
        BY <4>2, <4>3
    <3>4. (taken \o <<Head(stdin)>>) \o Tail(stdin)
            = taken \o (<<Head(stdin)>> \o Tail(stdin))
      <4>1. taken \in Seq(Byte)
        BY <1>1
      <4>2. /\ <<Head(stdin)>> \in Seq(Byte)
            /\ Tail(stdin) \in Seq(Byte)
        BY <3>1
      <4> QED
        BY <4>1, <4>2, Associative, ZenonT(30)
    <3> QED
      BY <3>2, <3>3, <3>4
  <2> QED
    BY <2>1, <2>2 DEF InOrder
<1>5. CASE Counting \/ Ask \/ Locking \/ Unlocking \/ Fill \/ UNCHANGED keyVars
  BY <1>5 DEF InOrder, Unread, Counting, IncrementEnter, IncrementLeave, Ask,
              Locking, inputAvailableEnter, DecrementEnter, Unlocking,
              inputAvailableLeave, DecrementLeave, Fill, keyVars, uiVars, keyHistory
<1> QED
  BY <1>2, <1>3, <1>4, <1>5 DEF KeyNext

(* The game gets the bytes that were typed, in order, however keys and     *)
(* reads interleave.                                                       *)
THEOREM KeysInOrder == KeySpec => []InOrder
<1>1. KeyInit => InOrder
  <2>1. Unread = <<>> \/ ~KeyInit
    BY EmptySeq, SubSeqEmpty DEF KeyInit, Unread
  <2>2. <<>> \o <<>> = <<>>
    BY EmptySeq, ConcatEmptySeq
  <2> QED
    BY <2>1, <2>2 DEF KeyInit, InOrder
<1> QED
  BY <1>1, OrderKept, KeyInvariance, PTL DEF KeySpec

-----------------------------------------------------------------------------
(* Saving, restoring and recovering.                                       *)

LEMMA NothingIsNothing ==
  /\ \A f \in LevelFile : f # Nothing
  /\ \A f \in LockFile : f # Nothing
  /\ \A f \in SaveFile : f # Nothing
  /\ \A game \in Game : game # Nothing
  /\ \A items \in SUBSET Item : items # Nothing
BY NothingAssumption, Zenon

LEMMA KindIs ==
  /\ \A l \in Level : Kind(l) = "broken" <=> file[l] # Nothing /\ ~file[l].whole
  /\ \A l \in Level : Kind(l) = "none" <=> file[l] = Nothing
  /\ \A l \in Level : Kind(l) = "good" <=> Usable(file[l], hackpid)
BY DEF Kind, Usable

LEMMA KindIsNext ==
  /\ \A l \in Level : (Kind(l) = "broken")' <=> file'[l] # Nothing /\ ~file'[l].whole
BY DEF Kind

(* The games that are on disk and in core. *)
LEMMA GameType ==
  ASSUME NEW h \in Level, NEW c \in SUBSET Item,
         NEW a \in [Level -> (SUBSET Item) \cup {Nothing}]
  PROVE  [here |-> h, carried |-> c, at |-> a] \in Game
BY DEF Game

LEMMA ItemsInType ==
  ASSUME TypeOK
  PROVE  \A l \in Level : ItemsIn(l) \in (SUBSET Item) \cup {Nothing}
BY DEF TypeOK, ItemsIn, LevelFile

LEMMA WorldType ==
  ASSUME TypeOK PROVE World \in Game
<1>1. [l \in Level |-> IF l = here /\ core THEN floor
                       ELSE IF l \in exists THEN ItemsIn(l) ELSE Nothing]
        \in [Level -> (SUBSET Item) \cup {Nothing}]
  BY ItemsInType DEF TypeOK
<1> QED
  BY <1>1, GameType DEF World, TypeOK

LEMMA LockImageIs ==
  ASSUME LockImage # Nothing
  PROVE  /\ lock # Nothing /\ lock.stage = "whole"
         /\ \A l \in Level : file[l] # Nothing => file[l].whole
         /\ \A l \in lock.state.exists \cup {lock.state.here} : file[l] # Nothing
         /\ LockImage.here = lock.state.here
         /\ LockImage.carried = lock.state.carried
         /\ \A l \in Level : LockImage.at[l] = ItemsIn(l)
BY KindIs DEF LockImage

LEMMA LockImageIsNext ==
  ASSUME LockImage' # Nothing
  PROVE  /\ lock' # Nothing /\ lock'.stage = "whole"
         /\ \A l \in Level : file'[l] # Nothing => file'[l].whole
         /\ \A l \in lock'.state.exists \cup {lock'.state.here} : file'[l] # Nothing
         /\ LockImage'.here = lock'.state.here
         /\ LockImage'.carried = lock'.state.carried
         /\ \A l \in Level : LockImage'.at[l] = ItemsIn(l)'
BY KindIsNext DEF LockImage

LEMMA SaveImageIs ==
  ASSUME SaveImage # Nothing, TypeOK
  PROVE  /\ save # Nothing /\ save.whole /\ save.sound
         /\ \A l \in save.state.exists \ {save.state.here} : save.levels[l] # Nothing
         /\ SaveImage.here = save.state.here
         /\ SaveImage.carried = save.state.carried
         /\ SaveImage.at[save.state.here] = save.floor
         /\ \A l \in Level \ {save.state.here} : SaveImage.at[l] = save.levels[l]
<1>1. save # Nothing /\ save \in SaveFile
  BY DEF SaveImage, TypeOK
<1>2. save.state.here \in Level /\ save.levels \in [Level -> (SUBSET Item) \cup {Nothing}]
  BY <1>1 DEF SaveFile, State
<1> QED
  BY <1>1, <1>2 DEF SaveImage

LEMMA SaveImageWhole ==
  SaveImage' # Nothing => save' # Nothing /\ save'.whole /\ save'.sound
BY DEF SaveImage

(* A step that does not touch a file leaves what is in it. *)
LEMMA LockImageStays ==
  ASSUME UNCHANGED <<lock, file>> PROVE LockImage' = LockImage
<1>1. \A l \in Level : (Kind(l) # "broken")' <=> Kind(l) # "broken"
  BY KindIs, KindIsNext
<1>2. [l \in Level |-> ItemsIn(l)]' = [l \in Level |-> ItemsIn(l)]
  BY DEF ItemsIn
<1> QED
  BY <1>1, <1>2 DEF LockImage

LEMMA SaveImageStays ==
  ASSUME UNCHANGED save PROVE SaveImage' = SaveImage
BY DEF SaveImage

LEMMA TornStays ==
  ASSUME UNCHANGED <<back, hup>>
  PROVE  (Torn' <=> Torn) /\ (LevelFreed' <=> LevelFreed)
BY DEF Torn, Midway, LevelFreed

LEMMA WorldStays ==
  ASSUME UNCHANGED <<here, core, floor, carried, exists, file>>
  PROVE  World' = World
BY DEF World, ItemsIn

LEMMA CreatedType ==
  ASSUME TypeOK, hackpid # 0
  PROVE  /\ Created \in LevelFile /\ PidOnly(hackpid) \in LockFile
         /\ \A items \in SUBSET Item : Written(items) \in LevelFile
         /\ State0 \in State
<1>1. hackpid \in 1..MaxRuns
  BY BoundAssumption DEF TypeOK
<1>2. AtInit \in State
  BY LevelAssumption DEF AtInit, State
<1>3. State0 \in State
  BY DEF State0, State, TypeOK
<1> QED
  BY <1>1, <1>2, <1>3 DEF Created, Written, PidOnly, LevelFile, LockFile, Stage

LEMMA EmptySaveType ==
  EmptySave \in SaveFile
<1>1. AtInit \in State
  BY LevelAssumption DEF AtInit, State
<1>2. Levels(Nothing) \in [Level -> (SUBSET Item) \cup {Nothing}]
  BY DEF Levels
<1> QED
  BY <1>1, <1>2 DEF EmptySave, SaveFile

(* A nonempty set of natural numbers has a least element. *)
LEMMA LeastNat ==
  ASSUME NEW S, S \subseteq Nat, S # {}
  PROVE  \E n \in S : \A o \in S : n <= o
<1> DEFINE Less == {p \in Nat \X Nat : p[1] < p[2]}
<1>1. IsWellFoundedOn(Less, Nat)
  BY NatLessThanWellFounded, Zenon DEF OpToRel
<1>2. PICK n \in S : \A o \in S : <<o, n>> \notin Less
  BY <1>1, WFMin, Zenon
<1>3. \A o \in S : ~(o < n)
  BY <1>2
<1> QED
  BY <1>3

LEMMA MinIsMember ==
  \A S \in SUBSET Level : S # {} => Min(S) \in S
<1> SUFFICES ASSUME NEW S \in SUBSET Level, S # {} PROVE Min(S) \in S
  OBVIOUS
<1>1. \E n \in S : \A o \in S : n <= o
  BY LevelAssumption, LeastNat
<1> QED
  BY <1>1, Zenon DEF Min

LEMMA NextIsMember ==
  ASSUME TypeOK
  PROVE  /\ exists \ {here} # {} => NextToSave \in exists \ {here}
         /\ todo # {} => NextToRestore \in todo
<1>1. exists \ {here} \in SUBSET Level /\ todo \in SUBSET Level
  BY DEF TypeOK
<1>2. exists \ {here} # {} => Min(exists \ {here}) \in exists \ {here}
  BY <1>1, MinIsMember, Zenon
<1>3. todo # {} => Min(todo) \in todo
  BY <1>1, MinIsMember, Zenon
<1> QED
  BY <1>2, <1>3 DEF NextToSave, NextToRestore

(* The program ends: what is left is on the disk. *)
LEMMA GoneKeeps ==
  ASSUME GameOK, Gone,
         lock' \in LockFile \cup {Nothing},
         file' \in [Level -> LevelFile \cup {Nothing}],
         save' \in SaveFile \cup {Nothing},
         save' # Nothing /\ save'.whole => save'.part # "empty",
         save' # Nothing /\ save'.part = "level" => ~save'.whole \/ ~save'.sound,
         Kept => /\ LockImage' = last => Known(last, lock'.state)
                 /\ SaveImage' = last /\ save'.readable => Known(last, save'.state)
  PROVE  GameOK'
<1>1. lost' \in BOOLEAN /\ (~lost' => ~lost /\ (last = Nothing \/ OnDisk'))
  BY DEF GameOK, TypeOK, Gone
<1>2. TypeOK'
  <2>1. 1 \in Level
    BY LevelAssumption
  <2>2. last' \in Game \cup {Nothing} /\ saving' \in Game \cup {Nothing}
    BY DEF GameOK, TypeOK, Gone
  <2>3. hackpid' \in 0..MaxRuns
    BY DEF GameOK, TypeOK, Gone
  <2> QED
    BY <1>1, <2>1, <2>2, <2>3 DEF Gone, TypeOK
<1>3. pc' = "shell" /\ last' = last
  BY DEF Gone
<1>4. ControlOK'
  BY DEF Gone, ControlOK, Blank, Idle, Recovering, WritingLock, Changing, Saving
<1>5. ~InGame' /\ ~Restoring'
  BY <1>3 DEF InGame, Restoring, Changing, WritingLock
<1>6. LockOK'
  BY <1>3 DEF LockOK
<1>7. SaveOK'
  BY <1>3, <1>5 DEF SaveOK
<1>8. WorldOK'
  BY <1>3, <1>5 DEF WorldOK, WritingLock
<1>9. RestoreOK' /\ SavingOK'
  BY <1>3, <1>5 DEF RestoreOK, SavingOK
<1>10. LastOK'
  <2>1. Kept' => Kept /\ OnDisk'
    BY <1>1, <1>3 DEF Kept
  <2>2. Kept => Conserved(last)
    BY DEF GameOK, LastOK
  <2> QED
    BY <1>3, <1>5, <2>1, <2>2 DEF LastOK
<1> QED
  BY <1>2, <1>4, <1>6, <1>7, <1>8, <1>9, <1>10 DEF GameOK

LEMMA GoneUnchangedKeeps ==
  ASSUME GameOK, Gone, UNCHANGED diskVars
  PROVE  GameOK'
<1>1. UNCHANGED <<lock, file, save>>
  BY DEF diskVars
<1>2. LockImage' = LockImage /\ SaveImage' = SaveImage
  BY <1>1, LockImageStays, SaveImageStays
<1>3. TypeOK /\ SaveOK /\ LastOK
  BY DEF GameOK
<1> QED
  BY <1>1, <1>2, <1>3, GoneKeeps DEF TypeOK, SaveOK, LastOK

LEMMA RefuseKeeps == ASSUME GameOK, Refuse PROVE GameOK'
BY GoneUnchangedKeeps DEF Refuse

LEMMA BrokenLevelKeeps == ASSUME GameOK, BrokenLevel PROVE GameOK'
BY GoneUnchangedKeeps DEF BrokenLevel

LEMMA SaveLevelBrokenKeeps == ASSUME GameOK, SaveLevelBroken PROVE GameOK'
BY GoneUnchangedKeeps DEF SaveLevelBroken

LEMMA RecoverNoLevelKeeps == ASSUME GameOK, RecoverNoLevel PROVE GameOK'
BY GoneUnchangedKeeps DEF RecoverNoLevel

LEMMA CrashKeeps == ASSUME GameOK, Crash PROVE GameOK'
BY GoneUnchangedKeeps DEF Crash

LEMMA clearlocksKeeps == ASSUME GameOK, clearlocks PROVE GameOK'
<1>1. Gone /\ lock' = Nothing /\ UNCHANGED save
  BY DEF clearlocks
<1>2. TypeOK /\ SaveOK /\ LastOK
  BY DEF GameOK
<1>3. file' \in [Level -> LevelFile \cup {Nothing}]
  BY <1>2 DEF clearlocks, TypeOK
<1>4. LockImage' = Nothing /\ SaveImage' = SaveImage
  BY <1>1, SaveImageStays DEF LockImage
<1> QED
  BY <1>1, <1>2, <1>3, <1>4, GoneKeeps DEF TypeOK, SaveOK, LastOK, Kept

LEMMA SaveDropLockKeeps == ASSUME GameOK, SaveDropLock PROVE GameOK'
<1>1. Gone /\ lock' = Nothing /\ UNCHANGED <<file, save>>
  BY DEF SaveDropLock
<1>2. TypeOK /\ SaveOK /\ LastOK
  BY DEF GameOK
<1>3. LockImage' = Nothing /\ SaveImage' = SaveImage
  BY <1>1, SaveImageStays DEF LockImage
<1> QED
  BY <1>1, <1>2, <1>3, GoneKeeps DEF TypeOK, SaveOK, LastOK, Kept

LEMMA RestoreFailsKeeps == ASSUME GameOK, RestoreFails PROVE GameOK'
<1>1. Gone /\ save' = Nothing /\ UNCHANGED <<lock, file>>
  BY DEF RestoreFails
<1>2. TypeOK /\ LastOK
  BY DEF GameOK
<1>3. SaveImage' = Nothing /\ LockImage' = LockImage
  BY <1>1, LockImageStays DEF SaveImage
<1> QED
  BY <1>1, <1>2, <1>3, GoneKeeps DEF TypeOK, LastOK, Kept

LEMMA RecoverCloseKeeps == ASSUME GameOK, RecoverClose PROVE GameOK'
<1>1. pc = "recLevels" /\ Gone /\ save' = [save EXCEPT !.whole = TRUE] /\ UNCHANGED <<lock, file>>
  BY DEF RecoverClose
<1>2. TypeOK /\ SaveOK /\ LastOK
  BY DEF GameOK
<1>3. save \in SaveFile /\ (save.part = "state" \/ (save.part = "level" /\ ~save.sound))
  BY <1>1, <1>2 DEF TypeOK, SaveOK
<1>4. save' \in SaveFile
  BY <1>1, <1>3 DEF SaveFile
<1>5. save'.part = save.part /\ save'.sound = save.sound /\ save'.state = save.state
  BY <1>1, <1>3 DEF SaveFile
<1>6. SaveImage' # Nothing => save'.sound
  BY SaveImageWhole
<1>7. LockImage' = LockImage
  BY <1>1, LockImageStays
<1> QED
  BY <1>1, <1>2, <1>3, <1>4, <1>5, <1>6, <1>7, GoneKeeps DEF TypeOK, LastOK, Kept

LEMMA GetLockKeeps == ASSUME GameOK, GetLock PROVE GameOK'
<1>1. /\ pc = "shell" /\ hackpid' = hackpid + 1 /\ hackpid < MaxRuns
      /\ \/ lock = Nothing /\ pc' = "start" /\ lock' = PidOnly(hackpid')
         \/ lock # Nothing /\ pc' = "ask" /\ lock' = lock
      /\ UNCHANGED <<back, here, core, floor, carried, exists, chkpt,
                     havestate, worth, hup, todo, file, save, last, saving, lost>>
  BY DEF GetLock, coreVars, runVars, history
<1>2. TypeOK /\ ControlOK /\ SaveOK /\ LastOK
  BY DEF GameOK
<1>3. hackpid' \in 1..MaxRuns
  BY <1>1, <1>2, BoundAssumption DEF TypeOK
<1>4. lock' \in LockFile \cup {Nothing}
  <2>1. AtInit \in State
    BY LevelAssumption DEF AtInit, State
  <2>2. PidOnly(hackpid') \in LockFile
    BY <1>3, <2>1 DEF PidOnly, LockFile, Stage
  <2> QED
    BY <1>1, <1>2, <2>2 DEF TypeOK
<1>5. TypeOK'
  BY <1>1, <1>2, <1>3, <1>4 DEF TypeOK, Interruptible
<1>6. ControlOK'
  BY <1>1, <1>2, <1>3 DEF ControlOK, Blank, Idle, Recovering, WritingLock, Changing, Saving
<1>7. ~InGame' /\ ~Restoring'
  BY <1>1 DEF InGame, Restoring, Changing, WritingLock
<1>8. LockOK'
  BY <1>1 DEF LockOK
<1>9. SaveOK'
  BY <1>1, <1>2, <1>7 DEF SaveOK
<1>10. WorldOK' /\ RestoreOK' /\ SavingOK'
  BY <1>1, <1>7 DEF WorldOK, RestoreOK, SavingOK
<1>11. LastOK'
  <2>1. \/ LockImage = Nothing /\ LockImage' = Nothing
        \/ LockImage' = LockImage /\ lock' = lock /\ pc' = "ask"
    <3>1. CASE lock = Nothing
      BY <1>1, <3>1 DEF LockImage, PidOnly
    <3>2. CASE lock # Nothing
      BY <1>1, <3>2, LockImageStays
    <3> QED
      BY <3>1, <3>2
  <2>2. SaveImage' = SaveImage
    BY <1>1, SaveImageStays
  <2> QED
    BY <1>1, <1>2, <1>7, <2>1, <2>2 DEF LastOK, Kept, OnDisk
<1> QED
  BY <1>5, <1>6, <1>8, <1>9, <1>10, <1>11 DEF GameOK

LEMMA EraseOldLocksKeeps == ASSUME GameOK, EraseOldLocks PROVE GameOK'
<1>1. /\ pc = "ask" /\ pc' = "erase" /\ file' = Levels(Nothing)
      /\ last' = IF last = SaveImage THEN last ELSE Nothing
      /\ UNCHANGED <<back, hackpid, here, core, floor, carried, exists, chkpt,
                     havestate, worth, hup, todo, lock, save, saving, lost>>
  BY DEF EraseOldLocks, Step, coreVars, runVars
<1>2. TypeOK /\ ControlOK /\ SaveOK /\ LastOK
  BY DEF GameOK
<1>3. \A l \in Level : file'[l] = Nothing
  BY <1>1 DEF Levels
<1>4. TypeOK'
  BY <1>1, <1>2 DEF TypeOK, Interruptible, Levels
<1>5. ControlOK'
  BY <1>1, <1>2 DEF ControlOK, Blank, Idle, Recovering, WritingLock, Changing, Saving
<1>6. ~InGame' /\ ~Restoring'
  BY <1>1 DEF InGame, Restoring, Changing, WritingLock
<1>7. LockOK'
  BY <1>1, <1>3 DEF LockOK
<1>8. SaveOK'
  BY <1>1, <1>2, <1>6 DEF SaveOK
<1>9. WorldOK' /\ RestoreOK' /\ SavingOK'
  BY <1>1, <1>6 DEF WorldOK, RestoreOK, SavingOK
<1>10. LastOK'
  <2>1. LockImage' = Nothing
    <3>1. lock # Nothing => lock.state.here \in Level
      BY <1>2 DEF TypeOK, LockFile, State
    <3> QED
      BY <1>1, <1>3, <3>1, LockImageIsNext
  <2>2. SaveImage' = SaveImage
    BY <1>1, SaveImageStays
  <2> QED
    BY <1>1, <1>2, <1>6, <2>1, <2>2 DEF LastOK, Kept
<1> QED
  BY <1>4, <1>5, <1>7, <1>8, <1>9, <1>10 DEF GameOK

LEMMA EraseOldLockKeeps == ASSUME GameOK, EraseOldLock PROVE GameOK'
<1>1. /\ pc = "erase" /\ pc' = "start" /\ lock' = PidOnly(hackpid)
      /\ UNCHANGED <<back, hackpid, here, core, floor, carried, exists, chkpt,
                     havestate, worth, hup, todo, file, save, last, saving, lost>>
  BY DEF EraseOldLock, Step, coreVars, runVars, history
<1>2. TypeOK /\ ControlOK /\ SaveOK /\ LastOK
  BY DEF GameOK
<1>3. hackpid # 0
  BY <1>1, <1>2 DEF ControlOK, Recovering
<1>4. TypeOK'
  BY <1>1, <1>2, <1>3, CreatedType DEF TypeOK, Interruptible
<1>5. ControlOK'
  BY <1>1, <1>2 DEF ControlOK, Blank, Idle, Recovering, WritingLock, Changing, Saving
<1>6. ~InGame' /\ ~Restoring'
  BY <1>1 DEF InGame, Restoring, Changing, WritingLock
<1>7. LockOK'
  BY <1>1 DEF LockOK
<1>8. SaveOK'
  BY <1>1, <1>2, <1>6 DEF SaveOK
<1>9. WorldOK' /\ RestoreOK' /\ SavingOK'
  BY <1>1, <1>6 DEF WorldOK, RestoreOK, SavingOK
<1>10. LastOK'
  <2>1. LockImage' = Nothing
    BY <1>1 DEF LockImage, PidOnly
  <2>2. SaveImage' = SaveImage
    BY <1>1, SaveImageStays
  <2> QED
    BY <1>1, <1>2, <1>6, <2>1, <2>2 DEF LastOK, Kept
<1> QED
  BY <1>4, <1>5, <1>7, <1>8, <1>9, <1>10 DEF GameOK

LEMMA NewGameKeeps == ASSUME GameOK, NewGame PROVE GameOK'
<1>1. /\ pc = "start" /\ pc' = "level"
      /\ save' = IF Unreadable THEN save ELSE Nothing
      /\ core' = TRUE /\ floor' = {i \in Item : MadeOn[i] = 1}
      /\ last' = Nothing /\ lost' = FALSE
      /\ UNCHANGED <<back, hackpid, here, carried, exists, chkpt,
                     havestate, worth, hup, todo, lock, file, saving>>
  BY DEF NewGame, Step, runVars
<1>2. TypeOK /\ ControlOK /\ SaveOK
  BY DEF GameOK
<1>3. Blank /\ hackpid # 0
  BY <1>1, <1>2 DEF ControlOK, Idle, Recovering
<1>4. save' = Nothing \/ (save' = save /\ ~save.readable)
  BY <1>1 DEF Unreadable
<1>5. TypeOK'
  BY <1>1, <1>2, <1>4 DEF TypeOK, Interruptible
<1>6. ControlOK'
  BY <1>1, <1>2, <1>3 DEF ControlOK, Blank, Idle, Recovering, WritingLock, Changing, Saving
<1>7. InGame' /\ ~Restoring' /\ ~Kept'
  BY <1>1 DEF InGame, Restoring, Changing, WritingLock, Kept
<1>8. LockOK'
  BY <1>1 DEF LockOK
<1>9. SaveOK'
  BY <1>1, <1>2, <1>4, <1>7 DEF SaveOK
<1>10. WorldOK'
  <2>1. /\ World'.carried = {}
        /\ \A l \in Level : World'.at[l] = IF l = 1 THEN floor' ELSE Nothing
    BY <1>1, <1>3 DEF World, Blank
  <2>2. floor' # Nothing
    BY <1>1, NothingIsNothing
  <2>3. Conserved(World')
    BY <1>1, <2>1, <2>2, LevelAssumption, ItemAssumption DEF Conserved, HeldOn
  <2> QED
    BY <1>1, <1>3, <2>3 DEF WorldOK, WritingLock, Blank
<1>11. RestoreOK' /\ SavingOK' /\ LastOK'
  BY <1>1, <1>7 DEF RestoreOK, SavingOK, LastOK
<1> QED
  BY <1>5, <1>6, <1>8, <1>9, <1>10, <1>11 DEF GameOK

(* The game is played. *)
LEMMA PickUpKeeps == ASSUME GameOK, NEW i \in Item, PickUp(i) PROVE GameOK'
<1>1. /\ pc = "play" /\ pc' = pc /\ i \in floor
      /\ floor' = floor \ {i} /\ carried' = carried \cup {i}
      /\ UNCHANGED <<back, hackpid, here, core, exists, chkpt, havestate, worth,
                     hup, todo, lock, file, save, last, saving, lost>>
  BY DEF PickUp, runVars, diskVars, history
<1>2. TypeOK /\ ControlOK /\ SaveOK /\ WorldOK /\ LastOK
  BY DEF GameOK
<1>3. InGame /\ InGame' /\ ~Restoring' /\ core
  BY <1>1, <1>2 DEF InGame, Restoring, Changing, WritingLock, WorldOK
<1>4. TypeOK'
  BY <1>1, <1>2 DEF TypeOK, Interruptible
<1>5. ControlOK'
  BY <1>1, <1>2 DEF ControlOK, Idle, Recovering, WritingLock, Changing, Saving
<1>6. LockOK' /\ RestoreOK' /\ SavingOK'
  BY <1>1, <1>3 DEF LockOK, RestoreOK, SavingOK
<1>7. SaveOK'
  BY <1>1, <1>2, <1>3 DEF SaveOK
<1>8. WorldOK'
  <2>1. /\ World'.carried = World.carried \cup {i}
        /\ World.at[here] = floor /\ World'.at[here] = floor \ {i}
        /\ \A l \in Level \ {here} : World'.at[l] = World.at[l]
    BY <1>1, <1>2, <1>3 DEF World, ItemsIn, TypeOK
  <2>2. here \in Level /\ floor # Nothing /\ floor' # Nothing
    BY <1>1, <1>2, NothingIsNothing DEF TypeOK
  <2>3. Conserved(World) => Conserved(World')
    BY <1>1, <2>1, <2>2, ItemAssumption DEF Conserved, HeldOn
  <2> QED
    BY <1>1, <1>2, <1>3, <2>3 DEF WorldOK, WritingLock
<1>9. LastOK'
  <2>1. LockImage' = LockImage /\ SaveImage' = SaveImage
    BY <1>1, LockImageStays, SaveImageStays
  <2> QED
    BY <1>1, <1>2, <1>3, <2>1, TornStays DEF LastOK, Kept, Leftover
<1> QED
  BY <1>4, <1>5, <1>6, <1>7, <1>8, <1>9 DEF GameOK

LEMMA DropKeeps == ASSUME GameOK, NEW i \in Item, Drop(i) PROVE GameOK'
<1>1. /\ pc = "play" /\ pc' = pc /\ i \in carried
      /\ floor' = floor \cup {i} /\ carried' = carried \ {i}
      /\ UNCHANGED <<back, hackpid, here, core, exists, chkpt, havestate, worth,
                     hup, todo, lock, file, save, last, saving, lost>>
  BY DEF Drop, runVars, diskVars, history
<1>2. TypeOK /\ ControlOK /\ SaveOK /\ WorldOK /\ LastOK
  BY DEF GameOK
<1>3. InGame /\ InGame' /\ ~Restoring' /\ core
  BY <1>1, <1>2 DEF InGame, Restoring, Changing, WritingLock, WorldOK
<1>4. TypeOK'
  BY <1>1, <1>2 DEF TypeOK, Interruptible
<1>5. ControlOK'
  BY <1>1, <1>2 DEF ControlOK, Idle, Recovering, WritingLock, Changing, Saving
<1>6. LockOK' /\ RestoreOK' /\ SavingOK'
  BY <1>1, <1>3 DEF LockOK, RestoreOK, SavingOK
<1>7. SaveOK'
  BY <1>1, <1>2, <1>3 DEF SaveOK
<1>8. WorldOK'
  <2>1. /\ World.carried = carried /\ World'.carried = carried \ {i}
        /\ World.at[here] = floor /\ World'.at[here] = floor \cup {i}
        /\ \A l \in Level \ {here} : World'.at[l] = World.at[l]
    BY <1>1, <1>2, <1>3 DEF World, ItemsIn, TypeOK
  <2>2. here \in Level /\ floor # Nothing /\ floor' # Nothing
    BY <1>1, <1>2, NothingIsNothing DEF TypeOK
  <2>3. Conserved(World) => Conserved(World')
    BY <1>1, <2>1, <2>2, ItemAssumption DEF Conserved, HeldOn
  <2> QED
    BY <1>1, <1>2, <1>3, <2>3 DEF WorldOK, WritingLock
<1>9. LastOK'
  <2>1. LockImage' = LockImage /\ SaveImage' = SaveImage
    BY <1>1, LockImageStays, SaveImageStays
  <2> QED
    BY <1>1, <1>2, <1>3, <2>1, TornStays DEF LastOK, Kept, Leftover
<1> QED
  BY <1>4, <1>5, <1>6, <1>7, <1>8, <1>9 DEF GameOK

LEMMA ToggleKeeps == ASSUME GameOK, Toggle PROVE GameOK'
<1>1. /\ pc = "play" /\ pc' = pc /\ chkpt' \in BOOLEAN
      /\ UNCHANGED <<back, hackpid, here, core, floor, carried, exists, havestate,
                     worth, hup, todo, lock, file, save, last, saving, lost>>
  BY DEF Toggle, runVars, diskVars, history
<1>2. TypeOK /\ ControlOK /\ SaveOK /\ WorldOK /\ LastOK
  BY DEF GameOK
<1>3. InGame /\ InGame' /\ ~Restoring'
  BY <1>1 DEF InGame, Restoring, Changing, WritingLock
<1>4. TypeOK'
  BY <1>1, <1>2 DEF TypeOK, Interruptible
<1>5. ControlOK'
  BY <1>1, <1>2 DEF ControlOK, Idle, Recovering, WritingLock, Changing, Saving
<1>6. LockOK' /\ RestoreOK' /\ SavingOK'
  BY <1>1, <1>3 DEF LockOK, RestoreOK, SavingOK
<1>7. SaveOK'
  BY <1>1, <1>2, <1>3 DEF SaveOK
<1>8. WorldOK'
  BY <1>1, <1>2, <1>3, WorldStays DEF WorldOK, WritingLock
<1>9. LastOK'
  <2>1. LockImage' = LockImage /\ SaveImage' = SaveImage
    BY <1>1, LockImageStays, SaveImageStays
  <2> QED
    BY <1>1, <1>2, <1>3, <2>1, TornStays DEF LastOK, Kept, Leftover
<1> QED
  BY <1>4, <1>5, <1>6, <1>7, <1>8, <1>9 DEF GameOK

LEMMA DoneKeeps == ASSUME GameOK, Done PROVE GameOK'
<1>1. /\ pc = "play" /\ pc' = "clear" /\ last' = Nothing
      /\ UNCHANGED <<back, hackpid, here, core, floor, carried, exists, chkpt,
                     havestate, worth, hup, todo, lock, file, save, saving, lost>>
  BY DEF Done, Step, coreVars, runVars, diskVars
<1>2. TypeOK /\ ControlOK /\ SaveOK
  BY DEF GameOK
<1>3. ~InGame' /\ ~Restoring' /\ ~Kept'
  BY <1>1 DEF InGame, Restoring, Changing, WritingLock, Kept
<1>4. TypeOK'
  BY <1>1, <1>2 DEF TypeOK, Interruptible
<1>5. ControlOK'
  BY <1>1, <1>2 DEF ControlOK, Idle, Recovering, WritingLock, Changing, Saving
<1>6. LockOK' /\ WorldOK' /\ RestoreOK' /\ SavingOK' /\ LastOK'
  BY <1>1, <1>3 DEF LockOK, WorldOK, RestoreOK, SavingOK, LastOK
<1>7. SaveOK'
  BY <1>1, <1>2, <1>3 DEF SaveOK
<1> QED
  BY <1>4, <1>5, <1>6, <1>7 DEF GameOK

(* The level that is left goes into its file. *)
LEMMA RewriteLeftKeeps == ASSUME GameOK, RewriteLeft PROVE GameOK'
<1>1. /\ pc = "play" /\ pc' = "leave"
      /\ file' = [file EXCEPT ![here] = Created] /\ exists' = exists \cup {here}
      /\ UNCHANGED <<back, hackpid, here, core, floor, carried, chkpt, havestate,
                     worth, hup, todo, lock, save, last, saving, lost>>
  BY DEF RewriteLeft, Step, runVars, history
<1>2. TypeOK /\ ControlOK /\ SaveOK /\ WorldOK /\ LastOK
  BY DEF GameOK
<1>3. InGame /\ InGame' /\ ~Restoring' /\ core /\ hackpid # 0
  BY <1>1, <1>2
     DEF InGame, Restoring, Changing, WritingLock, WorldOK, ControlOK, Recovering
<1>4. file' \in [Level -> LevelFile \cup {Nothing}]
  BY <1>1, <1>2, <1>3, CreatedType DEF TypeOK
<1>5. TypeOK'
  BY <1>1, <1>2, <1>4 DEF TypeOK, Interruptible
<1>6. ControlOK'
  BY <1>1, <1>2 DEF ControlOK, Idle, Recovering, WritingLock, Changing, Saving
<1>7. LockOK' /\ RestoreOK' /\ SavingOK'
  BY <1>1, <1>3 DEF LockOK, RestoreOK, SavingOK
<1>8. SaveOK'
  BY <1>1, <1>2, <1>3 DEF SaveOK
<1>9. \A l \in Level \ {here} : file'[l] = file[l]
  BY <1>1, <1>2 DEF TypeOK
<1>10. WorldOK'
  <2>1. World' = World
    BY <1>1, <1>3, <1>9 DEF World, ItemsIn
  <2> QED
    BY <1>1, <1>2, <1>3, <1>9, <2>1 DEF WorldOK, WritingLock, Usable, TypeOK
<1>11. LastOK'
  <2>1. SaveImage' = SaveImage
    BY <1>1, SaveImageStays
  <2> QED
    BY <1>1, <1>2, <1>3, <2>1, LockImageIsNext DEF LastOK, Kept
<1> QED
  BY <1>5, <1>6, <1>7, <1>8, <1>10, <1>11 DEF GameOK

LEMMA SaveLeftKeeps == ASSUME GameOK, SaveLeft PROVE GameOK'
<1>1. /\ pc = "leave" /\ pc' = "left"
      /\ file' = [file EXCEPT ![here] = Written(floor)]
      /\ floor' = {} /\ core' = FALSE
      /\ UNCHANGED <<back, hackpid, here, carried, exists, chkpt, havestate,
                     worth, hup, todo, lock, save, last, saving, lost>>
  BY DEF SaveLeft, Step, runVars, history
<1>2. TypeOK /\ ControlOK /\ SaveOK /\ WorldOK /\ LastOK
  BY DEF GameOK
<1>3. InGame /\ InGame' /\ ~Restoring' /\ core /\ here \in exists /\ hackpid # 0
  BY <1>1, <1>2
     DEF InGame, Restoring, Changing, WritingLock, WorldOK, ControlOK, Recovering
<1>4. file' \in [Level -> LevelFile \cup {Nothing}]
  BY <1>1, <1>2, <1>3, CreatedType DEF TypeOK
<1>5. TypeOK'
  BY <1>1, <1>2, <1>4 DEF TypeOK, Interruptible
<1>6. ControlOK'
  BY <1>1, <1>2 DEF ControlOK, Idle, Recovering, WritingLock, Changing, Saving
<1>7. LockOK' /\ RestoreOK' /\ SavingOK'
  BY <1>1, <1>3 DEF LockOK, RestoreOK, SavingOK
<1>8. SaveOK'
  BY <1>1, <1>2, <1>3 DEF SaveOK
<1>9. /\ \A l \in Level \ {here} : file'[l] = file[l]
      /\ file'[here] = Written(floor) /\ Written(floor) # Nothing
      /\ here \in Level
  BY <1>1, <1>2, <1>3, CreatedType, NothingIsNothing DEF TypeOK
<1>10. WorldOK'
  <2>1. World' = World
    BY <1>1, <1>3, <1>9 DEF World, ItemsIn, Written
  <2>2. \A l \in exists \ {here} : Usable(file[l], hackpid) => Usable(file'[l], hackpid)
    BY <1>1, <1>2, <1>9 DEF Usable, TypeOK
  <2>3. Usable(file'[here], hackpid)
    BY <1>1, <1>9 DEF Usable, Written
  <2> QED
    BY <1>1, <1>2, <1>3, <2>1, <2>2, <2>3 DEF WorldOK, WritingLock
<1>11. LastOK'
  <2>1. SaveImage' = SaveImage
    BY <1>1, SaveImageStays
  <2> QED
    BY <1>1, <1>2, <1>3, <2>1, LockImageIsNext DEF LastOK, Kept
<1> QED
  BY <1>5, <1>6, <1>7, <1>8, <1>10, <1>11 DEF GameOK

LEMMA AssignLevelKeeps == ASSUME GameOK, NEW new \in Level, AssignLevel(new) PROVE GameOK'
<1>1. /\ pc = "left" /\ pc' = "arrive" /\ here' = new
      /\ UNCHANGED <<back, hackpid, core, floor, carried, exists, chkpt, havestate,
                     worth, hup, todo, lock, file, save, last, saving, lost>>
  BY DEF AssignLevel, Step, runVars, diskVars, history
<1>2. TypeOK /\ ControlOK /\ SaveOK /\ WorldOK /\ LastOK
  BY DEF GameOK
<1>3. InGame /\ InGame' /\ ~Restoring' /\ ~core
  BY <1>1, <1>2 DEF InGame, Restoring, Changing, WritingLock, WorldOK
<1>4. TypeOK'
  BY <1>1, <1>2 DEF TypeOK, Interruptible
<1>5. ControlOK'
  BY <1>1, <1>2 DEF ControlOK, Idle, Recovering, WritingLock, Changing, Saving
<1>6. LockOK' /\ RestoreOK' /\ SavingOK'
  BY <1>1, <1>3 DEF LockOK, RestoreOK, SavingOK
<1>7. SaveOK'
  BY <1>1, <1>2, <1>3 DEF SaveOK
<1>8. WorldOK'
  <2>1. World'.carried = World.carried /\ World'.at = World.at
    BY <1>1, <1>3 DEF World, ItemsIn
  <2>2. Conserved(World) => Conserved(World')
    BY <2>1 DEF Conserved, HeldOn
  <2> QED
    BY <1>1, <1>2, <1>3, <2>2 DEF WorldOK, WritingLock
<1>9. LastOK'
  <2>1. LockImage' = LockImage /\ SaveImage' = SaveImage
    BY <1>1, LockImageStays, SaveImageStays
  <2> QED
    BY <1>1, <1>2, <1>3, <2>1 DEF LastOK, Kept
<1> QED
  BY <1>4, <1>5, <1>6, <1>7, <1>8, <1>9 DEF GameOK

LEMMA MakeLevelKeeps == ASSUME GameOK, MakeLevel PROVE GameOK'
<1>1. /\ pc = "arrive" /\ pc' = AfterArrival /\ here \notin exists
      /\ floor' = {i \in Item : MadeOn[i] = here} /\ core' = TRUE
      /\ UNCHANGED <<back, hackpid, here, carried, exists, chkpt, havestate,
                     worth, hup, todo, lock, file, save, last, saving, lost>>
  BY DEF MakeLevel, Step, runVars, diskVars, history
<1>2. TypeOK /\ ControlOK /\ SaveOK /\ WorldOK /\ LastOK
  BY DEF GameOK
<1>3. pc' = IF chkpt THEN "level" ELSE "state"
  BY <1>1 DEF AfterArrival
<1>4. back = "play"
  BY <1>1, <1>2 DEF ControlOK, WritingLock
<1>5. InGame /\ InGame' /\ ~Restoring' /\ ~core /\ hackpid # 0
  BY <1>1, <1>2, <1>3, <1>4
     DEF InGame, Restoring, Changing, WritingLock, WorldOK, ControlOK, Recovering
<1>6. TypeOK'
  BY <1>1, <1>2, <1>3 DEF TypeOK, Interruptible
<1>7. ControlOK'
  BY <1>1, <1>2, <1>3 DEF ControlOK, Idle, Recovering, WritingLock, Changing, Saving
<1>8. LockOK' /\ RestoreOK' /\ SavingOK'
  BY <1>1, <1>3, <1>5 DEF LockOK, RestoreOK, SavingOK
<1>9. SaveOK'
  BY <1>1, <1>2, <1>3, <1>5 DEF SaveOK
<1>10. WorldOK'
  <2>1. /\ World.carried = carried /\ World'.carried = carried
        /\ World.at[here] = Nothing /\ World'.at[here] = floor'
        /\ \A l \in Level \ {here} : World'.at[l] = World.at[l]
    BY <1>1, <1>2, <1>5 DEF World, ItemsIn, TypeOK
  <2>2. here \in Level /\ floor' # Nothing
    BY <1>1, <1>2, NothingIsNothing DEF TypeOK
  <2>3. Conserved(World) => Conserved(World')
    BY <1>1, <2>1, <2>2, ItemAssumption DEF Conserved, HeldOn
  <2> QED
    BY <1>1, <1>2, <1>3, <1>5, <2>3 DEF WorldOK, WritingLock
<1>11. LastOK'
  <2>1. LockImage' = LockImage /\ SaveImage' = SaveImage
    BY <1>1, LockImageStays, SaveImageStays
  <2> QED
    BY <1>1, <1>2, <1>3, <1>5, <2>1 DEF LastOK, Kept
<1> QED
  BY <1>6, <1>7, <1>8, <1>9, <1>10, <1>11 DEF GameOK

LEMMA GetLevelKeeps == ASSUME GameOK, GetLevel PROVE GameOK'
<1>1. /\ pc = "arrive" /\ pc' = AfterArrival /\ here \in exists
      /\ Kind(here) = "good" /\ floor' = file[here].items /\ core' = TRUE
      /\ UNCHANGED <<back, hackpid, here, carried, exists, chkpt, havestate,
                     worth, hup, todo, lock, file, save, last, saving, lost>>
  BY DEF GetLevel, Step, runVars, diskVars, history
<1>2. TypeOK /\ ControlOK /\ SaveOK /\ WorldOK /\ LastOK
  BY DEF GameOK
<1>3. pc' = IF chkpt THEN "level" ELSE "state"
  BY <1>1 DEF AfterArrival
<1>4. back = "play"
  BY <1>1, <1>2 DEF ControlOK, WritingLock
<1>5. InGame /\ InGame' /\ ~Restoring' /\ ~core /\ hackpid # 0
  BY <1>1, <1>2, <1>3, <1>4
     DEF InGame, Restoring, Changing, WritingLock, WorldOK, ControlOK, Recovering
<1>6. file[here] # Nothing /\ file[here] \in LevelFile
  BY <1>1, <1>2, KindIs DEF TypeOK, Usable
<1>7. TypeOK'
  BY <1>1, <1>2, <1>3, <1>6 DEF TypeOK, Interruptible, LevelFile
<1>8. ControlOK'
  BY <1>1, <1>2, <1>3 DEF ControlOK, Idle, Recovering, WritingLock, Changing, Saving
<1>9. LockOK' /\ RestoreOK' /\ SavingOK'
  BY <1>1, <1>3, <1>5 DEF LockOK, RestoreOK, SavingOK
<1>10. SaveOK'
  BY <1>1, <1>2, <1>3, <1>5 DEF SaveOK
<1>11. WorldOK'
  <2>1. World' = World
    BY <1>1, <1>5, <1>6 DEF World, ItemsIn
  <2> QED
    BY <1>1, <1>2, <1>3, <1>5, <2>1 DEF WorldOK, WritingLock
<1>12. LastOK'
  <2>1. LockImage' = LockImage /\ SaveImage' = SaveImage
    BY <1>1, LockImageStays, SaveImageStays
  <2> QED
    BY <1>1, <1>2, <1>3, <1>5, <2>1 DEF LastOK, Kept
<1> QED
  BY <1>7, <1>8, <1>9, <1>10, <1>11, <1>12 DEF GameOK

(* Nothing but the control changes, and the level files will be removed.   *)
LEMMA ClearKeeps ==
  ASSUME GameOK, pc' = "clear", pc # "shell", pc \notin Recovering,
         hup' \in {hup, pc, "refused"}, hup' \in Interruptible \cup {"no", "refused"},
         save' \in {save, Nothing},
         UNCHANGED <<back, hackpid, here, core, floor, carried, exists, chkpt,
                     havestate, worth, todo, lock, file, last, saving, lost>>
  PROVE  GameOK'
<1>1. TypeOK /\ ControlOK /\ SaveOK /\ LastOK
  BY DEF GameOK
<1>2. ~InGame' /\ ~Restoring'
  BY DEF InGame, Restoring, Changing, WritingLock
<1>3. TypeOK'
  BY <1>1 DEF TypeOK, Interruptible
<1>4. ControlOK'
  BY <1>1 DEF ControlOK, Idle, Recovering, WritingLock, Changing, Saving
<1>5. LockOK' /\ WorldOK' /\ RestoreOK' /\ SavingOK'
  BY <1>2 DEF LockOK, WorldOK, RestoreOK, SavingOK
<1>6. SaveOK'
  BY <1>1, <1>2 DEF SaveOK
<1>7. LastOK'
  <2>1. LockImage' = LockImage
    BY LockImageStays
  <2>2. (save' = save /\ SaveImage' = SaveImage) \/ SaveImage' = Nothing
    BY SaveImageStays DEF SaveImage
  <2> QED
    BY <1>1, <1>2, <2>1, <2>2 DEF LastOK, Kept
<1> QED
  BY <1>3, <1>4, <1>5, <1>6, <1>7 DEF GameOK

LEMMA TrickedKeeps == ASSUME GameOK, Tricked PROVE GameOK'
BY ClearKeeps DEF Tricked, Step, coreVars, runVars, diskVars, history, Recovering,
                  GameOK, TypeOK

LEMMA SaveLevelGoneKeeps == ASSUME GameOK, SaveLevelGone PROVE GameOK'
BY ClearKeeps DEF SaveLevelGone, Step, coreVars, runVars, history, Recovering,
                  GameOK, TypeOK

LEMMA SaveLevelTrickedKeeps == ASSUME GameOK, SaveLevelTricked PROVE GameOK'
BY ClearKeeps DEF SaveLevelTricked, Step, coreVars, runVars, diskVars, history,
                  Recovering, GameOK, TypeOK

(* The level that was attained goes into its file, and then the state.     *)
LEMMA RewriteHereKeeps == ASSUME GameOK, RewriteHere PROVE GameOK'
<1>1. /\ pc = "level" /\ pc' = "write"
      /\ file' = [file EXCEPT ![here] = Created] /\ exists' = exists \cup {here}
      /\ UNCHANGED <<back, hackpid, here, core, floor, carried, chkpt, havestate,
                     worth, hup, todo, lock, save, last, saving, lost>>
  BY DEF RewriteHere, Step, runVars, history
<1>2. TypeOK /\ ControlOK /\ SaveOK /\ WorldOK /\ LastOK
  BY DEF GameOK
<1>3. InGame /\ InGame' /\ ~Restoring' /\ core /\ hackpid # 0
  BY <1>1, <1>2
     DEF InGame, Restoring, Changing, WritingLock, WorldOK, ControlOK, Recovering
<1>4. file' \in [Level -> LevelFile \cup {Nothing}]
  BY <1>1, <1>2, <1>3, CreatedType DEF TypeOK
<1>5. TypeOK'
  BY <1>1, <1>2, <1>4 DEF TypeOK, Interruptible
<1>6. ControlOK'
  BY <1>1, <1>2 DEF ControlOK, Idle, Recovering, WritingLock, Changing, Saving
<1>7. LockOK' /\ RestoreOK' /\ SavingOK'
  BY <1>1, <1>3 DEF LockOK, RestoreOK, SavingOK
<1>8. SaveOK'
  BY <1>1, <1>2, <1>3 DEF SaveOK
<1>9. \A l \in Level \ {here} : file'[l] = file[l]
  BY <1>1, <1>2 DEF TypeOK
<1>10. WorldOK'
  <2>1. World' = World
    BY <1>1, <1>3, <1>9 DEF World, ItemsIn
  <2> QED
    BY <1>1, <1>2, <1>3, <1>9, <2>1 DEF WorldOK, WritingLock, TypeOK
<1>11. LastOK'
  <2>1. SaveImage' = SaveImage
    BY <1>1, SaveImageStays
  <2> QED
    BY <1>1, <1>2, <1>3, <2>1, LockImageIsNext DEF LastOK, Kept
<1> QED
  BY <1>5, <1>6, <1>7, <1>8, <1>10, <1>11 DEF GameOK

LEMMA SaveHereKeeps == ASSUME GameOK, SaveHere PROVE GameOK'
<1>1. /\ pc = "write" /\ pc' = "state"
      /\ file' = [file EXCEPT ![here] = Written(floor)]
      /\ UNCHANGED <<back, hackpid, here, core, floor, carried, exists, chkpt,
                     havestate, worth, hup, todo, lock, save, last, saving, lost>>
  BY DEF SaveHere, Step, coreVars, runVars, history
<1>2. TypeOK /\ ControlOK /\ SaveOK /\ WorldOK /\ LastOK
  BY DEF GameOK
<1>3. back = "play"
  BY <1>1, <1>2 DEF ControlOK, WritingLock
<1>4. InGame /\ InGame' /\ ~Restoring' /\ core /\ here \in exists /\ hackpid # 0
  BY <1>1, <1>2, <1>3
     DEF InGame, Restoring, Changing, WritingLock, WorldOK, ControlOK, Recovering
<1>5. file' \in [Level -> LevelFile \cup {Nothing}]
  BY <1>1, <1>2, <1>4, CreatedType DEF TypeOK
<1>6. TypeOK'
  BY <1>1, <1>2, <1>5 DEF TypeOK, Interruptible
<1>7. ControlOK'
  BY <1>1, <1>2 DEF ControlOK, Idle, Recovering, WritingLock, Changing, Saving
<1>8. LockOK' /\ RestoreOK' /\ SavingOK'
  BY <1>1, <1>4 DEF LockOK, RestoreOK, SavingOK
<1>9. SaveOK'
  BY <1>1, <1>2, <1>4 DEF SaveOK
<1>10. /\ \A l \in Level \ {here} : file'[l] = file[l]
       /\ file'[here] = Written(floor)
  BY <1>1, <1>2 DEF TypeOK
<1>11. WorldOK'
  <2>1. World' = World
    BY <1>1, <1>4, <1>10 DEF World, ItemsIn
  <2> QED
    BY <1>1, <1>2, <1>4, <1>10, <2>1 DEF WorldOK, WritingLock, TypeOK, Written
<1>12. LastOK'
  <2>1. SaveImage' = SaveImage
    BY <1>1, SaveImageStays
  <2> QED
    BY <1>1, <1>2, <1>4, <2>1, LockImageIsNext DEF LastOK, Kept
<1> QED
  BY <1>6, <1>7, <1>8, <1>9, <1>11, <1>12 DEF GameOK

(* Level 0 is written. *)
LEMMA CreateLockKeeps == ASSUME GameOK, CreateLock PROVE GameOK'
<1>1. /\ pc = "state" /\ pc' = "pid"
      /\ lock' = [PidOnly(hackpid) EXCEPT !.stage = "empty"]
      /\ UNCHANGED <<back, hackpid, here, core, floor, carried, exists, chkpt,
                     havestate, worth, hup, todo, file, save, last, saving, lost>>
  BY DEF CreateLock, Step, coreVars, runVars, history
<1>2. TypeOK /\ ControlOK /\ LockOK /\ SaveOK /\ WorldOK /\ RestoreOK /\ LastOK
  BY DEF GameOK
<1>3. /\ InGame <=> back = "play"
      /\ Restoring <=> back = "restCreate"
      /\ InGame' <=> back = "play"
      /\ Restoring' <=> back = "restCreate"
      /\ hackpid # 0
  BY <1>1, <1>2 DEF InGame, Restoring, Changing, WritingLock, ControlOK, Recovering, TypeOK
<1>4. lock' \in LockFile /\ lock'.stage = "empty" /\ lock'.pid = hackpid
  <2>1. PidOnly(hackpid) \in LockFile /\ State0 \in State
    BY <1>2, <1>3, CreatedType
  <2> QED
    BY <1>1, <1>2, <1>3, <2>1 DEF PidOnly, LockFile, Stage
<1>5. TypeOK'
  BY <1>1, <1>2, <1>4 DEF TypeOK, Interruptible
<1>6. ControlOK'
  BY <1>1, <1>2 DEF ControlOK, Idle, Recovering, WritingLock, Changing, Saving
<1>7. LockOK'
  BY <1>1, <1>2 DEF LockOK
<1>8. SaveOK'
  BY <1>1, <1>2, <1>3 DEF SaveOK
<1>9. WorldOK'
  BY <1>1, <1>2, <1>3, WorldStays DEF WorldOK, WritingLock, Written
<1>10. SaveImage' = SaveImage /\ LockImage' = Nothing
  BY <1>1, <1>4, SaveImageStays DEF LockImage
<1>11. RestoreOK'
  BY <1>1, <1>2, <1>3, <1>10 DEF RestoreOK, WritingLock, Kept, Written
<1>12. SavingOK'
  BY <1>1 DEF SavingOK
<1>13. LastOK'
  BY <1>1, <1>2, <1>3, <1>4, <1>10, NothingIsNothing DEF LastOK, Kept
<1> QED
  BY <1>5, <1>6, <1>7, <1>8, <1>9, <1>11, <1>12, <1>13 DEF GameOK

LEMMA WritePidKeeps == ASSUME GameOK, WritePid PROVE GameOK'
<1>1. /\ pc = "pid" /\ chkpt /\ pc' = "header" /\ lock' = PidOnly(hackpid)
      /\ UNCHANGED <<back, hackpid, here, core, floor, carried, exists, chkpt,
                     havestate, worth, hup, todo, file, save, last, saving, lost>>
  BY DEF WritePid, Step, coreVars, runVars, history
<1>2. TypeOK /\ ControlOK /\ LockOK /\ SaveOK /\ WorldOK /\ RestoreOK /\ LastOK
  BY DEF GameOK
<1>3. /\ InGame <=> back = "play"
      /\ Restoring <=> back = "restCreate"
      /\ InGame' <=> back = "play"
      /\ Restoring' <=> back = "restCreate"
      /\ hackpid # 0
  BY <1>1, <1>2 DEF InGame, Restoring, Changing, WritingLock, ControlOK, Recovering, TypeOK
<1>4. lock' \in LockFile /\ lock'.stage = "pid" /\ lock'.pid = hackpid
  <2>1. PidOnly(hackpid) \in LockFile /\ State0 \in State
    BY <1>2, <1>3, CreatedType
  <2> QED
    BY <1>1, <1>2, <1>3, <2>1 DEF PidOnly, LockFile, Stage
<1>5. TypeOK'
  BY <1>1, <1>2, <1>4 DEF TypeOK, Interruptible
<1>6. ControlOK'
  BY <1>1, <1>2 DEF ControlOK, Idle, Recovering, WritingLock, Changing, Saving
<1>7. LockOK'
  BY <1>1, <1>2 DEF LockOK
<1>8. SaveOK'
  BY <1>1, <1>2, <1>3 DEF SaveOK
<1>9. WorldOK'
  BY <1>1, <1>2, <1>3, WorldStays DEF WorldOK, WritingLock, Written
<1>10. SaveImage' = SaveImage /\ LockImage' = Nothing
  BY <1>1, <1>4, SaveImageStays DEF LockImage
<1>11. RestoreOK'
  BY <1>1, <1>2, <1>3, <1>10 DEF RestoreOK, WritingLock, Kept, Written
<1>12. SavingOK'
  BY <1>1 DEF SavingOK
<1>13. LastOK'
  BY <1>1, <1>2, <1>3, <1>4, <1>10, NothingIsNothing DEF LastOK, Kept
<1> QED
  BY <1>5, <1>6, <1>7, <1>8, <1>9, <1>11, <1>12, <1>13 DEF GameOK

LEMMA WriteHeaderKeeps == ASSUME GameOK, WriteHeader PROVE GameOK'
<1>1. /\ pc = "header" /\ pc' = "content"
      /\ lock' = [stage |-> "header", pid |-> hackpid, state |-> State0]
      /\ UNCHANGED <<back, hackpid, here, core, floor, carried, exists, chkpt,
                     havestate, worth, hup, todo, file, save, last, saving, lost>>
  BY DEF WriteHeader, Step, coreVars, runVars, history
<1>2. TypeOK /\ ControlOK /\ LockOK /\ SaveOK /\ WorldOK /\ RestoreOK /\ LastOK
  BY DEF GameOK
<1>3. /\ InGame <=> back = "play"
      /\ Restoring <=> back = "restCreate"
      /\ InGame' <=> back = "play"
      /\ Restoring' <=> back = "restCreate"
      /\ hackpid # 0
  BY <1>1, <1>2 DEF InGame, Restoring, Changing, WritingLock, ControlOK, Recovering, TypeOK
<1>4. lock' \in LockFile /\ lock'.stage = "header" /\ lock'.pid = hackpid
  <2>1. PidOnly(hackpid) \in LockFile /\ State0 \in State
    BY <1>2, <1>3, CreatedType
  <2> QED
    BY <1>1, <1>2, <1>3, <2>1 DEF PidOnly, LockFile, Stage
<1>5. TypeOK'
  BY <1>1, <1>2, <1>4 DEF TypeOK, Interruptible
<1>6. ControlOK'
  BY <1>1, <1>2 DEF ControlOK, Idle, Recovering, WritingLock, Changing, Saving
<1>7. LockOK'
  BY <1>1, <1>2 DEF LockOK, State0
<1>8. SaveOK'
  BY <1>1, <1>2, <1>3 DEF SaveOK
<1>9. WorldOK'
  BY <1>1, <1>2, <1>3, WorldStays DEF WorldOK, WritingLock, Written
<1>10. SaveImage' = SaveImage /\ LockImage' = Nothing
  BY <1>1, <1>4, SaveImageStays DEF LockImage
<1>11. RestoreOK'
  BY <1>1, <1>2, <1>3, <1>10 DEF RestoreOK, WritingLock, Kept, Written
<1>12. SavingOK'
  BY <1>1 DEF SavingOK
<1>13. LastOK'
  BY <1>1, <1>2, <1>3, <1>4, <1>10, NothingIsNothing DEF LastOK, Kept
<1> QED
  BY <1>5, <1>6, <1>7, <1>8, <1>9, <1>11, <1>12, <1>13 DEF GameOK

LEMMA LeaveLockKeeps == ASSUME GameOK, LeaveLock PROVE GameOK'
<1>1. /\ pc = "state" /\ ~chkpt /\ ~havestate
      /\ pc' = IF back = "play" /\ ~worth THEN "begin" ELSE back
      /\ UNCHANGED <<back, hackpid, here, core, floor, carried, exists, chkpt,
                     havestate, worth, hup, todo, lock, file, save, last, saving, lost>>
  BY DEF LeaveLock, AfterState, coreVars, runVars, diskVars, history
<1>2. TypeOK /\ ControlOK /\ SaveOK /\ WorldOK /\ RestoreOK /\ LastOK
  BY DEF GameOK
<1>3. /\ back \in {"play", "restCreate"}
      /\ InGame <=> back = "play"
      /\ Restoring <=> back = "restCreate"
      /\ InGame' <=> back = "play"
      /\ Restoring' <=> back = "restCreate"
      /\ hackpid # 0
  BY <1>1, <1>2 DEF InGame, Restoring, Changing, WritingLock, ControlOK, Recovering, TypeOK
<1>4. TypeOK'
  BY <1>1, <1>2, <1>3 DEF TypeOK, Interruptible
<1>5. ControlOK'
  BY <1>1, <1>2, <1>3 DEF ControlOK, Idle, Recovering, WritingLock, Changing, Saving
<1>6. LockOK' /\ SavingOK'
  BY <1>1, <1>3 DEF LockOK, SavingOK
<1>7. SaveOK'
  BY <1>1, <1>2, <1>3 DEF SaveOK
<1>8. WorldOK'
  BY <1>1, <1>2, <1>3, WorldStays DEF WorldOK, WritingLock
<1>9. SaveImage' = SaveImage /\ LockImage' = LockImage
  BY <1>1, SaveImageStays, LockImageStays
<1>10. RestoreOK'
  BY <1>1, <1>2, <1>3, <1>9 DEF RestoreOK, WritingLock, Kept, Written
<1>11. LastOK'
  BY <1>1, <1>2, <1>3, <1>9 DEF LastOK, Kept
<1> QED
  BY <1>4, <1>5, <1>6, <1>7, <1>8, <1>10, <1>11 DEF GameOK

LEMMA WritePidOnlyKeeps == ASSUME GameOK, WritePidOnly PROVE GameOK'
<1>1. /\ pc = "pid" /\ ~chkpt /\ havestate' = FALSE
      /\ pc' = IF back = "play" /\ ~worth THEN "begin" ELSE back
      /\ lock' = PidOnly(hackpid)
      /\ last' = IF back = "play" THEN Nothing ELSE last
      /\ UNCHANGED <<back, hackpid, here, core, floor, carried, exists, chkpt,
                     worth, hup, todo, file, save, saving, lost>>
  BY DEF WritePidOnly, AfterState, coreVars
<1>2. TypeOK /\ ControlOK /\ SaveOK /\ WorldOK /\ RestoreOK /\ LastOK
  BY DEF GameOK
<1>3. /\ back \in {"play", "restCreate"}
      /\ InGame <=> back = "play"
      /\ Restoring <=> back = "restCreate"
      /\ InGame' <=> back = "play"
      /\ Restoring' <=> back = "restCreate"
      /\ hackpid # 0
  BY <1>1, <1>2 DEF InGame, Restoring, Changing, WritingLock, ControlOK, Recovering, TypeOK
<1>4. lock' \in LockFile /\ lock'.stage = "pid"
  BY <1>1, <1>2, <1>3, CreatedType DEF PidOnly
<1>5. TypeOK'
  BY <1>1, <1>2, <1>3, <1>4 DEF TypeOK, Interruptible
<1>6. ControlOK'
  BY <1>1, <1>2, <1>3 DEF ControlOK, Idle, Recovering, WritingLock, Changing, Saving
<1>7. LockOK' /\ SavingOK'
  BY <1>1, <1>3 DEF LockOK, SavingOK
<1>8. SaveOK'
  BY <1>1, <1>2, <1>3 DEF SaveOK
<1>9. WorldOK'
  BY <1>1, <1>2, <1>3, WorldStays DEF WorldOK, WritingLock
<1>10. SaveImage' = SaveImage /\ LockImage' = Nothing
  BY <1>1, <1>4, SaveImageStays DEF LockImage
<1>11. Kept' => Kept /\ back = "restCreate" /\ last' = last
  BY <1>1, <1>3 DEF Kept
<1>12. RestoreOK'
  BY <1>1, <1>2, <1>3, <1>10, <1>11 DEF RestoreOK, WritingLock, Written
<1>13. LastOK'
  BY <1>1, <1>2, <1>3, <1>4, <1>10, <1>11 DEF LastOK, Kept
<1> QED
  BY <1>5, <1>6, <1>7, <1>8, <1>9, <1>12, <1>13 DEF GameOK

(* A level that the game has is in its file or in core. *)
LEMMA WorldDomain ==
  \A l \in Level : World.at[l] # Nothing => l \in exists \cup {here}
BY DEF World

LEMMA WriteStateKeeps == ASSUME GameOK, WriteState PROVE GameOK'
<1>1. /\ pc = "content" /\ havestate' = TRUE
      /\ pc' = IF back = "play" /\ ~worth THEN "begin" ELSE back
      /\ lock' = [lock EXCEPT !.stage = "whole"]
      /\ last' = IF back = "play" THEN World ELSE last
      /\ UNCHANGED <<back, hackpid, here, core, floor, carried, exists, chkpt,
                     worth, hup, todo, file, save, saving, lost>>
  BY DEF WriteState, AfterState, coreVars
<1>2. TypeOK /\ ControlOK /\ LockOK /\ SaveOK /\ WorldOK /\ RestoreOK /\ LastOK
  BY DEF GameOK
<1>3. /\ back \in {"play", "restCreate"}
      /\ InGame <=> back = "play"
      /\ Restoring <=> back = "restCreate"
      /\ InGame' <=> back = "play"
      /\ Restoring' <=> back = "restCreate"
      /\ hackpid # 0 /\ chkpt
  BY <1>1, <1>2 DEF InGame, Restoring, Changing, WritingLock, ControlOK, Recovering, TypeOK
<1>4. lock' = [stage |-> "whole", pid |-> hackpid, state |-> State0] /\ lock' \in LockFile
  <2>1. State0 \in State /\ hackpid \in 1..MaxRuns
    BY <1>2, <1>3, CreatedType, BoundAssumption DEF TypeOK
  <2>2. lock = [stage |-> "header", pid |-> hackpid, state |-> State0]
    BY <1>1, <1>2 DEF LockOK
  <2> QED
    BY <1>1, <2>1, <2>2 DEF LockFile, Stage
<1>5. /\ lock' # Nothing /\ lock'.stage = "whole" /\ lock'.state = State0
      /\ State0.here = here /\ State0.carried = carried /\ State0.exists = exists
  BY <1>4, NothingIsNothing DEF State0
<1>6. World \in Game /\ World' = World
  BY <1>1, <1>2, WorldType, WorldStays
<1>7. TypeOK'
  BY <1>1, <1>2, <1>3, <1>4, <1>6 DEF TypeOK, Interruptible
<1>8. ControlOK'
  BY <1>1, <1>2, <1>3 DEF ControlOK, Idle, Recovering, WritingLock, Changing, Saving
<1>9. LockOK' /\ SavingOK'
  BY <1>1, <1>3 DEF LockOK, SavingOK
<1>10. SaveOK'
  BY <1>1, <1>2, <1>3 DEF SaveOK
<1>11. WorldOK'
  BY <1>1, <1>2, <1>3, <1>6 DEF WorldOK, WritingLock
<1>12. SaveImage' = SaveImage
  BY <1>1, SaveImageStays
<1>13. RestoreOK'
  BY <1>1, <1>2, <1>3, <1>5, <1>12 DEF RestoreOK, WritingLock, Kept, Written
<1>14. ASSUME back = "play" PROVE LastOK'
  <2>1. /\ last' = World /\ InGame /\ ~Restoring' /\ pc' \in {"begin", "play"}
        /\ worth' \/ pc' = "begin"
    BY <1>1, <1>3, <1>14
  <2>2. /\ ~lost => Conserved(World) /\ \A l \in exists \ {here} : Usable(file[l], hackpid)
        /\ core /\ here \in exists /\ file[here] = Written(floor)
    BY <1>1, <1>2, <1>3, <2>1 DEF WorldOK, WritingLock
  <2>3. Known(World, State0)
    BY <1>5, WorldDomain DEF Known
  <2>4. ~lost /\ ~Leftover' => LockImage' = World
    <3>1. SUFFICES ASSUME ~lost, ~Leftover' PROVE LockImage' = World
      OBVIOUS
    <3>2. \A l \in Level \ exists : file[l] = Nothing
      BY <1>1, <2>1, <3>1 DEF Leftover
    <3>3. \A l \in exists : file[l] # Nothing /\ file[l].whole
      BY <2>2, <3>1, <1>2, <1>3, CreatedType, NothingIsNothing DEF Usable, Written, TypeOK
    <3>4. \A l \in Level : (Kind(l) # "broken")'
      BY <1>1, <3>2, <3>3, KindIsNext
    <3>5. exists \cup {here} \subseteq exists
      BY <2>2
    <3>6. LockImage' = [here |-> here, carried |-> carried,
                        at |-> [l \in Level |-> ItemsIn(l)']]
      BY <1>1, <1>5, <3>3, <3>4, <3>5 DEF LockImage
    <3>7. \A l \in Level : ItemsIn(l)' = IF l = here /\ core THEN floor
                       ELSE IF l \in exists THEN ItemsIn(l) ELSE Nothing
      BY <1>1, <2>2, <3>2, <1>2, <1>3, CreatedType, NothingIsNothing DEF ItemsIn, Written, TypeOK
    <3> QED
      BY <3>6, <3>7 DEF World
  <2>5. save' = Nothing \/ ~save'.readable
    BY <1>1, <1>2, <2>1 DEF SaveOK
  <2>6. SaveImage' = World => ~save'.readable
    BY <2>5, <1>6, SaveImageWhole, NothingIsNothing
  <2> QED
    BY <1>1, <1>3, <1>5, <2>1, <2>2, <2>3, <2>4, <2>6 DEF LastOK, Kept
<1>15. ASSUME back = "restCreate" PROVE LastOK'
  <2>1. last' = last /\ Restoring /\ pc' = "restCreate" /\ ~InGame'
    BY <1>1, <1>3, <1>15
  <2>2. Kept => Known(last, save.state) /\ exists = save.state.exists /\ here = save.state.here
    BY <1>1, <1>2, <2>1 DEF RestoreOK, WritingLock, SaveOK
  <2>3. Kept => Known(last, State0)
    BY <2>2, <1>5 DEF Known
  <2> QED
    BY <1>1, <1>2, <1>5, <1>12, <2>1, <2>3 DEF LastOK, Kept
<1> QED
  BY <1>3, <1>7, <1>8, <1>9, <1>10, <1>11, <1>13, <1>14, <1>15 DEF GameOK

(* Useful data now exists. *)
LEMMA UsefulDataKeeps == ASSUME GameOK, UsefulData PROVE GameOK'
<1>1. /\ pc = "begin" /\ pc' = "play" /\ worth' = TRUE
      /\ UNCHANGED <<back, hackpid, here, core, floor, carried, exists, chkpt,
                     havestate, hup, todo, lock, file, save, last, saving, lost>>
  BY DEF UsefulData, Step, coreVars, diskVars, history
<1>2. TypeOK /\ ControlOK /\ SaveOK /\ WorldOK /\ LastOK
  BY DEF GameOK
<1>3. InGame /\ InGame' /\ ~Restoring'
  BY <1>1 DEF InGame, Restoring, Changing, WritingLock
<1>4. TypeOK'
  BY <1>1, <1>2 DEF TypeOK, Interruptible
<1>5. ControlOK'
  BY <1>1, <1>2 DEF ControlOK, Idle, Recovering, WritingLock, Changing, Saving
<1>6. LockOK' /\ RestoreOK' /\ SavingOK'
  BY <1>1, <1>3 DEF LockOK, RestoreOK, SavingOK
<1>7. SaveOK'
  BY <1>1, <1>2, <1>3 DEF SaveOK
<1>8. WorldOK'
  BY <1>1, <1>2, <1>3, WorldStays DEF WorldOK, WritingLock
<1>9. LastOK'
  <2>1. LockImage' = LockImage /\ SaveImage' = SaveImage /\ (Torn' <=> Torn)
    BY <1>1, LockImageStays, SaveImageStays DEF Torn, Midway
  <2>2. Leftover' <=> Leftover
    BY <1>1 DEF Leftover
  <2> QED
    BY <1>1, <1>2, <1>3, <2>1, <2>2 DEF LastOK, Kept
<1> QED
  BY <1>4, <1>5, <1>6, <1>7, <1>8, <1>9 DEF GameOK

(* The game is saved. *)
LEMMA dosaveKeeps == ASSUME GameOK, dosave PROVE GameOK'
<1>1. /\ pc = "play" /\ pc' = "save"
      /\ UNCHANGED <<back, hackpid, here, core, floor, carried, exists, chkpt,
                     havestate, worth, hup, todo, lock, file, save, last, saving, lost>>
  BY DEF dosave, Step, coreVars, runVars, diskVars, history
<1>2. TypeOK /\ ControlOK /\ SaveOK /\ WorldOK /\ LastOK
  BY DEF GameOK
<1>3. InGame /\ ~InGame' /\ ~Restoring' /\ core
  BY <1>1, <1>2 DEF InGame, Restoring, Changing, WritingLock, WorldOK
<1>4. TypeOK'
  BY <1>1, <1>2 DEF TypeOK, Interruptible
<1>5. ControlOK'
  BY <1>1, <1>2 DEF ControlOK, Idle, Recovering, WritingLock, Changing, Saving
<1>6. LockOK' /\ RestoreOK' /\ SavingOK'
  BY <1>1, <1>3 DEF LockOK, RestoreOK, SavingOK
<1>7. SaveOK'
  BY <1>1, <1>2, <1>3 DEF SaveOK
<1>8. WorldOK'
  BY <1>1, <1>2, <1>3, WorldStays DEF WorldOK, WritingLock
<1>9. LastOK'
  <2>1. LockImage' = LockImage /\ SaveImage' = SaveImage
    BY <1>1, LockImageStays, SaveImageStays
  <2> QED
    BY <1>1, <1>2, <1>3, <2>1, TornStays DEF LastOK, Kept, Leftover
<1> QED
  BY <1>4, <1>5, <1>6, <1>7, <1>8, <1>9 DEF GameOK

LEMMA hangupKeeps == ASSUME GameOK, hangup PROVE GameOK'
<1>1. /\ pc \in Interruptible /\ hup' = pc
      /\ pc' = IF worth THEN "save" ELSE "clear"
      /\ UNCHANGED <<back, hackpid, here, core, floor, carried, exists, chkpt,
                     havestate, worth, todo, lock, file, save, last, saving, lost>>
  BY DEF hangup, coreVars, diskVars, history
<1>2. TypeOK /\ ControlOK /\ SaveOK /\ WorldOK /\ LastOK
  BY DEF GameOK
<1>3. ASSUME ~worth PROVE GameOK'
  BY <1>1, <1>3, ClearKeeps DEF Interruptible, Recovering
<1>4. ASSUME worth PROVE GameOK'
  <2>1. pc' = "save" /\ back = "play" /\ InGame /\ ~InGame' /\ ~Restoring'
    BY <1>1, <1>2, <1>4
       DEF ControlOK, Idle, Blank, Interruptible, InGame, Restoring, Changing, WritingLock
  <2>2. TypeOK'
    BY <1>1, <1>2, <2>1 DEF TypeOK, Interruptible
  <2>3. ControlOK'
    BY <1>1, <1>2, <2>1 DEF ControlOK, Idle, Recovering, WritingLock, Changing, Saving,
                            Interruptible
  <2>4. LockOK' /\ RestoreOK' /\ SavingOK'
    BY <2>1 DEF LockOK, RestoreOK, SavingOK
  <2>5. SaveOK'
    BY <1>1, <1>2, <2>1 DEF SaveOK
  <2>6. WorldOK'
    BY <1>1, <1>2, <2>1, WorldStays DEF WorldOK, WritingLock, LevelFreed
  <2>7. LastOK'
    <3>1. LockImage' = LockImage /\ SaveImage' = SaveImage
      BY <1>1, LockImageStays, SaveImageStays
    <3>2. ~Torn' => pc \in {"begin", "play"}
      BY <1>1, <2>1 DEF Torn, Midway, InGame, Changing, WritingLock
    <3>3. (Leftover' <=> Leftover) /\ ~Torn
      BY <1>1, <1>2, <1>4 DEF Leftover, Torn, Midway, ControlOK, Interruptible, Saving
    <3> QED
      BY <1>1, <1>2, <2>1, <3>1, <3>2, <3>3 DEF LastOK, Kept
  <2> QED
    BY <2>2, <2>3, <2>4, <2>5, <2>6, <2>7 DEF GameOK
<1> QED
  BY <1>2, <1>3, <1>4 DEF TypeOK

LEMMA SaveRefusedKeeps == ASSUME GameOK, SaveRefused PROVE GameOK'
<1>1. /\ pc = "save" /\ save' = Nothing
      /\ \/ hup = "no" /\ pc' = "play" /\ hup' = hup
         \/ hup # "no" /\ pc' = "clear" /\ hup' = "refused"
      /\ UNCHANGED <<back, hackpid, here, core, floor, carried, exists, chkpt,
                     havestate, worth, todo, lock, file, last, saving, lost>>
  BY DEF SaveRefused, coreVars, history
<1>2. TypeOK /\ ControlOK /\ SaveOK /\ WorldOK /\ LastOK
  BY DEF GameOK
<1>3. ASSUME hup # "no" PROVE GameOK'
  BY <1>1, <1>3, ClearKeeps DEF Recovering
<1>4. ASSUME hup = "no" PROVE GameOK'
  <2>1. pc' = "play" /\ InGame' /\ ~Restoring' /\ core /\ ~Torn
    BY <1>1, <1>2, <1>4
       DEF InGame, Restoring, Changing, WritingLock, WorldOK, LevelFreed, Torn, Midway
  <2>2. TypeOK'
    BY <1>1, <1>2, <2>1 DEF TypeOK, Interruptible
  <2>3. ControlOK'
    BY <1>1, <1>2, <1>4, <2>1 DEF ControlOK, Idle, Recovering, WritingLock, Changing, Saving
  <2>4. LockOK' /\ RestoreOK' /\ SavingOK'
    BY <2>1 DEF LockOK, RestoreOK, SavingOK
  <2>5. SaveOK'
    BY <1>1, <1>2, <2>1 DEF SaveOK
  <2>6. WorldOK'
    BY <1>1, <1>2, <1>4, <2>1, WorldStays DEF WorldOK, WritingLock
  <2>7. LastOK'
    <3>1. LockImage' = LockImage /\ SaveImage' = Nothing
      BY <1>1, LockImageStays DEF SaveImage
    <3> QED
      BY <1>1, <1>2, <1>4, <2>1, <3>1 DEF LastOK, Kept, Leftover
  <2> QED
    BY <2>2, <2>3, <2>4, <2>5, <2>6, <2>7 DEF GameOK
<1> QED
  BY <1>2, <1>3, <1>4 DEF TypeOK

LEMMA SaveCreateKeeps == ASSUME GameOK, SaveCreate PROVE GameOK'
<1>1. /\ pc = "save" /\ pc' = "saveCurrent" /\ save' = EmptySave
      /\ UNCHANGED <<back, hackpid, here, core, floor, carried, exists, chkpt,
                     havestate, worth, hup, todo, lock, file, last, saving, lost>>
  BY DEF SaveCreate, Step, coreVars, runVars, history
<1>2. TypeOK /\ ControlOK /\ SaveOK /\ WorldOK /\ LastOK
  BY DEF GameOK
<1>3. ~InGame' /\ ~Restoring'
  BY <1>1 DEF InGame, Restoring, Changing, WritingLock
<1>4. TypeOK'
  BY <1>1, <1>2, EmptySaveType DEF TypeOK, Interruptible
<1>5. ControlOK'
  BY <1>1, <1>2 DEF ControlOK, Idle, Recovering, WritingLock, Changing, Saving
<1>6. LockOK' /\ RestoreOK' /\ SavingOK'
  BY <1>1, <1>3 DEF LockOK, RestoreOK, SavingOK
<1>7. ~save'.whole /\ save'.part = "empty"
  BY <1>1 DEF EmptySave
<1>8. SaveOK'
  BY <1>1, <1>3, <1>7 DEF SaveOK, EmptySave, Levels
<1>9. WorldOK'
  BY <1>1, <1>2, <1>3, WorldStays, TornStays DEF WorldOK, WritingLock
<1>10. LastOK'
  <2>1. LockImage' = LockImage /\ SaveImage' = Nothing
    BY <1>1, <1>7, LockImageStays DEF SaveImage
  <2> QED
    BY <1>1, <1>2, <1>3, <2>1, TornStays DEF LastOK, Kept, Leftover
<1> QED
  BY <1>4, <1>5, <1>6, <1>8, <1>9, <1>10 DEF GameOK

LEMMA SaveCurrentKeeps == ASSUME GameOK, SaveCurrent PROVE GameOK'
<1>1. /\ pc = "saveCurrent" /\ pc' = "saveLevels"
      /\ save' = [save EXCEPT !.part = "state", !.state = State0, !.floor = floor]
      /\ saving' = World /\ core' = FALSE /\ floor' = {} /\ carried' = {}
      /\ UNCHANGED <<back, hackpid, here, exists, chkpt, havestate, worth, hup,
                     todo, lock, file, last, lost>>
  BY DEF SaveCurrent, Step, runVars
<1>2. TypeOK /\ ControlOK /\ SaveOK /\ WorldOK /\ LastOK
  BY DEF GameOK
<1>3. ~InGame' /\ ~Restoring' /\ hackpid # 0
  BY <1>1, <1>2 DEF InGame, Restoring, Changing, WritingLock, ControlOK, Recovering
<1>4. save' = [whole |-> FALSE, sound |-> TRUE, readable |-> TRUE, part |-> "state",
               state |-> State0, floor |-> floor, levels |-> Levels(Nothing)]
  <2>1. save = EmptySave
    BY <1>1, <1>2 DEF SaveOK
  <2> QED
    BY <1>1, <2>1 DEF EmptySave
<1>5. save' \in SaveFile
  <2>1. State0 \in State /\ floor \in SUBSET Item
    BY <1>2, <1>3, CreatedType DEF TypeOK
  <2>2. Levels(Nothing) \in [Level -> (SUBSET Item) \cup {Nothing}]
    BY DEF Levels
  <2> QED
    BY <1>4, <2>1, <2>2 DEF SaveFile
<1>6. /\ save' # Nothing /\ ~save'.whole /\ save'.sound /\ save'.part = "state"
      /\ save'.floor = floor /\ save'.state = State0 /\ save'.levels = Levels(Nothing)
  BY <1>4, <1>5, NothingIsNothing
<1>7. World \in Game
  BY <1>2, WorldType
<1>8. TypeOK'
  BY <1>1, <1>2, <1>5, <1>7 DEF TypeOK, Interruptible
<1>9. ControlOK'
  BY <1>1, <1>2 DEF ControlOK, Idle, Recovering, WritingLock, Changing, Saving
<1>10. LockOK' /\ RestoreOK' /\ WorldOK'
  BY <1>1, <1>3 DEF LockOK, RestoreOK, WorldOK
<1>11. SaveOK'
  BY <1>1, <1>3, <1>6 DEF SaveOK
<1>12. SavingOK'
  <2>1. /\ State0.here = here /\ State0.carried = carried /\ State0.exists = exists
    BY DEF State0
  <2>2. /\ World.here = here /\ World.carried = carried
        /\ core => World.at[here] = floor
        /\ \A l \in Level \ {here} :
             World.at[l] = IF l \in exists THEN ItemsIn(l) ELSE Nothing
    BY <1>2 DEF World, TypeOK
  <2>3. \A l \in Level : ItemsIn(l)' = ItemsIn(l)
    BY <1>1 DEF ItemsIn
  <2>4. \A l \in Level : save'.levels[l] = Nothing
    BY <1>6 DEF Levels
  <2>5. Known(World, State0)
    BY <2>1, WorldDomain DEF Known
  <2>6. /\ ~lost => Conserved(World) /\ \A l \in exists \ {here} : Usable(file[l], hackpid)
        /\ ~LevelFreed => core
        /\ LevelFreed' <=> LevelFreed
    BY <1>1, <1>2 DEF WorldOK, LevelFreed
  <2> QED
    BY <1>1, <1>6, <1>7, <2>1, <2>2, <2>3, <2>4, <2>5, <2>6 DEF SavingOK
<1>13. LastOK'
  <2>1. LockImage' = LockImage /\ SaveImage' = Nothing
    BY <1>1, <1>6, LockImageStays DEF SaveImage
  <2> QED
    BY <1>1, <1>2, <1>3, <2>1, TornStays DEF LastOK, Kept, Leftover
<1> QED
  BY <1>8, <1>9, <1>10, <1>11, <1>12, <1>13 DEF GameOK

(* A level file is unlinked. *)
LEMMA DeletedFile ==
  ASSUME TypeOK, NEW l \in Level, file' = [file EXCEPT ![l] = Nothing]
  PROVE  /\ file' \in [Level -> LevelFile \cup {Nothing}]
         /\ file'[l] = Nothing /\ \A k \in Level \ {l} : file'[k] = file[k]
         /\ ItemsIn(l)' = Nothing /\ \A k \in Level \ {l} : ItemsIn(k)' = ItemsIn(k)
<1>1. /\ file' \in [Level -> LevelFile \cup {Nothing}]
      /\ file'[l] = Nothing /\ \A k \in Level \ {l} : file'[k] = file[k]
  BY DEF TypeOK
<1> QED
  BY <1>1 DEF ItemsIn

LEMMA SaveLevelKeeps == ASSUME GameOK, SaveLevel PROVE GameOK'
<1>1. PICK l : l = NextToSave
  OBVIOUS
<1>2. /\ pc = "saveLevels" /\ pc' = pc /\ exists \ {here} # {}
      /\ Kind(l) = "good" /\ save' = [save EXCEPT !.levels[l] = file[l].items]
      /\ file' = [file EXCEPT ![l] = Nothing] /\ exists' = exists \ {l}
      /\ UNCHANGED <<back, hackpid, here, core, floor, carried, chkpt, havestate,
                     worth, hup, todo, lock, last, saving, lost>>
  BY <1>1 DEF SaveLevel, delete_levelfile, runVars, history
<1>3. TypeOK /\ ControlOK /\ SaveOK /\ WorldOK /\ SavingOK /\ LastOK
  BY DEF GameOK
<1>4. l \in exists \ {here} /\ l \in Level
  BY <1>1, <1>2, <1>3, NextIsMember DEF TypeOK
<1>5. file[l] # Nothing /\ file[l] \in LevelFile
  BY <1>2, <1>3, <1>4, KindIs DEF Usable, TypeOK
<1>6. PICK items \in SUBSET Item : items = file[l].items /\ items = ItemsIn(l) /\ items # Nothing
  BY <1>5, NothingIsNothing DEF LevelFile, ItemsIn
<1>7. ~InGame' /\ ~Restoring'
  BY <1>2, <1>3 DEF InGame, Restoring, Changing, WritingLock
<1>8. save \in SaveFile /\ ~save.whole /\ save.sound /\ save.part = "state"
  BY <1>2, <1>3 DEF SaveOK, TypeOK
<1>9. /\ save' \in SaveFile
      /\ ~save'.whole /\ save'.sound /\ save'.part = "state" /\ save'.state = save.state
      /\ save'.floor = save.floor /\ save'.levels[l] = items
      /\ \A k \in Level \ {l} : save'.levels[k] = save.levels[k]
  <2>1. save' = [save EXCEPT !.levels = [save.levels EXCEPT ![l] = items]]
    BY <1>2, <1>6, <1>8 DEF SaveFile
  <2>2. save.levels \in [Level -> (SUBSET Item) \cup {Nothing}]
    BY <1>8 DEF SaveFile
  <2>3. PICK levels \in [Level -> (SUBSET Item) \cup {Nothing}] :
          levels = [save.levels EXCEPT ![l] = items]
    BY <2>2, <1>6
  <2>4. levels[l] = items /\ \A k \in Level \ {l} : levels[k] = save.levels[k]
    BY <1>4, <2>2, <2>3
  <2>5. save' = [save EXCEPT !.levels = levels]
    BY <2>1, <2>3
  <2> QED
    BY <1>8, <2>4, <2>5 DEF SaveFile
<1>10. save' # Nothing
  BY <1>9, NothingIsNothing
<1>11. /\ file' \in [Level -> LevelFile \cup {Nothing}]
       /\ file'[l] = Nothing /\ \A k \in Level \ {l} : file'[k] = file[k]
       /\ \A k \in Level \ {l} : ItemsIn(k)' = ItemsIn(k)
  BY <1>2, <1>3, <1>4, DeletedFile
<1>12. TypeOK'
  BY <1>2, <1>3, <1>9, <1>11 DEF TypeOK, Interruptible
<1>13. ControlOK'
  BY <1>2, <1>3 DEF ControlOK, Idle, Recovering, WritingLock, Changing, Saving
<1>14. LockOK' /\ RestoreOK' /\ WorldOK'
  BY <1>2, <1>7 DEF LockOK, RestoreOK, WorldOK
<1>15. SaveOK'
  BY <1>2, <1>7, <1>9, <1>10 DEF SaveOK
<1>16. SavingOK'
  <2>1. /\ saving \in Game /\ saving.here = here /\ save.state.here = here
        /\ ~lost => Conserved(saving)
        /\ ~lost => \A k \in exists \ {here} : Usable(file[k], hackpid)
        /\ Known(saving, save.state)
        /\ \A k \in Level \ {here} : saving.at[k] # Nothing => k \in exists \/ file[k] = Nothing
        /\ ~LevelFreed =>
             /\ save.state.carried = saving.carried /\ save.floor = saving.at[here]
             /\ \A k \in Level \ {here} :
                  saving.at[k] = IF k \in exists THEN ItemsIn(k) ELSE save.levels[k]
             /\ \A k \in save.state.exists \ {here} :
                  k \in exists \/ save.levels[k] # Nothing
    BY <1>2, <1>3 DEF SavingOK
  <2>2. \A k \in exists' \ {here} : file'[k] = file[k] /\ k \in exists
    BY <1>2, <1>3, <1>11 DEF TypeOK
  <2>3. LevelFreed' <=> LevelFreed
    BY <1>2 DEF LevelFreed
  <2>4. ~lost => \A k \in exists' \ {here} : Usable(file'[k], hackpid)
    BY <2>1, <2>2
  <2> QED
    BY <1>2, <1>4, <1>6, <1>9, <1>11, <2>1, <2>3, <2>4 DEF SavingOK
<1>17. LastOK'
  <2>1. SaveImage' = Nothing
    BY <1>9 DEF SaveImage
  <2> QED
    BY <1>2, <1>3, <1>4, <1>7, <2>1, LockImageIsNext, TornStays DEF LastOK, Kept
<1> QED
  BY <1>12, <1>13, <1>14, <1>15, <1>16, <1>17 DEF GameOK

(* When every level that the game knows of has been collected, what is in  *)
(* level files is not part of it, and recover cannot mistake them.         *)
LEMMA CollectedKnown ==
  ASSUME LockImage' = saving, saving \in Game,
         saving.here = here,
         \A l \in Level \ {here} : saving.at[l] # Nothing => file'[l] = Nothing
  PROVE  Known(saving, lock'.state)
<1>1. LockImage' # Nothing
  BY NothingIsNothing
<1>2. lock'.state.here = here /\ \A l \in Level : saving.at[l] = ItemsIn(l)'
  BY <1>1, LockImageIsNext
<1>3. \A l \in Level \ {here} : saving.at[l] = Nothing
  BY <1>2 DEF ItemsIn
<1> QED
  BY <1>2, <1>3 DEF Known

LEMMA SaveCloseKeeps == ASSUME GameOK, SaveClose PROVE GameOK'
<1>1. /\ pc = "saveLevels" /\ pc' = "saveDone" /\ exists \ {here} = {}
      /\ save' = [save EXCEPT !.whole = TRUE] /\ last' = saving
      /\ UNCHANGED <<back, hackpid, here, core, floor, carried, exists, chkpt,
                     havestate, worth, hup, todo, lock, file, saving, lost>>
  BY DEF SaveClose, Step, coreVars, runVars
<1>2. TypeOK /\ ControlOK /\ SaveOK /\ SavingOK
  BY DEF GameOK
<1>3. ~InGame' /\ ~Restoring'
  BY <1>1 DEF InGame, Restoring, Changing, WritingLock
<1>4. save \in SaveFile /\ ~save.whole /\ save.sound /\ save.part = "state"
  BY <1>1, <1>2 DEF SaveOK, TypeOK
<1>5. /\ save' \in SaveFile
      /\ save'.whole /\ save'.sound /\ save'.part = "state" /\ save'.state = save.state
      /\ save'.floor = save.floor /\ save'.levels = save.levels
  BY <1>1, <1>4 DEF SaveFile
<1>6. save' # Nothing
  BY <1>5, NothingIsNothing
<1>7. TypeOK'
  BY <1>1, <1>2, <1>5 DEF TypeOK, Interruptible
<1>8. ControlOK'
  BY <1>1, <1>2 DEF ControlOK, Idle, Recovering, WritingLock, Changing, Saving
<1>9. LockOK' /\ RestoreOK' /\ WorldOK'
  BY <1>1, <1>3 DEF LockOK, RestoreOK, WorldOK
<1>10. SaveOK'
  BY <1>1, <1>3, <1>5, <1>6 DEF SaveOK
<1>11. /\ saving \in Game /\ saving.here = here /\ save.state.here = here
       /\ ~lost => Conserved(saving)
       /\ Known(saving, save.state)
       /\ \A k \in Level \ {here} : saving.at[k] # Nothing => file[k] = Nothing
       /\ ~LevelFreed =>
            /\ save.state.carried = saving.carried /\ save.floor = saving.at[here]
            /\ \A k \in Level \ {here} : saving.at[k] = save.levels[k]
            /\ \A k \in save.state.exists \ {here} : save.levels[k] # Nothing
  <2>1. \A k \in Level \ {here} : k \notin exists
    BY <1>1
  <2>2. /\ saving \in Game /\ saving.here = here /\ save.state.here = here
        /\ ~lost => Conserved(saving)
        /\ Known(saving, save.state)
        /\ \A k \in Level \ {here} : saving.at[k] # Nothing => k \in exists \/ file[k] = Nothing
        /\ ~LevelFreed =>
             /\ save.state.carried = saving.carried /\ save.floor = saving.at[here]
             /\ \A k \in Level \ {here} :
                  saving.at[k] = IF k \in exists THEN ItemsIn(k) ELSE save.levels[k]
             /\ \A k \in save.state.exists \ {here} :
                  k \in exists \/ save.levels[k] # Nothing
    BY <1>1, <1>2 DEF SavingOK
  <2>3. save.state.exists \subseteq Level
    BY <1>4 DEF SaveFile, State
  <2> QED
    BY <2>1, <2>2, <2>3
<1>12. ~LevelFreed => SaveImage' = saving
  <2>1. SUFFICES ASSUME ~LevelFreed PROVE SaveImage' = saving
    OBVIOUS
  <2>2. here \in Level /\ save.levels \in [Level -> (SUBSET Item) \cup {Nothing}]
    BY <1>2, <1>4 DEF TypeOK, SaveFile
  <2>3. [save.levels EXCEPT ![here] = save.floor] = saving.at
    <3>1. saving.at \in [Level -> (SUBSET Item) \cup {Nothing}]
      BY <1>11 DEF Game
    <3> QED
      BY <1>11, <2>1, <2>2, <3>1
  <2>4. saving = [here |-> saving.here, carried |-> saving.carried, at |-> saving.at]
    BY <1>11 DEF Game
  <2>5. SaveImage' = [here |-> save.state.here, carried |-> save.state.carried,
                      at |-> [save.levels EXCEPT ![save.state.here] = save.floor]]
    BY <1>5, <1>6, <1>11, <2>1 DEF SaveImage
  <2> QED
    BY <1>11, <2>1, <2>3, <2>4, <2>5
<1>13. SavingOK'
  BY <1>1, <1>5, <1>11, <1>12, TornStays DEF SavingOK
<1>14. LastOK'
  <2>1. LockImage' = saving => Known(saving, lock'.state)
    BY <1>1, <1>11, CollectedKnown
  <2> QED
    BY <1>1, <1>3, <1>5, <1>11, <2>1 DEF LastOK, Kept
<1> QED
  BY <1>7, <1>8, <1>9, <1>10, <1>13, <1>14 DEF GameOK

LEMMA SaveDropHereKeeps == ASSUME GameOK, SaveDropHere PROVE GameOK'
<1>1. /\ pc = "saveDone" /\ pc' = "saveEnd"
      /\ \/ file' = [file EXCEPT ![here] = Nothing] /\ exists' = exists \ {here}
         \/ file' = file /\ exists' = exists
      /\ UNCHANGED <<back, hackpid, here, core, floor, carried, chkpt, havestate,
                     worth, hup, todo, lock, save, last, saving, lost>>
  BY DEF SaveDropHere, delete_levelfile, Step, runVars, history
<1>2. TypeOK /\ ControlOK /\ SaveOK /\ SavingOK /\ LastOK
  BY DEF GameOK
<1>3. ~InGame' /\ ~Restoring'
  BY <1>1 DEF InGame, Restoring, Changing, WritingLock
<1>4. /\ file' \in [Level -> LevelFile \cup {Nothing}]
      /\ \A k \in Level \ {here} : file'[k] = file[k]
  BY <1>1, <1>2, DeletedFile DEF TypeOK
<1>5. TypeOK'
  BY <1>1, <1>2, <1>4 DEF TypeOK, Interruptible
<1>6. ControlOK'
  BY <1>1, <1>2 DEF ControlOK, Idle, Recovering, WritingLock, Changing, Saving
<1>7. LockOK' /\ RestoreOK' /\ WorldOK'
  BY <1>1, <1>3 DEF LockOK, RestoreOK, WorldOK
<1>8. SaveOK'
  BY <1>1, <1>2, <1>3 DEF SaveOK
<1>9. SaveImage' = SaveImage
  BY <1>1, SaveImageStays
<1>10. /\ saving \in Game /\ saving.here = here /\ last = saving
       /\ \A k \in Level \ {here} : saving.at[k] # Nothing => file[k] = Nothing
  BY <1>1, <1>2 DEF SavingOK
<1>11. SavingOK'
  BY <1>1, <1>2, <1>4, <1>9, TornStays DEF SavingOK
<1>12. LastOK'
  <2>1. LockImage' = saving => Known(saving, lock'.state)
    BY <1>4, <1>10, CollectedKnown
  <2> QED
    BY <1>1, <1>2, <1>3, <1>9, <1>10, <2>1 DEF LastOK, Kept
<1> QED
  BY <1>5, <1>6, <1>7, <1>8, <1>11, <1>12 DEF GameOK

(* The save file is restored. *)
LEMMA StartRestoreKeeps == ASSUME GameOK, StartRestore PROVE GameOK'
<1>1. /\ pc = "start" /\ pc' = "restore" /\ CanRestore
      /\ save' = [save EXCEPT !.readable = FALSE]
      /\ UNCHANGED <<back, hackpid, here, core, floor, carried, exists, chkpt,
                     havestate, worth, hup, todo, lock, file, last, saving, lost>>
  BY DEF StartRestore, Step, coreVars, runVars, history
<1>2. TypeOK /\ ControlOK /\ LockOK /\ SaveOK /\ LastOK
  BY DEF GameOK
<1>3. ~InGame' /\ ~Restoring'
  BY <1>1 DEF InGame, Restoring, Changing, WritingLock
<1>4. save \in SaveFile /\ save # Nothing /\ save.readable
  BY <1>1, <1>2 DEF CanRestore, TypeOK
<1>5. /\ save' \in SaveFile /\ ~save'.readable
      /\ save'.whole = save.whole /\ save'.sound = save.sound
      /\ save'.part = save.part /\ save'.state = save.state
      /\ save'.floor = save.floor /\ save'.levels = save.levels
  BY <1>1, <1>4 DEF SaveFile
<1>6. save' # Nothing
  BY <1>5, NothingIsNothing
<1>7. TypeOK'
  BY <1>1, <1>2, <1>5 DEF TypeOK, Interruptible
<1>8. ControlOK'
  BY <1>1, <1>2 DEF ControlOK, Blank, Idle, Recovering, WritingLock, Changing, Saving
<1>9. LockOK'
  BY <1>1, <1>2 DEF LockOK, PidOnly
<1>10. RestoreOK' /\ WorldOK' /\ SavingOK'
  BY <1>1, <1>3 DEF RestoreOK, WorldOK, SavingOK
<1>11. SaveOK'
  BY <1>1, <1>2, <1>3, <1>4, <1>5, <1>6 DEF SaveOK
<1>12. LastOK'
  <2>1. SaveImage' = SaveImage
    BY <1>4, <1>5, <1>6 DEF SaveImage
  <2>2. LockImage' = LockImage
    BY <1>1, LockImageStays
  <2> QED
    BY <1>1, <1>2, <1>3, <1>4, <1>5, <2>1, <2>2 DEF LastOK, Kept
<1> QED
  BY <1>7, <1>8, <1>9, <1>10, <1>11, <1>12 DEF GameOK

LEMMA RestoreStateKeeps == ASSUME GameOK, RestoreState PROVE GameOK'
<1>1. PICK upTo \in Level \cup {0} :
        /\ ~Broken => \A l \in Level : l <= upTo
        /\ todo' = {here'} \cup {l \in Level : l <= upTo /\ save.levels[l] # Nothing}
  BY DEF RestoreState
<1>2. /\ pc = "restore" /\ pc' = "state" /\ save.part = "state" /\ back' = "restCreate"
      /\ here' = save.state.here /\ carried' = save.state.carried
      /\ exists' = save.state.exists /\ chkpt' = save.state.chkpt
      /\ UNCHANGED <<hackpid, core, floor, havestate, worth, hup, lock, file, save,
                     last, saving, lost>>
  BY DEF RestoreState, Step, diskVars, history
<1>3. TypeOK /\ ControlOK /\ LockOK /\ SaveOK /\ LastOK
  BY DEF GameOK
<1>4. ~InGame' /\ Restoring'
  BY <1>2 DEF InGame, Restoring, Changing, WritingLock
<1>5. save # Nothing /\ ~save.readable /\ save \in SaveFile
  BY <1>2, <1>3 DEF SaveOK, TypeOK
<1>6. save.state \in State
  BY <1>5 DEF SaveFile
<1>7. here' \in Level /\ carried' \subseteq Item /\ exists' \subseteq Level /\ chkpt' \in BOOLEAN
  BY <1>2, <1>6 DEF State
<1>8. TypeOK'
  BY <1>1, <1>2, <1>3, <1>7 DEF TypeOK, Interruptible
<1>9. Blank
  BY <1>2, <1>3 DEF ControlOK, Idle
<1>10. ControlOK'
  BY <1>2, <1>3, <1>9 DEF ControlOK, Blank, Idle, Recovering, WritingLock, Changing, Saving
<1>11. LockOK' /\ WorldOK' /\ SavingOK'
  BY <1>2, <1>4 DEF LockOK, WorldOK, SavingOK
<1>12. SaveOK'
  <2>1. \A l \in todo' : l = here' \/ save.levels[l] # Nothing
    BY <1>1
  <2> QED
    BY <1>2, <1>3, <1>4, <1>5, <2>1 DEF SaveOK
<1>13. SaveImage' = SaveImage /\ LockImage' = LockImage
  BY <1>2, SaveImageStays, LockImageStays
<1>14. RestoreOK'
  <2>1. SUFFICES ASSUME Kept' PROVE RestoreOK'
    BY DEF RestoreOK
  <2>2. Kept /\ last' = last /\ SaveImage = last /\ Known(last, save.state)
    BY <1>2, <1>3, <2>1 DEF Kept, LastOK
  <2>3. /\ save.whole /\ save.sound
        /\ \A l \in save.state.exists \ {save.state.here} : save.levels[l] # Nothing
    BY <1>3, <2>2, SaveImageIs DEF Kept
  <2>4. \A l \in save.state.exists \cup {here'} : l \in todo'
    BY <1>1, <1>2, <1>7, <2>3 DEF Broken
  <2> QED
    BY <1>2, <1>13, <2>2, <2>4 DEF RestoreOK
<1>15. LastOK'
  BY <1>2, <1>3, <1>4, <1>5, <1>13 DEF LastOK, LockOK, PidOnly, Kept
<1> QED
  BY <1>8, <1>10, <1>11, <1>12, <1>14, <1>15 DEF GameOK

LEMMA RestoreCreateKeeps == ASSUME GameOK, RestoreCreate PROVE GameOK'
<1>1. PICK l : l = NextToRestore
  OBVIOUS
<1>2. /\ pc = "restCreate" /\ pc' = "restWrite" /\ todo # {}
      /\ file' = [file EXCEPT ![l] = Created] /\ exists' = exists \cup {l}
      /\ UNCHANGED <<back, hackpid, here, core, floor, carried, chkpt, havestate,
                     worth, hup, todo, lock, save, last, saving, lost>>
  BY <1>1 DEF RestoreCreate, Step, runVars, history
<1>3. TypeOK /\ ControlOK /\ SaveOK /\ RestoreOK /\ LastOK
  BY DEF GameOK
<1>4. ~InGame' /\ Restoring' /\ Restoring /\ hackpid # 0
  BY <1>2, <1>3 DEF InGame, Restoring, Changing, WritingLock, ControlOK, Recovering
<1>5. l \in todo /\ l \in Level
  BY <1>1, <1>2, <1>3, NextIsMember DEF TypeOK
<1>6. /\ file' \in [Level -> LevelFile \cup {Nothing}]
      /\ \A k \in Level \ {l} : file'[k] = file[k]
  BY <1>2, <1>3, <1>4, <1>5, CreatedType DEF TypeOK
<1>7. TypeOK'
  BY <1>2, <1>3, <1>5, <1>6 DEF TypeOK, Interruptible
<1>8. ControlOK'
  BY <1>2, <1>3 DEF ControlOK, Idle, Recovering, WritingLock, Changing, Saving
<1>9. LockOK' /\ WorldOK' /\ SavingOK'
  BY <1>2, <1>4 DEF LockOK, WorldOK, SavingOK
<1>10. SaveOK'
  <2>1. NextToRestore' = l
    BY <1>1, <1>2 DEF NextToRestore
  <2> QED
    BY <1>2, <1>3, <1>4, <2>1 DEF SaveOK
<1>11. SaveImage' = SaveImage
  BY <1>2, SaveImageStays
<1>12. RestoreOK'
  <2>1. SUFFICES ASSUME Kept' PROVE RestoreOK'
    BY DEF RestoreOK
  <2>2. Kept /\ last' = last /\ SaveImage = last /\ Known(last, save.state)
    BY <1>2, <1>3, <1>4, <2>1 DEF Kept, RestoreOK
  <2>3. here = save.state.here /\ (l = here \/ save.levels[l] # Nothing)
    BY <1>3, <1>4, <1>5 DEF SaveOK
  <2>4. l \in save.state.exists \cup {here}
    <3>1. l # here => last.at[l] = save.levels[l]
      BY <1>3, <1>5, <2>2, <2>3, SaveImageIs DEF Kept
    <3> QED
      BY <1>5, <2>2, <2>3, <3>1 DEF Known
  <2>5. /\ carried = save.state.carried
        /\ save.state.exists \subseteq exists /\ exists \subseteq save.state.exists \cup {here}
        /\ \A k \in save.state.exists \cup {here} :
             k \in todo \/ (k \in exists /\ file[k] = Written(last.at[k]))
    BY <1>3, <1>4, <2>2 DEF RestoreOK
  <2>6. \A k \in save.state.exists \cup {here} :
          k \in todo' \/ (k \in exists' /\ file'[k] = Written(last.at[k]))
    <3>1. save.state.exists \cup {here} \subseteq Level
      BY <1>3, <2>5 DEF TypeOK
    <3> QED
      BY <1>2, <1>5, <1>6, <2>5, <3>1
  <2>7. chkpt => /\ havestate /\ lock # Nothing /\ lock.stage = "whole"
                 /\ lock.state.here = here /\ lock.state.carried = carried
                 /\ lock.state.exists = save.state.exists
    BY <1>2, <1>3, <1>4, <2>2 DEF RestoreOK
  <2> QED
    BY <1>2, <1>11, <2>2, <2>4, <2>5, <2>6, <2>7 DEF RestoreOK, WritingLock, Written
<1>13. LastOK'
  BY <1>2, <1>3, <1>4, <1>11, LockImageIsNext DEF LastOK, Kept
<1> QED
  BY <1>7, <1>8, <1>9, <1>10, <1>12, <1>13 DEF GameOK

LEMMA RestoreWriteKeeps == ASSUME GameOK, RestoreWrite PROVE GameOK'
<1>1. PICK l : l = NextToRestore
  OBVIOUS
<1>2. PICK items : items = IF l = here THEN save.floor ELSE save.levels[l]
  OBVIOUS
<1>3. /\ pc = "restWrite" /\ pc' = "restCreate"
      /\ file' = [file EXCEPT ![l] = Written(items)] /\ todo' = todo \ {l}
      /\ UNCHANGED <<back, hackpid, here, core, floor, carried, exists, chkpt,
                     havestate, worth, hup, lock, save, last, saving, lost>>
  BY <1>1, <1>2 DEF RestoreWrite, Step, coreVars, history
<1>4. TypeOK /\ ControlOK /\ SaveOK /\ RestoreOK /\ LastOK
  BY DEF GameOK
<1>5. ~InGame' /\ Restoring' /\ Restoring /\ hackpid # 0
  BY <1>3, <1>4 DEF InGame, Restoring, Changing, WritingLock, ControlOK, Recovering
<1>6. todo # {} /\ l \in exists /\ here = save.state.here /\ save # Nothing
  BY <1>1, <1>3, <1>4, <1>5 DEF SaveOK
<1>7. l \in todo /\ l \in Level
  BY <1>1, <1>4, <1>6, NextIsMember DEF TypeOK
<1>8. items \in SUBSET Item
  <2>1. save \in SaveFile /\ (l = here \/ save.levels[l] # Nothing)
    BY <1>4, <1>5, <1>6, <1>7 DEF SaveOK, TypeOK
  <2> QED
    BY <1>2, <1>7, <2>1 DEF SaveFile
<1>9. /\ file' \in [Level -> LevelFile \cup {Nothing}]
      /\ file'[l] = Written(items) /\ \A k \in Level \ {l} : file'[k] = file[k]
  BY <1>3, <1>4, <1>5, <1>7, <1>8, CreatedType DEF TypeOK
<1>10. TypeOK'
  BY <1>3, <1>4, <1>9 DEF TypeOK, Interruptible
<1>11. ControlOK'
  BY <1>3, <1>4 DEF ControlOK, Idle, Recovering, WritingLock, Changing, Saving
<1>12. LockOK' /\ WorldOK' /\ SavingOK'
  BY <1>3, <1>5 DEF LockOK, WorldOK, SavingOK
<1>13. SaveOK'
  BY <1>3, <1>4, <1>5 DEF SaveOK
<1>14. SaveImage' = SaveImage
  BY <1>3, SaveImageStays
<1>15. RestoreOK'
  <2>1. SUFFICES ASSUME Kept' PROVE RestoreOK'
    BY DEF RestoreOK
  <2>2. /\ Kept /\ last' = last /\ SaveImage = last /\ Known(last, save.state)
        /\ carried = save.state.carried
        /\ save.state.exists \subseteq exists /\ exists \subseteq save.state.exists \cup {here}
        /\ \A k \in save.state.exists \cup {here} :
             k \in todo \/ (k \in exists /\ file[k] = Written(last.at[k]))
        /\ chkpt => /\ havestate /\ lock # Nothing /\ lock.stage = "whole"
                    /\ lock.state.here = here /\ lock.state.carried = carried
                    /\ lock.state.exists = save.state.exists
    BY <1>3, <1>4, <1>5, <2>1 DEF Kept, RestoreOK
  <2>3. last.at[l] = items
    BY <1>2, <1>4, <1>6, <1>7, <2>2, SaveImageIs DEF Kept
  <2>4. \A k \in save.state.exists \cup {here} :
          k \in todo' \/ (k \in exists' /\ file'[k] = Written(last.at[k]))
    <3>1. save.state.exists \cup {here} \subseteq Level
      BY <1>4, <2>2 DEF TypeOK
    <3> QED
      BY <1>3, <1>6, <1>7, <1>9, <2>2, <2>3, <3>1
  <2> QED
    BY <1>3, <1>14, <2>2, <2>4 DEF RestoreOK, WritingLock, Written
<1>16. LastOK'
  BY <1>3, <1>4, <1>5, <1>14, LockImageIsNext DEF LastOK, Kept
<1> QED
  BY <1>10, <1>11, <1>12, <1>13, <1>15, <1>16 DEF GameOK

(* The levels are in their files, and the save file has been used up: the  *)
(* game that is played is the one that was to come back.                   *)
LEMMA RestoredWorld ==
  ASSUME GameOK, RestoreDone, Kept
  PROVE  /\ World' = last /\ SaveImage = last
         /\ carried = save.state.carried /\ here = save.state.here /\ here \in exists
         /\ exists = save.state.exists \cup {here}
         /\ \A l \in exists : file[l] = Written(last.at[l]) /\ last.at[l] \in SUBSET Item
<1>1. /\ pc = "restCreate" /\ todo = {} /\ floor' = save.floor /\ core' = TRUE
      /\ UNCHANGED <<hackpid, here, carried, exists, file>>
  BY DEF RestoreDone, Step
<1>2. TypeOK /\ ControlOK /\ SaveOK /\ RestoreOK
  BY DEF GameOK
<1>3. Restoring
  BY <1>1 DEF Restoring
<1>4. /\ SaveImage = last /\ Known(last, save.state)
      /\ carried = save.state.carried
      /\ save.state.exists \subseteq exists /\ exists \subseteq save.state.exists \cup {here}
      /\ \A l \in save.state.exists \cup {here} : l \in exists /\ file[l] = Written(last.at[l])
  BY <1>1, <1>2, <1>3 DEF RestoreOK
<1>5. save # Nothing /\ save.part = "state" /\ here = save.state.here
  BY <1>2, <1>3 DEF SaveOK
<1>6. save \in SaveFile /\ here \in Level /\ last \in Game
  BY <1>2, <1>5 DEF TypeOK, Kept
<1>7. exists = save.state.exists \cup {here} /\ exists \subseteq Level
  BY <1>2, <1>4 DEF TypeOK
<1>8. /\ last.here = here /\ last.carried = carried
      /\ last.at[here] = save.floor
      /\ \A l \in Level \ {here} : last.at[l] = save.levels[l]
      /\ \A l \in save.state.exists \ {here} : save.levels[l] # Nothing
  BY <1>2, <1>4, <1>5, SaveImageIs DEF Kept
<1>9. /\ last = [here |-> last.here, carried |-> last.carried, at |-> last.at]
      /\ last.at \in [Level -> (SUBSET Item) \cup {Nothing}]
  BY <1>6 DEF Game
<1>10. \A l \in exists : last.at[l] \in SUBSET Item
  BY <1>6, <1>7, <1>8, <1>9 DEF SaveFile
<1>11. \A l \in exists : ItemsIn(l)' = last.at[l]
  <2>1. \A l \in exists : Written(last.at[l]) # Nothing
    <3>1. hackpid # 0
      BY <1>1, <1>2 DEF ControlOK, Recovering
    <3> QED
      BY <1>2, <1>10, <3>1, CreatedType, NothingIsNothing
  <2>2. ASSUME NEW l \in exists PROVE ItemsIn(l)' = last.at[l]
    <3>1. file'[l] = [whole |-> TRUE, pid |-> hackpid, items |-> last.at[l]]
      BY <1>1, <1>4, <1>7 DEF Written
    <3>2. file'[l] # Nothing
      BY <1>1, <1>4, <1>7, <2>1
    <3> QED
      BY <3>1, <3>2 DEF ItemsIn
  <2> QED
    BY <2>2
<1>12. \A l \in Level \ exists : last.at[l] = Nothing
  BY <1>4, <1>5, <1>7 DEF Known
<1>13. last.at = [l \in Level |-> IF l = here THEN save.floor
                                ELSE IF l \in exists THEN ItemsIn(l)' ELSE Nothing]
  BY <1>8, <1>9, <1>11, <1>12
<1>14. World' = last
  BY <1>1, <1>8, <1>9, <1>13 DEF World
<1> QED
  BY <1>4, <1>5, <1>7, <1>10, <1>14

LEMMA RestoreDoneKeeps == ASSUME GameOK, RestoreDone PROVE GameOK'
<1>1. /\ pc = "restCreate" /\ pc' = "begin" /\ todo = {}
      /\ floor' = save.floor /\ core' = TRUE /\ save' = Nothing
      /\ back' = "play"
      /\ last' = IF chkpt THEN last ELSE Nothing
      /\ lost' = (lost \/ last = Nothing \/ SaveImage # last)
      /\ UNCHANGED <<hackpid, here, carried, exists, chkpt, havestate, worth, hup,
                     todo, lock, file, saving>>
  BY DEF RestoreDone, Step, runVars
<1>2. TypeOK /\ ControlOK /\ SaveOK /\ RestoreOK /\ LastOK
  BY DEF GameOK
<1>3. Restoring /\ ~Restoring' /\ InGame' /\ hackpid # 0
  BY <1>1, <1>2 DEF InGame, Restoring, Changing, WritingLock, ControlOK, Recovering
<1>4. lost' \in BOOLEAN /\ (~lost' => Kept)
  BY <1>1, <1>2 DEF Kept, TypeOK
<1>5. save # Nothing /\ save \in SaveFile
  BY <1>2, <1>3 DEF SaveOK, TypeOK
<1>6. TypeOK'
  BY <1>1, <1>2, <1>4, <1>5 DEF TypeOK, Interruptible, SaveFile
<1>7. ControlOK'
  BY <1>1, <1>2, <1>3 DEF ControlOK, Idle, Recovering, WritingLock, Changing, Saving
<1>8. LockOK' /\ RestoreOK' /\ SavingOK'
  BY <1>1, <1>3 DEF LockOK, RestoreOK, SavingOK
<1>9. SaveOK'
  BY <1>1, <1>3 DEF SaveOK
<1>10. ASSUME ~lost'
       PROVE  /\ World' = last /\ Conserved(last) /\ here \in exists
              /\ exists = save.state.exists \cup {here}
              /\ carried = save.state.carried /\ here = save.state.here
              /\ \A l \in exists : /\ file[l] # Nothing /\ file[l].whole
                                   /\ file[l].pid = hackpid /\ file[l].items = last.at[l]
  <2>1. Kept
    BY <1>4, <1>10
  <2>2. /\ World' = last /\ here \in exists
        /\ exists = save.state.exists \cup {here}
        /\ carried = save.state.carried /\ here = save.state.here
        /\ \A l \in exists : file[l] = Written(last.at[l]) /\ last.at[l] \in SUBSET Item
    BY <2>1, RestoredWorld
  <2>3. \A l \in exists : Written(last.at[l]) # Nothing
    BY <1>2, <1>3, <2>2, CreatedType, NothingIsNothing
  <2>4. Conserved(last)
    BY <1>2, <2>1 DEF LastOK
  <2>5. ASSUME NEW l \in exists
        PROVE  /\ file[l] # Nothing /\ file[l].whole
               /\ file[l].pid = hackpid /\ file[l].items = last.at[l]
    <3>1. file[l] = [whole |-> TRUE, pid |-> hackpid, items |-> last.at[l]]
      BY <2>2 DEF Written
    <3>2. file[l] # Nothing
      BY <2>2, <2>3
    <3> QED
      BY <3>1, <3>2
  <2> QED
    BY <2>2, <2>4, <2>5
<1>11. WorldOK'
  BY <1>1, <1>3, <1>10 DEF WorldOK, WritingLock, Usable
<1>12. LastOK'
  <2>1. SUFFICES ASSUME Kept' PROVE LastOK'
    BY DEF LastOK
  <2>2. chkpt /\ last' = last /\ ~lost' /\ Kept /\ last \in Game
    BY <1>1, <1>2, <1>4, <2>1 DEF Kept, TypeOK
  <2>3. /\ havestate /\ lock # Nothing /\ lock.stage = "whole"
        /\ lock.state.here = here /\ lock.state.carried = carried
        /\ lock.state.exists = save.state.exists /\ Known(last, save.state)
    BY <1>1, <1>2, <1>3, <2>2 DEF RestoreOK
  <2>4. Known(last, lock.state)
    BY <1>10, <2>2, <2>3 DEF Known
  <2>5. ASSUME ~Leftover' PROVE LockImage' = last
    <3>1. \A l \in Level \ exists : file'[l] = Nothing
      BY <1>1, <2>5 DEF Leftover
    <3>2. \A l \in exists : file'[l] # Nothing /\ file'[l].whole /\ file'[l].items = last.at[l]
      BY <1>1, <1>10, <2>2
    <3>3. \A l \in Level : (Kind(l) # "broken")'
      BY <3>1, <3>2, KindIsNext
    <3>4. \A l \in save.state.exists \cup {here} : file'[l] # Nothing
      BY <1>10, <2>2, <3>2
    <3>5. LockImage' = [here |-> here, carried |-> carried,
                        at |-> [l \in Level |-> ItemsIn(l)']]
      BY <1>1, <2>3, <3>3, <3>4 DEF LockImage
    <3>6. World' = [here |-> here, carried |-> carried,
                    at |-> [l \in Level |-> IF l = here THEN floor'
                                            ELSE IF l \in exists THEN ItemsIn(l)' ELSE Nothing]]
      BY <1>1 DEF World
    <3>7. /\ last.at[here] = floor'
          /\ \A l \in Level : ItemsIn(l)' = IF l \in exists THEN last.at[l] ELSE Nothing
      <4>1. last.at[here] = floor'
        BY <1>2, <1>10, <2>2, <3>6 DEF TypeOK
      <4> QED
        BY <3>1, <3>2, <4>1 DEF ItemsIn
    <3>8. \A l \in Level : ItemsIn(l)' = IF l = here THEN floor'
                                         ELSE IF l \in exists THEN ItemsIn(l)' ELSE Nothing
      BY <1>10, <2>2, <3>7
    <3> QED
      BY <1>10, <2>2, <3>5, <3>6, <3>8
  <2>6. SaveImage' = Nothing
    BY <1>1 DEF SaveImage
  <2>7. Conserved(last) /\ exists \ {here} \subseteq lock.state.exists
    BY <1>10, <2>2, <2>3
  <2> QED
    BY <1>1, <1>3, <2>2, <2>3, <2>4, <2>5, <2>6, <2>7 DEF LastOK, Kept
<1> QED
  BY <1>6, <1>7, <1>8, <1>9, <1>11, <1>12 DEF GameOK

(* recover works on the level files. *)
LEMMA RecoverOpenKeeps == ASSUME GameOK, RecoverOpen PROVE GameOK'
<1>1. /\ pc = "shell" /\ pc' = "recLevel" /\ lock # Nothing /\ save' = EmptySave
      /\ lost' = (lost \/ (last # Nothing /\ LockImage # last))
      /\ UNCHANGED <<back, hackpid, here, core, floor, carried, exists, chkpt,
                     havestate, worth, hup, todo, lock, file, last, saving>>
  BY DEF RecoverOpen, Step, coreVars, runVars
<1>2. TypeOK /\ ControlOK /\ LastOK
  BY DEF GameOK
<1>3. ~InGame' /\ ~Restoring'
  BY <1>1 DEF InGame, Restoring, Changing, WritingLock
<1>4. lost' \in BOOLEAN /\ (Kept' => Kept /\ LockImage = last)
  BY <1>1, <1>2 DEF TypeOK, Kept
<1>5. TypeOK'
  BY <1>1, <1>2, <1>4, EmptySaveType DEF TypeOK
<1>6. ControlOK'
  BY <1>1, <1>2 DEF ControlOK, Blank, Idle, Recovering, WritingLock, Changing, Saving
<1>7. LockOK'
  BY <1>1 DEF LockOK
<1>8. RestoreOK' /\ WorldOK' /\ SavingOK'
  BY <1>1, <1>3 DEF RestoreOK, WorldOK, SavingOK
<1>9. ~save'.whole /\ save'.part = "empty"
  BY <1>1 DEF EmptySave
<1>10. SaveOK'
  BY <1>1, <1>3, <1>9 DEF SaveOK, EmptySave, Levels
<1>11. LastOK'
  <2>1. LockImage' = LockImage /\ SaveImage' = Nothing
    BY <1>1, <1>9, LockImageStays DEF SaveImage
  <2> QED
    BY <1>1, <1>2, <1>3, <1>4, <2>1 DEF LastOK, Kept
<1> QED
  BY <1>5, <1>6, <1>7, <1>8, <1>10, <1>11 DEF GameOK

LEMMA RecoverCurrentKeeps == ASSUME GameOK, RecoverCurrent PROVE GameOK'
<1>1. PICK l : l = lock.state.here
  OBVIOUS
<1>2. PICK f : f = file[l]
  OBVIOUS
<1>3. /\ pc = "recLevel" /\ pc' = "recState" /\ f # Nothing
      /\ save' = [save EXCEPT !.part = "level", !.floor = f.items, !.sound = f.whole]
      /\ file' = [file EXCEPT ![l] = Nothing]
      /\ UNCHANGED <<back, hackpid, here, core, floor, carried, exists, chkpt,
                     havestate, worth, hup, todo, lock, last, saving, lost>>
  BY <1>1, <1>2 DEF RecoverCurrent, Step, coreVars, runVars, history
<1>4. TypeOK /\ ControlOK /\ LockOK /\ SaveOK /\ LastOK
  BY DEF GameOK
<1>5. ~InGame' /\ ~Restoring'
  BY <1>3 DEF InGame, Restoring, Changing, WritingLock
<1>6. lock # Nothing /\ lock \in LockFile /\ l \in Level
  BY <1>1, <1>3, <1>4 DEF LockOK, TypeOK, LockFile, State
<1>7. f \in LevelFile
  BY <1>2, <1>3, <1>4, <1>6 DEF TypeOK
<1>8. f.items \in SUBSET Item /\ f.whole \in BOOLEAN
  BY <1>7 DEF LevelFile
<1>9. save = EmptySave
  BY <1>3, <1>4 DEF SaveOK
<1>10. save' = [whole |-> FALSE, sound |-> f.whole, readable |-> TRUE, part |-> "level",
                state |-> AtInit, floor |-> f.items, levels |-> Levels(Nothing)]
  BY <1>3, <1>9 DEF EmptySave
<1>11. save' \in SaveFile /\ ~save'.whole /\ save'.part = "level"
  <2>1. AtInit \in State
    BY LevelAssumption DEF AtInit, State
  <2>2. Levels(Nothing) \in [Level -> (SUBSET Item) \cup {Nothing}]
    BY DEF Levels
  <2> QED
    BY <1>8, <1>10, <2>1, <2>2 DEF SaveFile
<1>12. /\ file' \in [Level -> LevelFile \cup {Nothing}] /\ file'[l] = Nothing
  BY <1>3, <1>4, <1>6, DeletedFile
<1>13. TypeOK'
  BY <1>3, <1>4, <1>11, <1>12 DEF TypeOK
<1>14. ControlOK'
  BY <1>3, <1>4 DEF ControlOK, Blank, Idle, Recovering, WritingLock, Changing, Saving
<1>15. LockOK'
  BY <1>3, <1>6 DEF LockOK
<1>16. RestoreOK' /\ WorldOK' /\ SavingOK'
  BY <1>3, <1>5 DEF RestoreOK, WorldOK, SavingOK
<1>17. SaveOK'
  BY <1>3, <1>5, <1>11, NothingIsNothing DEF SaveOK
<1>18. LastOK'
  <2>1. SaveImage' = Nothing
    BY <1>11 DEF SaveImage
  <2>2. LockImage' = Nothing
    BY <1>1, <1>3, <1>12, LockImageIsNext
  <2> QED
    BY <1>3, <1>4, <1>5, <2>1, <2>2 DEF LastOK, Kept
<1> QED
  BY <1>13, <1>14, <1>15, <1>16, <1>17, <1>18 DEF GameOK

LEMMA RecoverStateKeeps == ASSUME GameOK, RecoverState PROVE GameOK'
<1>1. /\ pc = "recState" /\ pc' = "recLevels" /\ lock' = Nothing
      /\ save' = IF lock.stage = "whole"
                 THEN [save EXCEPT !.part = "state", !.state = lock.state]
                 ELSE [save EXCEPT !.sound = FALSE]
      /\ UNCHANGED <<back, hackpid, here, core, floor, carried, exists, chkpt,
                     havestate, worth, hup, todo, file, last, saving, lost>>
  BY DEF RecoverState, Step, coreVars, runVars, history
<1>2. TypeOK /\ ControlOK /\ LockOK /\ SaveOK /\ LastOK
  BY DEF GameOK
<1>3. ~InGame' /\ ~Restoring'
  BY <1>1 DEF InGame, Restoring, Changing, WritingLock
<1>4. lock \in LockFile /\ lock # Nothing /\ lock.state \in State
  BY <1>1, <1>2 DEF LockOK, TypeOK, LockFile
<1>5. save \in SaveFile /\ ~save.whole /\ save.part = "level"
  BY <1>1, <1>2 DEF SaveOK, TypeOK
<1>6. /\ save' \in SaveFile /\ ~save'.whole
      /\ \/ lock.stage = "whole" /\ save'.part = "state" /\ save'.state = lock.state
         \/ save'.part = "level" /\ ~save'.sound
  <2>1. CASE lock.stage = "whole"
    BY <1>1, <1>4, <1>5, <2>1 DEF SaveFile
  <2>2. CASE lock.stage # "whole"
    BY <1>1, <1>4, <1>5, <2>2 DEF SaveFile
  <2> QED
    BY <2>1, <2>2
<1>7. save' # Nothing
  BY <1>6, NothingIsNothing
<1>8. TypeOK'
  BY <1>1, <1>2, <1>6 DEF TypeOK
<1>9. ControlOK'
  BY <1>1, <1>2 DEF ControlOK, Blank, Idle, Recovering, WritingLock, Changing, Saving
<1>10. LockOK'
  BY <1>1 DEF LockOK
<1>11. RestoreOK' /\ WorldOK' /\ SavingOK'
  BY <1>1, <1>3 DEF RestoreOK, WorldOK, SavingOK
<1>12. SaveOK'
  BY <1>1, <1>3, <1>6, <1>7 DEF SaveOK
<1>13. LastOK'
  <2>1. SaveImage' = Nothing /\ LockImage' = Nothing
    BY <1>1, <1>6 DEF SaveImage, LockImage
  <2> QED
    BY <1>1, <1>2, <1>3, <1>4, <1>6, <2>1 DEF LastOK, Kept
<1> QED
  BY <1>8, <1>9, <1>10, <1>11, <1>12, <1>13 DEF GameOK

LEMMA RecoverLevelKeeps == ASSUME GameOK, RecoverLevel PROVE GameOK'
<1>1. PICK l : l = Min(Left)
  OBVIOUS
<1>2. PICK f : f = file[l]
  OBVIOUS
<1>3. /\ pc = "recLevels" /\ pc' = pc /\ Left # {}
      /\ save' = [save EXCEPT !.levels[l] = f.items, !.sound = @ /\ f.whole]
      /\ file' = [file EXCEPT ![l] = Nothing]
      /\ UNCHANGED <<back, hackpid, here, core, floor, carried, exists, chkpt,
                     havestate, worth, hup, todo, lock, last, saving, lost>>
  BY <1>1, <1>2 DEF RecoverLevel, coreVars, runVars, history
<1>4. TypeOK /\ ControlOK /\ LockOK /\ SaveOK /\ LastOK
  BY DEF GameOK
<1>5. ~InGame' /\ ~Restoring'
  BY <1>3, <1>4 DEF InGame, Restoring, Changing, WritingLock
<1>6. l \in Level /\ f # Nothing /\ f \in LevelFile
  <2>1. Left \in SUBSET Level
    BY DEF Left
  <2>2. l \in Left
    BY <1>1, <1>3, <2>1, MinIsMember, Zenon
  <2> QED
    BY <1>2, <1>4, <2>2 DEF Left, TypeOK
<1>7. PICK items \in SUBSET Item : items = f.items
  BY <1>6 DEF LevelFile
<1>8. /\ save \in SaveFile /\ ~save.whole
      /\ save.part = "state" \/ (save.part = "level" /\ ~save.sound)
  BY <1>3, <1>4 DEF SaveOK, TypeOK
<1>9. PICK sound \in BOOLEAN : sound = (save.sound /\ f.whole)
  OBVIOUS
<1>10. PICK levels \in [Level -> (SUBSET Item) \cup {Nothing}] :
         levels = [save.levels EXCEPT ![l] = items]
  BY <1>7, <1>8 DEF SaveFile
<1>11. save' = [save EXCEPT !.levels = levels, !.sound = sound]
  BY <1>3, <1>7, <1>8, <1>9, <1>10 DEF SaveFile
<1>12. /\ save' \in SaveFile /\ ~save'.whole /\ save'.part = save.part
       /\ save'.state = save.state /\ save'.sound = sound
  BY <1>8, <1>11 DEF SaveFile
<1>13. save' # Nothing /\ (~save.sound => ~save'.sound)
  BY <1>9, <1>12, NothingIsNothing
<1>14. file' \in [Level -> LevelFile \cup {Nothing}]
  BY <1>3, <1>4, <1>6, DeletedFile
<1>15. TypeOK'
  BY <1>3, <1>4, <1>12, <1>14 DEF TypeOK
<1>16. ControlOK'
  BY <1>3, <1>4 DEF ControlOK, Blank, Idle, Recovering, WritingLock, Changing, Saving
<1>17. LockOK'
  BY <1>3, <1>4 DEF LockOK
<1>18. RestoreOK' /\ WorldOK' /\ SavingOK'
  BY <1>3, <1>5 DEF RestoreOK, WorldOK, SavingOK
<1>19. SaveOK'
  BY <1>3, <1>5, <1>8, <1>12, <1>13 DEF SaveOK
<1>20. LastOK'
  <2>1. SaveImage' = Nothing /\ LockImage' = Nothing
    BY <1>3, <1>4, <1>12 DEF SaveImage, LockImage, LockOK
  <2> QED
    BY <1>3, <1>4, <1>5, <1>12, <2>1 DEF LastOK, Kept
<1> QED
  BY <1>15, <1>16, <1>17, <1>18, <1>19, <1>20 DEF GameOK

(* The inductive invariant holds at first, and every step keeps it. *)
LEMMA InitGameOK == Init => GameOK
<1> SUFFICES ASSUME Init PROVE GameOK
  OBVIOUS
<1>1. /\ pc = "shell" /\ back = "play" /\ hackpid = 0
      /\ here = 1 /\ core = FALSE /\ floor = {} /\ carried = {} /\ exists = {}
      /\ chkpt = TRUE /\ havestate = TRUE /\ worth = FALSE /\ hup = "no" /\ todo = {}
      /\ lock = Nothing /\ file = [l \in Level |-> Nothing] /\ save = Nothing
      /\ last = Nothing /\ saving = Nothing /\ lost = FALSE
  BY DEF Init
<1>2. TypeOK
  <2>1. 0 \in 0..MaxRuns /\ 1 \in Level
    BY LevelAssumption, BoundAssumption
  <2>2. [l \in Level |-> Nothing] \in [Level -> LevelFile \cup {Nothing}]
    OBVIOUS
  <2> QED
    BY <1>1, <2>1, <2>2 DEF TypeOK
<1>3. ControlOK
  BY <1>1 DEF ControlOK, Blank, Idle, Recovering, WritingLock, Changing, Saving
<1>4. ~InGame /\ ~Restoring /\ ~Kept
  BY <1>1 DEF InGame, Restoring, Changing, WritingLock, Kept
<1>5. LockOK /\ SaveOK /\ WorldOK /\ RestoreOK /\ SavingOK /\ LastOK
  BY <1>1, <1>4 DEF LockOK, SaveOK, WorldOK, RestoreOK, SavingOK, LastOK
<1> QED
  BY <1>2, <1>3, <1>5 DEF GameOK

LEMMA PlayerKeeps == ASSUME GameOK, Player PROVE GameOK'
<1>1. CASE GetLock
  BY <1>1, GetLockKeeps
<1>2. CASE Refuse
  BY <1>2, RefuseKeeps
<1>3. CASE EraseOldLocks
  BY <1>3, EraseOldLocksKeeps
<1>4. CASE RecoverOpen
  BY <1>4, RecoverOpenKeeps
<1>5. ASSUME NEW i \in Item, PickUp(i) \/ Drop(i) PROVE GameOK'
  BY <1>5, PickUpKeeps, DropKeeps
<1>6. CASE Toggle
  BY <1>6, ToggleKeeps
<1>7. CASE Done
  BY <1>7, DoneKeeps
<1>8. CASE RewriteLeft
  BY <1>8, RewriteLeftKeeps
<1>9. CASE dosave
  BY <1>9, dosaveKeeps
<1> QED
  BY <1>1, <1>2, <1>3, <1>4, <1>5, <1>6, <1>7, <1>8, <1>9 DEF Player

LEMMA ProgramKeeps == ASSUME GameOK, Program PROVE GameOK'
<1>1. CASE EraseOldLock
  BY <1>1, EraseOldLockKeeps
<1>2. CASE NewGame
  BY <1>2, NewGameKeeps
<1>3. CASE clearlocks
  BY <1>3, clearlocksKeeps
<1>4. CASE SaveLeft
  BY <1>4, SaveLeftKeeps
<1>5. ASSUME NEW new \in Level, AssignLevel(new) PROVE GameOK'
  BY <1>5, AssignLevelKeeps
<1>6. CASE MakeLevel
  BY <1>6, MakeLevelKeeps
<1>7. CASE GetLevel
  BY <1>7, GetLevelKeeps
<1>8. CASE Tricked
  BY <1>8, TrickedKeeps
<1>9. CASE BrokenLevel
  BY <1>9, BrokenLevelKeeps
<1>10. CASE RewriteHere
  BY <1>10, RewriteHereKeeps
<1>11. CASE SaveHere
  BY <1>11, SaveHereKeeps
<1>12. CASE LeaveLock
  BY <1>12, LeaveLockKeeps
<1>13. CASE CreateLock
  BY <1>13, CreateLockKeeps
<1>14. CASE WritePid
  BY <1>14, WritePidKeeps
<1>15. CASE WritePidOnly
  BY <1>15, WritePidOnlyKeeps
<1>16. CASE WriteHeader
  BY <1>16, WriteHeaderKeeps
<1>17. CASE WriteState
  BY <1>17, WriteStateKeeps
<1>18. CASE SaveRefused
  BY <1>18, SaveRefusedKeeps
<1>19. CASE SaveCreate
  BY <1>19, SaveCreateKeeps
<1>20. CASE SaveCurrent
  BY <1>20, SaveCurrentKeeps
<1>21. CASE SaveLevel
  BY <1>21, SaveLevelKeeps
<1>22. CASE SaveLevelGone
  BY <1>22, SaveLevelGoneKeeps
<1>23. CASE SaveLevelTricked
  BY <1>23, SaveLevelTrickedKeeps
<1>24. CASE SaveLevelBroken
  BY <1>24, SaveLevelBrokenKeeps
<1>25. CASE SaveClose
  BY <1>25, SaveCloseKeeps
<1>26. CASE SaveDropHere
  BY <1>26, SaveDropHereKeeps
<1>27. CASE SaveDropLock
  BY <1>27, SaveDropLockKeeps
<1>28. CASE StartRestore
  BY <1>28, StartRestoreKeeps
<1>29. CASE RestoreFails
  BY <1>29, RestoreFailsKeeps
<1>30. CASE RestoreState
  BY <1>30, RestoreStateKeeps
<1>31. CASE RestoreCreate
  BY <1>31, RestoreCreateKeeps
<1>32. CASE RestoreWrite
  BY <1>32, RestoreWriteKeeps
<1>33. CASE RestoreDone
  BY <1>33, RestoreDoneKeeps
<1>34. CASE RecoverNoLevel
  BY <1>34, RecoverNoLevelKeeps
<1>35. CASE RecoverCurrent
  BY <1>35, RecoverCurrentKeeps
<1>36. CASE RecoverState
  BY <1>36, RecoverStateKeeps
<1>37. CASE RecoverLevel
  BY <1>37, RecoverLevelKeeps
<1>38. CASE RecoverClose
  BY <1>38, RecoverCloseKeeps
<1>39. CASE UsefulData
  BY <1>39, UsefulDataKeeps
<1> QED
  BY <1>1, <1>2, <1>3, <1>4, <1>5, <1>6, <1>7, <1>8, <1>9, <1>10, <1>11,
     <1>12, <1>13, <1>14, <1>15, <1>16, <1>17, <1>18, <1>19, <1>20, <1>21,
     <1>22, <1>23, <1>24, <1>25, <1>26, <1>27, <1>28, <1>29, <1>30, <1>31,
     <1>32, <1>33, <1>34, <1>35, <1>36, <1>37, <1>38, <1>39 DEF Program

LEMMA StutterKeeps == ASSUME GameOK, UNCHANGED vars PROVE GameOK'
<1>1. UNCHANGED <<pc, back, hackpid, here, core, floor, carried, exists, chkpt, havestate,
                  worth, hup, todo, lock, file, save, last, saving, lost>>
  BY DEF vars, coreVars, runVars, diskVars, history
<1>2. LockImage' = LockImage /\ SaveImage' = SaveImage /\ World' = World
  BY <1>1, LockImageStays, SaveImageStays, WorldStays
<1>3. (InGame' <=> InGame) /\ (Restoring' <=> Restoring) /\ (Kept' <=> Kept)
      /\ (OnDisk' <=> OnDisk) /\ (Leftover' <=> Leftover) /\ (Torn' <=> Torn)
      /\ (LevelFreed' <=> LevelFreed) /\ (Blank' <=> Blank)
      /\ State0' = State0 /\ NextToRestore' = NextToRestore
      /\ \A l \in Level : ItemsIn(l)' = ItemsIn(l)
  BY <1>1, <1>2 DEF InGame, Restoring, Kept, OnDisk, Leftover, Torn, Midway, LevelFreed, Blank,
                    State0, NextToRestore, ItemsIn
<1>4. TypeOK' /\ ControlOK' /\ LockOK'
  BY <1>1, <1>3 DEF GameOK, TypeOK, ControlOK, LockOK
<1>5. SaveOK' /\ WorldOK'
  BY <1>1, <1>2, <1>3 DEF GameOK, SaveOK, WorldOK, Written
<1>6. RestoreOK'
  BY <1>1, <1>2, <1>3 DEF GameOK, RestoreOK, Written
<1>7. SavingOK' /\ LastOK'
  BY <1>1, <1>2, <1>3 DEF GameOK, SavingOK, LastOK
<1> QED
  BY <1>4, <1>5, <1>6, <1>7 DEF GameOK

(* The part of the inductive invariant that keeps itself: the program      *)
(* knows what is in the files that it works on, no item of a game is lost  *)
(* or doubled, and the game that should come back is where the next step   *)
(* of the program leaves it.                                               *)
THEOREM KnownFiles == Spec => []GameOK
<1>1. GameOK /\ [Next]_vars => GameOK'
  BY PlayerKeeps, ProgramKeeps, hangupKeeps, CrashKeeps, StutterKeeps DEF Next
<1> QED
  BY <1>1, InitGameOK, PTL DEF Spec

(* Nothing is lost or doubled in a game that is being played, whatever     *)
(* changes of level, saves, crashes and recoveries it has been through.    *)
LEMMA WorldHolds ==
  ASSUME GameOK, pc \in {"begin", "play"}, ~lost
  PROVE  /\ Conserved(World) /\ \A l \in exists \ {here} : Usable(file[l], hackpid)
         /\ \A l \in Level : World.at[l] # Nothing <=> l \in exists \cup {here}
<1>1. TypeOK /\ WorldOK
  BY DEF GameOK
<1>2. core /\ Conserved(World) /\ \A l \in exists \ {here} : Usable(file[l], hackpid)
  BY <1>1 DEF WorldOK, InGame, Changing
<1>3. \A l \in exists \ {here} : ItemsIn(l) # Nothing
  BY <1>1, <1>2, NothingIsNothing DEF Usable, ItemsIn, TypeOK, LevelFile
<1>4. floor # Nothing
  BY <1>1, NothingIsNothing DEF TypeOK
<1>5. \A l \in Level : World.at[l] = IF l = here THEN floor
                       ELSE IF l \in exists THEN ItemsIn(l) ELSE Nothing
  BY <1>2 DEF World
<1> QED
  BY <1>2, <1>3, <1>4, <1>5

THEOREM NothingLostOrDoubled == Spec => []AllThere
<1>1. GameOK => AllThere
  <2>1. SUFFICES ASSUME GameOK, pc \in {"begin", "play"}, ~lost PROVE AllThere
    BY DEF AllThere
  <2>2. /\ Conserved(World) /\ \A l \in exists \ {here} : Usable(file[l], hackpid)
        /\ \A l \in Level : World.at[l] # Nothing <=> l \in exists \cup {here}
    BY <2>1, WorldHolds
  <2>3. World.carried = carried /\ exists \subseteq Level
    BY <2>1 DEF World, GameOK, TypeOK
  <2>4. ASSUME NEW i \in Item
        PROVE  Cardinality(Places(i)) = IF MadeOn[i] \in exists \cup {here} THEN 1 ELSE 0
    <3>1. MadeOn[i] \in Level
      BY ItemAssumption
    <3>2. Places(i) = {l \in Level : HeldOn(World, l, i)}
                        \cup (IF i \in World.carried THEN {0} ELSE {})
      BY <2>2, <2>3 DEF Places, HeldOn
    <3>3. 0 \notin Level
      BY LevelAssumption
    <3>4. ASSUME MadeOn[i] \in exists \cup {here} PROVE \E x : Places(i) = {x}
      <4>1. i \in World.carried \/ \E l \in Level : HeldOn(World, l, i)
        BY <2>2, <3>1, <3>4 DEF Conserved
      <4>2. i \in World.carried => \A l \in Level : ~HeldOn(World, l, i)
        BY <2>2 DEF Conserved
      <4>3. \A l, k \in Level : HeldOn(World, l, i) /\ HeldOn(World, k, i) => l = k
        BY <2>2 DEF Conserved
      <4>4. CASE i \in World.carried
        <5>1. Places(i) = {0}
          BY <3>2, <4>2, <4>4
        <5> QED
          BY <5>1
      <4>5. CASE i \notin World.carried
        <5>1. PICK l \in Level : HeldOn(World, l, i)
          BY <4>1, <4>5
        <5>2. Places(i) = {l}
          BY <3>2, <4>3, <4>5, <5>1
        <5> QED
          BY <5>2
      <4> QED
        BY <4>4, <4>5
    <3>5. ASSUME MadeOn[i] \notin exists \cup {here} PROVE Places(i) = {}
      BY <2>2, <3>1, <3>2, <3>5 DEF Conserved
    <3> QED
      BY <3>4, <3>5, FS_Singleton, FS_EmptySet
  <2>5. \A l \in exists \ {here} : Kind(l) = "good"
    BY <2>2, <2>3, KindIs
  <2> QED
    BY <2>4, <2>5 DEF AllThere
<1> QED
  BY <1>1, KnownFiles, PTL

(* Outside the stretches in which the disk is behind, it is not. *)
LEMMA GameDurable ==
  ASSUME GameOK, Kept, ~Torn, ~Leftover, ~ChangingLevel, ~Collecting, pc # "clear"
  PROVE  OnDisk
<1>1. TypeOK /\ ControlOK /\ RestoreOK /\ SavingOK /\ LastOK
  BY DEF GameOK
<1>2. CASE Restoring
  BY <1>1, <1>2 DEF RestoreOK, OnDisk
<1>3. CASE ~Restoring
  <2>1. pc \in {"shell", "ask", "erase", "start", "restore", "recLevel", "begin", "play",
                "save", "saveCurrent", "saveLevels", "saveDone", "saveEnd"}
    BY <1>1, <1>3 DEF Restoring, WritingLock, ChangingLevel, Midway, Collecting, TypeOK,
                      Interruptible, ControlOK
  <2>2. pc = "saveLevels" => exists = lock.state.exists
    BY DEF Collecting
  <2>3. pc \in {"saveDone", "saveEnd"} => ~LevelFreed
    BY <1>1 DEF Torn, Midway, LevelFreed, ControlOK, WritingLock
  <2> QED
    BY <1>1, <2>1, <2>2, <2>3 DEF LastOK, SavingOK, OnDisk
<1> QED
  BY <1>2, <1>3

(* Whenever a crash comes, the game can be brought back from the disk, but *)
(* in the stretches of the program that Durable names.                     *)
THEOREM AlwaysDurable == Spec => []Durable
<1>1. GameOK => Durable
  BY GameDurable DEF Durable, Kept
<1> QED
  BY <1>1, KnownFiles, PTL

(* A restored game is the game that was to come back. *)
THEOREM RestoredExactly == Spec => RestoreExact
<1>1. ASSUME GameOK, Next, back = "restCreate", pc' = "begin", last # Nothing, ~lost
      PROVE  World' = last
  <2>1. pc \in {"restCreate", "restWrite", "clear"} \cup WritingLock
    BY <1>1 DEF GameOK, ControlOK
  <2>2. RestoreDone
    <3>1. ~Player /\ ~hangup /\ ~Crash
      BY <1>1, <2>1 DEF Player, GetLock, Refuse, EraseOldLocks, RecoverOpen, PickUp, Drop,
                        Toggle, Done, RewriteLeft, dosave, hangup, Crash, Gone, Step, WritingLock
    <3>2. Program
      BY <1>1, <3>1 DEF Next
    <3> QED
      BY <1>1, <2>1, <3>2
         DEF Program, EraseOldLock, NewGame, clearlocks, SaveLeft, AssignLevel, MakeLevel,
             GetLevel, Tricked, BrokenLevel, RewriteHere, SaveHere, LeaveLock, CreateLock,
             WritePid, WritePidOnly, WriteHeader, WriteState, UsefulData,
             SaveRefused, SaveCreate, SaveCurrent, SaveLevel, SaveLevelGone, SaveLevelTricked, SaveLevelBroken,
             SaveClose, SaveDropHere, SaveDropLock, StartRestore, RestoreFails, RestoreState,
             RestoreCreate, RestoreWrite, RecoverNoLevel, RecoverCurrent, RecoverState,
             RecoverLevel, RecoverClose, Gone, Step, AfterState, AfterArrival, WritingLock
  <2> QED
    BY <1>1, <2>2, RestoredWorld DEF Kept
<1>2. ASSUME GameOK, UNCHANGED vars, back = "restCreate" PROVE pc' # "begin"
  BY <1>2 DEF GameOK, ControlOK, WritingLock, vars
<1>3. GameOK /\ [Next]_vars =>
        (back = "restCreate" /\ pc' = "begin" /\ last # Nothing /\ ~lost => World' = last)
  BY <1>1, <1>2
<1> QED
  BY <1>3, KnownFiles, PTL DEF Spec, RestoreExact

(* The rest of the inductive invariant: what recover has collected, and    *)
(* what the level files are cleared for.                                   *)
LEMMA RecoverCurrentKnows ==
  ASSUME IInv, RecoverCurrent PROVE RecoverOK'
<1> DEFINE h == lock.state.here
<1>1. /\ pc = "recLevel" /\ pc' = "recState" /\ file[h] # Nothing
      /\ save' = [save EXCEPT !.part = "level", !.floor = file[h].items,
                              !.sound = file[h].whole]
      /\ file' = [file EXCEPT ![h] = Nothing]
      /\ UNCHANGED <<lock, last, lost>>
  BY DEF RecoverCurrent, Step, history
<1>2. SUFFICES ASSUME Kept PROVE RecoverOK'
  BY <1>1 DEF RecoverOK, Kept
<1>3. TypeOK /\ LockOK /\ SaveOK /\ LastOK
  BY DEF IInv, GameOK
<1>4. LockImage = last /\ save = EmptySave /\ LockImage # Nothing
  BY <1>1, <1>2, <1>3 DEF SaveOK, LastOK, Kept
<1>5. /\ lock.stage = "whole" /\ last.here = h /\ last.carried = lock.state.carried
      /\ \A l \in Level : file[l] # Nothing => file[l].whole
      /\ \A l \in lock.state.exists \cup {h} : file[l] # Nothing
      /\ \A l \in Level : last.at[l] = ItemsIn(l)
  BY <1>4, LockImageIs
<1>6. h \in Level /\ lock.state.exists \subseteq Level
  BY <1>1, <1>3 DEF LockOK, TypeOK, LockFile, State
<1>7. save' = [EmptySave EXCEPT !.part = "level", !.floor = file[h].items,
                                !.sound = file[h].whole]
  BY <1>1, <1>4
<1>8. /\ save'.sound = file[h].whole /\ save'.floor = file[h].items
      /\ save'.levels = Levels(Nothing)
  BY <1>7 DEF EmptySave
<1>9. /\ file'[h] = Nothing /\ \A l \in Level \ {h} : file'[l] = file[l]
      /\ \A l \in Level \ {h} : ItemsIn(l)' = ItemsIn(l)
  BY <1>1, <1>3, <1>6, DeletedFile
<1>10. \A l \in Level : save'.levels[l] = Nothing
  BY <1>8 DEF Levels
<1>11. \A l \in Level : file[l] # Nothing => ItemsIn(l) # Nothing
  BY <1>3, NothingIsNothing DEF ItemsIn, TypeOK, LevelFile
<1>12. last.at[h] = file[h].items /\ file[h].whole
  BY <1>1, <1>5, <1>6 DEF ItemsIn
<1>13. \A l \in Level \ {h} :
         last.at[l] = IF file'[l] # Nothing THEN ItemsIn(l)' ELSE save'.levels[l]
  BY <1>5, <1>9, <1>10 DEF ItemsIn
<1>14. lock' = lock /\ last' = last
  BY <1>1
<1> QED
  BY <1>1, <1>5, <1>6, <1>8, <1>9, <1>11, <1>12, <1>13, <1>14 DEF RecoverOK

LEMMA RecoverStateKnows ==
  ASSUME IInv, RecoverState PROVE RecoverOK'
<1>1. /\ pc = "recState" /\ pc' = "recLevels"
      /\ save' = IF lock.stage = "whole"
                 THEN [save EXCEPT !.part = "state", !.state = lock.state]
                 ELSE [save EXCEPT !.sound = FALSE]
      /\ UNCHANGED <<file, last, lost>>
  BY DEF RecoverState, Step, history
<1>2. SUFFICES ASSUME Kept PROVE RecoverOK'
  BY <1>1 DEF RecoverOK, Kept
<1> DEFINE h == lock.state.here
<1>3. /\ save.sound /\ lock.stage = "whole" /\ save.levels = Levels(Nothing)
      /\ last.here = h /\ last.carried = lock.state.carried
      /\ last.at[h] = save.floor /\ file[h] = Nothing
      /\ \A l \in Level \ {h} :
           /\ last.at[l] = IF file[l] # Nothing THEN ItemsIn(l) ELSE save.levels[l]
           /\ file[l] # Nothing => file[l].whole
           /\ l \in lock.state.exists => last.at[l] # Nothing
  BY <1>1, <1>2 DEF IInv, RecoverOK
<1>4. save # Nothing /\ save \in SaveFile
  BY <1>1 DEF IInv, GameOK, SaveOK, TypeOK
<1>5. /\ save'.part = "state" /\ save'.state = lock.state /\ save'.sound = save.sound
      /\ save'.floor = save.floor /\ save'.levels = save.levels
  BY <1>1, <1>3, <1>4 DEF SaveFile
<1>6. \A l \in Level : ItemsIn(l)' = ItemsIn(l)
  BY <1>1 DEF ItemsIn
<1> QED
  BY <1>1, <1>3, <1>5, <1>6 DEF RecoverOK

LEMMA RecoverLevelKnows ==
  ASSUME IInv, RecoverLevel PROVE RecoverOK'
<1>1. PICK l : l = Min(Left)
  OBVIOUS
<1>2. /\ pc = "recLevels" /\ pc' = pc /\ Left # {}
      /\ save' = [save EXCEPT !.levels[l] = file[l].items,
                              !.sound = @ /\ file[l].whole]
      /\ file' = [file EXCEPT ![l] = Nothing]
      /\ UNCHANGED <<last, lost>>
  BY <1>1 DEF RecoverLevel, history
<1>3. SUFFICES ASSUME Kept PROVE RecoverOK'
  BY <1>2 DEF RecoverOK, Kept
<1>4. Left \in SUBSET Level
  BY DEF Left
<1>5. l \in Level /\ file[l] # Nothing
  <2>1. Min(Left) \in Left
    BY <1>2, <1>4, MinIsMember, Zenon
  <2> QED
    BY <1>1, <2>1 DEF Left
<1>6. TypeOK /\ save # Nothing /\ save \in SaveFile
  BY <1>2 DEF IInv, GameOK, SaveOK, TypeOK
<1> DEFINE h == save.state.here
<1>7. /\ save.sound /\ save.part = "state"
      /\ last.here = h /\ last.carried = save.state.carried
      /\ last.at[h] = save.floor /\ file[h] = Nothing
      /\ \A k \in Level \ {h} :
           /\ last.at[k] = IF file[k] # Nothing THEN ItemsIn(k) ELSE save.levels[k]
           /\ file[k] # Nothing => file[k].whole
           /\ k \in save.state.exists => last.at[k] # Nothing
  BY <1>2, <1>3 DEF IInv, RecoverOK
<1>8. l # h /\ file[l].whole /\ last.at[l] = file[l].items
  BY <1>5, <1>7 DEF ItemsIn
<1>9. file[l] \in LevelFile
  BY <1>5, <1>6 DEF TypeOK
<1>10. PICK items \in SUBSET Item : items = file[l].items
  BY <1>9 DEF LevelFile
<1>11. /\ save'.sound /\ save'.part = save.part /\ save'.state = save.state
       /\ save'.floor = save.floor /\ save'.levels[l] = items
       /\ \A k \in Level \ {l} : save'.levels[k] = save.levels[k]
  <2>1. save.levels \in [Level -> (SUBSET Item) \cup {Nothing}]
    BY <1>6 DEF SaveFile
  <2>2. PICK levels : levels = [save.levels EXCEPT ![l] = items]
    OBVIOUS
  <2>3. levels[l] = items /\ \A k \in Level \ {l} : levels[k] = save.levels[k]
    BY <1>5, <2>1, <2>2
  <2>4. save' = [save EXCEPT !.levels = levels, !.sound = TRUE]
    BY <1>2, <1>6, <1>7, <1>8, <1>10, <2>2 DEF SaveFile
  <2> QED
    BY <1>6, <2>3, <2>4 DEF SaveFile
<1>12. /\ file'[l] = Nothing /\ \A k \in Level \ {l} : file'[k] = file[k]
       /\ \A k \in Level \ {l} : ItemsIn(k)' = ItemsIn(k)
  BY <1>2, <1>5, <1>6, DeletedFile
<1>13. h \in Level
  BY <1>6 DEF SaveFile, State
<1>14. save'.state.here = h /\ file'[h] = Nothing /\ last' = last
  BY <1>2, <1>7, <1>8, <1>11, <1>12, <1>13
<1>15. ASSUME NEW k \in Level \ {h}
       PROVE  /\ last.at[k] = IF file'[k] # Nothing THEN ItemsIn(k)' ELSE save'.levels[k]
              /\ file'[k] # Nothing => file'[k].whole
              /\ k \in save.state.exists => last.at[k] # Nothing
  <2>1. CASE k = l
    BY <1>7, <1>8, <1>10, <1>11, <1>12, <2>1
  <2>2. CASE k # l
    BY <1>7, <1>11, <1>12, <2>2
  <2> QED
    BY <2>1, <2>2
<1> QED
  BY <1>2, <1>7, <1>11, <1>14, <1>15 DEF RecoverOK

LEMMA RecoverKeeps ==
  ASSUME IInv, Next PROVE RecoverOK'
<1>1. SUFFICES ASSUME pc' \in {"recState", "recLevels"} PROVE RecoverOK'
  BY DEF RecoverOK
<1>2. ~Player /\ ~hangup /\ ~Crash
  BY <1>1 DEF IInv, GameOK, ControlOK, Player, GetLock, Refuse, EraseOldLocks, RecoverOpen,
              PickUp, Drop, Toggle, Done, RewriteLeft, dosave, hangup, Crash, Gone, Step
<1>3. Program
  BY <1>2 DEF Next
<1>4. back \in {"play", "restCreate"}
  BY DEF IInv, GameOK, TypeOK
<1>5. RecoverCurrent \/ RecoverState \/ RecoverLevel
  BY <1>1, <1>3, <1>4
     DEF Program, EraseOldLock, NewGame, clearlocks, SaveLeft, AssignLevel, MakeLevel,
         GetLevel, Tricked, BrokenLevel, RewriteHere, SaveHere, LeaveLock, CreateLock,
         WritePid, WritePidOnly, WriteHeader, WriteState, UsefulData,
         SaveRefused, SaveCreate, SaveCurrent, SaveLevel, SaveLevelGone, SaveLevelTricked,
         SaveLevelBroken, SaveClose, SaveDropHere, SaveDropLock, StartRestore, RestoreFails,
         RestoreState, RestoreCreate, RestoreWrite, RestoreDone, RecoverNoLevel,
         RecoverClose, Gone, Step, AfterState, AfterArrival
<1> QED
  BY <1>5, RecoverCurrentKnows, RecoverStateKnows, RecoverLevelKnows

(* Every game but one that has just begun is worth saving. *)
LEMMA WorthKeeps ==
  ASSUME IInv, GameOK', Next, Kept', InGame', pc' # "begin" PROVE worth'
<1>1. SUFFICES ASSUME pc' \in {"level", "write"} \cup WritingLock, back' = "play" PROVE worth'
  BY DEF GameOK, ControlOK, InGame, Changing, WritingLock
<1>2. ~Player /\ ~hangup /\ ~Crash
  BY <1>1 DEF IInv, GameOK, ControlOK, Player, GetLock, Refuse, EraseOldLocks, RecoverOpen,
              PickUp, Drop, Toggle, Done, RewriteLeft, dosave, hangup, Crash, Gone, Step,
              WritingLock
<1>3. Program
  BY <1>2 DEF Next
<1>4. back \in {"play", "restCreate"}
  BY DEF IInv, GameOK, TypeOK
<1>5. \/ NewGame \/ MakeLevel \/ GetLevel \/ RewriteHere \/ SaveHere
      \/ CreateLock \/ WritePid \/ WriteHeader \/ RestoreState
  BY <1>1, <1>3, <1>4
     DEF Program, EraseOldLock, clearlocks, SaveLeft, AssignLevel, Tricked, BrokenLevel,
         LeaveLock, WritePidOnly, WriteState, UsefulData, SaveRefused, SaveCreate,
         SaveCurrent, SaveLevel, SaveLevelGone, SaveLevelTricked, SaveLevelBroken, SaveClose,
         SaveDropHere, SaveDropLock, StartRestore, RestoreFails, RestoreCreate, RestoreWrite,
         RestoreDone, RecoverNoLevel, RecoverCurrent, RecoverState, RecoverLevel,
         RecoverClose, Gone, Step, AfterState, WritingLock
<1>6. ~NewGame /\ ~RestoreState
  BY <1>1 DEF NewGame, RestoreState, Kept
<1>7. /\ worth' = worth /\ back' = back /\ last' = last /\ lost' = lost
      /\ pc \in {"arrive", "level", "write"} \cup WritingLock
  BY <1>5, <1>6 DEF MakeLevel, GetLevel, RewriteHere, SaveHere, CreateLock, WritePid,
                    WriteHeader, Step, runVars, history, WritingLock
<1> QED
  BY <1>1, <1>7 DEF IInv, ClearOK, Kept, InGame, Changing, WritingLock

(* The level files that are cleared are of no game that can only be found  *)
(* in them, but where SIGHUP came made it so.                              *)
LEMMA ClearKnown ==
  ASSUME IInv, Next, Kept', pc' = "clear"
  PROVE  SaveImage' = last' \/ hup' \in {"ask", "begin", "left", "arrive", "refused"}
<1>1. TypeOK /\ ControlOK /\ WorldOK /\ RestoreOK /\ SavingOK /\ LastOK /\ ClearOK
  BY DEF IInv, GameOK
<1>2. Done \/ hangup \/ Tricked \/ SaveRefused \/ SaveLevelGone \/ SaveLevelTricked
  <2>1. back \in {"play", "restCreate"}
    BY <1>1 DEF TypeOK
  <2>2. ~Crash
    BY DEF Crash, Gone
  <2>3. Player => Done
    BY DEF Player, GetLock, Refuse, EraseOldLocks, RecoverOpen, PickUp, Drop, Toggle,
           RewriteLeft, dosave, Gone, Step
  <2>4. Program => Tricked \/ SaveRefused \/ SaveLevelGone \/ SaveLevelTricked
    BY <2>1
       DEF Program, EraseOldLock, NewGame, clearlocks, SaveLeft, AssignLevel, MakeLevel,
           GetLevel, BrokenLevel, RewriteHere, SaveHere, LeaveLock, CreateLock,
           WritePid, WritePidOnly, WriteHeader, WriteState, UsefulData, SaveCreate,
           SaveCurrent, SaveLevel, SaveLevelBroken, SaveClose, SaveDropHere, SaveDropLock,
           StartRestore, RestoreFails, RestoreState, RestoreCreate, RestoreWrite, RestoreDone,
           RecoverNoLevel, RecoverCurrent, RecoverState, RecoverLevel, RecoverClose, Gone,
           Step, AfterState, AfterArrival
  <2> QED
    BY <2>2, <2>3, <2>4 DEF Next
<1>3. ~Done
  BY DEF Done, Kept
<1>4. ~Tricked
  <2>1. SUFFICES ASSUME Tricked PROVE FALSE
    OBVIOUS
  <2>2. /\ pc = "arrive" /\ here \in exists /\ Kind(here) \in {"none", "foreign"} /\ ~lost
    BY <2>1 DEF Tricked, Step, history, Kept
  <2>3. Usable(file[here], hackpid)
    BY <1>1, <2>2 DEF WorldOK
  <2> QED
    BY <1>1, <2>2, <2>3, KindIs DEF TypeOK
<1>5. ~SaveLevelGone /\ ~SaveLevelTricked
  <2>1. SUFFICES ASSUME SaveLevelGone \/ SaveLevelTricked PROVE FALSE
    OBVIOUS
  <2>2. /\ pc = "saveLevels" /\ exists \ {here} # {} /\ ~lost
        /\ Kind(NextToSave) \in {"none", "foreign"}
    BY <2>1 DEF SaveLevelGone, SaveLevelTricked, Step, history, Kept
  <2>3. NextToSave \in exists \ {here} /\ NextToSave \in Level
    BY <1>1, <2>2, NextIsMember DEF TypeOK
  <2>4. Usable(file[NextToSave], hackpid)
    BY <1>1, <2>2, <2>3 DEF SavingOK
  <2> QED
    BY <2>2, <2>3, <2>4, KindIs
<1>6. ASSUME SaveRefused PROVE hup' = "refused"
  BY <1>6 DEF SaveRefused
<1>7. ASSUME hangup PROVE SaveImage' = last' \/ hup' \in {"ask", "begin", "left", "arrive", "refused"}
  <2>1. /\ pc \in Interruptible /\ hup' = pc /\ ~worth
        /\ UNCHANGED <<save, last, lost>>
    BY <1>7 DEF hangup, diskVars, history
  <2>2. Kept /\ SaveImage' = SaveImage
    BY <2>1, SaveImageStays DEF Kept
  <2>3. ~InGame \/ pc = "begin"
    BY <1>1, <2>1, <2>2 DEF ClearOK
  <2>4. pc \in {"ask", "begin", "erase", "start", "restore"} \/ Restoring
    BY <1>1, <2>1, <2>3
       DEF Interruptible, InGame, Restoring, Changing, WritingLock, TypeOK
  <2> QED
    BY <1>1, <2>1, <2>2, <2>4 DEF RestoreOK, LastOK
<1> QED
  BY <1>2, <1>3, <1>4, <1>5, <1>6, <1>7

LEMMA InitIInv == Init => IInv
BY InitGameOK DEF Init, IInv, RecoverOK, ClearOK, Kept

LEMMA StutterKeepsRest ==
  ASSUME IInv, UNCHANGED vars PROVE RecoverOK' /\ ClearOK'
<1>1. UNCHANGED <<pc, back, hackpid, worth, hup, lock, file, save, last, lost>>
  BY DEF vars, runVars, diskVars, history
<1>2. /\ SaveImage' = SaveImage /\ (Kept' <=> Kept) /\ (InGame' <=> InGame)
      /\ \A l \in Level : ItemsIn(l)' = ItemsIn(l)
  BY <1>1, SaveImageStays DEF Kept, InGame, ItemsIn
<1>3. RecoverOK'
  BY <1>1, <1>2 DEF IInv, RecoverOK
<1>4. ClearOK'
  BY <1>1, <1>2 DEF IInv, ClearOK
<1> QED
  BY <1>3, <1>4

(* The inductive invariant: the program knows what is in the files that it *)
(* works on, no item of a game is lost or doubled, and the game that       *)
(* should come back is where the next step of the program, or of recover,  *)
(* leaves it.                                                              *)
THEOREM KnownGame == Spec => []IInv
<1>1. IInv /\ [Next]_vars => GameOK'
  BY PlayerKeeps, ProgramKeeps, hangupKeeps, CrashKeeps, StutterKeeps DEF Next, IInv
<1>2. ASSUME IInv, Next PROVE RecoverOK' /\ ClearOK'
  <2>1. GameOK'
    BY <1>1, <1>2
  <2>2. Kept' /\ InGame' /\ pc' # "begin" => worth'
    BY <1>2, <2>1, WorthKeeps
  <2>3. Kept' /\ pc' = "clear" =>
          SaveImage' = last' \/ hup' \in {"ask", "begin", "left", "arrive", "refused"}
    BY <1>2, ClearKnown
  <2> QED
    BY <1>2, <2>2, <2>3, RecoverKeeps DEF ClearOK
<1>3. IInv /\ [Next]_vars => IInv'
  BY <1>1, <1>2, StutterKeepsRest DEF IInv
<1> QED
  BY <1>3, InitIInv, PTL DEF Spec

(* What a program that ends has lost was not on disk when it ended. *)
LEMMA GoneLoses ==
  ASSUME IInv, Gone, LosesGame PROVE pc' = "shell" /\ last' = last /\ ~OnDisk'
BY DEF IInv, GameOK, TypeOK, Gone, LosesGame

LEMMA KilledLoses ==
  ASSUME IInv, Gone, UNCHANGED diskVars, LosesGame
  PROVE  \/ ChangingLevel \/ Torn \/ Collecting \/ Leftover
         \/ hup \in {"ask", "begin", "left", "arrive", "refused"}
<1>1. UNCHANGED <<lock, file, save>> /\ Kept
  BY DEF diskVars, LosesGame, Kept
<1>2. LockImage' = LockImage /\ SaveImage' = SaveImage
  BY <1>1, LockImageStays, SaveImageStays
<1>3. ~OnDisk
  BY <1>2, GoneLoses DEF OnDisk
<1>4. CASE pc = "clear"
  BY <1>1, <1>3, <1>4 DEF IInv, ClearOK, OnDisk
<1>5. CASE pc # "clear"
  BY <1>1, <1>3, <1>5, GameDurable DEF IInv
<1> QED
  BY <1>4, <1>5

(* recover has put the whole game into the save file when it closes it. *)
LEMMA RecoveredWhole ==
  ASSUME IInv, RecoverClose, Kept PROVE SaveImage' = last
<1>1. /\ pc = "recLevels" /\ Left = {}
      /\ save' = [save EXCEPT !.whole = TRUE]
  BY DEF RecoverClose
<1>2. save # Nothing /\ save \in SaveFile /\ last \in Game
  BY <1>1 DEF IInv, GameOK, SaveOK, TypeOK, Kept
<1> DEFINE h == save.state.here
<1>3. /\ save.sound /\ last.here = h /\ last.carried = save.state.carried
      /\ last.at[h] = save.floor
      /\ \A l \in Level \ {h} :
           /\ last.at[l] = IF file[l] # Nothing THEN ItemsIn(l) ELSE save.levels[l]
           /\ l \in save.state.exists => last.at[l] # Nothing
  BY <1>1 DEF IInv, RecoverOK
<1>4. \A l \in Level : file[l] = Nothing
  BY <1>1 DEF Left
<1>5. /\ h \in Level /\ save.state.exists \subseteq Level
      /\ save.levels \in [Level -> (SUBSET Item) \cup {Nothing}]
  BY <1>2 DEF SaveFile, State
<1>6. \A l \in Level \ {h} : last.at[l] = save.levels[l]
  BY <1>3, <1>4
<1>7. \A l \in save.state.exists \ {h} : save.levels[l] # Nothing
  BY <1>3, <1>5, <1>6
<1>8. /\ save' \in SaveFile /\ save'.whole /\ save'.sound /\ save'.state = save.state
      /\ save'.floor = save.floor /\ save'.levels = save.levels
  BY <1>1, <1>2, <1>3 DEF SaveFile
<1>9. save' # Nothing
  BY <1>8, NothingIsNothing
<1>10. SaveImage' = [here |-> h, carried |-> save.state.carried,
                     at |-> [save.levels EXCEPT ![h] = save.floor]]
  BY <1>7, <1>8, <1>9 DEF SaveImage
<1>11. [save.levels EXCEPT ![h] = save.floor] = last.at
  <2>1. last.at \in [Level -> (SUBSET Item) \cup {Nothing}]
    BY <1>2 DEF Game
  <2> QED
    BY <1>3, <1>5, <1>6, <2>1
<1>12. last = [here |-> last.here, carried |-> last.carried, at |-> last.at]
  BY <1>2 DEF Game
<1> QED
  BY <1>3, <1>10, <1>11, <1>12

(* The steps that can lose a game. *)
LEMMA LosingSteps ==
  ASSUME Next, LosesGame
  PROVE  \/ Gone /\ UNCHANGED diskVars
         \/ clearlocks \/ SaveDropLock \/ RestoreFails \/ RecoverClose
         \/ EraseOldLocks \/ NewGame \/ Done \/ WritePidOnly \/ WriteState \/ SaveClose
         \/ RestoreDone \/ RecoverOpen
<1>1. ASSUME Player PROVE (Gone /\ UNCHANGED diskVars) \/ EraseOldLocks \/ RecoverOpen \/ Done
  BY <1>1 DEF LosesGame, Player, GetLock, Refuse, PickUp, Drop, Toggle, RewriteLeft, dosave,
              history
<1>2. ASSUME Program
      PROVE  \/ Gone /\ UNCHANGED diskVars
             \/ clearlocks \/ SaveDropLock \/ RestoreFails \/ RecoverClose
             \/ NewGame \/ WritePidOnly \/ WriteState \/ SaveClose \/ RestoreDone
  BY <1>2 DEF LosesGame, Program, EraseOldLock, SaveLeft, AssignLevel, MakeLevel, GetLevel,
              Tricked, BrokenLevel, RewriteHere, SaveHere, LeaveLock, CreateLock, WritePid,
              WriteHeader, UsefulData, SaveRefused, SaveCreate, SaveCurrent, SaveLevel,
              SaveLevelGone, SaveLevelTricked, SaveLevelBroken, SaveDropHere, StartRestore,
              RestoreState, RestoreCreate, RestoreWrite, RecoverNoLevel, RecoverCurrent,
              RecoverState, RecoverLevel, history
<1>3. hangup => FALSE
  BY DEF LosesGame, hangup, history
<1>4. Crash => Gone /\ UNCHANGED diskVars
  BY DEF Crash
<1> QED
  BY <1>1, <1>2, <1>3, <1>4 DEF Next

(* A game that could be brought back is lost only as LostOnlyIf lists: by  *)
(* the player's answer, by death, without checkpoints, by a new game over  *)
(* a restore cut short, by recover over a whole save, by a kill in the     *)
(* stretches of Durable, or by a SIGHUP at one of five places.  The steps  *)
(* that end a save, a restore and recover lose nothing.                    *)
THEOREM GameLostOnlyIf == Spec => LostOnlyIf
<1> DEFINE Listed ==
       \/ pc = "ask" /\ pc' = "erase"
       \/ pc = "play" /\ pc' = "clear"
       \/ ~chkpt /\ pc' \in {"play", "begin"}
       \/ pc = "start" /\ Unreadable
       \/ pc = "shell" /\ SaveImage = last
       \/ UNCHANGED diskVars /\ (ChangingLevel \/ Torn \/ Collecting \/ Leftover)
       \/ hup \in {"ask", "begin", "left", "arrive", "refused"}
<1>1. ASSUME IInv, Next, LosesGame PROVE Listed
  <2>1. TypeOK /\ ControlOK /\ SaveOK /\ RestoreOK /\ SavingOK /\ LastOK /\ ClearOK /\ Kept
    BY <1>1 DEF IInv, GameOK, LosesGame, Kept
  <2>2. CASE Gone /\ UNCHANGED diskVars
    BY <1>1, <2>2, KilledLoses
  <2>3. CASE clearlocks
    <3>1. pc = "clear" /\ Gone /\ SaveImage' = SaveImage
      BY <2>3, SaveImageStays DEF clearlocks
    <3>2. SaveImage # last
      BY <1>1, <3>1, GoneLoses DEF OnDisk
    <3> QED
      BY <2>1, <3>1, <3>2 DEF ClearOK
  <2>4. CASE SaveDropLock
    <3>1. pc = "saveEnd" /\ Gone /\ SaveImage' = SaveImage
      BY <2>4, SaveImageStays DEF SaveDropLock
    <3>2. SaveImage # last
      BY <1>1, <3>1, GoneLoses DEF OnDisk
    <3>3. LevelFreed
      BY <2>1, <3>1, <3>2 DEF SavingOK
    <3> QED
      BY <3>3 DEF LevelFreed
  <2>5. CASE RestoreFails
    <3>1. pc \in {"restore", "restCreate"} /\ Broken
      BY <2>5 DEF RestoreFails
    <3>2. SaveImage = last
      BY <2>1, <3>1 DEF LastOK, RestoreOK, Restoring
    <3> QED
      BY <2>1, <3>1, <3>2, SaveImageIs DEF Kept, Broken
  <2>6. CASE RecoverClose
    <3>1. SaveImage' = last /\ Gone
      BY <1>1, <2>1, <2>6, RecoveredWhole DEF RecoverClose
    <3> QED
      BY <1>1, <3>1, GoneLoses DEF OnDisk
  <2>7. CASE EraseOldLocks
    BY <2>7 DEF EraseOldLocks, Step
  <2>8. CASE NewGame
    <3>1. pc = "start" /\ ~CanRestore
      BY <2>8 DEF NewGame, Step
    <3>2. SaveImage = last
      BY <2>1, <3>1 DEF LastOK
    <3>3. save # Nothing /\ save.whole
      BY <2>1, <3>2, SaveImageIs DEF Kept
    <3>4. save.part # "empty"
      BY <2>1, <3>3 DEF SaveOK
    <3> QED
      BY <3>1, <3>3, <3>4 DEF CanRestore, Unreadable
  <2>9. CASE Done
    BY <2>9 DEF Done, Step
  <2>10. CASE WritePidOnly
    <3>1. back = "play" /\ ~chkpt
      BY <1>1, <2>10 DEF WritePidOnly, LosesGame
    <3> QED
      BY <2>10, <3>1 DEF WritePidOnly, AfterState
  <2>11. CASE WriteState
    <3>1. World # Nothing
      BY <2>1, WorldType, NothingIsNothing
    <3> QED
      BY <1>1, <2>11, <3>1 DEF WriteState, LosesGame
  <2>12. CASE SaveClose
    <3>1. saving \in Game
      BY <2>1, <2>12 DEF SaveClose, Step, SavingOK
    <3> QED
      BY <1>1, <2>12, <3>1, NothingIsNothing DEF SaveClose, LosesGame
  <2>13. CASE RestoreDone
    <3>1. pc = "restCreate" /\ pc' = "begin" /\ last' = (IF chkpt THEN last ELSE Nothing)
      BY <2>13 DEF RestoreDone, Step
    <3>2. SaveImage = last
      BY <2>1, <3>1 DEF RestoreOK, Restoring
    <3> QED
      BY <1>1, <2>13, <3>1, <3>2 DEF RestoreDone, LosesGame
  <2>14. CASE RecoverOpen
    <3>1. pc = "shell" /\ LockImage # last
      BY <1>1, <2>14 DEF RecoverOpen, Step, LosesGame
    <3> QED
      BY <2>1, <3>1 DEF LastOK, OnDisk
  <2> QED
    BY <1>1, <2>2, <2>3, <2>4, <2>5, <2>6, <2>7, <2>8, <2>9, <2>10, <2>11, <2>12, <2>13,
       <2>14, LosingSteps
<1>2. UNCHANGED vars => ~LosesGame
  BY DEF vars, history, LosesGame
<1>3. IInv /\ [Next]_vars => (LosesGame => Listed)
  BY <1>1, <1>2
<1> QED
  BY <1>3, KnownGame, PTL DEF Spec, LostOnlyIf

=============================================================================
