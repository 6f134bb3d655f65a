--------------------------- MODULE DownloadProofs ---------------------------
(***************************************************************************)
(* Server and client stay in step, and files arrive whole, until the       *)
(* client takes a late block: for every list of files, every window and    *)
(* every modulus of the block numbers that is greater than the window.     *)
(***************************************************************************)
EXTENDS Download, WellFoundedInduction, SequenceTheorems, TLAPS

LEMMA ModType ==
  ASSUME NEW M \in Nat \ {0}, NEW n \in Nat PROVE n % M \in 0..M - 1
  OBVIOUS

(* Numbers less than M apart differ modulo M. *)
LEMMA ModDiffers ==
  ASSUME NEW M \in Nat \ {0}, NEW n \in Nat, NEW k \in Nat, n < k, k < n + M
  PROVE  n % M # k % M
<1> DEFINE turns == (k \div M) - (n \div M)
<1> SUFFICES ASSUME n % M = k % M PROVE FALSE
  OBVIOUS
<1>1. /\ n = M * (n \div M) + (n % M) /\ k = M * (k \div M) + (k % M)
      /\ n \div M \in Int /\ k \div M \in Int
  OBVIOUS
<1>2. turns \in Int /\ k - n = M * turns
  BY <1>1
<1>3. turns >= 1
  BY <1>2
<1> HIDE DEF turns
<1>4. M * turns >= M
  BY <1>2, <1>3
<1> QED
  BY <1>2, <1>4

(* A nonempty set of natural numbers has a least element. *)
LEMMA LeastNat ==
  ASSUME NEW S, S \subseteq Nat, S # {}
  PROVE  \E n \in S : \A o \in S : n <= o
<1> DEFINE Less == {p \in Nat \X Nat : p[1] < p[2]}
<1>1. IsWellFoundedOn(Less, Nat)
  BY NatLessThanWellFounded, Zenon DEF OpToRel
<1>2. PICK n \in S : \A o \in S : <<o, n>> \notin Less
  BY <1>1, WFMin, Zenon
<1>3. \A o \in S : ~(o < n)
  BY <1>2
<1> QED
  BY <1>3

(* A bounded one has a greatest element. *)
LEMMA GreatestNat ==
  ASSUME NEW high \in Nat, NEW S, S \subseteq 0..high, S # {}
  PROVE  \E n \in S : \A o \in S : o <= n
<1> DEFINE T == {high - n : n \in S}
<1>1. T \subseteq Nat /\ T # {}
  <2>1. \A n \in S : n \in Nat /\ n <= high
    OBVIOUS
  <2>2. T \subseteq Nat
    BY <2>1
  <2> QED
    BY <2>2
<1>2. PICK t \in T : \A u \in T : t <= u
  BY <1>1, LeastNat
<1>3. PICK n \in S : t = high - n
  BY <1>2
<1>4. \A o \in S : high - o \in T
  OBVIOUS
<1> HIDE DEF T
<1>5. \A o \in S : high - n <= high - o
  BY <1>2, <1>3, <1>4
<1> QED
  BY <1>5

LEMMA SlotType ==
  \A n \in Nat : Slot(n) \in 0..MAX_DOWNLOAD_WINDOW - 1
BY WindowAssumption, ModType DEF Slot

LEMMA SlotDiffers ==
  ASSUME NEW n \in Nat, NEW k \in Nat, n < k, k < n + MAX_DOWNLOAD_WINDOW
  PROVE  Slot(n) # Slot(k)
BY WindowAssumption, ModDiffers DEF Slot

LEMMA FileFacts ==
  /\ File = 1..Len(Blocks) /\ Len(Blocks) \in Nat \ {0} /\ 1 \in File
  /\ \A f \in File : Blocks[f] \in Nat
<1>1. Blocks \in Seq(Nat) /\ Blocks # <<>>
  BY BlocksAssumption
<1>2. Len(Blocks) \in Nat /\ DOMAIN Blocks = 1..Len(Blocks)
  BY <1>1
<1>3. Len(Blocks) # 0
  BY <1>1, EmptySeq
<1> QED
  BY <1>1, <1>2, <1>3 DEF File

(* A file's number is not that of no file. *)
LEMMA NoFileIsNone ==
  /\ NoFile = 0 /\ NoFile \notin File
  /\ \A f \in File : f \in Nat /\ f > 0
BY FileFacts DEF NoFile

LEMMA MaxOfTwo ==
  \A m, n \in Int : Max({m, n}) = IF m >= n THEN m ELSE n
<1> SUFFICES ASSUME NEW m \in Int, NEW n \in Int
             PROVE  Max({m, n}) = IF m >= n THEN m ELSE n
  OBVIOUS
<1>1. \E x \in {m, n} : \A y \in {m, n} : x >= y
  OBVIOUS
<1>2. /\ Max({m, n}) \in {m, n}
      /\ \A y \in {m, n} : Max({m, n}) >= y
  BY <1>1, Zenon DEF Max
<1> QED
  BY <1>2

LEMMA MinOfTwo ==
  \A m, n \in Int : Min({m, n}) = IF m <= n THEN m ELSE n
<1> SUFFICES ASSUME NEW m \in Int, NEW n \in Int
             PROVE  Min({m, n}) = IF m <= n THEN m ELSE n
  OBVIOUS
<1>1. \E x \in {m, n} : \A y \in {m, n} : x =< y
  OBVIOUS
<1>2. /\ Min({m, n}) \in {m, n}
      /\ \A y \in {m, n} : Min({m, n}) =< y
  BY <1>1, Zenon DEF Min
<1> QED
  BY <1>2

LEMMA MaxIsMember ==
  ASSUME NEW high \in Nat, NEW S, S \subseteq 0..high, S # {}
  PROVE  Max(S) \in S
<1>1. PICK n \in S : \A o \in S : o <= n
  BY GreatestNat
<1>2. \A o \in S : o \in Int
  OBVIOUS
<1>3. \A o \in S : n >= o
  BY <1>1, <1>2
<1> QED
  BY <1>3, Zenon DEF Max

(* The limit of the window or of the file, whichever comes first, unless   *)
(* more has been read already.                                             *)
ReadEnd(c) ==
  LET limit == IF WindowEnd(c) <= Blocks[c.downloadName] + 1
               THEN WindowEnd(c) ELSE Blocks[c.downloadName] + 1
  IN  IF c.downloadCurrentBlock >= limit THEN c.downloadCurrentBlock ELSE limit

(* What reading ahead does to the window. *)
LEMMA FilledShape ==
  ASSUME NEW c \in Server, c.downloadName \in File
  PROVE  LET f    == c.downloadName
             end  == ReadEnd(c)
             d    == Filled(c)
         IN  /\ d \in Server
             /\ d.state = c.state /\ d.lastClientCommand = c.lastClientCommand
             /\ d.downloadName = f /\ d.download = c.download
             /\ d.downloadClientBlock = c.downloadClientBlock
             /\ d.downloadXmitBlock = c.downloadXmitBlock
             /\ d.downloadCurrentBlock = end
             /\ \A i \in 0..MAX_DOWNLOAD_WINDOW - 1 :
                  \/ /\ d.downloadBlocks[i] = c.downloadBlocks[i]
                     /\ \A n \in c.downloadCurrentBlock..end - 1 : Slot(n) # i
                  \/ \E n \in c.downloadCurrentBlock..end - 1 :
                       Slot(n) = i /\ d.downloadBlocks[i] = Block(f, n)
<1> DEFINE f    == c.downloadName
           end  == ReadEnd(c)
           read == c.downloadCurrentBlock..end - 1
           Here(i) == {n \in read : Slot(n) = i}
           blocks == [i \in 0..MAX_DOWNLOAD_WINDOW - 1 |->
                        IF Here(i) = {} THEN c.downloadBlocks[i]
                                        ELSE Block(f, Max(Here(i)))]
<1>1. /\ c.downloadCurrentBlock \in Nat /\ c.downloadClientBlock \in Nat
      /\ c.downloadBlocks \in [0..MAX_DOWNLOAD_WINDOW - 1 -> BlockData]
      /\ f \in File /\ Blocks[f] \in Nat
  BY FileFacts DEF Server
<1>2. WindowEnd(c) \in Nat
  BY <1>1, WindowAssumption DEF WindowEnd
<1>3. /\ end \in Nat
      /\ Max({c.downloadCurrentBlock, Min({WindowEnd(c), Blocks[f] + 1})}) = end
  <2> DEFINE low == Min({WindowEnd(c), Blocks[f] + 1})
  <2>1. low = IF WindowEnd(c) <= Blocks[f] + 1 THEN WindowEnd(c) ELSE Blocks[f] + 1
    <3>1. WindowEnd(c) \in Int /\ Blocks[f] + 1 \in Int
      BY <1>1, <1>2
    <3> QED
      BY <3>1, MinOfTwo, Zenon
  <2>2. low \in Nat
    BY <1>1, <1>2, <2>1
  <2> HIDE DEF low
  <2>3. Max({c.downloadCurrentBlock, low})
          = IF c.downloadCurrentBlock >= low THEN c.downloadCurrentBlock ELSE low
    <3>1. c.downloadCurrentBlock \in Int /\ low \in Int
      BY <1>1, <2>2
    <3> QED
      BY <3>1, MaxOfTwo, Zenon
  <2>4. end = IF c.downloadCurrentBlock >= low THEN c.downloadCurrentBlock ELSE low
    BY <2>1 DEF ReadEnd
  <2>5. Max({c.downloadCurrentBlock, low}) = end
    BY <2>3, <2>4
  <2> QED
    BY <1>1, <2>2, <2>4, <2>5 DEF low
<1> HIDE DEF end
<1>4. ASSUME NEW i \in 0..MAX_DOWNLOAD_WINDOW - 1, Here(i) # {}
      PROVE  Max(Here(i)) \in Here(i) /\ Max(Here(i)) \in Nat
  <2>1. Here(i) \subseteq 0..end
    BY <1>1, <1>3
  <2>2. PICK S : S = Here(i)
    OBVIOUS
  <2>3. Max(S) \in S
    BY <1>3, <1>4, <2>1, <2>2, MaxIsMember
  <2>4. Max(Here(i)) \in Here(i)
    BY <2>2, <2>3, Zenon
  <2> QED
    BY <2>1, <2>4
<1>5. blocks \in [0..MAX_DOWNLOAD_WINDOW - 1 -> BlockData]
  <2> SUFFICES ASSUME NEW i \in 0..MAX_DOWNLOAD_WINDOW - 1
               PROVE  (IF Here(i) = {} THEN c.downloadBlocks[i]
                                       ELSE Block(f, Max(Here(i)))) \in BlockData
    OBVIOUS
  <2>1. CASE Here(i) = {}
    BY <1>1, <2>1
  <2>2. CASE Here(i) # {}
    BY <1>1, <1>4, <2>2 DEF Block, BlockData
  <2> QED
    BY <2>1, <2>2
<1>6. Filled(c) = [c EXCEPT !.downloadCurrentBlock = end, !.downloadBlocks = blocks]
  <2> DEFINE top == Max({c.downloadCurrentBlock, Min({WindowEnd(c), Blocks[f] + 1})})
  <2>1. Filled(c) =
          [c EXCEPT !.downloadCurrentBlock = top,
                    !.downloadBlocks = [i \in DOMAIN c.downloadBlocks |->
                      LET here == {n \in c.downloadCurrentBlock..top - 1 : Slot(n) = i}
                      IN  IF here = {} THEN c.downloadBlocks[i]
                                       ELSE Block(f, Max(here))]]
    BY DEF Filled
  <2>2. top = end /\ DOMAIN c.downloadBlocks = 0..MAX_DOWNLOAD_WINDOW - 1
    BY <1>1, <1>3
  <2> HIDE DEF top
  <2> QED
    BY <2>1, <2>2
<1>7. \A i \in 0..MAX_DOWNLOAD_WINDOW - 1 :
        \/ /\ blocks[i] = c.downloadBlocks[i]
           /\ \A n \in read : Slot(n) # i
        \/ \E n \in read : Slot(n) = i /\ blocks[i] = Block(f, n)
  <2> SUFFICES ASSUME NEW i \in 0..MAX_DOWNLOAD_WINDOW - 1
               PROVE  \/ /\ blocks[i] = c.downloadBlocks[i]
                         /\ \A n \in read : Slot(n) # i
                      \/ \E n \in read : Slot(n) = i /\ blocks[i] = Block(f, n)
    OBVIOUS
  <2>1. CASE Here(i) = {}
    BY <2>1
  <2>2. CASE Here(i) # {}
    <3>1. Max(Here(i)) \in read /\ Slot(Max(Here(i))) = i
      BY <1>4, <2>2
    <3>2. blocks[i] = Block(f, Max(Here(i)))
      BY <2>2
    <3> HIDE DEF blocks, read
    <3> QED
      BY <3>1, <3>2
  <2> QED
    BY <2>1, <2>2
<1> HIDE DEF blocks
<1>8. /\ Filled(c) \in Server
      /\ Filled(c).state = c.state
      /\ Filled(c).lastClientCommand = c.lastClientCommand
      /\ Filled(c).downloadName = f /\ Filled(c).download = c.download
      /\ Filled(c).downloadClientBlock = c.downloadClientBlock
      /\ Filled(c).downloadXmitBlock = c.downloadXmitBlock
      /\ Filled(c).downloadCurrentBlock = end
      /\ Filled(c).downloadBlocks = blocks
  BY <1>1, <1>3, <1>5, <1>6 DEF Server
<1> QED
  BY <1>7, <1>8 DEF end

LEMMA OpenedShape ==
  ASSUME TypeOK, cl.downloadName # NoFile
  PROVE  LET c == Opened(cl)
         IN  /\ c \in Server
             /\ c.state = cl.state /\ c.lastClientCommand = cl.lastClientCommand
             /\ c.downloadName = cl.downloadName /\ c.downloadName \in File
             /\ c.download
             /\ IF cl.download THEN c = cl
                ELSE /\ c.downloadClientBlock = 0 /\ c.downloadCurrentBlock = 0
                     /\ c.downloadXmitBlock = 0
<1>1. cl \in Server
  BY DEF TypeOK
<1>2. CASE cl.download
  BY <1>1, <1>2 DEF Opened, Server
<1>3. CASE ~cl.download
  BY <1>1, <1>3 DEF Opened, Server
<1> QED
  BY <1>2, <1>3

(* Reading ahead fills the window with the blocks it should have.          *)
LEMMA WindowFilled ==
  ASSUME NEW c \in Server, c.downloadName \in File, WindowOK(c)
  PROVE  /\ WindowOK(Filled(c))
         /\ Filled(c).downloadClientBlock < Filled(c).downloadCurrentBlock
         /\ c.downloadCurrentBlock <= Filled(c).downloadCurrentBlock
<1> DEFINE f   == c.downloadName
           d   == Filled(c)
           end == ReadEnd(c)
<1>1. /\ c.downloadCurrentBlock \in Nat /\ c.downloadClientBlock \in Nat
      /\ c.downloadXmitBlock \in Nat /\ Blocks[f] \in Nat
      /\ WindowEnd(c) = c.downloadClientBlock + MAX_DOWNLOAD_WINDOW
      /\ MAX_DOWNLOAD_WINDOW \in Nat \ {0}
  BY FileFacts, WindowAssumption DEF Server, WindowEnd
<1>2. /\ d.downloadName = f /\ d.downloadClientBlock = c.downloadClientBlock
      /\ d.downloadXmitBlock = c.downloadXmitBlock
      /\ d.downloadCurrentBlock = end
      /\ \A i \in 0..MAX_DOWNLOAD_WINDOW - 1 :
           \/ /\ d.downloadBlocks[i] = c.downloadBlocks[i]
              /\ \A n \in c.downloadCurrentBlock..end - 1 : Slot(n) # i
           \/ \E n \in c.downloadCurrentBlock..end - 1 :
                Slot(n) = i /\ d.downloadBlocks[i] = Block(f, n)
  BY FilledShape
<1>3. /\ c.downloadClientBlock <= Blocks[f]
      /\ c.downloadClientBlock <= c.downloadCurrentBlock
      /\ c.downloadCurrentBlock <= WindowEnd(c)
      /\ c.downloadCurrentBlock <= Blocks[f] + 1
      /\ c.downloadXmitBlock <= c.downloadCurrentBlock
      /\ \A n \in 0..c.downloadCurrentBlock - 1 : c.downloadBlocks[Slot(n)].file = f
      /\ \A n \in c.downloadClientBlock..c.downloadCurrentBlock - 1 :
           c.downloadBlocks[Slot(n)] = Block(f, n)
  BY DEF WindowOK
<1>4. /\ end \in Nat /\ c.downloadCurrentBlock <= end
      /\ end <= WindowEnd(c) /\ end <= Blocks[f] + 1
      /\ c.downloadClientBlock < end
  BY <1>1, <1>3 DEF ReadEnd
<1> HIDE DEF d, end
<1>5. ASSUME NEW n \in 0..end - 1
      PROVE  \/ /\ d.downloadBlocks[Slot(n)] = c.downloadBlocks[Slot(n)]
                /\ n < c.downloadCurrentBlock
             \/ \E o \in c.downloadCurrentBlock..end - 1 :
                  /\ Slot(o) = Slot(n)
                  /\ d.downloadBlocks[Slot(n)] = Block(f, o)
  <2>1. n \in Nat /\ Slot(n) \in 0..MAX_DOWNLOAD_WINDOW - 1
    BY <1>4, SlotType
  <2>2. n < c.downloadCurrentBlock \/ n \in c.downloadCurrentBlock..end - 1
    BY <1>1, <1>4, <2>1
  <2> QED
    BY <1>2, <2>1, <2>2
<1>6. ASSUME NEW n \in 0..end - 1 PROVE d.downloadBlocks[Slot(n)].file = f
  <2>1. n < c.downloadCurrentBlock => n \in 0..c.downloadCurrentBlock - 1
    BY <1>1, <1>4
  <2>2. CASE n < c.downloadCurrentBlock
             /\ d.downloadBlocks[Slot(n)] = c.downloadBlocks[Slot(n)]
    BY <1>3, <2>1, <2>2
  <2>3. ASSUME NEW o \in c.downloadCurrentBlock..end - 1,
               d.downloadBlocks[Slot(n)] = Block(f, o)
        PROVE  d.downloadBlocks[Slot(n)].file = f
    BY <2>3 DEF Block
  <2> QED
    BY <1>5, <2>2, <2>3
<1>7. ASSUME NEW n \in c.downloadClientBlock..end - 1
      PROVE  d.downloadBlocks[Slot(n)] = Block(f, n)
  <2>1. /\ n \in Nat /\ n \in 0..end - 1
        /\ n < c.downloadCurrentBlock =>
             n \in c.downloadClientBlock..c.downloadCurrentBlock - 1
    BY <1>1, <1>4
  <2>2. ASSUME NEW o \in c.downloadCurrentBlock..end - 1, Slot(o) = Slot(n)
        PROVE  o = n
    <3>1. o \in Nat /\ o < n + MAX_DOWNLOAD_WINDOW /\ n < o + MAX_DOWNLOAD_WINDOW
      BY <1>1, <1>3, <1>4, <2>1
    <3>2. ~(o < n) /\ ~(n < o)
      BY <2>1, <2>2, <3>1, SlotDiffers
    <3> QED
      BY <2>1, <3>1, <3>2
  <2> QED
    BY <1>3, <1>5, <2>1, <2>2
<1>8. WindowEnd(d) = WindowEnd(c)
  BY <1>2 DEF WindowEnd
<1>9. WindowOK(d)
  BY <1>1, <1>2, <1>3, <1>4, <1>6, <1>7, <1>8 DEF WindowOK
<1> QED
  BY <1>2, <1>4, <1>9 DEF d

(* What is sent, and the window from which it is.                          *)
LEMMA NextToSendShape ==
  ASSUME NEW c \in Server
  PROVE  LET n == NextToSend(c)
         IN  /\ n \in Nat /\ Message(c, n) \in Messages
             /\ \/ n = c.downloadXmitBlock
                \/ /\ n = c.downloadClientBlock
                   /\ c.downloadXmitBlock = c.downloadCurrentBlock
<1> DEFINE n == NextToSend(c)
<1>1. /\ c.downloadCurrentBlock \in Nat /\ c.downloadClientBlock \in Nat
      /\ c.downloadXmitBlock \in Nat /\ c.lastClientCommand \in Nat
      /\ c.downloadBlocks \in [0..MAX_DOWNLOAD_WINDOW - 1 -> BlockData]
  BY DEF Server
<1>2. /\ n \in Nat
      /\ \/ n = c.downloadXmitBlock
         \/ n = c.downloadClientBlock /\ c.downloadXmitBlock = c.downloadCurrentBlock
  BY <1>1 DEF NextToSend
<1>3. n % BlockModulus \in Nat
  <2>1. BlockModulus \in Nat \ {0}
    BY ModulusAssumption, WindowAssumption
  <2> HIDE DEF n
  <2> QED
    BY <1>2, <2>1, ModType
<1>4. c.downloadBlocks[Slot(n)] \in BlockData
  BY <1>1, <1>2, SlotType
<1> HIDE DEF n
<1>5. Message(c, n) \in Messages
  BY <1>1, <1>2, <1>3, <1>4 DEF Message, Messages
<1> QED
  BY <1>2, <1>5 DEF n
-----------------------------------------------------------------------------
(* The types of what the actions use. *)
LEMMA TypeFacts ==
  ASSUME TypeOK
  PROVE  /\ cl \in Server /\ clc \in Client
         /\ commands \in Seq(Commands) /\ Len(commands) \in Nat
         /\ toClient \in Seq(Messages) /\ Len(toClient) \in Nat
         /\ DOMAIN toClient = 1..Len(toClient)
         /\ cl.lastClientCommand \in Nat /\ cl.lastClientCommand <= Len(commands)
         /\ cl.downloadName \in File \cup {NoFile} /\ cl.download \in BOOLEAN
         /\ cl.download => cl.downloadName \in File
         /\ cl.downloadCurrentBlock \in Nat /\ cl.downloadClientBlock \in Nat
         /\ cl.downloadXmitBlock \in Nat
         /\ clc.file \in File \cup {NoFile} /\ clc.downloadBlock \in Nat
         /\ clc.reliableAcknowledge \in Nat
         /\ clc.state = "downloading" => clc.file \in File
         /\ Pending \in Nat
         /\ Pending = Len(commands) - cl.lastClientCommand
<1>1. /\ cl \in Server /\ clc \in Client
      /\ commands \in Seq(Commands) /\ toClient \in Seq(Messages)
      /\ cl.lastClientCommand <= Len(commands)
      /\ cl.download => cl.downloadName # NoFile
      /\ clc.state = "downloading" => clc.file # NoFile
  BY DEF TypeOK
<1>2. /\ Len(commands) \in Nat /\ Len(toClient) \in Nat
      /\ DOMAIN toClient = 1..Len(toClient)
  BY <1>1
<1>3. /\ cl.lastClientCommand \in Nat
      /\ cl.downloadName \in File \cup {NoFile} /\ cl.download \in BOOLEAN
      /\ cl.downloadCurrentBlock \in Nat /\ cl.downloadClientBlock \in Nat
      /\ cl.downloadXmitBlock \in Nat
  BY <1>1 DEF Server
<1>4. /\ clc.file \in File \cup {NoFile} /\ clc.downloadBlock \in Nat
      /\ clc.reliableAcknowledge \in Nat
  BY <1>1 DEF Client
<1> QED
  BY <1>1, <1>2, <1>3, <1>4 DEF Pending

(* The server's state after a command.                                     *)
LEMMA ExecutedType ==
  ASSUME NEW c \in Server, NEW command \in Commands,
         c.download => c.downloadName # NoFile
  PROVE  /\ Executed(c, command) \in Server
         /\ Executed(c, command).download => Executed(c, command).downloadName # NoFile
<1>1. SV_CloseDownload(c) \in Server /\ ~SV_CloseDownload(c).download
  BY DEF SV_CloseDownload, Server
<1>2. CASE command.op = "download"
  <2>1. command.arg \in File
    BY <1>2 DEF Commands, StopDl, DoneDl
  <2>2. Executed(c, command) = [SV_CloseDownload(c) EXCEPT !.downloadName = command.arg]
    BY <1>2 DEF Executed
  <2> QED
    BY <1>1, <2>1, <2>2 DEF Server
<1>3. CASE command.op = "nextdl"
  <2>1. Executed(c, command) = SV_NextDownload_f(c, command.arg)
    BY <1>3 DEF Executed
  <2>2. /\ [SV_CloseDownload(c) EXCEPT !.state = "zombie"] \in Server
        /\ ~[SV_CloseDownload(c) EXCEPT !.state = "zombie"].download
    BY <1>1 DEF Server
  <2>3. /\ [c EXCEPT !.downloadClientBlock = @ + 1] \in Server
        /\ [c EXCEPT !.downloadClientBlock = @ + 1].download = c.download
        /\ [c EXCEPT !.downloadClientBlock = @ + 1].downloadName = c.downloadName
    BY DEF Server
  <2> QED
    BY <1>1, <2>1, <2>2, <2>3 DEF SV_NextDownload_f
<1>4. CASE command.op = "stopdl"
  <2>1. Executed(c, command) = SV_CloseDownload(c)
    BY <1>4 DEF Executed
  <2> QED
    BY <1>1, <2>1
<1>5. CASE command.op = "donedl"
  <2>1. Executed(c, command) = c
    BY <1>5 DEF Executed
  <2> QED
    BY <2>1
<1>6. command.op \in {"download", "nextdl", "stopdl", "donedl"}
  BY DEF Commands, StopDl, DoneDl
<1> QED
  BY <1>2, <1>3, <1>4, <1>5, <1>6

LEMMA ExecuteTypeOK ==
  ASSUME TypeOK, SV_ExecuteClientCommand PROVE TypeOK'
<1> DEFINE n == cl.lastClientCommand + 1
           e == Executed(cl, commands[n])
<1>1. /\ n \in Nat /\ n <= Len(commands) /\ commands[n] \in Commands
      /\ cl.download => cl.downloadName # NoFile
      /\ cl \in Server /\ cl.lastClientCommand \in Nat
  <2>1. /\ cl.download => cl.downloadName # NoFile
        /\ cl \in Server /\ cl.lastClientCommand \in Nat
        /\ commands \in Seq(Commands) /\ Len(commands) \in Nat
    BY TypeFacts DEF TypeOK
  <2>2. cl.lastClientCommand < Len(commands)
    BY DEF SV_ExecuteClientCommand
  <2>3. n \in 1..Len(commands)
    BY <2>1, <2>2
  <2> QED
    BY <2>1, <2>3
<1>2. e \in Server /\ (e.download => e.downloadName # NoFile)
  BY <1>1, ExecutedType
<1>3. cl' = [e EXCEPT !.lastClientCommand = n]
  BY DEF SV_ExecuteClientCommand
<1> HIDE DEF e
<1>4. /\ cl' \in Server /\ cl'.lastClientCommand = n
      /\ cl'.download => cl'.downloadName # NoFile
  BY <1>1, <1>2, <1>3 DEF Server
<1>5. UNCHANGED <<toClient, commands, clc>>
  BY DEF SV_ExecuteClientCommand
<1>6. \A i \in DOMAIN toClient :
        /\ toClient[i].reliableAcknowledge \in Nat
        /\ toClient[i].reliableAcknowledge <= n
  <2> SUFFICES ASSUME NEW i \in DOMAIN toClient
               PROVE  /\ toClient[i].reliableAcknowledge \in Nat
                      /\ toClient[i].reliableAcknowledge <= n
    OBVIOUS
  <2>1. toClient[i] \in Messages
    BY TypeFacts
  <2>2. toClient[i].reliableAcknowledge <= cl.lastClientCommand
    BY DEF TypeOK
  <2> QED
    BY <1>1, <2>1, <2>2 DEF Messages
<1> QED
  BY <1>1, <1>4, <1>5, <1>6 DEF TypeOK

(* A message of the client's file is of the file the server has open. *)
LEMMA OtherFile ==
  ASSUME MessagesOK, ~cl.download \/ cl.downloadName # clc.file
  PROVE  OfThisFile = {}
BY DEF MessagesOK, MessageOK

(* What is to be shown of the messages after a step. *)
LEMMA NewMessagesOK ==
  ASSUME NEW mail, mail = toClient',
         \A i \in DOMAIN mail : mail[i].data.file <= clc'.file,
         \A i \in DOMAIN mail : mail[i].data.file = clc'.file => MessageOK(mail[i])',
         \A i, j \in DOMAIN mail :
           (mail[i].data.file = clc'.file /\ mail[j].data.file = clc'.file /\ i < j)
             => mail[i].number < mail[j].number + MAX_DOWNLOAD_WINDOW
  PROVE  MessagesOK'
BY DEF MessagesOK, MessageOK, OfThisFile

(* The acknowledgement of the last block read is of the empty one, or the  *)
(* file goes on.                                                           *)
LEMMA NextAcknowledged ==
  ASSUME TypeOK, WindowOK(cl), NEW k \in 0..Pending, Acks(k), k > 0
  PROVE  /\ cl.download /\ cl.downloadName \in File
         /\ commands[cl.lastClientCommand + 1] = NextDl(cl.downloadClientBlock)
         /\ cl.downloadBlocks[Slot(cl.downloadClientBlock)]
              = Block(cl.downloadName, cl.downloadClientBlock)
         /\ IF cl.downloadClientBlock = Blocks[cl.downloadName]
            THEN k = 1 /\ SV_NextDownload_f(cl, cl.downloadClientBlock)
                            = SV_CloseDownload(cl)
            ELSE SV_NextDownload_f(cl, cl.downloadClientBlock)
                   = [cl EXCEPT !.downloadClientBlock = @ + 1]
<1> DEFINE f == cl.downloadName
           n == cl.downloadClientBlock
<1>1. /\ cl.download /\ f \in File /\ n \in Nat /\ f # NoFile
      /\ cl.downloadCurrentBlock \in Nat /\ Blocks[f] \in Nat
      /\ n + k <= cl.downloadCurrentBlock /\ cl.lastClientCommand \in Nat
  BY TypeFacts, FileFacts, NoFileIsNone DEF Acks
<1>2. 1 \in 1..k
  BY TypeFacts
<1>3. commands[cl.lastClientCommand + 1] = NextDl(n + 1 - 1)
  BY <1>2 DEF Acks
<1>4. commands[cl.lastClientCommand + 1] = NextDl(n)
  BY <1>1, <1>3
<1>5. n \in n..cl.downloadCurrentBlock - 1
  <2>1. PICK r \in Nat : r = cl.downloadCurrentBlock /\ n + k <= r /\ k \in Nat
    BY <1>1, TypeFacts
  <2>2. n \in n..r - 1
    BY <1>1, <2>1
  <2> QED
    BY <2>1, <2>2
<1>6. cl.downloadBlocks[Slot(n)] = Block(f, n)
  BY <1>5 DEF WindowOK
<1>7. Empty(Block(f, n)) <=> n = Blocks[f]
  BY <1>1 DEF Empty, Block
<1>8. CASE n = Blocks[f]
  <2>1. k = 1
    BY <1>1, <1>8, TypeFacts DEF WindowOK
  <2>2. SV_NextDownload_f(cl, n) = SV_CloseDownload(cl)
    BY <1>6, <1>7, <1>8 DEF SV_NextDownload_f
  <2> QED
    BY <1>1, <1>4, <1>6, <1>8, <2>1, <2>2
<1>9. CASE n # Blocks[f]
  <2>1. SV_NextDownload_f(cl, n) = [cl EXCEPT !.downloadClientBlock = @ + 1]
    BY <1>6, <1>7, <1>9 DEF SV_NextDownload_f
  <2> QED
    BY <1>1, <1>4, <1>6, <1>9, <2>1
<1> QED
  BY <1>8, <1>9

(* A block is acknowledged, and it is not the last. *)
LEMMA AcknowledgedSync ==
  ASSUME TypeOK, Sync, NEW k \in 0..Pending, CommandsOK(k), k > 0,
         clc.state = "downloading" => ClientOK(k),
         clc.state = "done" => EndOfFile(k) /\ ~NextAsked(k),
         cl.downloadClientBlock # Blocks[cl.downloadName],
         SV_ExecuteClientCommand
  PROVE  Sync'
<1>1. /\ cl.download /\ cl.downloadName \in File /\ cl \in Server
      /\ WindowOK(cl) /\ Acks(k)
      /\ commands[cl.lastClientCommand + 1] = NextDl(cl.downloadClientBlock)
      /\ SV_NextDownload_f(cl, cl.downloadClientBlock)
           = [cl EXCEPT !.downloadClientBlock = @ + 1]
  <2>1. WindowOK(cl) /\ Acks(k)
    BY TypeFacts DEF Sync, CommandsOK, Acks
  <2> QED
    BY <2>1, NextAcknowledged, TypeFacts
<1>2. PICK n \in Nat, r \in Nat, x \in Nat, e \in Nat, l \in Nat, b \in Nat :
        /\ n = cl.downloadClientBlock /\ r = cl.downloadCurrentBlock
        /\ x = cl.downloadXmitBlock /\ e = cl.lastClientCommand
        /\ l = Len(commands) /\ b = Blocks[cl.downloadName]
  BY <1>1, TypeFacts, FileFacts
<1>3. PICK p \in Nat : p = k - 1 /\ k = p + 1 /\ k \in Nat
  BY TypeFacts
<1>4. /\ n < b /\ n + k <= r /\ r <= n + MAX_DOWNLOAD_WINDOW /\ r <= b + 1 /\ x <= r
      /\ Pending = l - e /\ k <= l - e
  <2>1. /\ n <= b /\ n + k <= r /\ r <= n + MAX_DOWNLOAD_WINDOW /\ r <= b + 1 /\ x <= r
    BY <1>1, <1>2 DEF Acks, WindowOK, WindowEnd
  <2>2. n # b
    BY <1>2
  <2>3. Pending = l - e
    BY <1>2 DEF Pending
  <2>4. n < b
    BY <2>1, <2>2
  <2>5. k <= l - e
    BY <1>2, <2>3
  <2> QED
    BY <2>1, <2>3, <2>4, <2>5
<1>5. Executed(cl, NextDl(cl.downloadClientBlock)) = [cl EXCEPT !.downloadClientBlock = @ + 1]
  BY <1>1 DEF Executed, NextDl
<1>6. cl' = [cl EXCEPT !.downloadClientBlock = n + 1, !.lastClientCommand = e + 1]
  BY <1>1, <1>2, <1>5 DEF SV_ExecuteClientCommand
<1>7. /\ cl'.lastClientCommand = e + 1 /\ cl'.downloadClientBlock = n + 1
      /\ cl'.downloadCurrentBlock = r /\ cl'.downloadXmitBlock = x
  BY <1>1, <1>2, <1>6 DEF Server
<1>8. /\ cl'.state = cl.state /\ cl'.download = cl.download
      /\ cl'.downloadName = cl.downloadName
      /\ cl'.downloadCurrentBlock = cl.downloadCurrentBlock
      /\ cl'.downloadXmitBlock = cl.downloadXmitBlock
      /\ cl'.downloadBlocks = cl.downloadBlocks
      /\ commands' = commands /\ toClient' = toClient /\ clc' = clc
  BY <1>1, <1>6 DEF Server, SV_ExecuteClientCommand
(* the numbers *)
<1>9. /\ n + 1 <= b /\ n + 1 <= r /\ r <= (n + 1) + MAX_DOWNLOAD_WINDOW
      /\ (n + 1) + p = n + k /\ (e + 1) + p + 1 = e + k + 1
  <2>1. MAX_DOWNLOAD_WINDOW \in Nat
    BY WindowAssumption
  <2> QED
    BY <1>3, <1>4, <2>1
<1>10. /\ l - (e + 1) = p <=> l - e = k
       /\ l - (e + 1) = p + 1 <=> l - e = k + 1
       /\ l - (e + 1) > p <=> l - e > k
       /\ p \in 0..l - (e + 1)
  BY <1>3, <1>4
<1>11. Pending' = l - (e + 1) /\ Pending = l - e
  BY <1>2, <1>4, <1>7, <1>8 DEF Pending
<1>12. WindowOK(cl)'
  <2>1. WindowEnd(cl)' = (n + 1) + MAX_DOWNLOAD_WINDOW
    BY <1>7 DEF WindowEnd
  <2>2. ASSUME NEW i \in n + 1..r - 1 PROVE i \in n..r - 1
    OBVIOUS
  <2>3. /\ \A i \in 0..r - 1 : cl.downloadBlocks[Slot(i)].file = cl.downloadName
        /\ \A i \in n..r - 1 : cl.downloadBlocks[Slot(i)] = Block(cl.downloadName, i)
    BY <1>1, <1>2 DEF WindowOK
  <2>4. \A i \in n + 1..r - 1 : cl.downloadBlocks[Slot(i)] = Block(cl.downloadName, i)
    BY <2>2, <2>3
  <2> QED
    BY <1>2, <1>4, <1>7, <1>8, <1>9, <2>1, <2>3, <2>4 DEF WindowOK
<1>13. Acks(p)'
  <2>1. ASSUME NEW i \in 1..p
        PROVE  commands[(e + 1) + i] = NextDl((n + 1) + i - 1)
    <3>1. i + 1 \in 1..k /\ (e + 1) + i = e + (i + 1) /\ (n + 1) + i - 1 = n + (i + 1) - 1
      BY <1>3
    <3>2. commands[e + (i + 1)] = NextDl(n + (i + 1) - 1)
      BY <1>1, <1>2, <3>1 DEF Acks
    <3> QED
      BY <3>1, <3>2
  <2>2. (n + 1) + p <= r
    BY <1>4, <1>9
  <2> QED
    BY <1>1, <1>7, <1>8, <2>1, <2>2 DEF Acks
<1>14. /\ MidFile(k) => MidFile(p)'
       /\ EndOfFile(k) => EndOfFile(p)'
       /\ NextAsked(k) <=> NextAsked(p)'
       /\ AllDone(k) => AllDone(p)'
  <2>1. MidFile(k) => MidFile(p)'
    BY <1>2, <1>7, <1>8, <1>9, <1>10, <1>11 DEF MidFile
  <2>2. EndOfFile(k) => EndOfFile(p)'
    BY <1>2, <1>7, <1>8, <1>9 DEF EndOfFile
  <2>3. NextAsked(k) <=> NextAsked(p)'
    BY <1>8, <1>10, <1>11 DEF NextAsked
  <2>4. AllDone(k) => AllDone(p)'
    BY <1>2, <1>7, <1>8, <1>9, <1>10, <1>11 DEF AllDone
  <2> QED
    BY <2>1, <2>2, <2>3, <2>4
<1>15. CommandsOK(p)' /\ p \in 0..Pending'
  <2>1. p \in 0..Pending'
    BY <1>10, <1>11
  <2>2. MidFile(k) \/ (EndOfFile(k) /\ (NextAsked(k) \/ AllDone(k)))
    BY DEF CommandsOK
  <2>3. (MidFile(p) \/ (EndOfFile(p) /\ (NextAsked(p) \/ AllDone(p))))'
    BY <1>14, <2>2
  <2> QED
    BY <1>13, <2>1, <2>3 DEF CommandsOK
<1>16. ASSUME clc.state = "downloading" PROVE ClientOK(p)' /\ MessagesOK'
  <2>1. MessagesOK'
    BY <1>8, <1>16 DEF Sync, MessagesOK, MessageOK, OfThisFile
  <2>2. clc.written = [i \in 1..clc.downloadBlock |-> Block(clc.file, i - 1)]
    BY <1>16 DEF ClientOK
  <2>3. CASE Pending = k
    <3>1. Pending' = p
      BY <1>10, <1>11, <2>3
    <3>2. /\ cl.downloadName = clc.file /\ clc.downloadBlock = n + k
          /\ clc.downloadBlock <= x + MAX_DOWNLOAD_WINDOW
      BY <1>1, <1>2, <1>16, <2>3 DEF ClientOK
    <3>3. ClientOK(p)'
      BY <1>1, <1>7, <1>8, <1>9, <2>2, <3>1, <3>2 DEF ClientOK
    <3> QED
      BY <2>1, <3>3
  <2>4. CASE Pending # k
    <3>1. Pending' # p
      BY <1>10, <1>11, <2>4
    <3>2. /\ NextAsked(k) /\ commands[Len(commands)] = Download(clc.file)
          /\ clc.downloadBlock = 0 /\ (cl.download => cl.downloadName < clc.file)
      BY <1>16, <2>4 DEF ClientOK
    <3>3. ClientOK(p)'
      BY <1>8, <1>14, <2>2, <3>1, <3>2 DEF ClientOK
    <3> QED
      BY <2>1, <3>3
  <2> QED
    BY <2>3, <2>4
<1>17. clc.state = "done" => EndOfFile(p)' /\ ~NextAsked(p)'
  BY <1>14
<1>18. /\ \E q \in 0..Pending' :
            /\ CommandsOK(q)'
            /\ clc'.state = "downloading" => ClientOK(q)'
            /\ clc'.state = "done" => EndOfFile(q)' /\ ~NextAsked(q)'
       /\ clc'.state = "downloading" => MessagesOK'
  BY <1>8, <1>15, <1>16, <1>17
<1> QED
  BY <1>8, <1>12, <1>18 DEF Sync

(* The last block of a file is acknowledged: the server closes it. *)
LEMMA FileEndedSync ==
  ASSUME TypeOK, Sync, NEW k \in 0..Pending, CommandsOK(k), k > 0,
         clc.state = "downloading" => ClientOK(k),
         clc.state = "done" => EndOfFile(k) /\ ~NextAsked(k),
         cl.downloadClientBlock = Blocks[cl.downloadName],
         SV_ExecuteClientCommand
  PROVE  Sync'
<1> DEFINE n == cl.downloadClientBlock
<1>1. /\ cl.download /\ WindowOK(cl) /\ cl \in Server /\ k = 1
      /\ commands[cl.lastClientCommand + 1] = NextDl(n)
      /\ SV_NextDownload_f(cl, n) = SV_CloseDownload(cl)
  <2>1. WindowOK(cl) /\ Acks(k)
    BY TypeFacts DEF Sync, CommandsOK, Acks
  <2> QED
    BY <2>1, NextAcknowledged, TypeFacts
<1>2. Executed(cl, NextDl(n)) = SV_CloseDownload(cl)
  BY <1>1 DEF Executed, NextDl
<1>3. cl' = [SV_CloseDownload(cl) EXCEPT !.lastClientCommand = cl.lastClientCommand + 1]
  BY <1>1, <1>2 DEF SV_ExecuteClientCommand
<1>4. /\ cl'.lastClientCommand = cl.lastClientCommand + 1
      /\ cl'.state = cl.state /\ ~cl'.download /\ cl'.downloadName = NoFile
      /\ commands' = commands /\ toClient' = toClient /\ clc' = clc
  BY <1>1, <1>3 DEF Server, SV_CloseDownload, SV_ExecuteClientCommand
<1>5. /\ Pending \in Nat /\ Pending' = Pending - 1
  <2>1. cl'.lastClientCommand = cl.lastClientCommand + 1 /\ commands' = commands
    BY <1>4
  <2> QED
    BY <2>1, TypeFacts DEF Pending
<1>6. EndOfFile(0)' /\ Acks(0)' /\ 0 \in 0..Pending'
  <2>1. 1..0 = {} /\ ~(0 > 0)
    OBVIOUS
  <2>2. Pending >= 1
    BY <1>1, <1>5
  <2> QED
    BY <1>4, <1>5, <2>1, <2>2 DEF EndOfFile, Acks
<1>7. EndOfFile(1) /\ (NextAsked(1) \/ AllDone(1))
  <2>1. n \in Nat /\ ~(n + 1 <= n)
    BY TypeFacts
  <2>2. ~MidFile(1)
    BY <1>1, <2>1 DEF MidFile
  <2> QED
    BY <1>1, <2>2 DEF CommandsOK
<1>8. /\ NextAsked(1) => NextAsked(0)'
      /\ NextAsked(0)' => NextAsked(1)
      /\ AllDone(1) => AllDone(0)'
  <2>1. cl'.lastClientCommand + 0 + 1 = cl.lastClientCommand + 1 + 1
    BY <1>4, TypeFacts
  <2>2. /\ Pending - 1 = 0 + 1 <=> Pending = 1 + 1
        /\ Pending - 1 > 0 <=> Pending > 1
    BY <1>5
  <2> QED
    BY <1>4, <1>5, <2>1, <2>2 DEF NextAsked, AllDone
<1>9. CommandsOK(0)'
  BY <1>6, <1>7, <1>8 DEF CommandsOK
<1>10. ASSUME clc.state = "downloading" PROVE ClientOK(0)' /\ MessagesOK'
  <2>1. ClientOK(1) /\ Pending # 1
    BY <1>1, <1>5, <1>7, <1>10 DEF NextAsked, AllDone
  <2>2. /\ NextAsked(1) /\ commands[Len(commands)] = Download(clc.file)
        /\ clc.downloadBlock = 0 /\ cl.downloadName < clc.file
    BY <1>1, <2>1 DEF ClientOK
  <2>3. ClientOK(0)'
    <3>1. Pending' # 0
      BY <1>5, <2>1
    <3> QED
      BY <1>4, <1>8, <2>1, <2>2, <3>1 DEF ClientOK
  <2>4. cl.downloadName # clc.file
    <3>1. cl.downloadName \in Nat /\ clc.file \in Nat
      BY TypeFacts, NoFileIsNone
    <3> QED
      BY <2>2, <3>1
  <2>5. OfThisFile = {} /\ MessagesOK
    BY <1>10, <2>4, OtherFile DEF Sync
  <2>6. OfThisFile' = {}
    BY <1>4, <2>5 DEF OfThisFile
  <2> QED
    BY <1>4, <2>3, <2>5, <2>6 DEF MessagesOK
<1>11. clc.state = "done" => EndOfFile(0)' /\ ~NextAsked(0)'
  BY <1>1, <1>6, <1>8
<1>12. /\ \E q \in 0..Pending' :
            /\ CommandsOK(q)'
            /\ clc'.state = "downloading" => ClientOK(q)'
            /\ clc'.state = "done" => EndOfFile(q)' /\ ~NextAsked(q)'
       /\ clc'.state = "downloading" => MessagesOK'
  BY <1>4, <1>6, <1>9, <1>10, <1>11
<1> QED
  BY <1>4, <1>12 DEF Sync

(* The server executes the command after the acknowledgements.             *)
LEMMA AfterAcksSync ==
  ASSUME TypeOK, Sync, CommandsOK(0),
         clc.state = "downloading" => ClientOK(0),
         clc.state = "done" => EndOfFile(0) /\ ~NextAsked(0),
         SV_ExecuteClientCommand
  PROVE  Sync'
<1> DEFINE command == commands[cl.lastClientCommand + 1]
<1>1. /\ Pending \in Nat /\ Pending > 0 /\ cl.lastClientCommand \in Nat
      /\ Len(commands) \in Nat /\ Pending = Len(commands) - cl.lastClientCommand
  <2>1. cl.lastClientCommand < Len(commands)
    BY DEF SV_ExecuteClientCommand
  <2> QED
    BY <2>1, TypeFacts
<1>2. /\ cl \in Server /\ command \in Commands
  BY <1>1, TypeFacts
<1>3. /\ ~cl.download /\ cl.downloadName = NoFile
      /\ NextAsked(0) \/ AllDone(0)
  <2>1. EndOfFile(0) /\ (NextAsked(0) \/ AllDone(0))
    BY <1>1 DEF CommandsOK, MidFile
  <2>2. ASSUME cl.download PROVE FALSE
    <3>1. cl.downloadClientBlock <= Blocks[cl.downloadName]
      BY <2>2 DEF Sync, WindowOK
    <3>2. cl.downloadClientBlock + 0 = Blocks[cl.downloadName] + 1
      BY <2>1, <2>2 DEF EndOfFile
    <3>3. cl.downloadClientBlock \in Nat /\ Blocks[cl.downloadName] \in Nat
      BY <2>2, TypeFacts, FileFacts
    <3> QED
      BY <3>1, <3>2, <3>3
  <2> QED
    BY <2>1, <2>2 DEF EndOfFile
<1>4. /\ cl' = [Executed(cl, command) EXCEPT !.lastClientCommand = cl.lastClientCommand + 1]
      /\ commands' = commands /\ toClient' = toClient /\ clc' = clc
  BY DEF SV_ExecuteClientCommand
<1>5. CASE NextAsked(0)
  <2>1. Pending = 1 /\ Len(commands) = cl.lastClientCommand + 1
    BY <1>1, <1>5 DEF NextAsked
  <2>2. command.op = "download" /\ command.arg \in File
    BY <1>2, <1>5, <2>1 DEF NextAsked, Commands, StopDl, DoneDl
  <2> HIDE DEF command
  <2>3. Executed(cl, command) = [SV_CloseDownload(cl) EXCEPT !.downloadName = command.arg]
    BY <2>2 DEF Executed
  <2>4. /\ cl'.lastClientCommand = cl.lastClientCommand + 1
        /\ cl'.state = cl.state /\ ~cl'.download
        /\ cl'.downloadName = command.arg
    BY <1>2, <1>4, <2>3 DEF Server, SV_CloseDownload
  <2>5. Pending' = 0 /\ 0 \in 0..Pending'
    <3>1. Pending' = Len(commands) - (cl.lastClientCommand + 1)
      BY <1>4, <2>4 DEF Pending
    <3> QED
      BY <1>1, <2>1, <3>1
  <2>6. CommandsOK(0)'
    <3>1. 1..0 = {} /\ ~(0 > 0)
      OBVIOUS
    <3> QED
      BY <2>4, <2>5, <3>1 DEF CommandsOK, Acks, MidFile
  <2>7. ASSUME clc.state = "downloading" PROVE ClientOK(0)' /\ MessagesOK'
    <3>1. /\ command = Download(clc.file) /\ clc.downloadBlock = 0
          /\ clc.written = [i \in 1..clc.downloadBlock |-> Block(clc.file, i - 1)]
      BY <2>1, <2>7 DEF ClientOK, command
    <3>2. command.arg = clc.file
      BY <3>1 DEF Download
    <3>3. ClientOK(0)'
      BY <1>4, <2>4, <2>5, <3>1, <3>2 DEF ClientOK
    <3>4. OfThisFile = {} /\ MessagesOK
      BY <1>3, <2>7, OtherFile DEF Sync
    <3>5. OfThisFile' = {}
      BY <1>4, <3>4 DEF OfThisFile
    <3> QED
      BY <1>4, <3>3, <3>4, <3>5 DEF MessagesOK
  <2>8. clc.state # "done"
    BY <1>5
  <2>9. /\ \E q \in 0..Pending' :
             /\ CommandsOK(q)'
             /\ clc'.state = "downloading" => ClientOK(q)'
             /\ clc'.state = "done" => EndOfFile(q)' /\ ~NextAsked(q)'
        /\ clc'.state = "downloading" => MessagesOK'
    BY <1>4, <2>5, <2>6, <2>7, <2>8
  <2> QED
    BY <1>4, <2>4, <2>9 DEF Sync
<1>6. CASE AllDone(0)
  <2>1. cl.lastClientCommand + 1 \in cl.lastClientCommand + 0 + 1..Len(commands)
    BY <1>1
  <2>2. command \in {DoneDl, StopDl}
    BY <1>6, <2>1 DEF AllDone
  <2> HIDE DEF command
  <2>3. Executed(cl, command) \in {cl, SV_CloseDownload(cl)}
    BY <2>2 DEF Executed, DoneDl, StopDl
  <2>4. /\ cl'.lastClientCommand = cl.lastClientCommand + 1
        /\ cl'.state = cl.state /\ ~cl'.download
        /\ cl'.downloadName = NoFile
    <3>1. CASE Executed(cl, command) = cl
      BY <1>2, <1>3, <1>4, <3>1 DEF Server
    <3>2. CASE Executed(cl, command) = SV_CloseDownload(cl)
      BY <1>2, <1>4, <3>2 DEF Server, SV_CloseDownload
    <3> QED
      BY <2>3, <3>1, <3>2
  <2>5. Pending' = Pending - 1 /\ 0 \in 0..Pending'
    <3>1. Pending' = Len(commands) - (cl.lastClientCommand + 1)
      BY <1>4, <2>4 DEF Pending
    <3> QED
      BY <1>1, <3>1
  <2>6. Acks(0)' /\ EndOfFile(0)'
    <3>1. 1..0 = {} /\ ~(0 > 0)
      OBVIOUS
    <3> QED
      BY <2>4, <3>1 DEF Acks, EndOfFile
  <2>7. MidFile(0)' \/ AllDone(0)'
    <3>1. CASE Pending = 1
      BY <2>4, <2>5, <3>1 DEF MidFile
    <3>2. CASE Pending # 1
      <4>1. Pending' > 0
        BY <1>1, <2>5, <3>2
      <4>2. /\ cl'.lastClientCommand + 0 + 1 = cl.lastClientCommand + 2
            /\ \A i \in cl.lastClientCommand + 2..Len(commands) :
                 i \in cl.lastClientCommand + 0 + 1..Len(commands)
        BY <1>1, <2>4
      <4> QED
        BY <1>4, <1>6, <4>1, <4>2 DEF AllDone
    <3> QED
      BY <3>1, <3>2
  <2>8. CommandsOK(0)'
    BY <2>5, <2>6, <2>7 DEF CommandsOK
  <2>9. commands[Len(commands)].op # "download"
    <3>1. Len(commands) \in cl.lastClientCommand + 0 + 1..Len(commands)
      BY <1>1
    <3>2. commands[Len(commands)] \in {DoneDl, StopDl}
      BY <1>6, <3>1 DEF AllDone
    <3> QED
      BY <3>2 DEF DoneDl, StopDl
  <2>10. clc.state # "downloading"
    <3>1. Pending # 0 /\ ~NextAsked(0)
      BY <1>1, <2>9 DEF NextAsked
    <3> QED
      BY <3>1 DEF ClientOK
  <2>11. ~NextAsked(0)'
    BY <1>4, <2>9 DEF NextAsked
  <2>12. \E q \in 0..Pending' :
           /\ CommandsOK(q)'
           /\ clc'.state = "downloading" => ClientOK(q)'
           /\ clc'.state = "done" => EndOfFile(q)' /\ ~NextAsked(q)'
    BY <1>4, <2>5, <2>6, <2>8, <2>10, <2>11
  <2> QED
    BY <1>4, <2>4, <2>10, <2>12 DEF Sync
<1> QED
  BY <1>3, <1>5, <1>6

LEMMA ExecuteKeeps ==
  ASSUME IInv, SV_ExecuteClientCommand PROVE IInv'
<1>1. TypeOK /\ TypeOK'
  BY ExecuteTypeOK DEF IInv
<1>2. CASE clc.mixed
  BY <1>1, <1>2 DEF IInv, SV_ExecuteClientCommand
<1>3. CASE ~clc.mixed
  <2>1. Sync
    BY <1>3 DEF IInv
  <2>2. PICK k \in 0..Pending :
          /\ CommandsOK(k)
          /\ clc.state = "downloading" => ClientOK(k)
          /\ clc.state = "done" => EndOfFile(k) /\ ~NextAsked(k)
    BY <2>1 DEF Sync
  <2>3. k = 0 \/ k > 0
    BY <1>1, TypeFacts
  <2>4. CASE k = 0
    BY <1>1, <2>1, <2>2, <2>4, AfterAcksSync DEF IInv
  <2>5. CASE k > 0 /\ cl.downloadClientBlock = Blocks[cl.downloadName]
    BY <1>1, <2>1, <2>2, <2>5, FileEndedSync DEF IInv
  <2>6. CASE k > 0 /\ cl.downloadClientBlock # Blocks[cl.downloadName]
    BY <1>1, <2>1, <2>2, <2>6, AcknowledgedSync DEF IInv
  <2> QED
    BY <2>3, <2>4, <2>5, <2>6
<1> QED
  BY <1>2, <1>3

-----------------------------------------------------------------------------
(* What sending needs to know of the window it sends from. *)
LEMMA SendFacts ==
  ASSUME TypeOK, Sync, NEW k \in 0..Pending, CommandsOK(k), SendBlock
  PROVE  LET c == Filled(Opened(cl))
         IN  /\ WindowOK(c) /\ cl.downloadName \in File
             /\ c.downloadName = cl.downloadName /\ c.download
             /\ c.state = cl.state /\ c.lastClientCommand = cl.lastClientCommand
             /\ c.downloadClientBlock < c.downloadCurrentBlock
             /\ IF cl.download
                THEN /\ c.downloadClientBlock = cl.downloadClientBlock
                     /\ c.downloadXmitBlock = cl.downloadXmitBlock
                     /\ cl.downloadCurrentBlock <= c.downloadCurrentBlock
                ELSE /\ c.downloadClientBlock = 0 /\ c.downloadXmitBlock = 0
                     /\ k = 0 /\ Pending = 0 /\ ~EndOfFile(0)
<1> DEFINE o == Opened(cl)
           c == Filled(o)
<1>1. /\ o \in Server /\ o.downloadName = cl.downloadName /\ cl.downloadName \in File
      /\ o.download /\ o.state = cl.state /\ o.lastClientCommand = cl.lastClientCommand
      /\ IF cl.download THEN o = cl
         ELSE /\ o.downloadClientBlock = 0 /\ o.downloadCurrentBlock = 0
              /\ o.downloadXmitBlock = 0
  BY OpenedShape DEF SendBlock
<1> HIDE DEF o
<1>2. WindowOK(o)
  <2>1. CASE cl.download
    BY <1>1, <2>1 DEF Sync
  <2>2. CASE ~cl.download
    <3>1. Blocks[o.downloadName] \in Nat /\ WindowEnd(o) \in Nat
      BY <1>1, <2>2, FileFacts, WindowAssumption DEF WindowEnd
    <3>2. 0..0 - 1 = {}
      OBVIOUS
    <3> QED
      BY <1>1, <2>2, <3>1, <3>2 DEF WindowOK
  <2> QED
    BY <2>1, <2>2
<1>3. /\ WindowOK(c) /\ c.downloadClientBlock < c.downloadCurrentBlock
      /\ o.downloadCurrentBlock <= c.downloadCurrentBlock
  BY <1>1, <1>2, WindowFilled
<1>4. /\ c.downloadName = cl.downloadName /\ c.download
      /\ c.state = cl.state /\ c.lastClientCommand = cl.lastClientCommand
      /\ c.downloadClientBlock = o.downloadClientBlock
      /\ c.downloadXmitBlock = o.downloadXmitBlock
  BY <1>1, FilledShape
<1> HIDE DEF c
<1>5. CASE cl.download
  BY <1>1, <1>3, <1>4, <1>5 DEF c, o
<1>6. CASE ~cl.download
  <2>1. k = 0
    BY <1>6, TypeFacts DEF CommandsOK, Acks
  <2>2. ~EndOfFile(0)
    BY <1>1, <1>6, NoFileIsNone DEF EndOfFile
  <2>3. Pending = 0
    BY <2>1, <2>2 DEF CommandsOK, MidFile
  <2> QED
    BY <1>1, <1>3, <1>4, <1>6, <2>1, <2>2, <2>3 DEF c, o
<1> QED
  BY <1>5, <1>6

LEMMA SendTypeOK ==
  ASSUME TypeOK, SendBlock PROVE TypeOK'
<1> DEFINE c == Filled(Opened(cl))
           n == NextToSend(c)
           m == Message(c, n)
<1>1. /\ c \in Server /\ c.lastClientCommand = cl.lastClientCommand
      /\ c.downloadName = cl.downloadName /\ cl.downloadName # NoFile
  <2>1. cl.downloadName # NoFile
    BY DEF SendBlock
  <2>2. PICK o : o = Opened(cl)
    OBVIOUS
  <2>3. /\ o \in Server /\ o.downloadName \in File
        /\ o.downloadName = cl.downloadName
        /\ o.lastClientCommand = cl.lastClientCommand
    BY <2>1, <2>2, OpenedShape
  <2>4. /\ Filled(o) \in Server /\ Filled(o).downloadName = o.downloadName
        /\ Filled(o).lastClientCommand = o.lastClientCommand
    BY <2>3, FilledShape
  <2> QED
    BY <2>1, <2>2, <2>3, <2>4
<1>2. n \in Nat /\ m \in Messages
  BY <1>1, NextToSendShape
<1>3. m.reliableAcknowledge = cl.lastClientCommand
  BY <1>1 DEF Message
<1>4. /\ toClient' = Append(toClient, m)
      /\ cl' = [c EXCEPT !.downloadXmitBlock = n + 1]
      /\ commands' = commands /\ clc' = clc
  BY DEF SendBlock
<1> HIDE DEF c, n, m
<1>5. /\ cl' \in Server /\ cl'.lastClientCommand = cl.lastClientCommand
      /\ cl'.downloadName # NoFile
  <2>1. c \in Server /\ n + 1 \in Nat
    BY <1>1, <1>2
  <2>2. cl' = [c EXCEPT !.downloadXmitBlock = n + 1]
    BY <1>4
  <2>3. /\ cl' \in Server /\ cl'.lastClientCommand = c.lastClientCommand
        /\ cl'.downloadName = c.downloadName
    BY <2>1, <2>2 DEF Server
  <2> QED
    BY <1>1, <2>3
<1>6. toClient' \in Seq(Messages)
  BY <1>2, <1>4, TypeFacts
<1>7. ASSUME NEW i \in DOMAIN toClient'
      PROVE  toClient'[i].reliableAcknowledge <= cl.lastClientCommand
  <2>1. i \in DOMAIN toClient \/ toClient'[i] = m
    BY <1>2, <1>4, TypeFacts
  <2>2. cl.lastClientCommand \in Nat
    BY TypeFacts
  <2> QED
    BY <1>3, <1>4, <2>1, <2>2, TypeFacts DEF TypeOK
<1> QED
  BY <1>4, <1>5, <1>6, <1>7 DEF TypeOK

(* The server sends a block of the window, a window at most behind the     *)
(* last one it has sent.                                                   *)
LEMMA SendSync ==
  ASSUME TypeOK, Sync, SendBlock PROVE Sync'
<1> DEFINE c == Filled(Opened(cl))
           n == NextToSend(c)
           m == Message(c, n)
           f == cl.downloadName
<1>1. PICK k \in 0..Pending :
        /\ CommandsOK(k)
        /\ clc.state = "downloading" => ClientOK(k)
        /\ clc.state = "done" => EndOfFile(k) /\ ~NextAsked(k)
  BY DEF Sync
<1>2. /\ WindowOK(c) /\ f \in File /\ c.downloadName = f /\ c.download
      /\ c.state = cl.state /\ c.lastClientCommand = cl.lastClientCommand
      /\ c.downloadClientBlock < c.downloadCurrentBlock
      /\ IF cl.download
         THEN /\ c.downloadClientBlock = cl.downloadClientBlock
              /\ c.downloadXmitBlock = cl.downloadXmitBlock
              /\ cl.downloadCurrentBlock <= c.downloadCurrentBlock
         ELSE /\ c.downloadClientBlock = 0 /\ c.downloadXmitBlock = 0
              /\ k = 0 /\ Pending = 0 /\ ~EndOfFile(0)
  BY <1>1, SendFacts
<1>3. c \in Server
  <2>1. cl.downloadName # NoFile
    BY DEF SendBlock
  <2>2. PICK o : o = Opened(cl)
    OBVIOUS
  <2>3. o \in Server /\ o.downloadName \in File
    BY <2>1, <2>2, OpenedShape
  <2> QED
    BY <2>2, <2>3, FilledShape
<1>4. /\ n \in Nat /\ m \in Messages
      /\ \/ n = c.downloadXmitBlock
         \/ n = c.downloadClientBlock /\ c.downloadXmitBlock = c.downloadCurrentBlock
  BY <1>3, NextToSendShape
<1>5. /\ toClient' = Append(toClient, m)
      /\ cl' = [c EXCEPT !.downloadXmitBlock = n + 1]
      /\ commands' = commands /\ clc' = clc
  BY DEF SendBlock
<1>6. /\ m.block = n % BlockModulus /\ m.number = n
      /\ m.data = c.downloadBlocks[Slot(n)]
      /\ m.reliableAcknowledge = cl.lastClientCommand
  BY <1>2 DEF Message
<1> HIDE DEF c, n, m
<1>7. /\ cl'.state = cl.state /\ cl'.lastClientCommand = cl.lastClientCommand
      /\ cl'.downloadName = f /\ cl'.download
      /\ cl'.downloadClientBlock = c.downloadClientBlock
      /\ cl'.downloadCurrentBlock = c.downloadCurrentBlock
      /\ cl'.downloadXmitBlock = n + 1
      /\ cl'.downloadBlocks = c.downloadBlocks
  BY <1>2, <1>3, <1>5 DEF Server
(* the numbers *)
<1>8. /\ n \in Nat /\ k \in Nat /\ MAX_DOWNLOAD_WINDOW \in Nat \ {0}
      /\ c.downloadClientBlock \in Nat /\ c.downloadCurrentBlock \in Nat
      /\ c.downloadXmitBlock \in Nat /\ Blocks[f] \in Nat
      /\ WindowEnd(c) = c.downloadClientBlock + MAX_DOWNLOAD_WINDOW
      /\ cl.downloadCurrentBlock \in Nat /\ cl.downloadXmitBlock \in Nat
      /\ cl.downloadClientBlock \in Nat
  <2>1. Blocks[f] \in Nat
    BY <1>2, FileFacts
  <2>2. /\ c.downloadClientBlock \in Nat /\ c.downloadCurrentBlock \in Nat
        /\ c.downloadXmitBlock \in Nat
    BY <1>3 DEF Server
  <2> QED
    BY <1>4, <2>1, <2>2, TypeFacts, WindowAssumption DEF WindowEnd
<1>9. /\ c.downloadClientBlock <= c.downloadCurrentBlock
      /\ c.downloadCurrentBlock <= c.downloadClientBlock + MAX_DOWNLOAD_WINDOW
      /\ c.downloadXmitBlock <= c.downloadCurrentBlock
      /\ n < c.downloadCurrentBlock
  <2>1. /\ c.downloadClientBlock < c.downloadCurrentBlock
        /\ c.downloadCurrentBlock <= WindowEnd(c)
        /\ c.downloadXmitBlock <= c.downloadCurrentBlock
    BY <1>2 DEF WindowOK
  <2>2. n # c.downloadCurrentBlock
    BY <1>4, <1>8, <2>1 DEF NextToSend, n
  <2> QED
    BY <1>4, <1>8, <2>1, <2>2
<1>10. WindowOK(cl)'
  <2>1. WindowEnd(cl)' = WindowEnd(c)
    BY <1>7 DEF WindowEnd
  <2>2. n + 1 <= c.downloadCurrentBlock
    BY <1>8, <1>9
  <2> QED
    BY <1>2, <1>7, <2>1, <2>2 DEF WindowOK
(* the commands *)
<1>11. Pending' = Pending
  BY <1>5, <1>7 DEF Pending
<1>12. Acks(k)'
  <2>1. CASE cl.download
    <3>1. /\ cl'.downloadClientBlock = cl.downloadClientBlock
          /\ cl.downloadClientBlock + k <= cl'.downloadCurrentBlock
      <4>1. cl.downloadClientBlock + k <= cl.downloadCurrentBlock
        BY <1>1, <2>1 DEF CommandsOK, Acks
      <4>2. cl.downloadCurrentBlock <= c.downloadCurrentBlock
        BY <1>2, <2>1
      <4> QED
        BY <1>2, <1>7, <1>8, <2>1, <4>1, <4>2
    <3> QED
      BY <1>1, <1>5, <1>7, <2>1, <3>1 DEF CommandsOK, Acks
  <2>2. CASE ~cl.download
    <3>1. k = 0 /\ cl'.downloadClientBlock = 0 /\ 1..0 = {} /\ ~(0 > 0)
      BY <1>2, <1>7, <2>2
    <3>2. 0 + 0 <= c.downloadCurrentBlock
      BY <1>8
    <3> QED
      BY <1>7, <3>1, <3>2 DEF Acks
  <2> QED
    BY <2>1, <2>2
<1>13. /\ MidFile(k) => MidFile(k)'
       /\ EndOfFile(k) => EndOfFile(k)'
       /\ NextAsked(k) <=> NextAsked(k)'
       /\ AllDone(k) => AllDone(k)'
  <2>1. /\ NextAsked(k) <=> NextAsked(k)'
        /\ AllDone(k) => AllDone(k)'
    BY <1>5, <1>7, <1>11 DEF NextAsked, AllDone
  <2>2. CASE cl.download
    BY <1>2, <1>7, <1>11, <2>1, <2>2 DEF MidFile, EndOfFile
  <2>3. CASE ~cl.download
    <3>1. k = 0 /\ cl'.downloadClientBlock = 0 /\ ~EndOfFile(k)
      BY <1>2, <1>7, <2>3
    <3>2. 0 + 0 <= Blocks[f]
      BY <1>8
    <3> QED
      BY <1>7, <1>11, <2>1, <3>1, <3>2 DEF MidFile
  <2> QED
    BY <2>2, <2>3
<1>14. CommandsOK(k)' /\ k \in 0..Pending'
  <2>1. k \in 0..Pending'
    BY <1>11
  <2> QED
    BY <1>1, <1>12, <1>13, <2>1 DEF CommandsOK
(* the client *)
<1>15. ASSUME clc.state = "downloading", Pending = k
       PROVE  /\ f = clc.file /\ clc.downloadBlock = c.downloadClientBlock + k
              /\ clc.downloadBlock <= n + MAX_DOWNLOAD_WINDOW
  <2>1. /\ f = clc.file /\ clc.downloadBlock = c.downloadClientBlock + k
        /\ clc.downloadBlock <= c.downloadXmitBlock + MAX_DOWNLOAD_WINDOW
    <3>1. CASE cl.download
      BY <1>1, <1>2, <1>15, <3>1 DEF ClientOK
    <3>2. CASE ~cl.download
      <4>1. clc.downloadBlock = 0 /\ f \in {clc.file, NoFile}
        BY <1>1, <1>15, <3>2 DEF ClientOK
      <4>2. f # NoFile
        BY <1>2, NoFileIsNone
      <4> QED
        BY <1>2, <1>8, <3>2, <4>1, <4>2
    <3> QED
      BY <3>1, <3>2
  <2>2. c.downloadClientBlock + k <= c.downloadCurrentBlock
    BY <1>7, <1>12 DEF Acks
  <2> QED
    BY <1>4, <1>8, <1>9, <2>1, <2>2
<1>16. ASSUME clc.state = "downloading", Pending # k
       PROVE  /\ cl.download /\ f < clc.file
              /\ NextAsked(k) /\ commands[Len(commands)] = Download(clc.file)
              /\ clc.downloadBlock = 0
  BY <1>1, <1>2, <1>16 DEF ClientOK
<1>17. ASSUME clc.state = "downloading" PROVE ClientOK(k)'
  <2>1. clc.written = [i \in 1..clc.downloadBlock |-> Block(clc.file, i - 1)]
    BY <1>1, <1>17 DEF ClientOK
  <2>2. CASE Pending = k
    <3>1. clc.downloadBlock <= (n + 1) + MAX_DOWNLOAD_WINDOW
      <4>1. clc.downloadBlock \in Nat
        BY TypeFacts
      <4> QED
        BY <1>8, <1>15, <1>17, <2>2, <4>1
    <3> QED
      BY <1>5, <1>7, <1>11, <1>15, <1>17, <2>1, <2>2, <3>1 DEF ClientOK
  <2>3. CASE Pending # k
    BY <1>5, <1>7, <1>11, <1>13, <1>16, <1>17, <2>1, <2>3 DEF ClientOK
  <2> QED
    BY <2>2, <2>3

(* the messages *)
<1>18. ASSUME clc.state = "downloading" PROVE MessagesOK'
  <2>1. PICK mail, last : mail = toClient' /\ last = Len(toClient) + 1
    OBVIOUS
  <2>2. /\ DOMAIN mail = DOMAIN toClient \cup {last} /\ last \notin DOMAIN toClient
        /\ mail[last] = m
        /\ \A i \in DOMAIN toClient : mail[i] = toClient[i] /\ i < last
    BY <1>4, <1>5, <2>1, TypeFacts
  <2>3. /\ clc.downloadBlock \in Nat /\ clc.file \in Nat /\ f \in Nat
        /\ Len(commands) \in Nat /\ cl.lastClientCommand \in Nat
        /\ Pending = Len(commands) - cl.lastClientCommand
    BY <1>2, <1>18, TypeFacts, NoFileIsNone
  <2>4. MessagesOK
    BY <1>18 DEF Sync
  <2>5. m.data.file = f /\ f <= clc.file
    <3>1. n \in 0..c.downloadCurrentBlock - 1
      BY <1>8, <1>9
    <3>2. m.data.file = f
      BY <1>2, <1>6, <3>1 DEF WindowOK
    <3>3. f <= clc.file
      BY <1>15, <1>16, <1>18, <2>3
    <3> QED
      BY <3>2, <3>3
  <2>6. ASSUME NEW i \in DOMAIN toClient, toClient[i].data.file = clc.file
        PROVE  /\ toClient[i].number \in Nat /\ toClient[i].reliableAcknowledge \in Nat
               /\ MessageOK(toClient[i]) /\ cl.download
               /\ toClient[i].number < n + MAX_DOWNLOAD_WINDOW
               /\ toClient[i].number < c.downloadCurrentBlock
    <3>1. toClient[i].number \in Nat /\ toClient[i].reliableAcknowledge \in Nat
      <4>1. toClient[i] \in Messages
        BY TypeFacts
      <4> QED
        BY <4>1 DEF Messages
    <3>2. MessageOK(toClient[i])
      BY <2>4, <2>6 DEF MessagesOK, OfThisFile
    <3>3. /\ cl.download /\ toClient[i].number < cl.downloadCurrentBlock
          /\ toClient[i].number < cl.downloadXmitBlock + MAX_DOWNLOAD_WINDOW
      BY <3>2 DEF MessageOK
    <3>4. /\ cl.downloadCurrentBlock <= c.downloadCurrentBlock
          /\ c.downloadXmitBlock = cl.downloadXmitBlock
      BY <1>2, <3>3
    <3>5. /\ toClient[i].number < n + MAX_DOWNLOAD_WINDOW
          /\ toClient[i].number < c.downloadCurrentBlock
      BY <1>4, <1>8, <1>9, <3>1, <3>3, <3>4
    <3> QED
      BY <3>1, <3>2, <3>3, <3>5
  <2>7. ASSUME NEW i \in DOMAIN toClient, toClient[i].data.file = clc.file
        PROVE  MessageOK(mail[i])'
    <3>1. PICK o : o = toClient[i]
      OBVIOUS
    <3>2. /\ MessageOK(o) /\ o.number < c.downloadCurrentBlock
          /\ o.number < (n + 1) + MAX_DOWNLOAD_WINDOW
      BY <1>8, <2>6, <2>7, <3>1
    <3>3. MessageOK(o)'
      BY <1>2, <1>5, <1>7, <3>2 DEF MessageOK
    <3> QED
      BY <2>2, <3>1, <3>3
  <2>8. ASSUME f = clc.file PROVE MessageOK(mail[last])'
    <3>1. Pending = k
      BY <1>16, <1>18, <2>3, <2>8
    <3>2. /\ clc.downloadBlock = c.downloadClientBlock + k
          /\ clc.downloadBlock <= n + MAX_DOWNLOAD_WINDOW
      BY <1>15, <1>18, <3>1
    <3>3. n + (Len(commands) - cl.lastClientCommand)
            < clc.downloadBlock + MAX_DOWNLOAD_WINDOW
      <4>1. Len(commands) - cl.lastClientCommand = k
        BY <2>3, <3>1
      <4>2. n + k < (c.downloadClientBlock + k) + MAX_DOWNLOAD_WINDOW
        BY <1>8, <1>9
      <4> QED
        BY <3>2, <4>1, <4>2
    <3>4. n >= clc.downloadBlock => m.data = Block(clc.file, n)
      <4>1. n >= c.downloadClientBlock + k =>
              n \in c.downloadClientBlock..c.downloadCurrentBlock - 1
        BY <1>8, <1>9
      <4> QED
        BY <1>2, <1>6, <2>8, <3>2, <4>1 DEF WindowOK
    <3>5. n < (n + 1) + MAX_DOWNLOAD_WINDOW
      BY <1>8
    <3>6. PICK o : o = m
      OBVIOUS
    <3>7. MessageOK(o)'
      BY <1>5, <1>6, <1>7, <1>9, <2>8, <3>2, <3>3, <3>4, <3>5, <3>6 DEF MessageOK
    <3> QED
      BY <2>2, <3>6, <3>7
  <2>9. ASSUME NEW i \in DOMAIN mail
        PROVE  /\ mail[i].data.file <= clc'.file
               /\ mail[i].data.file = clc'.file => MessageOK(mail[i])'
    <3>1. CASE i = last
      BY <1>5, <2>2, <2>5, <2>8, <3>1
    <3>2. CASE i # last
      BY <1>5, <2>2, <2>4, <2>7, <3>2 DEF MessagesOK
    <3> QED
      BY <3>1, <3>2
  <2>10. ASSUME NEW i \in DOMAIN mail, NEW j \in DOMAIN mail, i < j,
               mail[i].data.file = clc'.file, mail[j].data.file = clc'.file
        PROVE  mail[i].number < mail[j].number + MAX_DOWNLOAD_WINDOW
    <3>1. i \in DOMAIN toClient /\ mail[i] = toClient[i]
      <4>1. last \in Nat /\ \A o \in DOMAIN mail : o \in Nat /\ o <= last
        BY <2>1, <2>2, TypeFacts
      <4>2. i # last
        BY <2>10, <4>1
      <4> QED
        BY <2>2, <4>2
    <3>2. CASE j = last
      BY <1>5, <1>6, <2>2, <2>6, <2>10, <3>1, <3>2
    <3>3. CASE j # last
      <4>1. j \in DOMAIN toClient /\ mail[j] = toClient[j]
        BY <2>2, <3>3
      <4> QED
        BY <1>5, <2>4, <2>10, <3>1, <4>1 DEF MessagesOK, OfThisFile
    <3> QED
      BY <3>2, <3>3
  <2> QED
    BY <2>1, <2>9, <2>10, NewMessagesOK
<1>19. clc.state = "done" => EndOfFile(k)' /\ ~NextAsked(k)'
  BY <1>1, <1>13
<1>20. /\ \E q \in 0..Pending' :
            /\ CommandsOK(q)'
            /\ clc'.state = "downloading" => ClientOK(q)'
            /\ clc'.state = "done" => EndOfFile(q)' /\ ~NextAsked(q)'
       /\ clc'.state = "downloading" => MessagesOK'
  BY <1>5, <1>14, <1>17, <1>18, <1>19
<1> QED
  BY <1>5, <1>7, <1>10, <1>20 DEF Sync

LEMMA SendKeeps ==
  ASSUME IInv, SendBlock PROVE IInv'
<1>1. TypeOK /\ TypeOK'
  BY SendTypeOK DEF IInv
<1>2. CASE clc.mixed
  BY <1>1, <1>2 DEF IInv, SendBlock
<1>3. CASE ~clc.mixed
  BY <1>1, <1>3, SendSync DEF IInv
<1> QED
  BY <1>2, <1>3

(* The server refuses a file, and the client has had none of its blocks.   *)
LEMMA RefuseKeeps ==
  ASSUME IInv, RefuseFile PROVE IInv'
<1>1. /\ TypeOK /\ ~cl.download /\ cl \in Server
      /\ cl' = [cl EXCEPT !.downloadName = NoFile]
      /\ toClient' = toClient /\ commands' = commands /\ clc' = clc
  BY TypeFacts DEF IInv, RefuseFile
<1>2. /\ cl' \in Server /\ cl'.state = cl.state
      /\ cl'.lastClientCommand = cl.lastClientCommand
      /\ cl'.download = cl.download /\ cl'.downloadName = NoFile
  BY <1>1 DEF Server
<1>3. TypeOK'
  BY <1>1, <1>2 DEF TypeOK
<1>4. ASSUME Sync PROVE Sync'
  <2>1. PICK k \in 0..Pending :
          /\ CommandsOK(k)
          /\ clc.state = "downloading" => ClientOK(k)
          /\ clc.state = "done" => EndOfFile(k) /\ ~NextAsked(k)
    BY <1>4 DEF Sync
  <2>2. k = 0 /\ Pending' = Pending
    BY <1>1, <1>2, <2>1, TypeFacts DEF CommandsOK, Acks, Pending
  <2>3. /\ Acks(k)' /\ EndOfFile(k)'
        /\ MidFile(k) => MidFile(k)'
        /\ NextAsked(k) <=> NextAsked(k)'
        /\ AllDone(k) => AllDone(k)'
    <3>1. 1..0 = {} /\ ~(0 > 0)
      OBVIOUS
    <3> QED
      BY <1>1, <1>2, <2>2, <3>1 DEF Acks, EndOfFile, MidFile, NextAsked, AllDone
  <2>4. CommandsOK(k)' /\ k \in 0..Pending'
    BY <2>1, <2>2, <2>3 DEF CommandsOK
  <2>5. ASSUME clc.state = "downloading" PROVE ClientOK(k)' /\ MessagesOK'
    <3>1. ClientOK(k)'
      BY <1>1, <1>2, <2>1, <2>2, <2>3, <2>5 DEF ClientOK
    <3>2. OfThisFile = {} /\ MessagesOK
      BY <1>1, <1>4, <2>5, OtherFile DEF Sync
    <3>3. OfThisFile' = {}
      BY <1>1, <3>2 DEF OfThisFile
    <3> QED
      BY <1>1, <3>1, <3>2, <3>3 DEF MessagesOK
  <2>6. /\ \E q \in 0..Pending' :
             /\ CommandsOK(q)'
             /\ clc'.state = "downloading" => ClientOK(q)'
             /\ clc'.state = "done" => EndOfFile(q)' /\ ~NextAsked(q)'
        /\ clc'.state = "downloading" => MessagesOK'
    BY <1>1, <2>1, <2>3, <2>4, <2>5
  <2> QED
    BY <1>1, <1>2, <1>4, <2>6 DEF Sync
<1> QED
  BY <1>1, <1>3, <1>4 DEF IInv

-----------------------------------------------------------------------------
LEMMA MessageTaken ==
  ASSUME TypeOK, toClient # <<>>, toClient' = Tail(toClient)
  PROVE  /\ toClient' \in Seq(Messages)
         /\ 1 \in DOMAIN toClient /\ Head(toClient) = toClient[1]
         /\ toClient[1] \in Messages
         /\ \A i \in DOMAIN toClient' :
              /\ i \in Nat /\ i + 1 \in DOMAIN toClient /\ 1 < i + 1
              /\ toClient'[i] = toClient[i + 1]
<1>1. toClient \in Seq(Messages) /\ Len(toClient) \in Nat
  BY TypeFacts
<1>2. Len(toClient) > 0 /\ DOMAIN toClient = 1..Len(toClient)
  BY <1>1, EmptySeq
<1>3. /\ toClient' \in Seq(Messages)
      /\ DOMAIN toClient' = 1..Len(toClient) - 1
      /\ \A i \in 1..Len(toClient) - 1 : toClient'[i] = toClient[i + 1]
  BY <1>1, <1>2
<1> QED
  BY <1>1, <1>2, <1>3

(* The message is lost, or what it says changes nothing but the client's   *)
(* state for an error and what it knows to have been acknowledged.         *)
LEMMA NothingTaken ==
  ASSUME TypeOK, Sync, toClient # <<>>, toClient' = Tail(toClient),
         cl' = cl, commands' = commands, clc'.damaged = clc.damaged,
         clc'.state = "error" \/ clc'.state = clc.state,
         clc'.file = clc.file, clc'.downloadBlock = clc.downloadBlock,
         clc'.written = clc.written
  PROVE  Sync'
<1>1. PICK k \in 0..Pending :
        /\ CommandsOK(k)
        /\ clc.state = "downloading" => ClientOK(k)
        /\ clc.state = "done" => EndOfFile(k) /\ ~NextAsked(k)
  BY DEF Sync
<1>2. Pending' = Pending
  BY DEF Pending
<1>3. /\ Acks(k) => Acks(k)'
      /\ MidFile(k) => MidFile(k)'
      /\ EndOfFile(k) => EndOfFile(k)'
      /\ NextAsked(k) <=> NextAsked(k)'
      /\ AllDone(k) => AllDone(k)'
  BY <1>2 DEF Acks, MidFile, EndOfFile, NextAsked, AllDone
<1>4. CommandsOK(k)' /\ k \in 0..Pending'
  BY <1>1, <1>2, <1>3 DEF CommandsOK
<1>5. clc'.state = "downloading" => ClientOK(k)'
  BY <1>1, <1>2, <1>3 DEF ClientOK
<1>6. ASSUME clc'.state = "downloading" PROVE MessagesOK'
  <2>1. PICK mail : mail = toClient'
    OBVIOUS
  <2>2. MessagesOK
    BY <1>6 DEF Sync
  <2>3. ASSUME NEW i \in DOMAIN mail
        PROVE  /\ mail[i].data.file <= clc'.file
               /\ mail[i].data.file = clc'.file => MessageOK(mail[i])'
    <3>1. i + 1 \in DOMAIN toClient /\ mail[i] = toClient[i + 1]
      BY <2>1, MessageTaken
    <3>2. PICK o : o = mail[i]
      OBVIOUS
    <3>3. o.data.file <= clc.file
      BY <2>2, <3>1, <3>2 DEF MessagesOK
    <3>4. o.data.file = clc.file => MessageOK(o)
      BY <2>2, <3>1, <3>2 DEF MessagesOK, OfThisFile
    <3>5. MessageOK(o) => MessageOK(o)'
      BY DEF MessageOK
    <3> QED
      BY <3>2, <3>3, <3>4, <3>5
  <2>4. ASSUME NEW i \in DOMAIN mail, NEW j \in DOMAIN mail, i < j,
               mail[i].data.file = clc'.file, mail[j].data.file = clc'.file
        PROVE  mail[i].number < mail[j].number + MAX_DOWNLOAD_WINDOW
    <3>1. /\ i \in Nat /\ i + 1 \in DOMAIN toClient /\ mail[i] = toClient[i + 1]
          /\ j \in Nat /\ j + 1 \in DOMAIN toClient /\ mail[j] = toClient[j + 1]
      BY <2>1, MessageTaken
    <3>2. i + 1 < j + 1
      BY <2>4, <3>1
    <3> QED
      BY <2>2, <2>4, <3>1, <3>2 DEF MessagesOK, OfThisFile
  <2> QED
    BY <2>1, <2>3, <2>4, NewMessagesOK
<1>7. clc'.state = "done" => EndOfFile(k)' /\ ~NextAsked(k)'
  BY <1>1, <1>3
<1>8. \E q \in 0..Pending' :
        /\ CommandsOK(q)'
        /\ clc'.state = "downloading" => ClientOK(q)'
        /\ clc'.state = "done" => EndOfFile(q)' /\ ~NextAsked(q)'
  BY <1>4, <1>5, <1>7
<1>9. WindowOK(cl) => WindowOK(cl)'
  BY DEF WindowOK, WindowEnd
<1> QED
  BY <1>6, <1>8, <1>9 DEF Sync

LEMMA LoseKeeps ==
  ASSUME IInv, Lose PROVE IInv'
<1>1. /\ TypeOK /\ toClient # <<>> /\ toClient' = Tail(toClient)
      /\ cl' = cl /\ commands' = commands /\ clc' = clc
  BY DEF IInv, Lose
<1>2. TypeOK'
  <2>1. \A i \in DOMAIN toClient' :
          toClient'[i].reliableAcknowledge <= cl.lastClientCommand
    BY <1>1, MessageTaken DEF TypeOK
  <2>2. toClient' \in Seq(Messages)
    BY <1>1, MessageTaken
  <2> QED
    BY <1>1, <2>1, <2>2 DEF TypeOK
<1>3. ASSUME Sync PROVE Sync'
  BY <1>1, <1>3, NothingTaken
<1> QED
  BY <1>1, <1>2, <1>3 DEF IInv

(* A state the client may be in, with the commands it has added.           *)
ClientFits(c, all) ==
  /\ c \in Client /\ all \in Seq(Commands)
  /\ c.reliableAcknowledge <= Len(all)
  /\ c.state = "downloading" => c.file # NoFile

LEMMA CommandsAdded ==
  ASSUME NEW c, NEW new \in Seq(Commands), NEW failure \in {"error", "overflow"},
         ClientFits(c, commands), CL_AddReliableCommands(c, new, failure)
  PROVE  ClientFits(clc', commands') /\ Len(commands) <= Len(commands')
<1>1. /\ c \in Client /\ commands \in Seq(Commands)
      /\ c.reliableAcknowledge \in Nat /\ c.reliableAcknowledge <= Len(commands)
      /\ c.state = "downloading" => c.file # NoFile
      /\ Len(commands) \in Nat /\ Len(new) \in Nat
  BY DEF ClientFits, Client
<1>2. CASE clc' = [c EXCEPT !.state = failure] /\ commands' = commands
  <2>1. /\ clc' \in Client /\ clc'.state = failure
        /\ clc'.reliableAcknowledge = c.reliableAcknowledge
    BY <1>1, <1>2 DEF Client
  <2> QED
    BY <1>1, <1>2, <2>1 DEF ClientFits
<1>3. CASE clc' = c /\ commands' = commands \o new
  <2>1. commands' \in Seq(Commands) /\ Len(commands') = Len(commands) + Len(new)
    BY <1>1, <1>3, ConcatProperties
  <2>2. Len(commands) <= Len(commands') /\ c.reliableAcknowledge <= Len(commands')
    BY <1>1, <2>1
  <2> QED
    BY <1>1, <1>3, <2>1, <2>2 DEF ClientFits
<1> QED
  BY <1>2, <1>3 DEF CL_AddReliableCommands

LEMMA MisreadFits ==
  ASSUME NEW c, NEW new \in Seq(Commands), ClientFits(c, commands), Misread(c, new)
  PROVE  ClientFits(clc', commands') /\ Len(commands) <= Len(commands')
<1>1. CASE CL_AddReliableCommands(c, new, "error")
  BY <1>1, CommandsAdded
<1>2. CASE clc' = [c EXCEPT !.state = "error"] /\ commands' = commands
  <2>1. /\ c \in Client /\ commands \in Seq(Commands)
        /\ c.reliableAcknowledge <= Len(commands)
    BY DEF ClientFits
  <2>2. /\ clc' \in Client /\ clc'.state = "error"
        /\ clc'.reliableAcknowledge = c.reliableAcknowledge
    BY <1>2, <2>1 DEF Client
  <2>3. Len(commands) \in Nat
    BY <2>1
  <2> QED
    BY <1>2, <2>1, <2>2, <2>3 DEF ClientFits
<1> QED
  BY <1>1, <1>2 DEF Misread

LEMMA NextFileFits ==
  ASSUME NEW c, NEW n \in Nat, ClientFits(c, commands), c.file \in File,
         c.state = "downloading", NextFile(c, n)
  PROVE  ClientFits(clc', commands') /\ Len(commands) <= Len(commands')
<1> DEFINE f    == c.file
           done == [c EXCEPT !.damaged = @ \/ ~Intact(f, c.written)]
           next == [done EXCEPT !.file = f + 1, !.downloadBlock = 0, !.written = <<>>]
           last == [done EXCEPT !.state = "done", !.file = NoFile, !.downloadBlock = 0,
                                !.written = <<>>]
<1>1. /\ c \in Client /\ commands \in Seq(Commands) /\ Len(commands) \in Nat
      /\ c.reliableAcknowledge <= Len(commands)
  BY DEF ClientFits
<1>2. /\ done \in Client /\ done.reliableAcknowledge = c.reliableAcknowledge
      /\ done.state = c.state /\ done.file = c.file
  <2>1. (c.damaged \/ ~Intact(f, c.written)) \in BOOLEAN
    BY <1>1 DEF Client
  <2>2. PICK b \in BOOLEAN : b = (c.damaged \/ ~Intact(f, c.written))
    BY <2>1
  <2>3. done = [c EXCEPT !.damaged = b]
    BY <2>2
  <2> HIDE DEF done
  <2> QED
    BY <1>1, <2>3 DEF Client
<1>3. <<>> \in Seq(BlockData)
  OBVIOUS
<1> HIDE DEF done
<1>4. /\ f + 1 \in File => next \in Client /\ next.file = f + 1
      /\ next.reliableAcknowledge = done.reliableAcknowledge
  BY <1>2, <1>3 DEF Client
<1>5. /\ last \in Client /\ last.state = "done"
      /\ last.reliableAcknowledge = done.reliableAcknowledge
  BY <1>2, <1>3 DEF Client
<1> HIDE DEF next, last
<1>6. NextDl(n) \in Commands /\ DoneDl \in Commands
  BY DEF Commands, NextDl
<1>7. CASE f + 1 \in File /\ CL_AddReliableCommands(next, <<NextDl(n), Download(f + 1)>>, "overflow")
  <2>1. Download(f + 1) \in Commands
    BY <1>7 DEF Commands, Download
  <2>2. <<NextDl(n), Download(f + 1)>> \in Seq(Commands)
    BY <1>6, <2>1
  <2>3. f + 1 # NoFile
    BY <1>7, NoFileIsNone
  <2>4. ClientFits(next, commands)
    BY <1>1, <1>2, <1>4, <1>7, <2>3 DEF ClientFits
  <2> QED
    BY <1>7, <2>2, <2>4, CommandsAdded
<1>8. CASE CL_AddReliableCommands(last, <<NextDl(n), DoneDl>>, "overflow")
  <2>1. <<NextDl(n), DoneDl>> \in Seq(Commands)
    BY <1>6
  <2>2. ClientFits(last, commands)
    BY <1>1, <1>2, <1>5 DEF ClientFits
  <2> QED
    BY <1>8, <2>1, <2>2, CommandsAdded
<1>9. CASE clc' = [done EXCEPT !.state = "error"] /\ commands' = commands
  <2>1. /\ clc' \in Client /\ clc'.state = "error"
        /\ clc'.reliableAcknowledge = done.reliableAcknowledge
    BY <1>2, <1>9 DEF Client
  <2> QED
    BY <1>1, <1>2, <1>9, <2>1 DEF ClientFits
<1> QED
  BY <1>7, <1>8, <1>9 DEF NextFile, done, next, last

LEMMA TakeBlockFits ==
  ASSUME NEW c, NEW m \in Messages, ClientFits(c, commands),
         c.state = "downloading", TakeBlock(c, m)
  PROVE  ClientFits(clc', commands') /\ Len(commands) <= Len(commands')
<1> DEFINE n     == c.downloadBlock
           taken == [c EXCEPT !.downloadBlock = n + 1,
                              !.mixed = @ \/ m.data.file # c.file]
           more  == [taken EXCEPT !.written = Append(@, m.data)]
<1>1. /\ c \in Client /\ commands \in Seq(Commands)
      /\ c.reliableAcknowledge <= Len(commands) /\ c.file # NoFile
      /\ n \in Nat /\ c.file \in File /\ m.data \in BlockData
  BY DEF ClientFits, Client, Messages
<1>2. /\ taken \in Client /\ taken.reliableAcknowledge = c.reliableAcknowledge
      /\ taken.state = c.state /\ taken.file = c.file
  <2>1. (c.mixed \/ m.data.file # c.file) \in BOOLEAN
    BY <1>1 DEF Client
  <2>2. PICK b \in BOOLEAN : b = (c.mixed \/ m.data.file # c.file)
    BY <2>1
  <2>3. taken = [c EXCEPT !.downloadBlock = n + 1, !.mixed = b]
    BY <2>2
  <2>4. c \in Client /\ n + 1 \in Nat
    BY <1>1
  <2> HIDE DEF taken, n
  <2> QED
    BY <2>2, <2>3, <2>4 DEF Client
<1> HIDE DEF taken
<1>3. /\ more \in Client /\ more.reliableAcknowledge = taken.reliableAcknowledge
      /\ more.state = taken.state /\ more.file = taken.file
  <2>1. taken.written \in Seq(BlockData)
    BY <1>2 DEF Client
  <2>2. Append(taken.written, m.data) \in Seq(BlockData)
    BY <1>1, <2>1
  <2> QED
    BY <1>2, <2>2 DEF Client
<1> HIDE DEF more
<1>4. CASE CL_AddReliableCommands(more, <<NextDl(n)>>, "overflow")
  <2>1. NextDl(n) \in Commands
    BY <1>1 DEF Commands, NextDl
  <2>2. <<NextDl(n)>> \in Seq(Commands)
    BY <2>1
  <2>3. ClientFits(more, commands)
    BY <1>1, <1>2, <1>3 DEF ClientFits
  <2> QED
    BY <1>4, <2>2, <2>3, CommandsAdded
<1>5. CASE NextFile(taken, n)
  <2>1. ClientFits(taken, commands)
    BY <1>1, <1>2 DEF ClientFits
  <2> QED
    BY <1>1, <1>2, <1>5, <2>1, NextFileFits
<1> QED
  BY <1>4, <1>5 DEF TakeBlock, taken, more

LEMMA ParseTypeOK ==
  ASSUME TypeOK, CL_ParseDownload PROVE TypeOK'
<1> DEFINE m == Head(toClient)
           c == [clc EXCEPT !.reliableAcknowledge = m.reliableAcknowledge]
<1>1. /\ toClient # <<>> /\ toClient' = Tail(toClient) /\ cl' = cl
  BY DEF CL_ParseDownload
<1>2. /\ m \in Messages /\ m.reliableAcknowledge <= cl.lastClientCommand
  BY <1>1, MessageTaken DEF TypeOK
<1>3. /\ m.reliableAcknowledge \in Nat
      /\ m.reliableAcknowledge <= Len(commands)
  <2>1. m.reliableAcknowledge \in Nat
    BY <1>2 DEF Messages
  <2> QED
    BY <1>2, <2>1, TypeFacts
<1> HIDE DEF m
<1>4. /\ c \in Client /\ c.reliableAcknowledge = m.reliableAcknowledge
      /\ c.state = clc.state /\ c.file = clc.file
  BY <1>3, TypeFacts DEF Client
<1> HIDE DEF c
<1>5. ClientFits(c, commands)
  <2>1. clc.state = "downloading" => clc.file # NoFile
    BY DEF TypeOK
  <2> QED
    BY <1>3, <1>4, <2>1, TypeFacts DEF ClientFits
<1>6. ClientFits(clc', commands') /\ Len(commands) <= Len(commands')
  <2>1. CASE Misread(c, <<StopDl>>)
    <3>1. <<StopDl>> \in Seq(Commands)
      BY DEF Commands
    <3> QED
      BY <1>5, <2>1, <3>1, MisreadFits
  <2>2. CASE Misread(c, <<>>)
    <3>1. <<>> \in Seq(Commands)
      OBVIOUS
    <3> QED
      BY <1>5, <2>2, <3>1, MisreadFits
  <2>3. CASE clc' = c /\ commands' = commands
    BY <1>5, <2>3, TypeFacts
  <2>4. CASE clc.state = "downloading" /\ TakeBlock(c, m)
    BY <1>2, <1>4, <1>5, <2>4, TakeBlockFits
  <2> QED
    BY <2>1, <2>2, <2>3, <2>4 DEF CL_ParseDownload, c, m
<1>7. /\ toClient' \in Seq(Messages)
      /\ \A i \in DOMAIN toClient' :
           toClient'[i].reliableAcknowledge <= cl.lastClientCommand
  BY <1>1, MessageTaken DEF TypeOK
<1>8. cl.lastClientCommand <= Len(commands')
  <2>1. commands' \in Seq(Commands)
    BY <1>6 DEF ClientFits
  <2>2. Len(commands') \in Nat
    BY <2>1
  <2> QED
    BY <1>6, <2>2, TypeFacts
<1> QED
  BY <1>1, <1>6, <1>7, <1>8, TypeFacts DEF TypeOK, ClientFits

(* The block the client expects is the one the message is about: block     *)
(* numbers modulo BlockModulus do not confuse two of one window.           *)
LEMMA ExpectedBlock ==
  ASSUME TypeOK, Sync, clc.state = "downloading",
         NEW k \in 0..Pending, CommandsOK(k), ClientOK(k),
         NEW m, m \in Messages, MessageOK(m),
         m.reliableAcknowledge <= cl.lastClientCommand,
         clc.downloadBlock % BlockModulus = m.block
  PROVE  /\ cl.download /\ cl.downloadName = clc.file /\ clc.file \in File
         /\ m.number = clc.downloadBlock
         /\ m.data = Block(clc.file, clc.downloadBlock)
         /\ Pending = k /\ clc.downloadBlock = cl.downloadClientBlock + k
         /\ clc.downloadBlock < cl.downloadCurrentBlock
         /\ clc.downloadBlock < cl.downloadXmitBlock + MAX_DOWNLOAD_WINDOW
         /\ clc.downloadBlock <= Blocks[clc.file]
         /\ m.reliableAcknowledge \in Nat
         /\ Len(commands) - m.reliableAcknowledge < MAX_DOWNLOAD_WINDOW
<1> DEFINE d == clc.downloadBlock
<1>1. /\ cl.download /\ cl.downloadName = clc.file
      /\ m.block = m.number % BlockModulus
      /\ m.number < cl.downloadCurrentBlock
      /\ m.number < cl.downloadXmitBlock + MAX_DOWNLOAD_WINDOW
      /\ clc.downloadBlock <= m.number + MAX_DOWNLOAD_WINDOW
      /\ m.number + (Len(commands) - m.reliableAcknowledge)
           < clc.downloadBlock + MAX_DOWNLOAD_WINDOW
      /\ m.number >= clc.downloadBlock => m.data = Block(clc.file, m.number)
  BY DEF MessageOK
<1>2. /\ m.number \in Nat /\ m.reliableAcknowledge \in Nat /\ d \in Nat
      /\ MAX_DOWNLOAD_WINDOW \in Nat \ {0} /\ BlockModulus \in Nat \ {0}
      /\ MAX_DOWNLOAD_WINDOW < BlockModulus
      /\ Len(commands) \in Nat /\ cl.lastClientCommand \in Nat
      /\ m.reliableAcknowledge <= cl.lastClientCommand
      /\ cl.lastClientCommand <= Len(commands)
      /\ cl.downloadCurrentBlock \in Nat
  BY TypeFacts, WindowAssumption, ModulusAssumption DEF Messages
<1>3. clc.file \in File /\ Blocks[clc.file] \in Nat
  BY TypeFacts, FileFacts
<1> HIDE DEF d
<1>4. Len(commands) - m.reliableAcknowledge \in Nat
  BY <1>2
<1>5. /\ d <= m.number + MAX_DOWNLOAD_WINDOW
      /\ m.number + (Len(commands) - m.reliableAcknowledge) < d + MAX_DOWNLOAD_WINDOW
  BY <1>1 DEF d
<1>6. m.number < d + BlockModulus /\ d < m.number + BlockModulus
  <2>1. PICK a \in Nat, g \in Nat, w \in Nat, u \in Nat :
          /\ a = m.number /\ g = Len(commands) - m.reliableAcknowledge
          /\ w = MAX_DOWNLOAD_WINDOW /\ u = BlockModulus /\ w < u
    BY <1>2, <1>4
  <2>2. d \in Nat /\ d <= a + w /\ a + g < d + w /\ w < u
    BY <1>2, <1>5, <2>1
  <2>3. a < d + u /\ d < a + u
    BY ONLY <2>2, a \in Nat, g \in Nat, w \in Nat, u \in Nat
  <2> QED
    BY <2>1, <2>3
<1>7. d % BlockModulus = m.number % BlockModulus
  BY <1>1 DEF d
<1>8. m.number = d
  <2>1. PICK a \in Nat, u \in Nat \ {0} : a = m.number /\ u = BlockModulus
    BY <1>2
  <2>2. /\ d \in Nat /\ m.number < d + BlockModulus
        /\ d < m.number + BlockModulus /\ d % BlockModulus = m.number % BlockModulus
    BY <1>2, <1>6, <1>7
  <2>3. d \in Nat /\ a < d + u /\ d < a + u /\ d % u = a % u
    BY ONLY <2>1, <2>2
  <2>4. ~(d < a) /\ ~(a < d)
    BY ONLY <2>3, u \in Nat \ {0}, a \in Nat, ModDiffers
  <2> QED
    BY <2>1, <2>3, <2>4
<1>9. Len(commands) - m.reliableAcknowledge < MAX_DOWNLOAD_WINDOW
  BY <1>2, <1>4, <1>5, <1>8
<1>10. Pending = k /\ clc.downloadBlock = cl.downloadClientBlock + k
  <2>1. ~(cl.downloadName < clc.file)
    <3>1. clc.file \in Nat
      BY <1>3, NoFileIsNone
    <3> QED
      BY <1>1, <3>1
  <2> QED
    BY <1>1, <2>1 DEF ClientOK
<1>11. d <= Blocks[clc.file]
  <2>1. PICK r \in Nat, b \in Nat : r = cl.downloadCurrentBlock /\ b = Blocks[clc.file]
    BY <1>2, <1>3
  <2>2. r <= b + 1 /\ d < r
    BY <1>1, <1>8, <2>1 DEF Sync, WindowOK
  <2>3. d \in Nat
    BY <1>2
  <2>4. d <= b
    BY <2>1, <2>2, <2>3
  <2> QED
    BY <2>1, <2>4
<1>12. m.number >= clc.downloadBlock
  BY <1>2, <1>8 DEF d
<1> QED
  BY <1>1, <1>2, <1>3, <1>8, <1>9, <1>10, <1>11, <1>12 DEF d

(* The message at hand is of the client's file and about the block it      *)
(* expects.                                                                *)
BlockArrives ==
  /\ clc.state = "downloading"
  /\ toClient # <<>> /\ toClient' = Tail(toClient) /\ cl' = cl
  /\ toClient[1].data.file = clc.file
  /\ clc.downloadBlock % BlockModulus = toClient[1].block
  /\ clc'.damaged = clc.damaged

(* The client takes a block of data and acknowledges it. *)
DataTaken ==
  /\ BlockArrives
  /\ clc.downloadBlock # Blocks[clc.file]
  /\ commands' = Append(commands, NextDl(clc.downloadBlock))
  /\ clc'.state = clc.state
  /\ clc'.file = clc.file /\ clc'.downloadBlock = clc.downloadBlock + 1
  /\ clc'.written = Append(clc.written, toClient[1].data)

LEMMA TakenSync ==
  ASSUME TypeOK, Sync, DataTaken, NEW k \in 0..Pending, CommandsOK(k), ClientOK(k)
  PROVE  Sync'
<1> DEFINE d == clc.downloadBlock
           f == clc.file
           q == k + 1
<1>1. MessagesOK /\ MessageOK(toClient[1]) /\ toClient[1] \in Messages
      /\ toClient[1].reliableAcknowledge <= cl.lastClientCommand
  <2>1. /\ MessagesOK /\ 1 \in DOMAIN toClient /\ toClient[1] \in Messages
        /\ toClient[1].data.file = clc.file
    BY MessageTaken DEF Sync, DataTaken, BlockArrives
  <2> QED
    BY <2>1 DEF MessagesOK, OfThisFile, TypeOK
<1>2. /\ cl.download /\ cl.downloadName = f /\ f \in File
      /\ toClient[1].number = d /\ toClient[1].data = Block(f, d)
  BY <1>1, ExpectedBlock DEF DataTaken, BlockArrives
<1>3. /\ Pending = k /\ d = cl.downloadClientBlock + k
      /\ d < cl.downloadCurrentBlock
      /\ d < cl.downloadXmitBlock + MAX_DOWNLOAD_WINDOW
      /\ d <= Blocks[f]
  BY <1>1, ExpectedBlock DEF DataTaken, BlockArrives
<1>4. /\ d \in Nat /\ k \in Nat /\ cl.downloadClientBlock \in Nat
      /\ cl.downloadCurrentBlock \in Nat /\ cl.downloadXmitBlock \in Nat
      /\ Blocks[f] \in Nat /\ MAX_DOWNLOAD_WINDOW \in Nat
      /\ Len(commands) \in Nat /\ cl.lastClientCommand \in Nat
      /\ Len(commands) = cl.lastClientCommand + k
  <2>1. Blocks[f] \in Nat
    BY <1>2, FileFacts
  <2>2. /\ k \in Nat /\ Len(commands) \in Nat /\ cl.lastClientCommand \in Nat
        /\ k = Len(commands) - cl.lastClientCommand
    BY <1>3, TypeFacts
  <2>3. Len(commands) = cl.lastClientCommand + k
    BY <2>2
  <2> QED
    BY <2>1, <2>2, <2>3, TypeFacts, WindowAssumption
<1> HIDE DEF q
<1>5. /\ d + 1 <= Blocks[f] /\ q = k + 1 /\ q \in Nat
      /\ d + 1 = cl.downloadClientBlock + q
      /\ d + 1 <= cl.downloadXmitBlock + MAX_DOWNLOAD_WINDOW
      /\ d + 1 <= cl.downloadCurrentBlock
  <2>1. d # Blocks[f] /\ q = k + 1
    BY DEF DataTaken, q
  <2> HIDE DEF d, f
  <2>2. PICK n \in Nat, r \in Nat, x \in Nat, w \in Nat, b \in Nat :
          /\ n = cl.downloadClientBlock /\ r = cl.downloadCurrentBlock
          /\ x = cl.downloadXmitBlock /\ w = MAX_DOWNLOAD_WINDOW /\ b = Blocks[f]
    BY <1>4
  <2>3. d = n + k /\ d < r /\ d < x + w /\ d <= b /\ d # b /\ d \in Nat /\ k \in Nat
    BY <1>3, <1>4, <2>1, <2>2
  <2>4. d + 1 <= b /\ d + 1 = n + (k + 1) /\ d + 1 <= x + w /\ d + 1 <= r
    BY <2>2, <2>3
  <2> QED
    BY <2>1, <2>2, <2>3, <2>4
<1> HIDE DEF d, f
<1>6. /\ Len(commands') = Len(commands) + 1
      /\ commands'[Len(commands) + 1] = NextDl(d)
      /\ \A i \in 1..Len(commands) : commands'[i] = commands[i]
  BY TypeFacts DEF d, DataTaken
<1>7. Pending' = q /\ q \in 0..Pending'
  <2>1. Pending' = (Len(commands) + 1) - cl.lastClientCommand
    BY <1>6 DEF Pending, DataTaken, BlockArrives
  <2> QED
    BY <1>4, <1>5, <2>1
<1>8. Acks(q)'
  <2>1. ASSUME NEW i \in 1..q
        PROVE  commands'[cl.lastClientCommand + i] = NextDl(cl.downloadClientBlock + i - 1)
    <3>1. CASE i = q
      <4>1. cl.lastClientCommand + i = Len(commands) + 1
        <5>1. PICK l \in Nat : l = Len(commands) /\ l = cl.lastClientCommand + k
          BY <1>4
        <5>2. k \in Nat /\ cl.lastClientCommand \in Nat
          BY <1>4
        <5>3. cl.lastClientCommand + (k + 1) = l + 1
          BY <5>1, <5>2
        <5>4. i = k + 1
          BY <1>5, <3>1
        <5> QED
          BY <5>1, <5>3, <5>4
      <4>2. cl.downloadClientBlock + i - 1 = d
        <5>1. d = cl.downloadClientBlock + k
          BY <1>3
        <5>2. i = k + 1 /\ k \in Nat /\ cl.downloadClientBlock \in Nat
          BY <1>4, <1>5, <3>1
        <5> QED
          BY <5>1, <5>2
      <4> QED
        BY <1>6, <4>1, <4>2
    <3>2. CASE i # q
      <4>1. i \in 1..k /\ cl.lastClientCommand + i \in 1..Len(commands)
        <5>1. PICK l \in Nat, e \in Nat :
                l = Len(commands) /\ e = cl.lastClientCommand /\ l = e + k /\ k \in Nat
          BY <1>4
        <5>2. i \in 1..k
          BY <1>5, <3>2, <5>1
        <5>3. e + i \in 1..l
          BY <5>1, <5>2
        <5> QED
          BY <5>1, <5>2, <5>3
      <4>2. commands[cl.lastClientCommand + i] = NextDl(cl.downloadClientBlock + i - 1)
        BY <4>1 DEF CommandsOK, Acks
      <4> QED
        BY <1>6, <4>1, <4>2
    <3> QED
      BY <3>1, <3>2
  <2>2. cl.downloadClientBlock + q <= cl.downloadCurrentBlock
    BY <1>5
  <2> QED
    BY <1>2, <2>1, <2>2 DEF Acks, DataTaken, BlockArrives
<1>9. MidFile(q)'
  <2>1. cl.downloadClientBlock + q <= Blocks[f]
    BY <1>5
  <2> QED
    BY <1>2, <1>7, <2>1 DEF MidFile, DataTaken, BlockArrives
<1>10. CommandsOK(q)'
  BY <1>7, <1>8, <1>9 DEF CommandsOK
<1>11. ClientOK(q)'
  <2>1. clc.written = [i \in 1..d |-> Block(f, i - 1)]
    BY DEF ClientOK, d, f
  <2>2. Append(clc.written, Block(f, d)) = [i \in 1..d + 1 |-> Block(f, i - 1)]
    <3>1. clc.written \in Seq(BlockData)
      BY TypeFacts DEF Client
    <3>2. DOMAIN clc.written = 1..Len(clc.written) /\ Len(clc.written) \in Nat
      BY <3>1
    <3>3. Len(clc.written) = d
      BY <1>4, <2>1, <3>1, LenProperties
    <3>4. Block(f, d) \in BlockData
      BY <1>2, <1>4 DEF Block, BlockData
    <3>5. PICK longer : longer = Append(clc.written, Block(f, d))
      OBVIOUS
    <3>6. /\ longer \in Seq(BlockData) /\ Len(longer) = d + 1
          /\ \A i \in 1..d : longer[i] = clc.written[i]
          /\ longer[d + 1] = Block(f, d)
      BY <3>1, <3>3, <3>4, <3>5, AppendProperties
    <3>7. longer \in [1..d + 1 -> BlockData]
      BY <3>6, LenProperties
    <3>8. ASSUME NEW i \in 1..d + 1 PROVE longer[i] = Block(f, i - 1)
      <4>1. CASE i = d + 1
        <5>1. i - 1 = d
          BY <1>4, <4>1
        <5> QED
          BY <3>6, <4>1, <5>1
      <4>2. CASE i # d + 1
        <5>1. i \in 1..d
          BY <1>4, <4>2
        <5> QED
          BY <2>1, <3>6, <5>1
      <4> QED
        BY <4>1, <4>2
    <3>9. longer = [i \in 1..d + 1 |-> Block(f, i - 1)]
      BY <3>7, <3>8
    <3> QED
      BY <3>5, <3>9
  <2>3. clc'.written = [i \in 1..d + 1 |-> Block(f, i - 1)]
    BY <1>2, <2>2 DEF DataTaken
  <2>4. /\ clc'.downloadBlock = d + 1 /\ clc'.file = f /\ cl' = cl
    BY DEF d, f, DataTaken, BlockArrives
  <2> QED
    BY <1>2, <1>5, <1>7, <2>3, <2>4 DEF ClientOK
<1>12. MessagesOK'
  <2>1. PICK mail : mail = toClient'
    OBVIOUS
  <2>2. ASSUME NEW i \in DOMAIN mail
        PROVE  /\ i \in Nat /\ i + 1 \in DOMAIN toClient /\ 1 < i + 1
               /\ mail[i] = toClient[i + 1] /\ toClient[i + 1] \in Messages
    BY <2>1, MessageTaken, TypeFacts DEF DataTaken, BlockArrives
  <2>3. ASSUME NEW i \in DOMAIN mail, mail[i].data.file = f
        PROVE  MessageOK(mail[i])'
    <3>1. PICK o : o = mail[i]
      OBVIOUS
    <3>2. i + 1 \in OfThisFile /\ MessageOK(o)
      BY <1>1, <2>2, <2>3, <3>1 DEF MessagesOK, OfThisFile, f
    <3>3. d < o.number + MAX_DOWNLOAD_WINDOW
      <4>1. 1 \in OfThisFile
        BY MessageTaken DEF OfThisFile, DataTaken, BlockArrives
      <4> QED
        BY <1>1, <1>2, <2>2, <3>1, <3>2, <4>1 DEF MessagesOK
    <3>4. o.number \in Nat /\ o.reliableAcknowledge \in Nat
      BY <2>2, <3>1 DEF Messages
    <3>5. /\ o.number + (Len(commands) - o.reliableAcknowledge) < d + MAX_DOWNLOAD_WINDOW
          /\ o.number >= d => o.data = Block(f, o.number)
          /\ cl.download /\ cl.downloadName = f
          /\ o.block = o.number % BlockModulus
          /\ o.number < cl.downloadCurrentBlock
          /\ o.number < cl.downloadXmitBlock + MAX_DOWNLOAD_WINDOW
      BY <3>2 DEF MessageOK, d, f
    <3>6. o.number + (Len(commands) - o.reliableAcknowledge) < d + MAX_DOWNLOAD_WINDOW
      BY <3>5
    <3>7. /\ d + 1 <= o.number + MAX_DOWNLOAD_WINDOW
          /\ o.number + ((Len(commands) + 1) - o.reliableAcknowledge)
               < (d + 1) + MAX_DOWNLOAD_WINDOW
          /\ o.number >= d + 1 => o.number >= d
      <4>1. /\ d \in Nat /\ Len(commands) \in Nat /\ MAX_DOWNLOAD_WINDOW \in Nat
        BY <1>4
      <4>2. PICK a \in Nat, r \in Nat, l \in Nat, w \in Nat :
              a = o.number /\ r = o.reliableAcknowledge /\ l = Len(commands)
              /\ w = MAX_DOWNLOAD_WINDOW
        BY <3>4, <4>1
      <4>3. d < a + w /\ a + (l - r) < d + w
        BY <3>3, <3>6, <4>2
      <4>4. /\ d + 1 <= a + w /\ a + ((l + 1) - r) < (d + 1) + w
            /\ a >= d + 1 => a >= d
        BY <4>1, <4>3
      <4> QED
        BY <4>2, <4>4
    <3>8. clc'.downloadBlock = d + 1 /\ clc'.file = f /\ cl' = cl
      BY DEF d, f, DataTaken, BlockArrives
    <3>9. MessageOK(o)'
      BY <1>6, <3>5, <3>7, <3>8 DEF MessageOK
    <3> QED
      BY <3>1, <3>9
  <2>4. \A i \in DOMAIN mail : mail[i].data.file <= clc'.file
    BY <1>1, <2>2 DEF MessagesOK, DataTaken
  <2>5. ASSUME NEW i \in DOMAIN mail, NEW j \in DOMAIN mail, i < j,
               mail[i].data.file = clc'.file, mail[j].data.file = clc'.file
        PROVE  mail[i].number < mail[j].number + MAX_DOWNLOAD_WINDOW
    <3>1. i + 1 \in OfThisFile /\ j + 1 \in OfThisFile /\ i + 1 < j + 1
      BY <2>2, <2>5 DEF OfThisFile, DataTaken
    <3> QED
      BY <1>1, <2>2, <3>1 DEF MessagesOK
  <2> QED
    BY <2>1, <2>3, <2>4, <2>5, NewMessagesOK DEF f, DataTaken
<1>13. \E p \in 0..Pending' :
         /\ CommandsOK(p)'
         /\ clc'.state = "downloading" => ClientOK(p)'
         /\ clc'.state = "done" => EndOfFile(p)' /\ ~NextAsked(p)'
  BY <1>7, <1>10, <1>11 DEF DataTaken, BlockArrives
<1>14. WindowOK(cl) => WindowOK(cl)'
  BY DEF WindowOK, WindowEnd, DataTaken, BlockArrives
<1> QED
  BY <1>12, <1>13, <1>14 DEF Sync, DataTaken, BlockArrives

(* The client takes the empty block, acknowledges it, and asks for the     *)
(* next file or for none.                                                  *)
FileTaken ==
  /\ BlockArrives
  /\ clc.downloadBlock = Blocks[clc.file]
  /\ \/ /\ commands' = commands \o <<NextDl(clc.downloadBlock), Download(clc.file + 1)>>
        /\ clc'.state = "downloading" /\ clc'.file = clc.file + 1
        /\ clc'.downloadBlock = 0 /\ clc'.written = <<>>
     \/ /\ commands' = commands \o <<NextDl(clc.downloadBlock), DoneDl>>
        /\ clc'.state = "done"

LEMMA FileTakenSync ==
  ASSUME TypeOK, Sync, FileTaken, NEW k \in 0..Pending, CommandsOK(k), ClientOK(k)
  PROVE  Sync'
<1> DEFINE d == clc.downloadBlock
           f == clc.file
           q == k + 1
<1>1. MessagesOK /\ MessageOK(toClient[1]) /\ toClient[1] \in Messages
      /\ toClient[1].reliableAcknowledge <= cl.lastClientCommand
  <2>1. /\ MessagesOK /\ 1 \in DOMAIN toClient /\ toClient[1] \in Messages
        /\ toClient[1].data.file = clc.file
    BY MessageTaken DEF Sync, FileTaken, BlockArrives
  <2> QED
    BY <2>1 DEF MessagesOK, OfThisFile, TypeOK
<1>2. cl.download /\ cl.downloadName = f /\ f \in File
  BY <1>1, ExpectedBlock DEF FileTaken, BlockArrives
<1>3. /\ Pending = k /\ d = cl.downloadClientBlock + k
      /\ d < cl.downloadCurrentBlock
  BY <1>1, ExpectedBlock DEF FileTaken, BlockArrives
<1>4. /\ d \in Nat /\ k \in Nat /\ cl.downloadClientBlock \in Nat
      /\ cl.downloadCurrentBlock \in Nat
      /\ Len(commands) \in Nat /\ cl.lastClientCommand \in Nat
      /\ Len(commands) = cl.lastClientCommand + k
  <2>1. /\ k \in Nat /\ Len(commands) \in Nat /\ cl.lastClientCommand \in Nat
        /\ k = Len(commands) - cl.lastClientCommand
    BY <1>3, TypeFacts
  <2>2. Len(commands) = cl.lastClientCommand + k
    BY <2>1
  <2> QED
    BY <2>1, <2>2, TypeFacts
<1>5. /\ q \in Nat /\ q = k + 1 /\ d = Blocks[f] /\ cl' = cl
      /\ clc'.damaged = clc.damaged
  BY <1>4 DEF FileTaken, BlockArrives
<1> HIDE DEF d, f, q
<1>6. d + 1 = cl.downloadClientBlock + q
  <2>1. d = cl.downloadClientBlock + k
    BY <1>3
  <2>2. q = k + 1 /\ k \in Nat /\ cl.downloadClientBlock \in Nat
    BY <1>4, <1>5
  <2> QED
    BY <2>1, <2>2
<1>7. d + 1 <= cl.downloadCurrentBlock
  BY <1>3, <1>4
<1>8. ASSUME NEW last, commands' = commands \o <<NextDl(d), last>>
      PROVE  /\ Len(commands') = Len(commands) + 2
             /\ commands'[Len(commands) + 1] = NextDl(d)
             /\ commands'[Len(commands) + 2] = last
             /\ \A i \in 1..Len(commands) : commands'[i] = commands[i]
             /\ Pending' = q + 1 /\ q \in 0..Pending'
             /\ Acks(q)' /\ EndOfFile(q)'
  <2>1. /\ Len(commands') = Len(commands) + 2
        /\ commands'[Len(commands) + 1] = NextDl(d)
        /\ commands'[Len(commands) + 2] = last
        /\ \A i \in 1..Len(commands) : commands'[i] = commands[i]
    <3>1. commands \in Seq(Commands) /\ Len(commands) \in Nat
      BY TypeFacts
    <3> QED
      BY <1>8, <3>1
  <2>2. Pending' = q + 1
    <3>1. Pending' = (Len(commands) + 2) - cl.lastClientCommand
      BY <1>5, <2>1 DEF Pending
    <3>2. /\ Len(commands) = cl.lastClientCommand + k /\ k \in Nat
          /\ cl.lastClientCommand \in Nat /\ q = k + 1
      BY <1>4, <1>5
    <3> QED
      BY <3>1, <3>2
  <2>3. q \in 0..Pending'
    BY <1>5, <2>2
  <2>4. ASSUME NEW i \in 1..q
        PROVE  commands'[cl.lastClientCommand + i] = NextDl(cl.downloadClientBlock + i - 1)
    <3>1. CASE i = q
      <4>1. cl.lastClientCommand + i = Len(commands) + 1
        <5>1. PICK l \in Nat : l = Len(commands) /\ l = cl.lastClientCommand + k
          BY <1>4
        <5>2. k \in Nat /\ cl.lastClientCommand \in Nat
          BY <1>4
        <5>3. cl.lastClientCommand + (k + 1) = l + 1
          BY <5>1, <5>2
        <5>4. i = k + 1
          BY <1>5, <3>1
        <5> QED
          BY <5>1, <5>3, <5>4
      <4>2. cl.downloadClientBlock + i - 1 = d
        <5>1. d + 1 = cl.downloadClientBlock + i
          BY <1>6, <3>1
        <5>2. i \in Nat /\ d \in Nat /\ cl.downloadClientBlock \in Nat
          BY <1>4, <1>5, <3>1
        <5> QED
          BY <5>1, <5>2
      <4> QED
        BY <2>1, <4>1, <4>2
    <3>2. CASE i # q
      <4>1. i \in 1..k
        BY <1>4, <1>5, <3>2
      <4>2. cl.lastClientCommand + i \in 1..Len(commands)
        <5>1. Len(commands) = cl.lastClientCommand + k
          BY <1>4
        <5>2. k \in Nat /\ cl.lastClientCommand \in Nat
          BY <1>4
        <5> QED
          BY <4>1, <5>1, <5>2
      <4>3. commands[cl.lastClientCommand + i] = NextDl(cl.downloadClientBlock + i - 1)
        BY <4>1 DEF CommandsOK, Acks
      <4> QED
        BY <2>1, <4>2, <4>3
    <3> QED
      BY <3>1, <3>2
  <2>5. cl.downloadClientBlock + q <= cl.downloadCurrentBlock
    BY <1>6, <1>7
  <2>6. Acks(q)'
    BY <1>2, <1>5, <2>4, <2>5 DEF Acks
  <2>7. EndOfFile(q)'
    BY <1>2, <1>5, <1>6 DEF EndOfFile
  <2> QED
    BY <2>1, <2>2, <2>3, <2>6, <2>7
<1>9. WindowOK(cl)' /\ cl'.state = "connected" /\ clc'.state # "overflow" /\ ~clc'.damaged
  <2>1. /\ WindowOK(cl) /\ cl.state = "connected" /\ ~clc.damaged
    BY <1>2 DEF Sync
  <2>2. WindowOK(cl)'
    BY <1>5, <2>1 DEF WindowOK, WindowEnd
  <2>3. clc'.state # "overflow"
    BY DEF FileTaken
  <2> QED
    BY <1>5, <2>1, <2>2, <2>3
<1>10. CASE /\ commands' = commands \o <<NextDl(d), Download(f + 1)>>
            /\ clc'.state = "downloading" /\ clc'.file = f + 1
            /\ clc'.downloadBlock = 0 /\ clc'.written = <<>>
  <2>1. /\ Len(commands') = Len(commands) + 2
        /\ commands'[Len(commands) + 2] = Download(f + 1)
        /\ Pending' = q + 1 /\ q \in 0..Pending'
        /\ Acks(q)' /\ EndOfFile(q)'
    BY <1>8, <1>10
  <2>2. commands'[Len(commands')] = Download(clc'.file)
    BY <1>10, <2>1
  <2>3. NextAsked(q)'
    BY <2>1, <2>2 DEF NextAsked, Download
  <2>4. CommandsOK(q)'
    BY <2>1, <2>3 DEF CommandsOK
  <2>5. f < f + 1 /\ f \in Nat
    BY <1>2, NoFileIsNone
  <2>6. ClientOK(q)'
    <3>1. <<>> = [i \in 1..0 |-> Block(f + 1, i - 1)]
      BY EmptySeq
    <3>2. Pending' # q
      BY <1>5, <2>1
    <3> QED
      BY <1>2, <1>5, <1>10, <2>2, <2>3, <2>5, <3>1, <3>2 DEF ClientOK
  <2>7. MessagesOK'
    <3>1. PICK mail : mail = toClient'
      OBVIOUS
    <3>2. ASSUME NEW i \in DOMAIN mail
          PROVE  mail[i].data.file <= f + 1 /\ mail[i].data.file # f + 1
      <4>1. i + 1 \in DOMAIN toClient /\ mail[i] = toClient[i + 1]
        BY <3>1, MessageTaken DEF FileTaken, BlockArrives
      <4>2. toClient[i + 1].data.file <= f
        BY <1>1, <4>1 DEF MessagesOK, f
      <4>3. toClient[i + 1].data.file \in Nat
        <5>1. toClient[i + 1] \in Messages
          BY <4>1, TypeFacts
        <5>2. toClient[i + 1].data \in BlockData
          BY <5>1 DEF Messages
        <5> QED
          BY <5>2, NoFileIsNone DEF BlockData
      <4> QED
        BY <2>5, <4>1, <4>2, <4>3
    <3> QED
      BY <1>10, <3>1, <3>2, NewMessagesOK
  <2>8. \E p \in 0..Pending' :
          /\ CommandsOK(p)'
          /\ clc'.state = "downloading" => ClientOK(p)'
          /\ clc'.state = "done" => EndOfFile(p)' /\ ~NextAsked(p)'
    BY <1>10, <2>1, <2>4, <2>6
  <2> QED
    BY <1>9, <2>7, <2>8 DEF Sync
<1>11. CASE commands' = commands \o <<NextDl(d), DoneDl>> /\ clc'.state = "done"
  <2>1. /\ Len(commands') = Len(commands) + 2
        /\ commands'[Len(commands) + 2] = DoneDl
        /\ Pending' = q + 1 /\ q \in 0..Pending'
        /\ Acks(q)' /\ EndOfFile(q)'
    BY <1>8, <1>11
  <2>2. cl.lastClientCommand + q + 1 = Len(commands')
    <3>1. PICK l \in Nat, e \in Nat :
            l = Len(commands) /\ e = cl.lastClientCommand /\ l = e + k /\ k \in Nat
      BY <1>4
    <3>2. e + (k + 1) + 1 = l + 2
      BY <3>1
    <3> QED
      BY <1>5, <2>1, <3>1, <3>2
  <2>3. Len(commands') \in Nat
    BY <1>4, <2>1
  <2>4. AllDone(q)'
    <3>1. Pending' > q
      BY <1>5, <2>1
    <3>2. \A i \in Len(commands')..Len(commands') : i = Len(commands) + 2
      BY <2>1, <2>3
    <3> QED
      BY <1>5, <2>1, <2>2, <3>1, <3>2 DEF AllDone
  <2>5. ~NextAsked(q)'
    BY <2>1 DEF NextAsked, DoneDl
  <2>6. CommandsOK(q)'
    BY <2>1, <2>4 DEF CommandsOK
  <2>7. \E p \in 0..Pending' :
          /\ CommandsOK(p)'
          /\ clc'.state = "downloading" => ClientOK(p)'
          /\ clc'.state = "done" => EndOfFile(p)' /\ ~NextAsked(p)'
    BY <1>11, <2>1, <2>5, <2>6
  <2> QED
    BY <1>9, <1>11, <2>7 DEF Sync
<1> QED
  BY <1>10, <1>11 DEF FileTaken, d, f

(* There is room for two commands in the client's ring. *)
LEMMA RingHasRoom ==
  ASSUME NEW l \in Nat, NEW r \in Nat, NEW s \in {1, 2}, l - r < MAX_DOWNLOAD_WINDOW
  PROVE  ~((l - r) + s > MAX_RELIABLE_COMMANDS)
BY WindowAssumption, ReliableAssumption

LEMMA CommandsFit ==
  ASSUME TypeOK, NEW a, NEW new, Len(new) \in {1, 2}, a.reliableAcknowledge \in Nat,
         Len(commands) - a.reliableAcknowledge < MAX_DOWNLOAD_WINDOW,
         CL_AddReliableCommands(a, new, "overflow")
  PROVE  clc' = a /\ commands' = commands \o new
<1>1. Unacknowledged(a) = Len(commands) - a.reliableAcknowledge
  BY DEF Unacknowledged
<1>2. ~(Unacknowledged(a) + Len(new) > MAX_RELIABLE_COMMANDS)
  BY <1>1, TypeFacts, RingHasRoom
<1> QED
  BY <1>2 DEF CL_AddReliableCommands

(* The client's next step with a block of data: the ring has room for its  *)
(* acknowledgement.                                                        *)
LEMMA TakeBlockSync ==
  ASSUME TypeOK, Sync, clc.state = "downloading",
         toClient # <<>>, toClient' = Tail(toClient), cl' = cl,
         NEW c, c = [clc EXCEPT !.reliableAcknowledge = toClient[1].reliableAcknowledge],
         toClient[1].data.file = clc.file,
         clc.downloadBlock % BlockModulus = toClient[1].block,
         TakeBlock(c, toClient[1])
  PROVE  Sync'
<1> DEFINE n     == clc.downloadBlock
           f     == clc.file
           m     == toClient[1]
           taken == [c EXCEPT !.downloadBlock = n + 1, !.mixed = @ \/ m.data.file # c.file]
           more  == [taken EXCEPT !.written = Append(@, m.data)]
           done  == [taken EXCEPT !.damaged = @ \/ ~Intact(f, taken.written)]
           next  == [done EXCEPT !.file = f + 1, !.downloadBlock = 0, !.written = <<>>]
           last  == [done EXCEPT !.state = "done", !.file = NoFile, !.downloadBlock = 0,
                                 !.written = <<>>]
<1>1. PICK k \in 0..Pending :
        /\ CommandsOK(k)
        /\ clc.state = "downloading" => ClientOK(k)
        /\ clc.state = "done" => EndOfFile(k) /\ ~NextAsked(k)
  BY DEF Sync
<1>2. ClientOK(k)
  BY <1>1
<1>3. /\ MessageOK(m) /\ m \in Messages /\ m.reliableAcknowledge <= cl.lastClientCommand
  <2>1. MessagesOK /\ 1 \in DOMAIN toClient /\ m \in Messages
    BY MessageTaken DEF Sync
  <2> QED
    BY <2>1 DEF MessagesOK, OfThisFile, TypeOK
<1>4. /\ f \in File /\ m.data = Block(f, n)
      /\ m.reliableAcknowledge \in Nat
      /\ Len(commands) - m.reliableAcknowledge < MAX_DOWNLOAD_WINDOW
  BY <1>1, <1>2, <1>3, ExpectedBlock
<1>5. Empty(m.data) <=> n = Blocks[f]
  BY <1>4, NoFileIsNone DEF Empty, Block
<1>6. /\ clc \in Client /\ n \in Nat /\ clc.file \in File /\ ~clc.damaged
  BY TypeFacts DEF Sync
<1>7. /\ c \in Client /\ c.state = "downloading" /\ c.file = clc.file
      /\ c.downloadBlock = n /\ c.written = clc.written /\ ~c.damaged
      /\ c.reliableAcknowledge = m.reliableAcknowledge
  <2>1. m.reliableAcknowledge \in Nat
    BY <1>4
  <2> HIDE DEF m
  <2> QED
    BY <1>6, <2>1 DEF Client, m
<1> HIDE DEF m, n
<1>8. /\ taken.state = c.state /\ taken.file = c.file /\ taken.written = c.written
      /\ taken.damaged = c.damaged /\ taken.downloadBlock = n + 1
      /\ taken.reliableAcknowledge = c.reliableAcknowledge /\ taken \in Client
  <2>1. PICK b \in BOOLEAN : b = (c.mixed \/ m.data.file # c.file)
    BY <1>7 DEF Client
  <2>2. taken = [c EXCEPT !.downloadBlock = n + 1, !.mixed = b]
    BY <2>1
  <2>3. n + 1 \in Nat
    BY <1>6 DEF n
  <2> HIDE DEF taken
  <2> QED
    BY <1>7, <2>1, <2>2, <2>3 DEF Client
<1>9. TakeBlock(c, m) =>
        \/ n # Blocks[f] /\ CL_AddReliableCommands(more, <<NextDl(n)>>, "overflow")
        \/ n = Blocks[f] /\ NextFile(taken, n)
  BY <1>5, <1>7 DEF TakeBlock, n
<1> HIDE DEF taken
<1>10. /\ m.reliableAcknowledge \in Nat
       /\ Len(commands) - m.reliableAcknowledge < MAX_DOWNLOAD_WINDOW
  BY <1>4 DEF m
<1>11. BlockArrives \/ clc'.damaged # clc.damaged
  BY DEF BlockArrives
<1>12. CASE n # Blocks[f] /\ CL_AddReliableCommands(more, <<NextDl(n)>>, "overflow")
  <2>1. /\ more.state = c.state /\ more.file = c.file /\ more.damaged = c.damaged
        /\ more.downloadBlock = n + 1 /\ more.written = Append(c.written, m.data)
        /\ more.reliableAcknowledge = c.reliableAcknowledge
    BY <1>8 DEF Client
  <2> HIDE DEF more
  <2>2. clc' = more /\ commands' = commands \o <<NextDl(n)>>
    <3>1. PICK a, new : a = more /\ new = <<NextDl(n)>>
      OBVIOUS
    <3>2. Len(new) \in {1, 2} /\ a.reliableAcknowledge = m.reliableAcknowledge
      BY <1>7, <2>1, <3>1
    <3>3. CL_AddReliableCommands(a, new, "overflow")
      BY <1>12, <3>1
    <3>4. clc' = a /\ commands' = commands \o new
      BY <1>10, <3>2, <3>3, CommandsFit
    <3> QED
      BY <3>1, <3>4
  <2>3. commands' = Append(commands, NextDl(n))
    <3>1. NextDl(n) \in Commands
      BY <1>6 DEF Commands, NextDl, n
    <3> QED
      BY <2>2, <3>1, TypeFacts, AppendIsConcat
  <2>4. /\ clc'.state = clc.state /\ clc'.damaged = clc.damaged /\ clc'.file = clc.file
        /\ clc'.downloadBlock = clc.downloadBlock + 1
        /\ clc'.written = Append(clc.written, toClient[1].data)
    BY <1>6, <1>7, <2>1, <2>2 DEF n, m
  <2>5. DataTaken
    BY <1>11, <1>12, <2>3, <2>4 DEF DataTaken, n
  <2> QED
    BY <1>1, <1>2, <2>5, TakenSync
<1>13. CASE n = Blocks[f] /\ NextFile(taken, n)
  <2>1. Intact(f, taken.written)
    BY <1>2, <1>7, <1>8, <1>13 DEF Intact, ClientOK, n
  <2>2. /\ done.state = c.state /\ done.damaged = c.damaged
        /\ done.reliableAcknowledge = c.reliableAcknowledge /\ done \in Client
    <3>1. (taken.damaged \/ ~Intact(f, taken.written)) = taken.damaged
      <4>1. taken.damaged \in BOOLEAN
        BY <1>8 DEF Client
      <4> QED
        BY <2>1, <4>1
    <3>2. done = [taken EXCEPT !.damaged = taken.damaged]
      BY <3>1
    <3> HIDE DEF done
    <3> QED
      BY <1>8, <3>2 DEF Client
  <2>3. \/ CL_AddReliableCommands(next, <<NextDl(n), Download(f + 1)>>, "overflow")
        \/ CL_AddReliableCommands(last, <<NextDl(n), DoneDl>>, "overflow")
    BY <1>7, <1>8, <1>13, <2>1 DEF NextFile
  <2> HIDE DEF done
  <2>4. /\ next.state = c.state /\ next.file = f + 1 /\ next.downloadBlock = 0
        /\ next.written = <<>> /\ next.damaged = c.damaged
        /\ next.reliableAcknowledge = c.reliableAcknowledge
    BY <2>2 DEF Client
  <2>5. /\ last.state = "done" /\ last.damaged = c.damaged
        /\ last.reliableAcknowledge = c.reliableAcknowledge
    BY <2>2 DEF Client
  <2> HIDE DEF next, last
  <2>6. ASSUME CL_AddReliableCommands(next, <<NextDl(n), Download(f + 1)>>, "overflow")
        PROVE  FileTaken
    <3>1. PICK a, new : a = next /\ new = <<NextDl(n), Download(f + 1)>>
      OBVIOUS
    <3>2. Len(new) \in {1, 2} /\ a.reliableAcknowledge = m.reliableAcknowledge
      BY <1>7, <2>4, <3>1
    <3>3. CL_AddReliableCommands(a, new, "overflow")
      BY <2>6, <3>1
    <3>4. clc' = next /\ commands' = commands \o <<NextDl(n), Download(f + 1)>>
      <4>1. clc' = a /\ commands' = commands \o new
        BY <1>10, <3>2, <3>3, CommandsFit
      <4> QED
        BY <3>1, <4>1
    <3>5. clc'.damaged = clc.damaged
      BY <1>6, <1>7, <2>4, <3>4
    <3>6. BlockArrives /\ clc.downloadBlock = Blocks[clc.file]
      BY <1>11, <1>13, <3>5 DEF n
    <3>7. /\ clc'.state = "downloading" /\ clc'.file = clc.file + 1
          /\ clc'.downloadBlock = 0 /\ clc'.written = <<>>
      BY <1>7, <2>4, <3>4
    <3>8. commands' = commands \o <<NextDl(clc.downloadBlock), Download(clc.file + 1)>>
      BY <3>4 DEF n
    <3> QED
      BY <3>6, <3>7, <3>8, Zenon DEF FileTaken
  <2>7. ASSUME CL_AddReliableCommands(last, <<NextDl(n), DoneDl>>, "overflow")
        PROVE  FileTaken
    <3>1. PICK a, new : a = last /\ new = <<NextDl(n), DoneDl>>
      OBVIOUS
    <3>2. Len(new) \in {1, 2} /\ a.reliableAcknowledge = m.reliableAcknowledge
      BY <1>7, <2>5, <3>1
    <3>3. CL_AddReliableCommands(a, new, "overflow")
      BY <2>7, <3>1
    <3>4. clc' = last /\ commands' = commands \o <<NextDl(n), DoneDl>>
      <4>1. clc' = a /\ commands' = commands \o new
        BY <1>10, <3>2, <3>3, CommandsFit
      <4> QED
        BY <3>1, <4>1
    <3>5. clc'.damaged = clc.damaged
      BY <1>6, <1>7, <2>5, <3>4
    <3>6. BlockArrives /\ clc.downloadBlock = Blocks[clc.file]
      BY <1>11, <1>13, <3>5 DEF n
    <3>7. clc'.state = "done"
      BY <2>5, <3>4
    <3>8. commands' = commands \o <<NextDl(clc.downloadBlock), DoneDl>>
      BY <3>4 DEF n
    <3> QED
      BY <3>6, <3>7, <3>8, Zenon DEF FileTaken
  <2>8. FileTaken
    BY <2>3, <2>6, <2>7, Zenon
  <2> QED
    BY <1>1, <1>2, <2>8, FileTakenSync
<1> QED
  BY <1>9, <1>12, <1>13 DEF m

(* A client that has finished takes a late message for the end of what it  *)
(* has not asked for.                                                      *)
LEMMA StopSync ==
  ASSUME TypeOK, Sync, clc.state = "done", cl' = cl,
         commands' = commands \o <<StopDl>>,
         clc'.state = clc.state, clc'.damaged = clc.damaged
  PROVE  Sync'
<1>1. PICK k \in 0..Pending : CommandsOK(k) /\ EndOfFile(k) /\ ~NextAsked(k)
  BY DEF Sync
<1>2. /\ Len(commands') = Len(commands) + 1
      /\ commands'[Len(commands) + 1] = StopDl
      /\ \A i \in 1..Len(commands) : commands'[i] = commands[i]
  BY TypeFacts
<1>3. /\ Len(commands) \in Nat /\ cl.lastClientCommand \in Nat /\ k \in Nat
      /\ Pending \in Nat /\ k <= Pending
      /\ Pending = Len(commands) - cl.lastClientCommand
  BY TypeFacts
<1>4. Pending' = Pending + 1
  <2>1. Pending' = (Len(commands) + 1) - cl.lastClientCommand
    BY <1>2 DEF Pending
  <2> QED
    BY <1>3, <2>1
<1>5. k \in 0..Pending' /\ Pending' > k
  BY <1>3, <1>4
<1>6. Acks(k)' /\ EndOfFile(k)'
  <2>1. ASSUME NEW i \in 1..k
        PROVE  commands'[cl.lastClientCommand + i] = NextDl(cl.downloadClientBlock + i - 1)
    <3>1. cl.lastClientCommand + i \in 1..Len(commands)
      BY <1>3
    <3>2. commands[cl.lastClientCommand + i] = NextDl(cl.downloadClientBlock + i - 1)
      BY <1>1 DEF CommandsOK, Acks
    <3> QED
      BY <1>2, <3>1, <3>2
  <2> QED
    BY <1>1, <2>1 DEF CommandsOK, Acks, EndOfFile
<1>7. AllDone(k)'
  <2>1. ASSUME NEW i \in cl.lastClientCommand + k + 1..Len(commands) + 1
        PROVE  commands'[i] \in {DoneDl, StopDl}
    <3>1. CASE i = Len(commands) + 1
      BY <1>2, <3>1
    <3>2. CASE i # Len(commands) + 1
      <4>1. i \in cl.lastClientCommand + k + 1..Len(commands) /\ i \in 1..Len(commands)
        BY <1>3, <3>2
      <4>2. Pending # k
        BY <1>3, <4>1
      <4>3. AllDone(k)
        BY <1>1, <4>2 DEF CommandsOK, MidFile
      <4> QED
        BY <1>2, <4>1, <4>3 DEF AllDone
    <3> QED
      BY <3>1, <3>2
  <2> QED
    BY <1>2, <1>5, <2>1 DEF AllDone
<1>8. ~NextAsked(k)'
  BY <1>2 DEF NextAsked, StopDl
<1>9. CommandsOK(k)'
  BY <1>5, <1>6, <1>7 DEF CommandsOK
<1>10. \E p \in 0..Pending' :
         /\ CommandsOK(p)'
         /\ clc'.state = "downloading" => ClientOK(p)'
         /\ clc'.state = "done" => EndOfFile(p)' /\ ~NextAsked(p)'
  BY <1>5, <1>6, <1>8, <1>9
<1>11. WindowOK(cl) => WindowOK(cl)'
  BY DEF WindowOK, WindowEnd
<1> QED
  BY <1>10, <1>11 DEF Sync

(* A late block of another file is known by the history variable.          *)
LEMMA StaysMixed ==
  ASSUME NEW a \in Client, a.mixed, NEW new, NEW failure,
         CL_AddReliableCommands(a, new, failure)
  PROVE  clc'.mixed
<1>1. [a EXCEPT !.state = failure].mixed
  BY DEF Client
<1> QED
  BY <1>1 DEF CL_AddReliableCommands

LEMMA LateBlock ==
  ASSUME NEW c, NEW m \in Messages, c.mixed \/ m.data.file # c.file,
         ClientFits(c, commands), c.state = "downloading", TakeBlock(c, m)
  PROVE  clc'.mixed
<1> DEFINE n     == c.downloadBlock
           f     == c.file
           taken == [c EXCEPT !.downloadBlock = n + 1, !.mixed = @ \/ m.data.file # c.file]
           more  == [taken EXCEPT !.written = Append(@, m.data)]
           done  == [taken EXCEPT !.damaged = @ \/ ~Intact(f, taken.written)]
           next  == [done EXCEPT !.file = f + 1, !.downloadBlock = 0, !.written = <<>>]
           last  == [done EXCEPT !.state = "done", !.file = NoFile, !.downloadBlock = 0,
                                 !.written = <<>>]
<1>1. c \in Client /\ n \in Nat /\ f \in File
  BY DEF ClientFits, Client
<1>2. taken \in Client /\ taken.mixed /\ taken.file = f
  <2>1. PICK w \in BOOLEAN : w = (c.mixed \/ m.data.file # c.file)
    BY <1>1 DEF Client
  <2>2. taken = [c EXCEPT !.downloadBlock = n + 1, !.mixed = w] /\ w
    BY <2>1
  <2>3. n + 1 \in Nat
    BY <1>1
  <2> HIDE DEF taken, n
  <2> QED
    BY <1>1, <2>1, <2>2, <2>3 DEF Client
<1> HIDE DEF taken
<1>3. more \in Client /\ more.mixed
  <2>1. taken.written \in Seq(BlockData) /\ m.data \in BlockData
    BY <1>2 DEF Client, Messages
  <2>2. Append(taken.written, m.data) \in Seq(BlockData)
    BY <2>1, AppendProperties
  <2>3. PICK w \in Seq(BlockData) : w = Append(taken.written, m.data)
    BY <2>2
  <2>4. more = [taken EXCEPT !.written = w]
    BY <2>3
  <2> HIDE DEF more
  <2> QED
    BY <1>2, <2>3, <2>4 DEF Client
<1>4. done \in Client /\ done.mixed
  <2>1. PICK w \in BOOLEAN : w = (taken.damaged \/ ~Intact(f, taken.written))
    BY <1>2 DEF Client
  <2>2. done = [taken EXCEPT !.damaged = w]
    BY <2>1
  <2> HIDE DEF done
  <2> QED
    BY <1>2, <2>1, <2>2 DEF Client
<1> HIDE DEF done
<1>5. f + 1 \in File => next \in Client /\ next.mixed
  <2>1. <<>> \in Seq(BlockData)
    OBVIOUS
  <2> QED
    BY <1>4, <2>1 DEF Client
<1>6. last \in Client /\ last.mixed
  <2>1. <<>> \in Seq(BlockData)
    OBVIOUS
  <2> QED
    BY <1>4, <2>1 DEF Client
<1>7. [done EXCEPT !.state = "error"].mixed
  BY <1>4 DEF Client
<1> HIDE DEF more, next, last
<1>8. CASE CL_AddReliableCommands(more, <<NextDl(n)>>, "overflow")
  BY <1>3, <1>8, StaysMixed
<1>9. CASE f + 1 \in File /\ CL_AddReliableCommands(next, <<NextDl(n), Download(f + 1)>>, "overflow")
  BY <1>5, <1>9, StaysMixed
<1>10. CASE CL_AddReliableCommands(last, <<NextDl(n), DoneDl>>, "overflow")
  BY <1>6, <1>10, StaysMixed
<1>11. CASE clc' = [done EXCEPT !.state = "error"]
  BY <1>7, <1>11
<1>12. CASE NextFile(taken, n)
  <2>1. \/ f + 1 \in File /\ CL_AddReliableCommands(next, <<NextDl(n), Download(f + 1)>>, "overflow")
        \/ CL_AddReliableCommands(last, <<NextDl(n), DoneDl>>, "overflow")
        \/ clc' = [done EXCEPT !.state = "error"]
    BY <1>2, <1>12 DEF NextFile, next, last, done
  <2> QED
    BY <1>9, <1>10, <1>11, <2>1
<1> QED
  BY <1>8, <1>12 DEF TakeBlock, more, taken

LEMMA ParseKeeps ==
  ASSUME IInv, CL_ParseDownload PROVE IInv'
<1> DEFINE m == toClient[1]
           c == [clc EXCEPT !.reliableAcknowledge = m.reliableAcknowledge]
<1>1. TypeOK /\ TypeOK'
  BY ParseTypeOK DEF IInv
<1> SUFFICES clc'.mixed \/ Sync'
  BY <1>1 DEF IInv

<1>2. /\ toClient # <<>> /\ toClient' = Tail(toClient) /\ cl' = cl
      /\ Head(toClient) = m /\ m \in Messages /\ clc \in Client
  BY <1>1, MessageTaken, TypeFacts DEF CL_ParseDownload
<1>3. m.reliableAcknowledge \in Nat
  BY <1>2 DEF Messages
<1>4. \/ clc.state = "done" /\ Misread(c, <<StopDl>>)
      \/ Misread(c, <<>>)
      \/ clc' = c /\ commands' = commands
      \/ clc.state = "downloading" /\ Expected(c, m) /\ TakeBlock(c, m)
  BY <1>2 DEF CL_ParseDownload
<1> HIDE DEF m
<1>5. /\ c \in Client /\ c.state = clc.state /\ c.damaged = clc.damaged
      /\ c.mixed = clc.mixed /\ c.file = clc.file
      /\ c.downloadBlock = clc.downloadBlock /\ c.written = clc.written
  BY <1>2, <1>3 DEF Client
<1>6. PICK c0 : c0 = c
  OBVIOUS
<1>7. /\ c0 \in Client /\ c0.state = clc.state /\ c0.damaged = clc.damaged
      /\ c0.mixed = clc.mixed /\ c0.file = clc.file
      /\ c0.downloadBlock = clc.downloadBlock /\ c0.written = clc.written
  BY <1>5, <1>6
<1>8. ASSUME NEW e, clc' = [c0 EXCEPT !.state = e]
      PROVE  /\ clc'.state = e /\ clc'.damaged = clc.damaged /\ clc'.mixed = clc.mixed
             /\ clc'.file = clc.file /\ clc'.downloadBlock = clc.downloadBlock
             /\ clc'.written = clc.written
  BY <1>7, <1>8 DEF Client
<1>9. CASE clc' = [c0 EXCEPT !.state = "error"] /\ commands' = commands
  <2>1. CASE clc.mixed
    BY <1>8, <1>9, <2>1
  <2>2. CASE ~clc.mixed
    <3>1. Sync
      BY <2>2 DEF IInv
    <3> QED
      BY <1>1, <1>2, <1>8, <1>9, <3>1, NothingTaken
  <2> QED
    BY <2>1, <2>2
<1>10. CASE clc' = c0 /\ commands' = commands
  <2>1. CASE clc.mixed
    BY <1>7, <1>10, <2>1
  <2>2. CASE ~clc.mixed
    <3>1. Sync
      BY <2>2 DEF IInv
    <3> QED
      BY <1>1, <1>2, <1>7, <1>10, <3>1, NothingTaken
  <2> QED
    BY <2>1, <2>2
<1>11. CASE Misread(c0, <<>>)
  <2>1. commands \o <<>> = commands
    BY <1>1, TypeFacts, ConcatEmptySeq
  <2> QED
    BY <1>9, <1>10, <1>11, <2>1 DEF Misread, CL_AddReliableCommands
<1>12. CASE clc.state = "done" /\ clc' = c0 /\ commands' = commands \o <<StopDl>>
  <2>1. CASE clc.mixed
    BY <1>7, <1>12, <2>1
  <2>2. CASE ~clc.mixed
    <3>1. Sync
      BY <2>2 DEF IInv
    <3> QED
      BY <1>1, <1>2, <1>7, <1>12, <3>1, StopSync
  <2> QED
    BY <2>1, <2>2
<1>13. CASE clc.state = "done" /\ Misread(c0, <<StopDl>>)
  BY <1>9, <1>12, <1>13 DEF Misread, CL_AddReliableCommands
<1>14. CASE clc.state = "downloading" /\ Expected(c0, m) /\ TakeBlock(c0, m)
  <2>1. CASE clc.mixed \/ m.data.file # clc.file
    <3>1. ClientFits(c0, commands)
      <4>1. /\ m.reliableAcknowledge <= cl.lastClientCommand
            /\ clc.state = "downloading" => clc.file # NoFile
        BY <1>1, <1>2, MessageTaken DEF TypeOK, m
      <4>2. c0.reliableAcknowledge = m.reliableAcknowledge
        BY <1>2, <1>3, <1>6 DEF Client
      <4>3. m.reliableAcknowledge <= Len(commands)
        BY <1>1, <1>3, <4>1, TypeFacts
      <4> QED
        BY <1>1, <1>7, <4>1, <4>2, <4>3, TypeFacts DEF ClientFits
    <3> QED
      BY <1>2, <1>7, <1>14, <2>1, <3>1, LateBlock
  <2>2. CASE ~clc.mixed /\ m.data.file = clc.file
    <3>1. Sync
      BY <2>2 DEF IInv
    <3>2. clc.downloadBlock % BlockModulus = toClient[1].block
      BY <1>7, <1>14 DEF Expected, m
    <3>3. /\ toClient[1].data.file = clc.file /\ TakeBlock(c0, toClient[1])
          /\ c0 = [clc EXCEPT !.reliableAcknowledge = toClient[1].reliableAcknowledge]
      BY <1>6, <1>14, <2>2 DEF m
    <3> QED
      BY <1>1, <1>2, <1>14, <3>1, <3>2, <3>3, TakeBlockSync
  <2> QED
    BY <2>1, <2>2
<1> QED
  BY <1>4, <1>6, <1>10, <1>11, <1>13, <1>14

-----------------------------------------------------------------------------
LEMMA InitKeeps ==
  ASSUME Init PROVE IInv
<1>1. /\ File = 1..Len(Blocks) /\ 1 \in File /\ MAX_DOWNLOAD_WINDOW \in Nat \ {0}
      /\ NoFile = 0 /\ 1 # NoFile
  BY FileFacts, NoFileIsNone, WindowAssumption
<1>2. cl \in Server /\ clc \in Client
  <2>1. [i \in 0..MAX_DOWNLOAD_WINDOW - 1 |-> NoBlock]
          \in [0..MAX_DOWNLOAD_WINDOW - 1 -> BlockData]
    BY DEF NoBlock, BlockData
  <2> HIDE DEF NoBlock
  <2>2. <<>> \in Seq(BlockData)
    OBVIOUS
  <2> QED
    BY <1>1, <2>1, <2>2 DEF Init, Server, Client
<1>3. /\ commands \in Seq(Commands) /\ Len(commands) = 1 /\ commands[1] = Download(1)
  BY <1>1 DEF Init, Commands, Download
<1>4. /\ toClient = <<>> /\ toClient \in Seq(Messages) /\ DOMAIN toClient = {}
  BY EmptySeq DEF Init
<1>5. /\ cl.state = "connected" /\ cl.lastClientCommand = 0
      /\ ~cl.download /\ cl.downloadName = NoFile
      /\ clc.state = "downloading" /\ clc.file = 1 /\ clc.downloadBlock = 0
      /\ clc.reliableAcknowledge = 0 /\ clc.written = <<>> /\ ~clc.damaged /\ ~clc.mixed
  BY DEF Init
<1>6. TypeOK
  BY <1>1, <1>2, <1>3, <1>4, <1>5 DEF TypeOK
<1>7. Pending = 1 /\ 0 \in 0..Pending
  BY <1>3, <1>5 DEF Pending
<1>8. CommandsOK(0)
  <2>1. NextAsked(0) /\ EndOfFile(0)
    BY <1>3, <1>5, <1>7 DEF NextAsked, EndOfFile, Download
  <2>2. Acks(0)
    BY <1>5 DEF Acks
  <2> QED
    BY <1>7, <2>1, <2>2 DEF CommandsOK
<1>9. ClientOK(0)
  <2>1. clc.written = [i \in 1..clc.downloadBlock |-> Block(clc.file, i - 1)]
    BY <1>5, EmptySeq
  <2>2. NextAsked(0) /\ commands[Len(commands)] = Download(clc.file)
    BY <1>3, <1>5, <1>7 DEF NextAsked, Download
  <2> QED
    BY <1>5, <1>7, <2>1, <2>2 DEF ClientOK
<1>10. MessagesOK
  BY <1>4 DEF MessagesOK, OfThisFile
<1>11. Sync
  BY <1>5, <1>7, <1>8, <1>9, <1>10 DEF Sync
<1> QED
  BY <1>6, <1>11 DEF IInv

LEMMA StutterKeeps ==
  ASSUME IInv, UNCHANGED vars PROVE IInv'
<1>1. cl' = cl /\ toClient' = toClient /\ commands' = commands /\ clc' = clc
  BY DEF vars
<1>2. TypeOK'
  BY <1>1 DEF IInv, TypeOK
<1>3. \A k : /\ CommandsOK(k) <=> CommandsOK(k)'
             /\ ClientOK(k) <=> ClientOK(k)'
             /\ EndOfFile(k) <=> EndOfFile(k)'
             /\ NextAsked(k) <=> NextAsked(k)'
  BY <1>1 DEF CommandsOK, ClientOK, EndOfFile, NextAsked, Acks, MidFile, AllDone, Pending
<1>4. (WindowOK(cl) <=> WindowOK(cl)') /\ Pending' = Pending
  BY <1>1 DEF WindowOK, WindowEnd, Pending
<1>5. MessagesOK => MessagesOK'
  BY <1>1 DEF MessagesOK, MessageOK, OfThisFile
<1>6. Sync => Sync'
  BY <1>1, <1>3, <1>4, <1>5 DEF Sync
<1> QED
  BY <1>1, <1>2, <1>6 DEF IInv

(* Server, client and what is under way between them stay in step for any  *)
(* files, any window and any modulus of the block numbers that is greater  *)
(* than the window, until the client takes a block of another file than    *)
(* the one it is writing.                                                  *)
THEOREM DownloadInvariance == Spec => []IInv
<1>1. Init => IInv
  BY InitKeeps
<1>2. IInv /\ [Next]_vars => IInv'
  <2> SUFFICES ASSUME IInv, [Next]_vars PROVE IInv'
    OBVIOUS
  <2>1. CASE SV_ExecuteClientCommand
    BY <2>1, ExecuteKeeps
  <2>2. CASE SendBlock
    BY <2>2, SendKeeps
  <2>3. CASE RefuseFile
    BY <2>3, RefuseKeeps
  <2>4. CASE CL_ParseDownload
    BY <2>4, ParseKeeps
  <2>5. CASE Lose
    BY <2>5, LoseKeeps
  <2>6. CASE UNCHANGED vars
    BY <2>6, StutterKeeps
  <2> QED
    BY <2>1, <2>2, <2>3, <2>4, <2>5, <2>6 DEF Next, SV_SendDownloadMessages
<1> QED
  BY <1>1, <1>2, PTL DEF Spec

(* The server never takes an acknowledgement for that of another block,    *)
(* and its window never grows beyond its limit (SV_NextDownload_f,         *)
(* SV_WriteDownloadToClient), unless the client has taken a late block.    *)
THEOREM ClientInStep == Spec => []InStep
<1>1. IInv => InStep
  <2> SUFFICES ASSUME TypeOK, Sync PROVE InStep
    BY DEF IInv, InStep
  <2>1. cl.state = "connected"
    BY DEF Sync
  <2>2. ASSUME cl.download
        PROVE  /\ cl.downloadXmitBlock <= cl.downloadCurrentBlock
               /\ cl.downloadCurrentBlock - cl.downloadClientBlock
                    \in 0..MAX_DOWNLOAD_WINDOW
    <3>1. /\ cl.downloadClientBlock <= cl.downloadCurrentBlock
          /\ cl.downloadCurrentBlock <= cl.downloadClientBlock + MAX_DOWNLOAD_WINDOW
          /\ cl.downloadXmitBlock <= cl.downloadCurrentBlock
      BY <2>2 DEF Sync, WindowOK, WindowEnd
    <3>2. /\ cl.downloadClientBlock \in Nat /\ cl.downloadCurrentBlock \in Nat
          /\ MAX_DOWNLOAD_WINDOW \in Nat
      BY TypeFacts, WindowAssumption
    <3> QED
      BY <3>1, <3>2
  <2> QED
    BY <2>1, <2>2 DEF InStep
<1> QED
  BY <1>1, DownloadInvariance, PTL

(* A file that the client has finished is the server's file, block for     *)
(* block (CL_ParseDownload), unless the client has taken a late block.     *)
THEOREM FilesArriveWhole == Spec => []FileIntact
<1>1. IInv => FileIntact
  BY DEF IInv, Sync, FileIntact
<1> QED
  BY <1>1, DownloadInvariance, PTL

(* A window smaller than the client's ring of reliable commands never      *)
(* fills it with acknowledgements (MAX_DOWNLOAD_WINDOW, qcommon.h), unless *)
(* the client has taken a late block.                                      *)
THEOREM AcknowledgementsFit == Spec => []WindowFits
<1>1. IInv => WindowFits
  BY DEF IInv, Sync, WindowFits
<1> QED
  BY <1>1, DownloadInvariance, PTL
=============================================================================
