------------------------------ MODULE KeyInput ------------------------------
(***************************************************************************)
(* Keys on their way to NetHack in the Flash port.                         *)
(*                                                                         *)
(* The game runs in a worker and must not ask for input when there is none *)
(* (its getchar() would see the end of the file, and the game would save   *)
(* itself and end), so it spins on a counter of bytes, which the UI thread *)
(* raises through C code after it has put a key's bytes in a ByteArray.    *)
(* The game's read() is run by the UI thread, between two events.  The     *)
(* mutex around the counter (wintty.c:2512) is what makes ++ and -- whole. *)
(*                                                                         *)
(* The library's part is external: stdin has a buffer of ReadSize bytes,   *)
(* and the UI thread runs one event handler or one request at a time.      *)
(*                                                                         *)
(* NetHackProofs has this module and SaveRestore together: hence KeyInit,  *)
(* KeyNext and the other names with Key.                                   *)
(***************************************************************************)
EXTENDS Naturals, Sequences

CONSTANTS
  Byte,      \* the bytes
  Key,       \* the keys: the bytes each is turned into
  ReadSize,  \* the size of stdin's buffer
  MaxTyped   \* bound: no key is typed after so many bytes

ASSUME KeyAssumption == \A k \in Key : k \in Seq(Byte) \ {<<>>}
ASSUME ReadAssumption == ReadSize \in Nat \ {0}
ASSUME TypedAssumption == MaxTyped \in Nat

VARIABLES
  ui,        \* the UI thread: between events, or in incrementInputAvailable()
  uiSum,     \* the counter it has read
  keybytes,  \* the bytes of the keys ...
  kp,        \* ... and how many of them have been read
  toAdd,     \* bytesAdded: still to be counted
  worker,    \* the worker, in tty_nhgetch()
  gameSum,   \* the counter it has read
  mutex,     \* TTYInputMutex: who holds it
  available, \* TTYInputAvailable
  stdin,     \* what is in stdin's buffer
  typed,     \* history: the bytes of all keys
  taken      \* history: what tty_nhgetch() has returned

uiVars == <<ui, uiSum, keybytes, kp, toAdd>>
gameVars == <<worker, gameSum>>
keyHistory == <<typed, taken>>
keyVars == <<uiVars, gameVars, mutex, available, stdin, keyHistory>>

(* The bytes of the ByteArray that have not been read. *)
Unread == SubSeq(keybytes, kp + 1, Len(keybytes))

KeyInit ==
  /\ ui = "idle" /\ uiSum = 0 /\ keybytes = <<>> /\ kp = 0 /\ toAdd = 0
  /\ worker = "turn" /\ gameSum = 0 /\ mutex = "free" /\ available = 0
  /\ stdin = <<>> /\ typed = <<>> /\ taken = <<>>

-----------------------------------------------------------------------------
(* The UI thread. *)

(* Mutant: the bytes go where the last read has left the ByteArray, as in  *)
(* Quake 3's and Neverball's consoles.                                     *)
KeyDownInPlace(k) ==
  /\ ui = "idle"
  /\ Len(typed) < MaxTyped
  /\ keybytes' = SubSeq(keybytes, 1, kp) \o k
                   \o SubSeq(keybytes, kp + Len(k) + 1, Len(keybytes))
  /\ toAdd' = Len(k)
  /\ ui' = "add"
  /\ typed' = typed \o k
  /\ UNCHANGED <<uiSum, kp, gameVars, mutex, available, stdin, taken>>

(* Mutant: a key counts as one byte. *)
KeyDownCountOne(k) ==
  /\ ui = "idle"
  /\ Len(typed) < MaxTyped
  /\ keybytes' = keybytes \o k
  /\ toAdd' = 1
  /\ ui' = "add"
  /\ typed' = typed \o k
  /\ UNCHANGED <<uiSum, kp, gameVars, mutex, available, stdin, taken>>

(* Mutant: all the bytes that the ByteArray has are counted. *)
KeyDownCountAll(k) ==
  /\ ui = "idle"
  /\ Len(typed) < MaxTyped
  /\ keybytes' = keybytes \o k
  /\ toAdd' = Len(keybytes')
  /\ ui' = "add"
  /\ typed' = typed \o k
  /\ UNCHANGED <<uiSum, kp, gameVars, mutex, available, stdin, taken>>

bufferKeyDown(k) ==
  /\ ui = "idle"
  /\ Len(typed) < MaxTyped
  /\ keybytes' = keybytes \o k
  /\ toAdd' = Len(k)
  /\ ui' = "add"
  /\ typed' = typed \o k
  /\ UNCHANGED <<uiSum, kp, gameVars, mutex, available, stdin, taken>>

(* incrementInputAvailable(), once for each byte. *)
IncrementEnter ==
  /\ ui = "add" /\ mutex = "free"
  /\ ui' = "store" /\ mutex' = "ui"
  /\ uiSum' = available
  /\ UNCHANGED <<keybytes, kp, toAdd, gameVars, available, stdin, keyHistory>>

IncrementLeave ==
  /\ ui = "store"
  /\ available' = uiSum + 1
  /\ mutex' = "free"
  /\ toAdd' = toAdd - 1
  /\ ui' = IF toAdd' = 0 THEN "idle" ELSE "add"
  /\ UNCHANGED <<uiSum, keybytes, kp, gameVars, stdin, keyHistory>>

(* The game's read(): what there is, up to ReadSize bytes.  Only when it   *)
(* runs into the end is the ByteArray emptied.  The end of the file is     *)
(* what the game gets when there is nothing.                               *)
read ==
  /\ ui = "idle" /\ worker = "read"
  /\ IF Len(Unread) < ReadSize
     THEN /\ stdin' = Unread
          /\ keybytes' = <<>> /\ kp' = 0
     ELSE /\ stdin' = SubSeq(Unread, 1, ReadSize)
          /\ kp' = kp + ReadSize
          /\ UNCHANGED keybytes
  /\ worker' = IF stdin' = <<>> THEN "eof" ELSE "getchar"
  /\ UNCHANGED <<ui, uiSum, toAdd, gameSum, mutex, available, keyHistory>>

-----------------------------------------------------------------------------
(* The game: tty_nhgetch(). *)
Ask ==
  /\ worker = "turn"
  /\ worker' = "spin"
  /\ UNCHANGED <<uiVars, gameSum, mutex, available, stdin, keyHistory>>

(* inputAvailable() *)
inputAvailableEnter ==
  /\ worker = "spin" /\ mutex = "free"
  /\ worker' = "test" /\ mutex' = "game"
  /\ gameSum' = available
  /\ UNCHANGED <<uiVars, available, stdin, keyHistory>>

inputAvailableLeave ==
  /\ worker = "test"
  /\ mutex' = "free"
  /\ worker' = IF gameSum = 0 THEN "spin" ELSE "take"
  /\ UNCHANGED <<uiVars, gameSum, available, stdin, keyHistory>>

(* Mutant: decrementInputAvailable() without the mutex. *)
DecrementUnlocked ==
  /\ worker = "take"
  /\ worker' = "store" /\ UNCHANGED mutex
  /\ gameSum' = available
  /\ UNCHANGED <<uiVars, available, stdin, keyHistory>>

(* decrementInputAvailable() *)
DecrementEnter ==
  /\ worker = "take" /\ mutex = "free"
  /\ worker' = "store" /\ mutex' = "game"
  /\ gameSum' = available
  /\ UNCHANGED <<uiVars, available, stdin, keyHistory>>

DecrementLeave ==
  /\ worker = "store"
  /\ available' = gameSum - 1
  /\ mutex' = "free"
  /\ worker' = "getchar"
  /\ UNCHANGED <<uiVars, gameSum, stdin, keyHistory>>

(* getchar(): from the buffer, or read() first. *)
getchar ==
  /\ worker = "getchar" /\ stdin # <<>>
  /\ taken' = Append(taken, Head(stdin))
  /\ stdin' = Tail(stdin)
  /\ worker' = "turn"
  /\ UNCHANGED <<uiVars, gameSum, mutex, available, typed>>

Fill ==
  /\ worker = "getchar" /\ stdin = <<>>
  /\ worker' = "read"
  /\ UNCHANGED <<uiVars, gameSum, mutex, available, stdin, keyHistory>>

-----------------------------------------------------------------------------
Counting == IncrementEnter \/ IncrementLeave
Locking == inputAvailableEnter \/ DecrementEnter
Unlocking == inputAvailableLeave \/ DecrementLeave

KeyNext ==
  \/ \E k \in Key : bufferKeyDown(k)
  \/ Counting \/ read
  \/ Ask \/ Locking \/ Unlocking \/ getchar \/ Fill

(* Both threads go on; a thread that waits for the mutex, while the other  *)
(* takes it again and again, gets it in the end, and the timer that serves *)
(* the game's requests comes between the keys.                             *)
Fairness ==
  /\ SF_keyVars(Counting) /\ SF_keyVars(read) /\ SF_keyVars(Locking)
  /\ WF_keyVars(Ask) /\ WF_keyVars(Unlocking)
  /\ WF_keyVars(getchar) /\ WF_keyVars(Fill)

KeySpec == KeyInit /\ [][KeyNext]_keyVars /\ Fairness

-----------------------------------------------------------------------------
KeyTypeOK ==
  /\ ui \in {"idle", "add", "store"} /\ uiSum \in Nat
  /\ worker \in {"turn", "spin", "test", "take", "store", "getchar", "read"}
  /\ gameSum \in Nat
  /\ mutex \in {"free", "ui", "game"}
  /\ available \in Nat /\ toAdd \in Nat
  /\ keybytes \in Seq(Byte) /\ kp \in 0 .. Len(keybytes)
  /\ stdin \in Seq(Byte)
  /\ typed \in Seq(Byte) /\ taken \in Seq(Byte)

(* The mutex is held where the code holds it, and then nobody else changes *)
(* the counter; the game takes a byte only when it has seen one.           *)
Locked ==
  /\ mutex = "ui" <=> ui = "store"
  /\ mutex = "game" <=> worker \in {"test", "store"}
  /\ ui = "store" => uiSum = available
  /\ worker \in {"test", "store"} => gameSum = available
  /\ worker \in {"take", "store"} => available > 0
  /\ toAdd = 0 <=> ui = "idle"
  /\ worker = "read" => stdin = <<>>

(* What the game has claimed with the counter and not yet read. *)
Claimed == IF worker \in {"getchar", "read"} THEN 1 ELSE 0

(* Every byte that can be read has been counted, is being counted or has   *)
(* been claimed: the counter never promises a byte that is not there.      *)
Counted ==
  available + toAdd + Claimed = Len(keybytes) - kp + Len(stdin)

(* The inductive invariant: the mutex makes every ++ and -- count.         *)
KeyIInv == KeyTypeOK /\ Locked /\ Counted

(* When the game asks the UI thread for bytes it gets some: it never sees  *)
(* the end of the file.                                                    *)
NeverEof ==
  /\ worker # "eof"
  /\ worker = "read" => kp < Len(keybytes)

(* The game gets the bytes that were typed, each once and in order, however *)
(* keys and reads interleave.                                               *)
InOrder == typed = taken \o stdin \o Unread

(* A byte that was typed reaches the game. *)
AllTaken == \A n \in 1 .. MaxTyped : Len(typed) >= n ~> Len(taken) >= n
=============================================================================
