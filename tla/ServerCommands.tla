--------------------------- MODULE ServerCommands ---------------------------
(***************************************************************************)
(* Reliable commands from the server to one client.  The server numbers    *)
(* them and keeps the last MAX_RELIABLE_COMMANDS in a ring; every message  *)
(* repeats the ones the client has not acknowledged (sv_main.c,            *)
(* sv_snapshot.c, sv_client.c).  The client stores them in a ring of its   *)
(* own (cl_parse.c) and the cgame executes them, later, when it moves to   *)
(* a snapshot (cl_cgame.c, cgame/cg_snapshot.c).  Command n is represented *)
(* by n: different commands are taken to have different texts.             *)
(*                                                                         *)
(* The two channels are what MessageChannel promises: the receiver takes   *)
(* any message newer than the last one it took, and never an older one.    *)
(***************************************************************************)
EXTENDS Naturals, Sequences

CONSTANTS
  MAX_RELIABLE_COMMANDS,  \* slots of either ring
  MaxCommands,            \* bound: commands the game issues
  MaxServerMessages,      \* bound: messages the server sends
  MaxClientMessages       \* bound: messages the client sends

ASSUME RingAssumption == MAX_RELIABLE_COMMANDS \in Nat \ {0}

VARIABLES
  cl,         \* the server's client_t
  toClient,   \* messages the client may still receive
  svSent,     \* how many the server has sent
  toServer,   \* messages the server may still receive
  clc,        \* the client's clientConnection_t
  snaps,      \* snapshots parsed and not yet shown by the cgame
  executed,   \* the commands the cgame has executed, in order
  keys        \* what client and server put into the key of the last move

serverVars == <<cl, svSent>>
clientVars == <<clc, snaps, executed>>
vars == <<serverVars, clientVars, toClient, toServer, keys>>

Slot(n) == n % MAX_RELIABLE_COMMANDS
EmptyRing == [i \in 0..MAX_RELIABLE_COMMANDS - 1 |-> 0]

Init ==
  /\ cl = [state |-> "live", reliableSequence |-> 0, reliableAcknowledge |-> 0,
           reliableCommands |-> EmptyRing, disconnect |-> 0, overflowed |-> 0,
           gameDisconnects |-> 0]
  /\ clc = [state |-> "live", serverMessageSequence |-> 0,
            serverCommandSequence |-> 0, serverCommands |-> EmptyRing, sent |-> 0]
  /\ toClient = {} /\ toServer = {}
  /\ svSent = 0
  /\ snaps = <<>>
  /\ executed = <<>>
  /\ keys = [client |-> 0, server |-> 0]

-----------------------------------------------------------------------------
(* SV_AddServerCommand and SV_DropClient call each other, to a depth that  *)
(* the "==" of the overflow test bounds: once it has failed the difference *)
(* is larger than the one tested for.                                      *)
Pending(c) == c.reliableSequence - c.reliableAcknowledge

(* A wrong Put, for mutation: the slot is taken before the increment. *)
PutTooEarly(c, final) ==
  LET n == c.reliableSequence + 1
  IN  [c EXCEPT !.reliableSequence = n,
                !.reliableCommands[Slot(c.reliableSequence)] = n,
                !.disconnect = IF final THEN n ELSE @]

(* Number a command and store it; "final" marks the disconnect command. *)
Put(c, final) ==
  LET n == c.reliableSequence + 1
  IN  [c EXCEPT !.reliableSequence = n,
                !.reliableCommands[Slot(n)] = n,
                !.disconnect = IF final THEN n ELSE @]

PutSome(c, k) == IF k = 0 THEN c ELSE Put(c, FALSE)

(* The command that finds the ring full is numbered but not stored.  Then  *)
(* SV_DropClient: a broadcast print, what the game says in                 *)
(* GAME_CLIENT_DISCONNECT (k commands), the disconnect.                    *)
Overflow(c, k) ==
  LET n       == c.reliableSequence + 1
      printed == Put([c EXCEPT !.reliableSequence = n, !.overflowed = n], FALSE)
      told    == PutSome([printed EXCEPT !.gameDisconnects = @ + 1], k)
  IN  [Put(told, TRUE) EXCEPT !.state = "zombie"]

(* A wrong Add, for mutation: the overflow is noticed one command late. *)
AddLate(c, k, final) ==
  IF c.state = "zombie" THEN c
  ELSE IF Pending(c) = MAX_RELIABLE_COMMANDS + 1
  THEN Overflow(c, k)
  ELSE Put(c, final)

Add(c, k, final) ==
  IF c.state = "zombie" THEN c
  ELSE IF Pending(c) = MAX_RELIABLE_COMMANDS
  THEN Overflow(c, k)
  ELSE Put(c, final)

Drop(c, k) ==
  LET printed == Add(c, k, FALSE)
      called  == [printed EXCEPT !.gameDisconnects = @ + 1]
      told    == IF k = 0 THEN called ELSE Add(called, k, FALSE)
  IN  [Add(told, k, TRUE) EXCEPT !.state = "zombie"]

(* The game issues a command. *)
SV_AddServerCommand ==
  /\ cl.state # "zombie"
  /\ cl.reliableSequence < MaxCommands
  /\ \E k \in {0, 1} : cl' = Add(cl, k, FALSE)
  /\ UNCHANGED <<svSent, clientVars, toClient, toServer, keys>>

(* A kick, a timeout or a bad message. *)
SV_DropClient ==
  /\ cl.state # "zombie"
  /\ \E k \in {0, 1} : cl' = Drop(cl, k)
  /\ UNCHANGED <<svSent, clientVars, toClient, toServer, keys>>

(* A wrong ServerMessage, for mutation: the newest command is left out. *)
MessageWithoutNewest(kind) ==
  [sequence |-> svSent + 1, kind |-> kind, issued |-> cl.reliableSequence,
   commands |-> [n \in {i \in 1..cl.reliableSequence :
                          cl.reliableAcknowledge < i /\ i < cl.reliableSequence} |->
                   cl.reliableCommands[Slot(n)]]]

(* SV_UpdateServerCommandsToClient, then a snapshot or a gamestate. *)
ServerMessage(kind) ==
  [sequence |-> svSent + 1, kind |-> kind, issued |-> cl.reliableSequence,
   commands |-> [n \in cl.reliableAcknowledge + 1..cl.reliableSequence |->
                   cl.reliableCommands[Slot(n)]]]

(* A snapshot that has become too long for a message is cleared, and the   *)
(* commands in front of it go with it.                                     *)
ClearedMessage ==
  [sequence |-> svSent + 1, kind |-> "cleared", issued |-> cl.reliableSequence,
   commands |-> <<>>]

SendToClient(message) ==
  /\ svSent < MaxServerMessages
  /\ toClient' = toClient \cup {message}
  /\ svSent' = svSent + 1
  /\ UNCHANGED <<cl, clientVars, toServer, keys>>

(* Zombies are still sent snapshots. *)
SV_SendClientSnapshot ==
  SendToClient(ServerMessage("snapshot")) \/ SendToClient(ClearedMessage)

(* Sent again whenever the client seems to have lost it. *)
SV_SendClientGameState ==
  cl.state # "zombie" /\ SendToClient(ServerMessage("gamestate"))

-----------------------------------------------------------------------------
(* The client.  A command is read if it is newer than the newest one read  *)
(* so far; the rest are skipped (CL_ParseCommandString).                   *)
Newest(S, default) ==
  IF S = {} THEN default ELSE CHOOSE n \in S : \A o \in S : o <= n

Store(ring, m, new) ==
  [i \in DOMAIN ring |->
     LET here == {n \in new : Slot(n) = i}
     IN  IF here = {} THEN ring[i] ELSE m.commands[Newest(here, 0)]]

(* A gamestate says how many commands its sender had issued.               *)
Parse(c, m) ==
  LET new == {n \in DOMAIN m.commands : n > c.serverCommandSequence}
  IN  [c EXCEPT
        !.serverMessageSequence = m.sequence,
        !.serverCommandSequence =
           IF m.kind = "gamestate" THEN m.issued ELSE Newest(new, @),
        !.serverCommands = Store(@, m, new)]

(* A snapshot waits for the cgame, a gamestate restarts it. *)
ParseMessage(m) ==
  /\ m.kind # "cleared"
  /\ clc' = Parse(clc, m)
  /\ snaps' = IF m.kind = "gamestate" THEN <<>>
              ELSE Append(snaps, [serverCommandNum |-> clc'.serverCommandSequence,
                                  issued |-> m.issued])

(* "read past end of server message" ends the connection. *)
ReadPastEnd(m) ==
  /\ m.kind = "cleared"
  /\ clc' = [clc EXCEPT !.state = "gone", !.serverMessageSequence = m.sequence]
  /\ UNCHANGED snaps

CL_ParseServerMessage(m) ==
  /\ clc.state = "live"
  /\ ParseMessage(m) \/ ReadPastEnd(m)
  /\ toClient' = {o \in toClient : o.sequence > m.sequence}
  /\ UNCHANGED <<serverVars, executed, toServer, keys>>

(* A wrong CycledOut, for mutation. *)
NeverCycledOut(n) == FALSE

(* CL_GetServerCommand: command n is no longer in the ring. *)
CycledOut(n) == n + MAX_RELIABLE_COMMANDS <= clc.serverCommandSequence

(* The commands the cgame executes up to number n: it stops at a           *)
(* disconnect.                                                             *)
Stop(n) ==
  LET last == {i \in Len(executed) + 1..n :
                 /\ clc.serverCommands[Slot(i)] # 0
                 /\ clc.serverCommands[Slot(i)] = cl.disconnect}
  IN  IF last = {} THEN n ELSE CHOOSE i \in last : \A j \in last : i <= j

(* CG_ExecuteNewServerCommands for the oldest waiting snapshot.  An error  *)
(* and a disconnect command both end the connection.                       *)
CG_TransitionSnapshot ==
  /\ clc.state = "live" /\ snaps # <<>>
  /\ snaps' = Tail(snaps)
  /\ LET first == Len(executed) + 1
         n     == Head(snaps).serverCommandNum
         stop  == Stop(n)
     IN  \/ /\ first > n
            /\ UNCHANGED <<executed, clc>>
         \/ /\ first <= n /\ CycledOut(first)
            /\ clc' = [clc EXCEPT !.state = "gone"]
            /\ UNCHANGED executed
         \/ /\ first <= n /\ ~CycledOut(first)
            /\ executed' = executed \o
                 [i \in 1..stop - Len(executed) |->
                    clc.serverCommands[Slot(Len(executed) + i)]]
            /\ clc' = IF cl.disconnect \in {executed'[i] : i \in first..stop}
                      THEN [clc EXCEPT !.state = "gone"] ELSE clc
  /\ UNCHANGED <<serverVars, toClient, toServer, keys>>

(* The cgame asks for snapshots by number and misses one that the client   *)
(* has pushed out of its buffers by then.                                  *)
CG_MissSnapshot ==
  /\ clc.state = "live" /\ Len(snaps) > 1
  /\ snaps' = Tail(snaps)
  /\ UNCHANGED <<serverVars, clc, executed, toClient, toServer, keys>>

(* CL_WritePacket: acknowledge the newest command, and send a move that is *)
(* encoded with its text.                                                  *)
CL_WritePacket ==
  /\ clc.state = "live" /\ clc.sent < MaxClientMessages
  /\ toServer' = toServer \cup
       {[sequence |-> clc.sent + 1, reliableAcknowledge |-> clc.serverCommandSequence,
         key |-> clc.serverCommands[Slot(clc.serverCommandSequence)]]}
  /\ clc' = [clc EXCEPT !.sent = @ + 1]
  /\ UNCHANGED <<serverVars, snaps, executed, toClient, keys>>

(* The acknowledgement is more than a ring behind.                         *)
OutOfRange(m) ==
  m.reliableAcknowledge + MAX_RELIABLE_COMMANDS < cl.reliableSequence

(* SV_ExecuteClientMessage and SV_UserMove.  A zombie's messages are       *)
(* thrown away; an acknowledgement out of range stands for the newest      *)
(* command (PendingKept says that no live client sends one).               *)
SV_ExecuteClientMessage(m) ==
  /\ toServer' = {o \in toServer : o.sequence > m.sequence}
  /\ IF cl.state = "zombie"
     THEN UNCHANGED <<cl, keys>>
     ELSE /\ cl' = [cl EXCEPT !.reliableAcknowledge =
                      IF OutOfRange(m) THEN cl.reliableSequence
                      ELSE m.reliableAcknowledge]
          /\ keys' = IF OutOfRange(m) THEN keys
                     ELSE [client |-> m.key,
                           server |-> cl.reliableCommands[Slot(m.reliableAcknowledge)]]
  /\ UNCHANGED <<svSent, clientVars, toClient>>

Next ==
  \/ SV_AddServerCommand
  \/ SV_DropClient
  \/ SV_SendClientSnapshot
  \/ SV_SendClientGameState
  \/ \E m \in toClient : CL_ParseServerMessage(m)
  \/ CG_TransitionSnapshot
  \/ CG_MissSnapshot
  \/ CL_WritePacket
  \/ \E m \in toServer : SV_ExecuteClientMessage(m)

Spec == Init /\ [][Next]_vars

-----------------------------------------------------------------------------
Slots == 0..MAX_RELIABLE_COMMANDS - 1

client_t ==
  [state : {"live", "zombie"}, reliableSequence : Nat, reliableAcknowledge : Nat,
   reliableCommands : [Slots -> Nat], disconnect : Nat, overflowed : Nat,
   gameDisconnects : Nat]

clientConnection_t ==
  [state : {"live", "gone"}, serverMessageSequence : Nat,
   serverCommandSequence : Nat, serverCommands : [Slots -> Nat], sent : Nat]

TypeOK ==
  /\ cl \in client_t /\ clc \in clientConnection_t
  /\ cl.reliableAcknowledge <= clc.serverCommandSequence
  /\ clc.serverCommandSequence <= cl.reliableSequence
  /\ svSent \in Nat /\ executed \in Seq(Nat)
  /\ snaps \in Seq([serverCommandNum : Nat, issued : Nat])

(* Every command a live client has not acknowledged is still in the ring,  *)
(* under its own number: it can be sent again (SV_AddServerCommand drops   *)
(* the client rather than lose one).                                       *)
PendingKept ==
  cl.state = "live" =>
    /\ Pending(cl) <= MAX_RELIABLE_COMMANDS
    /\ \A n \in cl.reliableAcknowledge + 1..cl.reliableSequence :
         cl.reliableCommands[Slot(n)] = n

(* The cgame executes the commands the server issued, in order, whatever   *)
(* was lost or repeated and even while an overflowed client's ring is      *)
(* being written over (CL_GetServerCommand): only in the place of the      *)
(* command that overflowed may another one be executed.                    *)
AsIssued == [i \in DOMAIN executed |-> IF i = cl.overflowed THEN i ELSE executed[i]]
Stream == INSTANCE ReliableStream
            WITH issued <- cl.reliableSequence, executed <- AsIssued
StreamSpec == Stream!Spec

(* "... is guaranteed to not have future snapshot_t executed before it is  *)
(* executed" (SV_AddServerCommand): when the cgame moves to a snapshot it  *)
(* has executed every command issued before the server built it.           *)
CommandsBeforeSnapshot ==
  [][CG_TransitionSnapshot /\ clc'.state = "live" =>
       Len(executed') >= Head(snaps).issued]_vars

(* Client and server put the same command's text into the key of a move,   *)
(* as long as the ring is not full (SV_UserMove, CL_WritePacket).          *)
KeysAgreeBelowLimit ==
  [][\A m \in toServer :
       SV_ExecuteClientMessage(m) /\ cl.state = "live"
         /\ cl.reliableSequence < m.reliableAcknowledge + MAX_RELIABLE_COMMANDS
       => keys'.client = keys'.server]_vars

(* "... doesn't cause a recursive drop client" (SV_AddServerCommand): the  *)
(* game is told once that the client is gone.                              *)
DroppedOnce == cl.gameDisconnects <= 1

-----------------------------------------------------------------------------
(* Why these hold.  The command that overflowed is in no ring; but for it, *)
(* both rings have the last MAX_RELIABLE_COMMANDS commands.                *)
Overflown(c, n) == n > 0 /\ n = c.overflowed

RingKept(c) ==
  \A n \in 0..c.reliableSequence :
    n + MAX_RELIABLE_COMMANDS > c.reliableSequence =>
      c.reliableCommands[Slot(n)] = n \/ Overflown(c, n)

ServerOK ==
  /\ RingKept(cl)
  /\ cl.overflowed <= cl.reliableSequence
  /\ cl.state = "live" => cl.overflowed = 0

ClientOK ==
  \A n \in 0..clc.serverCommandSequence :
    n + MAX_RELIABLE_COMMANDS > clc.serverCommandSequence =>
      clc.serverCommands[Slot(n)] = n \/ Overflown(cl, n)

(* A message has all commands from one the client knows to the last one    *)
(* issued; only those a ring behind may be wrong.                          *)
HasCommands(m, low) ==
  /\ DOMAIN m.commands = low + 1..m.issued
  /\ \A n \in low + 1..m.issued :
       /\ m.commands[n] \in Nat
       /\ n + MAX_RELIABLE_COMMANDS > m.issued =>
            m.commands[n] = n \/ Overflown(cl, n)

(* Later messages have been sent with no fewer commands issued. *)
ToClientOK ==
  \A m \in toClient :
    /\ m.sequence \in 1..svSent
    /\ m.issued \in clc.serverCommandSequence..cl.reliableSequence
    /\ m.kind # "cleared" =>
         \E low \in 0..clc.serverCommandSequence : HasCommands(m, low)
    /\ \A o \in toClient : o.sequence >= m.sequence => o.issued >= m.issued

(* Acknowledgements do not go back. *)
ToServerOK ==
  \A m \in toServer :
    /\ m.sequence \in 1..clc.sent /\ m.key \in Nat
    /\ m.reliableAcknowledge \in cl.reliableAcknowledge..clc.serverCommandSequence
    /\ m.key = m.reliableAcknowledge \/ Overflown(cl, m.reliableAcknowledge)
    /\ \A o \in toServer :
         o.sequence >= m.sequence => o.reliableAcknowledge >= m.reliableAcknowledge

(* A snapshot waits with all commands that had been issued. *)
SnapsOK ==
  \A i \in 1..Len(snaps) :
    /\ snaps[i].issued <= snaps[i].serverCommandNum
    /\ snaps[i].serverCommandNum <= clc.serverCommandSequence

ExecutedOK ==
  /\ Len(executed) <= clc.serverCommandSequence
  /\ \A i \in 1..Len(executed) : executed[i] = i \/ Overflown(cl, i)

(* The inductive invariant. *)
IInv ==
  /\ TypeOK /\ PendingKept
  /\ ServerOK /\ ClientOK /\ ToClientOK /\ ToServerOK /\ SnapsOK /\ ExecutedOK

=============================================================================
