------------------------------ MODULE Snapshot ------------------------------
(***************************************************************************)
(* Snapshots of the game, sent to one client as differences                *)
(* (sv_snapshot.c, cl_parse.c).  Both sides keep the last PACKET_BACKUP    *)
(* snapshots by the number of their message.  The server writes a snapshot *)
(* as the difference from one the client says it has, if it still has that *)
(* one itself; the client can read it if it still has it too.  Entities    *)
(* live in rings of their own, which other clients' snapshots use as well. *)
(*                                                                         *)
(* A snapshot is the number of the frame it was made of.  Messages arrive  *)
(* in order, and any may be lost (MessageChannel): a message to the client *)
(* that will be lost is never put on its way, and one to the server is as  *)
(* good as not sent.  A change of map goes as in Gamestate; the commands   *)
(* that tell of a map_restart come with the snapshots.  Left out:          *)
(* downloads, sv_pure, zombies, and snapshots that do not fit in a         *)
(* message.                                                                *)
(***************************************************************************)
EXTENDS Integers, Sequences

CONSTANTS
  PACKET_BACKUP,        \* snapshots kept by number
  numSnapshotEntities,  \* entities kept by the server
  MAX_PARSE_ENTITIES,   \* entities kept by the client
  ParseMargin,          \* of these, not to be counted on
  MaxEntities,          \* most entities of a snapshot
  Sizes,                \* how many the snapshot of each number may have
  OthersEntities,       \* entities of the other clients' snapshots
  Busy,                 \* the messages after which there are any
  MaxSpawns,            \* bound: maps after the first
  MaxRestarts,          \* bound: map_restarts
  MaxServerMessages,    \* bound: messages the server sends
  InFlight              \* bound: messages on their way, each direction

ASSUME BackupAssumption == PACKET_BACKUP \in Nat /\ PACKET_BACKUP > 3

(* Nothing is assumed of the sizes of a snapshot and of the two rings: a   *)
(* snapshot may have up to MAX_SNAPSHOT_ENTITIES (1024), more than the     *)
(* client's margin (128) and more than a small server's ring (256).        *)
ASSUME EntitiesAssumption ==
  /\ MaxEntities \in Nat /\ OthersEntities \in Nat /\ MaxServerMessages \in Nat
  /\ Sizes \in [1..MaxServerMessages -> SUBSET (0..MaxEntities)]
  /\ numSnapshotEntities \in Nat
  /\ MAX_PARSE_ENTITIES \in Nat /\ ParseMargin \in Nat

VARIABLES
  sv,         \* serverId, restartedServerId and nextSnapshotEntities
  cl,         \* the server's client_t
  pending,    \* messages not yet sent whole, the first perhaps partly
  sentCount,  \* messages sent whole: outgoingSequence is one more
  toClient,   \* messages on their way to the client, oldest first
  toServer,   \* messages on their way to the server, oldest first
  clc,        \* the client's clientConnection_t and clientActive_t
  used        \* what is used up of the bounds

channel == <<pending, sentCount, toClient>>
vars == <<sv, cl, channel, toServer, clc, used>>

Slot(n) == n % PACKET_BACKUP
Ring(x) == [i \in 0..PACKET_BACKUP - 1 |-> x]

NoFrame == 0     \* no frame to take the difference from
Garbage == -1    \* what is made of the wrong frame, or of lost entities

NewFrame == [frame |-> NoFrame, first_entity |-> 0, num_entities |-> 0]
Invalid  == [valid |-> FALSE, messageNum |-> 0, frame |-> NoFrame, map |-> 0,
             parseEntitiesNum |-> 0, numEntities |-> 0, crowded |-> FALSE]

(* CL_ClearState *)
Cleared(c) ==
  [c EXCEPT !.snap = Invalid, !.snapshots = Ring(Invalid), !.parseEntitiesNum = 0]

(* The client has just loaded its first gamestate, the server's first      *)
(* message (SV_SendClientGameState, CL_ParseGamestate).                    *)
Init ==
  /\ sv = [serverId |-> 1, restartedServerId |-> 1, nextSnapshotEntities |-> 0]
  /\ cl = [state |-> "primed", gentity |-> TRUE, gamestateMessageNum |-> 1,
           deltaMessage |-> 0, frames |-> Ring(NewFrame)]
  /\ pending = <<>> /\ sentCount = 1
  /\ toClient = <<>> /\ toServer = <<>>
  /\ clc = Cleared([serverId |-> 1, map |-> 1,
                    serverMessageSequence |-> 1, snap |-> Invalid,
                    snapshots |-> Ring(Invalid), parseEntitiesNum |-> 0, astray |-> FALSE])
  /\ used = [spawns |-> 0, restarts |-> 0]

-----------------------------------------------------------------------------
outgoingSequence == sentCount + 1

(* What is on its way once m is sent, whole and with its last fragment: m  *)
(* with the rest, or not.                                                  *)
Sent(m) ==
  {toClient} \cup
  (IF Len(toClient) = InFlight THEN {}
   ELSE {Append(toClient, [sequence |-> outgoingSequence, message |-> m])})

SV_Netchan_Transmit(m) ==
  /\ sentCount + Len(pending) < MaxServerMessages
  /\ \/ /\ pending = <<>>
        /\ toClient' \in Sent(m)
        /\ sentCount' = sentCount + 1
        /\ UNCHANGED pending
     \/ /\ pending' = Append(pending, m)
        /\ UNCHANGED <<toClient, sentCount>>

SV_Netchan_TransmitNextFragment ==
  /\ pending # <<>>
  /\ toClient' \in Sent(Head(pending))
  /\ sentCount' = sentCount + 1
  /\ pending' = Tail(pending)
  /\ UNCHANGED <<sv, cl, toServer, clc, used>>

SV_SendClientGameState ==
  /\ cl' = [cl EXCEPT !.state = "primed", !.gamestateMessageNum = outgoingSequence]
  /\ SV_Netchan_Transmit([kind |-> "gamestate", map |-> sv.restartedServerId,
                          serverId |-> sv.serverId])

-----------------------------------------------------------------------------
(* How many entities the client may see: none as long as it has no entity  *)
(* of its own in a new map.                                                *)
Visible(c) == IF c.gentity THEN Sizes[outgoingSequence] ELSE {0}

(* Making a snapshot.  Nothing is put in it for a client without entity,   *)
(* and first_entity stays what it was (SV_BuildClientSnapshot).            *)
Built(c, k) ==
  LET slot == Slot(outgoingSequence)
      f    == [frame |-> outgoingSequence, num_entities |-> k,
               first_entity |-> IF c.gentity THEN sv.nextSnapshotEntities
                                ELSE c.frames[slot].first_entity]
  IN  [c EXCEPT !.frames[slot] = f]

InWindow(c) == outgoingSequence - c.deltaMessage < PACKET_BACKUP - 3

HasEntities(c, next) ==
  c.frames[Slot(c.deltaMessage)].first_entity > next - numSnapshotEntities

(* The frame to take the difference from, and how far back it is. *)
DeltaFrom(c, next) ==
  IF /\ c.deltaMessage > 0 /\ c.state = "active"
     /\ InWindow(c) /\ HasEntities(c, next)
  THEN outgoingSequence - c.deltaMessage
  ELSE 0

(* What there is of that frame: its entities may be another's by now. *)
OldFrame(c, next, lastframe) ==
  LET f == c.frames[Slot(outgoingSequence - lastframe)]
  IN  IF lastframe = 0 THEN NoFrame
      ELSE IF f.num_entities > 0 /\ next - f.first_entity > numSnapshotEntities
      THEN Garbage ELSE f.frame

SnapshotAllowed == pending = <<>>

(* A snapshot of k entities.  One of more than the server's ring holds     *)
(* overwrites itself.  Then come the other clients' (SV_SendClientMessages). *)
SendSnapshot(k) ==
  LET c    == Built(cl, k)
      next == sv.nextSnapshotEntities + k
      last == DeltaFrom(c, next)
  IN  /\ cl' = c
      /\ sv' = [sv EXCEPT !.nextSnapshotEntities =
                   next + (IF outgoingSequence \in Busy THEN OthersEntities ELSE 0)]
      /\ SV_Netchan_Transmit(
           [kind |-> "snapshot", lastframe |-> last, old |-> OldFrame(c, next, last),
            frame |-> IF k <= numSnapshotEntities THEN outgoingSequence ELSE Garbage,
            numEntities |-> k,
            map |-> sv.restartedServerId, serverId |-> sv.serverId,
            active |-> cl.state = "active"])

SV_SendClientSnapshot ==
  /\ SnapshotAllowed
  /\ outgoingSequence <= MaxServerMessages
  /\ \E k \in Visible(cl) : SendSnapshot(k)
  /\ UNCHANGED <<toServer, clc, used>>

-----------------------------------------------------------------------------
EnteredWorld(c) ==
  [c EXCEPT !.state = "active", !.gentity = TRUE, !.deltaMessage = -1]

SV_SpawnServer ==
  /\ used.spawns < MaxSpawns
  /\ used' = [used EXCEPT !.spawns = @ + 1]
  /\ sv' = [serverId |-> sv.serverId + 1, restartedServerId |-> sv.serverId + 1,
            nextSnapshotEntities |-> 0]
  /\ cl' = [cl EXCEPT !.state = "connected", !.gentity = FALSE]
  /\ UNCHANGED <<channel, toServer, clc>>

SV_MapRestart_f ==
  /\ used.restarts < MaxRestarts
  /\ used' = [used EXCEPT !.restarts = @ + 1]
  /\ sv' = [sv EXCEPT !.serverId = @ + 1]
  /\ cl' = EnteredWorld(cl)
  /\ UNCHANGED <<channel, toServer, clc>>

(* A move says whether its messageAcknowledge may be taken the difference  *)
(* from; the first one puts the client in the game (SV_UserMove).          *)
SV_UserMove(m) ==
  IF cl.state = "primed" THEN EnteredWorld(cl)
  ELSE IF cl.state = "active" /\ m.delta
  THEN [cl EXCEPT !.deltaMessage = m.messageAcknowledge]
  ELSE [cl EXCEPT !.deltaMessage = -1]

Outdated(serverId) == serverId \in sv.restartedServerId..sv.serverId - 1

LostGamestate(m) ==
  /\ m.serverId # sv.serverId /\ ~Outdated(m.serverId)
  /\ m.messageAcknowledge > cl.gamestateMessageNum

SV_ExecuteClientMessage ==
  /\ toServer # <<>>
  /\ toServer' = Tail(toServer)
  /\ LET m == Head(toServer)
     IN  \/ LostGamestate(m) /\ SV_SendClientGameState
         \/ /\ m.serverId # sv.serverId /\ ~LostGamestate(m)
            /\ UNCHANGED <<cl, channel>>
         \/ /\ m.serverId = sv.serverId
            /\ cl' = SV_UserMove(m)
            /\ UNCHANGED channel
  /\ UNCHANGED <<sv, clc, used>>

-----------------------------------------------------------------------------
(* A wrong MayDelta, for mutation: the newest message need not have been a *)
(* snapshot the client could read.                                         *)
MayDeltaOnceValid == clc.snap.valid

MayDelta == clc.snap.valid /\ clc.serverMessageSequence = clc.snap.messageNum

CL_WritePacket ==
  /\ Len(toServer) < InFlight
  /\ toServer' = Append(toServer,
       [serverId |-> clc.serverId, messageAcknowledge |-> clc.serverMessageSequence,
        delta |-> MayDelta])
  /\ UNCHANGED <<sv, cl, channel, clc, used>>

(* What the client can make of a snapshot that is a difference. *)
OldSnapshot(n, m) == clc.snapshots[Slot(n - m.lastframe)]

Readable(n, m) ==
  LET old == OldSnapshot(n, m)
  IN  m.lastframe > 0 =>
        /\ old.valid /\ old.messageNum = n - m.lastframe
        /\ clc.parseEntitiesNum - old.parseEntitiesNum <= MAX_PARSE_ENTITIES - ParseMargin

(* Entities are written to the ring while those of the old one are read.   *)
(* Whether they overrun them depends on the order of both.                 *)
Reconstructed(n, m) ==
  LET old  == OldSnapshot(n, m)
      held == \/ old.numEntities = 0
              \/ clc.parseEntitiesNum + m.numEntities - old.parseEntitiesNum
                   <= MAX_PARSE_ENTITIES
  IN  IF m.lastframe = 0 THEN {m.frame}
      ELSE IF m.old = Garbage \/ m.old # old.frame THEN {Garbage}
      ELSE IF held THEN {m.frame} ELSE {m.frame, Garbage}

(* A history: the server's ring is too small for the snapshot, or it, or   *)
(* one it is rebuilt from, came as a difference of more than ParseMargin.  *)
Crowded(n, m) ==
  \/ m.numEntities > numSnapshotEntities
  \/ m.lastframe > 0 /\ (m.numEntities > ParseMargin \/ OldSnapshot(n, m).crowded)

(* A wrong Skipped, for mutation: what was there stays valid. *)
SkippedNone(n) == {}

(* Those between the last one and this one are not to be taken for valid.  *)
Skipped(n) ==
  LET first == IF n - (clc.snap.messageNum + 1) >= PACKET_BACKUP
               THEN n - (PACKET_BACKUP - 1) ELSE clc.snap.messageNum + 1
  IN  {Slot(i) : i \in first..n - 1}

CL_ParseSnapshot(n, m, frame) ==
  LET new == [valid |-> TRUE, messageNum |-> n, frame |-> frame,
              map |-> m.map, parseEntitiesNum |-> clc.parseEntitiesNum,
              numEntities |-> m.numEntities, crowded |-> Crowded(n, m)]
      read == [clc EXCEPT !.serverMessageSequence = n,
                          !.parseEntitiesNum = @ + m.numEntities]
  IN  IF ~Readable(n, m) THEN read
      ELSE [read EXCEPT
              !.snap = new,
              !.snapshots = [i \in DOMAIN @ |->
                 IF i = Slot(n) THEN new
                 ELSE IF i \in Skipped(n) THEN Invalid ELSE @[i]]]

(* A client in the game learns of a map_restart by a command that came     *)
(* with a snapshot, once the cgame gets to it.  One that is still in the   *)
(* map before goes astray by it: its serverId is not that of its map.      *)
CL_SystemInfoChanged(c, m) ==
  IF m.active
  THEN {c, [c EXCEPT !.serverId = m.serverId, !.astray = @ \/ m.map # c.map]}
  ELSE {c}

CL_ParseGamestate(n, m) ==
  Cleared([clc EXCEPT !.serverMessageSequence = n,
                      !.map = m.map, !.serverId = m.serverId])

CL_ParseServerMessage ==
  /\ toClient # <<>>
  /\ toClient' = Tail(toClient)
  /\ LET n == Head(toClient).sequence
         m == Head(toClient).message
     IN  \/ m.kind = "gamestate" /\ clc' = CL_ParseGamestate(n, m)
         \/ /\ m.kind = "snapshot"
            /\ \E frame \in Reconstructed(n, m) :
                 clc' \in CL_SystemInfoChanged(CL_ParseSnapshot(n, m, frame), m)
  /\ UNCHANGED <<sv, cl, pending, sentCount, toServer, used>>

(* CL_GetSnapshot: the snapshot the cgame asks for by its number. *)
MayGetSnapshot(n) ==
  LET s == clc.snapshots[Slot(n)]
  IN  /\ n <= clc.snap.messageNum /\ clc.snap.messageNum - n < PACKET_BACKUP
      /\ s.valid
      /\ clc.parseEntitiesNum - s.parseEntitiesNum < MAX_PARSE_ENTITIES

Next ==
  \/ SV_Netchan_TransmitNextFragment
  \/ SV_SendClientSnapshot
  \/ SV_SpawnServer
  \/ SV_MapRestart_f
  \/ SV_ExecuteClientMessage
  \/ CL_WritePacket
  \/ CL_ParseServerMessage

Spec == Init /\ [][Next]_vars

-----------------------------------------------------------------------------
Message ==
  [kind : {"gamestate"}, map : Nat, serverId : Nat] \cup
  [kind : {"snapshot"}, lastframe : 0..PACKET_BACKUP - 4, old : Int, frame : Int,
   numEntities : 0..MaxEntities, map : Nat, serverId : Nat, active : BOOLEAN]

ServerPacket == [sequence : Nat, message : Message]
ClientPacket == [serverId : Nat, messageAcknowledge : Nat, delta : BOOLEAN]

ServerFrame == [frame : Nat, first_entity : Nat, num_entities : 0..MaxEntities]
ClientFrame ==
  [valid : BOOLEAN, messageNum : Nat, frame : Int, map : Nat,
   parseEntitiesNum : Nat, numEntities : 0..MaxEntities, crowded : BOOLEAN]

TypeOK ==
  /\ sv \in [serverId : Nat, restartedServerId : Nat, nextSnapshotEntities : Nat]
  /\ cl \in [state : {"connected", "primed", "active"}, gentity : BOOLEAN,
             gamestateMessageNum : Nat, deltaMessage : Nat \cup {-1},
             frames : [0..PACKET_BACKUP - 1 -> ServerFrame]]
  /\ pending \in Seq(Message) /\ sentCount \in Nat
  /\ toClient \in Seq(ServerPacket) /\ toServer \in Seq(ClientPacket)
  /\ clc \in [serverId : Nat, map : Nat, serverMessageSequence : Nat,
              snap : ClientFrame, snapshots : [0..PACKET_BACKUP - 1 -> ClientFrame],
              parseEntitiesNum : Nat, astray : BOOLEAN]

(* What the cgame gets for a number is the snapshot the server made under  *)
(* that number, whole, whatever was lost and however it was written, if it *)
(* is not crowded (SV_WriteSnapshotToClient, CL_ParseSnapshot,             *)
(* CL_GetSnapshot).                                                        *)
SnapshotIntact ==
  \A n \in 1..clc.snap.messageNum :
    MayGetSnapshot(n) =>
      LET s == clc.snapshots[Slot(n)]
      IN  s.messageNum = n /\ (~s.crowded => s.frame = n)

(* "Delta from invalid frame (not supposed to happen!)" (CL_ParseSnapshot): *)
(* the client holds, under its number, the snapshot any difference it is   *)
(* sent was taken from, unless it has gone astray: the server takes it to  *)
(* be in the new map, and it then loads the gamestate and holds nothing.   *)
DeltaFromValid ==
  toClient # <<>> /\ ~clc.astray =>
    LET n == Head(toClient).sequence
        m == Head(toClient).message
    IN  m.kind = "snapshot" /\ m.lastframe > 0 =>
          /\ OldSnapshot(n, m).valid
          /\ OldSnapshot(n, m).messageNum = n - m.lastframe

-----------------------------------------------------------------------------
(* What the two rest on.  The messages that may still come, each with the  *)
(* number it has or will have, and those that may still reach the server.  *)
Coming ==
  {toClient[i] : i \in 1..Len(toClient)} \cup
  {[sequence |-> sentCount + i, message |-> pending[i]] : i \in 1..Len(pending)}
Going == {toServer[i] : i \in 1..Len(toServer)}

Gamestates == {p \in Coming : p.message.kind = "gamestate"}
Snapshots  == {p \in Coming : p.message.kind = "snapshot"}

(* Messages come in order.  A snapshot is made only when nothing waits, so *)
(* its number is that of its frame.                                        *)
NumbersOK ==
  /\ clc.serverMessageSequence <= sentCount
  /\ \A i \in 1..Len(toClient) :
       /\ clc.serverMessageSequence < toClient[i].sequence
       /\ toClient[i].sequence <= sentCount
       /\ \A j \in 1..i - 1 : toClient[j].sequence < toClient[i].sequence
  /\ \A i \in 1..Len(pending) : pending[i].kind = "snapshot" => i = 1
  /\ \A p \in Snapshots :
       \/ p.message.frame = p.sequence
       \/ p.message.numEntities > numSnapshotEntities
  /\ \A m \in Going : m.messageAcknowledge <= clc.serverMessageSequence
  /\ cl.deltaMessage <= clc.serverMessageSequence

(* At most one gamestate is on its way, though it may be the message after *)
(* the one that gamestateMessageNum says.                                  *)
GamestateOK ==
  /\ cl.gamestateMessageNum <= outgoingSequence
  /\ \A p \in Gamestates :
       /\ p.sequence <= cl.gamestateMessageNum + 1
       /\ \A q \in Gamestates : q = p

(* What is sent of a map has the ids of that map.  Who has loaded the      *)
(* server's map, and nobody else but those astray, says so; no gamestate   *)
(* then comes, nor is one asked for by what was sent before.               *)
MapsOK ==
  /\ sv.restartedServerId <= sv.serverId
  /\ clc.map <= sv.restartedServerId
  /\ clc.map <= clc.serverId /\ clc.serverId <= sv.serverId
  /\ \A m \in Going : m.serverId <= sv.serverId
  /\ \A p \in Coming :
       /\ clc.map <= p.message.map /\ p.message.map <= sv.restartedServerId
       /\ p.message.map <= p.message.serverId /\ p.message.serverId <= sv.serverId
       /\ p.message.serverId >= sv.restartedServerId
            => p.message.map = sv.restartedServerId
       /\ \A q \in Coming : p.sequence < q.sequence => p.message.map <= q.message.map
  /\ ~clc.astray =>
       /\ clc.serverId >= sv.restartedServerId => clc.map = sv.restartedServerId
       /\ \A m \in Going :
            m.serverId >= sv.restartedServerId => clc.map = sv.restartedServerId
  /\ clc.map = sv.restartedServerId =>
       /\ clc.serverId >= sv.restartedServerId
       /\ Gamestates = {}
       /\ \A m \in Going : m.serverId < sv.restartedServerId =>
            m.messageAcknowledge <= cl.gamestateMessageNum

(* The server's frame n is there, unless it is too old to be asked for.    *)
Kept(frames, next, n) ==
  frames[Slot(n)].frame = n \/ n + PACKET_BACKUP <= next

(* The client holds the snapshot n, unless that is too old.                *)
Holds(c, n) ==
  \/ c.snapshots[Slot(n)].valid /\ c.snapshots[Slot(n)].messageNum = n
  \/ n + PACKET_BACKUP <= c.serverMessageSequence

(* Every number in use stands for a frame that the server still has.       *)
FramesOK ==
  /\ \A p \in Snapshots :
       /\ Kept(cl.frames, outgoingSequence, p.sequence)
       /\ p.message.lastframe > 0 =>
            /\ p.message.lastframe < p.sequence
            /\ p.message.old = p.sequence - p.message.lastframe
  /\ \A i \in 0..PACKET_BACKUP - 1 :
       clc.snapshots[i].valid =>
         Kept(cl.frames, outgoingSequence, clc.snapshots[i].messageNum)
  /\ \A m \in Going : m.delta => Kept(cl.frames, outgoingSequence, m.messageAcknowledge)
  /\ cl.deltaMessage > 0 => Kept(cl.frames, outgoingSequence, cl.deltaMessage)

(* The client's slots hold its last snapshots, as the server made them.    *)
SlotsOK ==
  /\ clc.snap.messageNum <= clc.serverMessageSequence
  /\ clc.snap.valid => clc.snapshots[Slot(clc.snap.messageNum)] = clc.snap
  /\ \A i \in 0..PACKET_BACKUP - 1 :
       LET s == clc.snapshots[i]
       IN  s.valid =>
             /\ i = Slot(s.messageNum)
             /\ ~s.crowded => s.frame = s.messageNum
             /\ s.messageNum <= clc.snap.messageNum
             /\ clc.snap.messageNum < s.messageNum + PACKET_BACKUP

(* What the server may take for the base of a difference, and what it has  *)
(* taken, the client holds; and no gamestate comes before that difference. *)
BasesOK ==
  ~clc.astray =>
    /\ \A m \in Going :
         m.delta /\ m.serverId = sv.serverId => Holds(clc, m.messageAcknowledge)
    /\ cl.state = "active" /\ cl.deltaMessage > 0 =>
         clc.map = sv.restartedServerId /\ Holds(clc, cl.deltaMessage)
    /\ \A p \in Snapshots : p.message.lastframe > 0 =>
         /\ Holds(clc, p.sequence - p.message.lastframe)
         /\ \A q \in Gamestates : p.sequence < q.sequence

(* The inductive invariant: the snapshots in use are those the server made *)
(* under their numbers, and the client holds what differences are from.    *)
IInv ==
  /\ TypeOK /\ NumbersOK /\ GamestateOK /\ MapsOK /\ FramesOK /\ SlotsOK
  /\ BasesOK

(* With it, that no difference is sent from a snapshot the client does not *)
(* hold (SV_WriteSnapshotToClient, CL_ParseSnapshot).                      *)
Inv == IInv /\ DeltaFromValid

=============================================================================
