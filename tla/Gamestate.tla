----------------------------- MODULE Gamestate -----------------------------
(***************************************************************************)
(* How one connected client follows the server from map to map.            *)
(*                                                                         *)
(* A new map (SV_SpawnServer) has a new serverId.  The client's messages   *)
(* carry the serverId it knows; by that, and by the last message it has    *)
(* received, the server tells whether to send it the gamestate: all the    *)
(* configstrings, the serverId among them (sv_client.c, cl_parse.c).  Once *)
(* the client is in the game, configstrings that change are sent as        *)
(* reliable commands, which the cgame executes (sv_init.c, cl_cgame.c);    *)
(* that is how it learns the serverId of a map_restart (sv_ccmds.c).       *)
(*                                                                         *)
(* Left out: downloads (the client has every pak), sv_pure, and bots.      *)
(* Reliable commands are the stream that ServerCommands shows them to be,  *)
(* messages are what MessageChannel promises.  The three equal packets a   *)
(* client sends when it has loaded a map are one.  Configstrings are       *)
(* "systeminfo", for its sv_serverid, and "other", for all the rest.       *)
(***************************************************************************)
EXTENDS Integers, Sequences

CONSTANTS
  MaxSpawns,          \* bound: maps after the first
  MaxRestarts,        \* bound: map_restarts
  MaxChanges,         \* bound: changes of the other configstrings
  MaxServerMessages,  \* bound: messages the server sends
  MaxClientMessages   \* bound: messages the client sends

VARIABLES
  sv,          \* the server_t
  systemInfoModified, \* CVAR_SYSTEMINFO is set in cvar_modifiedFlags
  cl,          \* the server's client_t
  commands,    \* the configstring commands issued to the client
  pending,     \* messages not yet sent whole, the first perhaps partly
  sentCount,   \* messages sent whole: outgoingSequence is one more
  toClient,    \* messages the client may still receive
  clc,         \* the client's clientConnection_t and clientActive_t
  toServer,    \* messages the server may still receive
  used         \* what is used up of the bounds

serverVars == <<sv, systemInfoModified, cl, commands, pending, sentCount>>
vars == <<serverVars, toClient, clc, toServer, used>>

Index == {"systeminfo", "other"}
NoSnapshot == [active |-> FALSE, serverCommandNum |-> -1]

(* The client has just been let in (SV_DirectConnect). *)
Init ==
  /\ sv = [serverId |-> 1, restartedServerId |-> 1,
           configstrings |-> [index \in Index |-> 1]]
  /\ systemInfoModified = FALSE
  /\ cl = [state |-> "connected", gamestateMessageNum |-> -1, csUpdated |-> {}]
  /\ commands = <<>>
  /\ pending = <<>> /\ sentCount = 0
  /\ toClient = {} /\ toServer = {}
  /\ clc = [state |-> "connected", serverMessageSequence |-> 0,
            lastExecutedServerCommand |-> 0, snap |-> NoSnapshot,
            configstrings |-> [index \in Index |-> 0],
            map |-> 0, gamestateCommand |-> 0, replayed |-> FALSE, sent |-> 0]
  /\ used = [spawns |-> 0, restarts |-> 0, changes |-> 0]

-----------------------------------------------------------------------------
(* Messages from the server.  One that needs several fragments, and those  *)
(* that come before its last one is out, are pending.                      *)
outgoingSequence == sentCount + 1

SV_Netchan_Transmit(message) ==
  /\ sentCount + Len(pending) < MaxServerMessages
  /\ \/ /\ pending = <<>>
        /\ toClient' = toClient \cup {[sequence |-> outgoingSequence, message |-> message]}
        /\ sentCount' = sentCount + 1
        /\ UNCHANGED pending
     \/ /\ pending' = Append(pending, message)
        /\ UNCHANGED <<toClient, sentCount>>

(* SV_SendQueuedMessages, until the first pending message is out. *)
SV_Netchan_TransmitNextFragment ==
  /\ pending # <<>>
  /\ toClient' = toClient \cup {[sequence |-> outgoingSequence, message |-> Head(pending)]}
  /\ sentCount' = sentCount + 1
  /\ pending' = Tail(pending)
  /\ UNCHANGED <<sv, systemInfoModified, cl, commands, clc, toServer, used>>

SV_SendClientGameState ==
  /\ cl' = [cl EXCEPT !.state = "primed", !.gamestateMessageNum = outgoingSequence]
  /\ SV_Netchan_Transmit([kind |-> "gamestate", reliableSequence |-> Len(commands),
                          configstrings |-> sv.configstrings,
                          map |-> sv.restartedServerId])

(* A wrong SnapshotAllowed, for mutation: the queue is not looked at. *)
SnapshotAnytime == TRUE

SnapshotAllowed == pending = <<>>

SendClientSnapshot ==
  /\ SnapshotAllowed
  /\ SV_Netchan_Transmit([kind |-> "snapshot", reliableSequence |-> Len(commands'),
                          active |-> cl.state = "active"])

-----------------------------------------------------------------------------
(* Configstrings.  Only clients in the game are sent a change; for one     *)
(* that is loading the change is kept for SV_ClientEnterWorld.             *)
SV_SetConfigstring(index, value) ==
  /\ sv' = [sv EXCEPT !.configstrings[index] = value]
  /\ commands' = IF cl.state = "active"
                 THEN Append(commands, [index |-> index, value |-> value])
                 ELSE commands
  /\ cl' = IF cl.state = "primed"
           THEN [cl EXCEPT !.csUpdated = @ \cup {index}] ELSE cl

(* A wrong UpdateConfigstrings, for mutation: nothing was kept. *)
UpdateNoConfigstrings(configstrings) == commands

UpdateConfigstrings(configstrings) ==
  LET cs(index) == IF index \in cl.csUpdated
                   THEN <<[index |-> index, value |-> configstrings[index]]>> ELSE <<>>
  IN  commands \o cs("systeminfo") \o cs("other")

SV_ClientEnterWorld ==
  /\ commands' = UpdateConfigstrings(sv.configstrings)
  /\ cl' = [cl EXCEPT !.state = "active", !.csUpdated = {}]

(* The game changes a configstring. *)
GameSetsConfigstring ==
  /\ used.changes < MaxChanges
  /\ used' = [used EXCEPT !.changes = @ + 1]
  /\ SV_SetConfigstring("other", sv.configstrings.other + 1)
  /\ UNCHANGED <<systemInfoModified, pending, sentCount, toClient, clc, toServer>>

(* A new map: the configstrings are made anew, and a client of the old map *)
(* has to come for them.                                                   *)
SV_SpawnServer ==
  /\ used.spawns < MaxSpawns
  /\ used' = [used EXCEPT !.spawns = @ + 1]
  /\ LET id == sv.serverId + 1
     IN  sv' = [serverId |-> id, restartedServerId |-> id,
                configstrings |-> [index \in Index |->
                  IF index = "systeminfo" THEN id ELSE sv.configstrings.other + 1]]
  /\ systemInfoModified' = FALSE
  /\ cl' = [cl EXCEPT !.state = "connected"]
  /\ UNCHANGED <<commands, pending, sentCount, toClient, clc, toServer>>

(* The map starts again with the client in it, wherever the client was.    *)
(* The new id is not in the configstrings before the next SV_Frame, and a  *)
(* packet may come first: an rcon command runs among the packets, and a    *)
(* listen server runs commands after SV_Frame too (Com_Frame).             *)
SV_MapRestart_f ==
  /\ used.restarts < MaxRestarts
  /\ used' = [used EXCEPT !.restarts = @ + 1]
  /\ sv' = [sv EXCEPT !.serverId = @ + 1]
  /\ systemInfoModified' = TRUE
  /\ SV_ClientEnterWorld
  /\ UNCHANGED <<pending, sentCount, toClient, clc, toServer>>

(* Tell of the new id, then send a snapshot if it is time for one. *)
SV_Frame ==
  /\ \/ systemInfoModified /\ SV_SetConfigstring("systeminfo", sv.serverId)
     \/ ~systemInfoModified /\ UNCHANGED <<sv, cl, commands>>
  /\ systemInfoModified' = FALSE
  /\ SendClientSnapshot \/ UNCHANGED <<pending, sentCount, toClient>>
  /\ UNCHANGED <<clc, toServer, used>>

-----------------------------------------------------------------------------
(* SV_ExecuteClientMessage.  Messages from before a map_restart are        *)
(* ignored; a client that is further behind, and that has received         *)
(* something newer than the last gamestate, has lost that gamestate.       *)
Outdated(serverId) == serverId \in sv.restartedServerId..sv.serverId - 1

LostGamestate(m) ==
  /\ m.serverId # sv.serverId /\ ~Outdated(m.serverId)
  /\ m.messageAcknowledge > cl.gamestateMessageNum

SV_ExecuteClientMessage(m) ==
  /\ toServer' = {o \in toServer : o.sequence > m.sequence}
  /\ \/ LostGamestate(m) /\ SV_SendClientGameState /\ UNCHANGED commands
     \/ /\ m.serverId # sv.serverId /\ ~LostGamestate(m)
        /\ UNCHANGED <<cl, commands, pending, sentCount, toClient>>
     \/ /\ m.serverId = sv.serverId
        /\ IF m.move /\ cl.state = "primed"
           THEN SV_ClientEnterWorld ELSE UNCHANGED <<cl, commands>>
        /\ UNCHANGED <<pending, sentCount, toClient>>
  /\ UNCHANGED <<sv, systemInfoModified, clc, used>>

-----------------------------------------------------------------------------
(* The client.  Its serverId is the one in its systeminfo                  *)
(* (CL_SystemInfoChanged); there are moves once the map is loaded.         *)
Packet(c) ==
  [sequence |-> c.sent + 1, serverId |-> c.configstrings.systeminfo,
   messageAcknowledge |-> c.serverMessageSequence, move |-> c.state # "connected"]

CL_WritePacket ==
  /\ clc.sent < MaxClientMessages
  /\ toServer' = toServer \cup {Packet(clc)}
  /\ clc' = [clc EXCEPT !.sent = @ + 1]
  /\ UNCHANGED <<serverVars, toClient, used>>

(* CL_ParseGamestate, CL_DownloadsComplete, CL_InitCGame: a new cgame goes *)
(* on with the commands after the last executed one.                       *)
ParseGamestate(n, g) ==
  LET loaded == [clc EXCEPT
        !.state = "primed", !.serverMessageSequence = n, !.snap = NoSnapshot,
        !.configstrings = g.configstrings, !.map = g.map,
        !.gamestateCommand = g.reliableSequence, !.replayed = FALSE]
  IN  /\ clc.sent < MaxClientMessages
      /\ toServer' = toServer \cup {Packet(loaded)}
      /\ clc' = [loaded EXCEPT !.sent = @ + 1]

ParseSnapshot(n, s) ==
  /\ clc' = [clc EXCEPT
       !.serverMessageSequence = n,
       !.snap = IF clc.state = "connected" THEN @
                ELSE [active |-> s.active, serverCommandNum |-> s.reliableSequence]]
  /\ UNCHANGED toServer

CL_ParseServerMessage(m) ==
  /\ toClient' = {o \in toClient : o.sequence > m.sequence}
  /\ \/ m.message.kind = "gamestate" /\ ParseGamestate(m.sequence, m.message)
     \/ m.message.kind = "snapshot" /\ ParseSnapshot(m.sequence, m.message)
  /\ UNCHANGED <<serverVars, used>>

(* The configstring after commands up to n (CL_ConfigstringModified). *)
Executed(n, index) ==
  LET changes == {i \in clc.lastExecutedServerCommand + 1..n : commands[i].index = index}
  IN  IF changes = {} THEN clc.configstrings[index]
      ELSE commands[CHOOSE i \in changes : \A j \in changes : j <= i].value

(* CL_SetCGameTime and CG_ProcessSnapshots with the newest snapshot: the   *)
(* first one must be of the game itself.                                   *)
CG_ProcessSnapshots ==
  /\ clc.snap # NoSnapshot
  /\ LET n == clc.snap.serverCommandNum
     IN  IF clc.state = "active" \/ clc.snap.active
         THEN clc' = [clc EXCEPT
                !.state = "active", !.snap = NoSnapshot,
                !.lastExecutedServerCommand = n,
                !.replayed = @ \/ clc.lastExecutedServerCommand < clc.gamestateCommand,
                !.configstrings = [index \in Index |-> Executed(n, index)]]
         ELSE clc' = [clc EXCEPT !.snap = NoSnapshot]
  /\ UNCHANGED <<serverVars, toClient, toServer, used>>

Next ==
  \/ SV_Netchan_TransmitNextFragment
  \/ GameSetsConfigstring
  \/ SV_SpawnServer
  \/ SV_MapRestart_f
  \/ SV_Frame
  \/ \E m \in toServer : SV_ExecuteClientMessage(m)
  \/ CL_WritePacket
  \/ \E m \in toClient : CL_ParseServerMessage(m)
  \/ CG_ProcessSnapshots

Spec == Init /\ [][Next]_vars

-----------------------------------------------------------------------------
Configstrings == [Index -> Nat]
Command == [index : Index, value : Nat]
Message ==
  [kind : {"gamestate"}, reliableSequence : Nat, configstrings : Configstrings,
   map : Nat] \cup
  [kind : {"snapshot"}, reliableSequence : Nat, active : BOOLEAN]
ServerPacket == [sequence : Nat, message : Message]
ClientPacket == [sequence : Nat, serverId : Nat, messageAcknowledge : Nat, move : BOOLEAN]

TypeOK ==
  /\ sv \in [serverId : Nat, restartedServerId : Nat, configstrings : Configstrings]
  /\ systemInfoModified \in BOOLEAN
  /\ cl \in [state : {"connected", "primed", "active"},
             gamestateMessageNum : Nat \cup {-1}, csUpdated : SUBSET Index]
  /\ commands \in Seq(Command) /\ pending \in Seq(Message) /\ sentCount \in Nat
  /\ toClient \subseteq ServerPacket
  /\ clc \in [state : {"connected", "primed", "active"}, serverMessageSequence : Nat,
              lastExecutedServerCommand : Nat,
              snap : [active : BOOLEAN, serverCommandNum : Nat \cup {-1}],
              configstrings : Configstrings, map : Nat, gamestateCommand : Nat,
              replayed : BOOLEAN, sent : Nat]
  /\ toServer \subseteq ClientPacket

InGame ==
  /\ cl.state = "active" /\ clc.state = "active"
  /\ clc.map = sv.restartedServerId

(* "... reliably communicated to all clients" (g_public.h): a client that  *)
(* is in the game and has executed every command has the configstrings of  *)
(* the server.  The command that was issued before a gamestate may be      *)
(* executed after it, and bring an old value back.                         *)
ConfigstringsAgree ==
  InGame /\ clc.lastExecutedServerCommand = Len(commands)
    => clc.configstrings = sv.configstrings

(* The same for a client that had executed every command the server issued *)
(* before the gamestate when it loaded it (CL_InitCGame, SV_SetConfigstring *)
(* and SV_UpdateConfigstrings): whatever changed while it was loading, and *)
(* however often the gamestate was sent.                                   *)
ConfigstringsAgreeUnlessReplayed == ~clc.replayed => ConfigstringsAgree

(* "if we can tell that the client has dropped the last gamestate we sent  *)
(* them, resend it" (SV_ExecuteClientMessage): a client is not made to     *)
(* load again the map it has loaded, except by the same replay: a command  *)
(* that brings back an old serverId makes it look like one that has lost   *)
(* the gamestate.                                                          *)
ResendOnlyIfDropped ==
  [][\A m \in toServer :
       SV_ExecuteClientMessage(m) /\ LostGamestate(m) /\ ~clc.replayed
       => clc.map # sv.restartedServerId]_vars

(* "if this is a usercmd from a previous gamestate, ignore it or retransmit *)
(* the current gamestate" (SV_ExecuteClientMessage): a client whose         *)
(* messages carry the current serverId has loaded the current map.  The     *)
(* command that tells of a map_restart gives the new serverId to a client   *)
(* that has not even been told of the map.                                  *)
IdOfCurrentMap ==
  clc.configstrings.systeminfo = sv.serverId => clc.map = sv.restartedServerId

-----------------------------------------------------------------------------
(* What they rest on.  The messages that may still come to the client,     *)
(* each with the number it has or will have.                               *)
Coming ==
  toClient \cup
  {[sequence |-> sentCount + i, message |-> pending[i]] : i \in 1..Len(pending)}
Gamestates == {p \in Coming : p.message.kind = "gamestate"}

(* The last command that is in the client's configstrings.                 *)
InConfigstrings ==
  IF clc.lastExecutedServerCommand < clc.gamestateCommand
  THEN clc.gamestateCommand ELSE clc.lastExecutedServerCommand

(* The commands after k make value of what the index has in configstrings. *)
Brings(cmds, configstrings, k, index, value) ==
  \/ \E i \in k + 1..Len(cmds) :
       /\ cmds[i].index = index /\ cmds[i].value = value
       /\ \A j \in i + 1..Len(cmds) : cmds[j].index # index
  \/ /\ \A j \in k + 1..Len(cmds) : cmds[j].index # index
     /\ configstrings[index] = value

(* Configstrings as of command k, of the map that the server is in since   *)
(* id: the commands after k, and those kept for SV_ClientEnterWorld, make  *)
(* them the server's, and their serverId is never one before id.           *)
Follow(cmds, kept, server, id, configstrings, k) ==
  /\ k <= Len(cmds)
  /\ \A index \in Index \ kept : Brings(cmds, configstrings, k, index, server[index])
  /\ configstrings["systeminfo"] >= id
  /\ \A i \in k + 1..Len(cmds) : cmds[i].index = "systeminfo" => cmds[i].value >= id

(* Messages come in order, and at most a snapshot is before a gamestate    *)
(* among those that wait.                                                  *)
NumbersOK ==
  /\ clc.serverMessageSequence <= sentCount
  /\ \A p \in toClient :
       clc.serverMessageSequence < p.sequence /\ p.sequence <= sentCount
  /\ \A i \in 1..Len(pending) : pending[i].kind = "snapshot" => i = 1
  /\ \A m \in toServer : m.messageAcknowledge <= clc.serverMessageSequence

(* At most one gamestate is on its way, though it may be the message after *)
(* the one that gamestateMessageNum says.                                  *)
GamestateOK ==
  /\ cl.gamestateMessageNum <= outgoingSequence
  /\ \A p \in Gamestates :
       /\ p.sequence <= cl.gamestateMessageNum + 1
       /\ \A q \in Gamestates : q = p

(* Later messages have more commands, and none takes the client back.      *)
CommandsOK ==
  /\ clc.lastExecutedServerCommand <= Len(commands)
  /\ clc.gamestateCommand <= Len(commands)
  /\ \A p \in Coming :
       /\ clc.lastExecutedServerCommand <= p.message.reliableSequence
       /\ clc.gamestateCommand <= p.message.reliableSequence
       /\ p.message.reliableSequence <= Len(commands)
       /\ \A q \in Coming : p.sequence < q.sequence =>
            p.message.reliableSequence <= q.message.reliableSequence
  /\ clc.snap # NoSnapshot =>
       /\ clc.lastExecutedServerCommand <= clc.snap.serverCommandNum
       /\ clc.gamestateCommand <= clc.snap.serverCommandNum
       /\ clc.snap.serverCommandNum <= Len(commands)
       /\ \A p \in Coming : clc.snap.serverCommandNum <= p.message.reliableSequence

(* No id is newer than the server's, and no map than its map.  A client    *)
(* that has to come for the gamestate is not in the map.                   *)
IdsOK ==
  /\ sv.restartedServerId <= sv.configstrings["systeminfo"]
  /\ sv.configstrings["systeminfo"] <= sv.serverId
  /\ clc.configstrings["systeminfo"] <= sv.serverId
  /\ \A i \in 1..Len(commands) :
       commands[i].index = "systeminfo" => commands[i].value <= sv.serverId
  /\ \A m \in toServer : m.serverId <= sv.serverId
  /\ clc.map <= sv.restartedServerId
  /\ \A p \in Gamestates :
       /\ p.message.map <= sv.restartedServerId
       /\ p.message.configstrings["systeminfo"] <= sv.serverId
  /\ cl.state = "connected" =>
       /\ clc.map # sv.restartedServerId
       /\ \A p \in Gamestates : p.message.map # sv.restartedServerId

(* What the client has of the server's map, and what is on its way to it,  *)
(* becomes what the server has.  To a client that has the map none is on   *)
(* its way, and nothing that comes from it asks for one.                   *)
FollowsOK ==
  /\ cl.state = "active" => cl.csUpdated = {}
  /\ \A p \in Gamestates : p.message.map = sv.restartedServerId =>
       Follow(commands, cl.csUpdated, sv.configstrings, sv.restartedServerId,
              p.message.configstrings, p.message.reliableSequence)
  /\ clc.map = sv.restartedServerId /\ ~clc.replayed =>
       /\ Follow(commands, cl.csUpdated, sv.configstrings, sv.restartedServerId,
                 clc.configstrings, InConfigstrings)
       /\ Gamestates = {}
       /\ \A m \in toServer : m.messageAcknowledge > cl.gamestateMessageNum =>
            m.serverId >= sv.restartedServerId

(* The inductive invariant: a gamestate and the commands after it make the *)
(* server's configstrings, wherever the client is on the way to them.      *)
IInv ==
  /\ TypeOK /\ NumbersOK /\ GamestateOK /\ CommandsOK /\ IdsOK /\ FollowsOK

(* With it, that a client in the game has the configstrings of the server  *)
(* (SV_SetConfigstring, SV_UpdateConfigstrings, CL_ConfigstringModified).  *)
Inv == IInv /\ ConfigstringsAgreeUnlessReplayed

=============================================================================
