--------------------------- MODULE ClientCommands ---------------------------
(***************************************************************************)
(* Reliable commands from one client to the server.  The client numbers    *)
(* them and keeps the last MAX_RELIABLE_COMMANDS in a ring; every message  *)
(* repeats the ones the server has not acknowledged (cl_main.c,            *)
(* cl_input.c).  The server executes each number once (sv_client.c) and    *)
(* acknowledges the last one in every message; for clients of the older    *)
(* protocol the text of that command is the key the message is encoded     *)
(* with, and a message that waits in the server's queue keeps the key it   *)
(* was made with (sv_net_chan.c).                                          *)
(*                                                                         *)
(* The text of command n is represented by n, the disconnect's by          *)
(* Disconnect.  The two channels are what MessageChannel promises: the     *)
(* receiver takes any message newer than the last one it took.             *)
(***************************************************************************)
EXTENDS Integers, Sequences, FiniteSets

CONSTANTS
  MAX_RELIABLE_COMMANDS,  \* slots of the client's ring
  Disconnect,             \* the text of the disconnect command
  MaxCommands,            \* bound: commands the client issues
  MaxServerMessages,      \* bound: messages the server sends
  MaxClientMessages       \* bound: messages the client sends while connected

ASSUME RingAssumption == MAX_RELIABLE_COMMANDS \in Nat \ {0}
ASSUME DisconnectAssumption == Disconnect \notin Nat

VARIABLES
  clc,        \* the client's clientConnection_t
  toServer,   \* messages the server may still receive
  cl,         \* the server's client_t
  queue,      \* its messages waiting behind unsent fragments
  svSent,     \* how many messages it has made, those freed not counted
  toClient,   \* messages the client may still receive
  executed    \* the texts the server has executed, in order

vars == <<clc, toServer, cl, queue, svSent, toClient, executed>>

Slot(n) == n % MAX_RELIABLE_COMMANDS
Slots == 0..MAX_RELIABLE_COMMANDS - 1
Text == Nat \cup {Disconnect}

Init ==
  /\ clc = [state |-> "connected", reliableSequence |-> 0,
            reliableAcknowledge |-> 0, sent |-> 0,
            reliableCommands |-> [i \in Slots |-> 0]]
  /\ cl = [state |-> "connected", lastClientCommand |-> 0,
           lastClientCommandString |-> 0, lost |-> FALSE]
  /\ toServer = {} /\ toClient = {}
  /\ queue = <<>> /\ svSent = 0
  /\ executed = <<>>

-----------------------------------------------------------------------------
(* The client. *)
Unacknowledged(c) == c.reliableSequence - c.reliableAcknowledge

Put(c, text) ==
  [c EXCEPT !.reliableSequence = @ + 1,
            !.reliableCommands[Slot(c.reliableSequence + 1)] = text]

(* The message CL_WritePacket makes of c. *)
ClientMessage(c) ==
  [sequence |-> c.sent + 1,
   commands |-> [n \in c.reliableAcknowledge + 1..c.reliableSequence |->
                   c.reliableCommands[Slot(n)]]]

CL_WritePacket ==
  /\ clc.state = "connected" /\ clc.sent < MaxClientMessages
  /\ toServer' = toServer \cup {ClientMessage(clc)}
  /\ clc' = [clc EXCEPT !.sent = @ + 1]
  /\ UNCHANGED <<cl, queue, svSent, toClient, executed>>

(* The disconnect command, refused only while an error is being handled,   *)
(* then without a word.                                                    *)
AddDisconnect(c) ==
  IF Unacknowledged(c) > MAX_RELIABLE_COMMANDS THEN c ELSE Put(c, Disconnect)

(* Three messages, in case some are lost. *)
CloseConnection(c, state) ==
  LET last == AddDisconnect(c)
  IN  /\ toServer' = toServer \cup
           {ClientMessage([last EXCEPT !.sent = @ + i]) : i \in 0..2}
      /\ clc' = [last EXCEPT !.state = state, !.sent = @ + 3]

(* The user leaves, the server says so, or the connection times out. *)
CL_Disconnect ==
  /\ clc.state = "connected"
  /\ CloseConnection(clc, "disconnected")
  /\ UNCHANGED <<cl, queue, svSent, toClient, executed>>

(* A wrong CL_AddReliableCommand, for mutation: no limit. *)
AddWithoutLimit ==
  /\ clc.state = "connected" /\ clc.reliableSequence < MaxCommands
  /\ clc' = Put(clc, clc.reliableSequence + 1)
  /\ UNCHANGED <<toServer, cl, queue, svSent, toClient, executed>>

(* With the ring full, Com_Error disconnects. *)
CL_AddReliableCommand ==
  /\ clc.state = "connected" /\ clc.reliableSequence < MaxCommands
  /\ \/ /\ Unacknowledged(clc) < MAX_RELIABLE_COMMANDS
        /\ clc' = Put(clc, clc.reliableSequence + 1)
        /\ UNCHANGED toServer
     \/ /\ Unacknowledged(clc) >= MAX_RELIABLE_COMMANDS
        /\ CloseConnection(clc, "disconnected")
  /\ UNCHANGED <<cl, queue, svSent, toClient, executed>>

(* What a client reads for the acknowledgement of a cleared message, which *)
(* has none: MSG_ReadLong makes it of reading past the end.                *)
Cleared == -1

(* A wrong Acknowledged, for mutation: too old one command too early.      *)
AcknowledgedEarly(n) ==
  IF n + MAX_RELIABLE_COMMANDS <= clc.reliableSequence
  THEN clc.reliableSequence ELSE n

(* An acknowledgement too old to be right is taken for one of everything.  *)
Acknowledged(n) ==
  IF n + MAX_RELIABLE_COMMANDS < clc.reliableSequence
  THEN clc.reliableSequence ELSE n

(* A cleared message is read past its end: Com_Error disconnects.          *)
CL_ParseServerMessage(m) ==
  /\ clc.state = "connected"
  /\ LET c == [clc EXCEPT !.reliableAcknowledge = Acknowledged(m.reliableAcknowledge)]
     IN  \/ m.reliableAcknowledge # Cleared /\ clc' = c /\ UNCHANGED toServer
         \/ m.reliableAcknowledge = Cleared /\ CloseConnection(c, "error")
  /\ toClient' = {o \in toClient : o.sequence > m.sequence}
  /\ UNCHANGED <<cl, queue, svSent, executed>>

-----------------------------------------------------------------------------
(* The server.  SV_DropClient frees the messages that wait in the queue    *)
(* (SV_FreeClient).                                                        *)
SV_Netchan_FreeQueue == queue' = <<>> /\ svSent' = svSent - Len(queue)

(* SV_ClientCommand, for the commands of one message in turn: those        *)
(* already executed are skipped, a gap or a disconnect makes the client a  *)
(* zombie and ends the message.                                            *)
Fresh(commands) == {n \in DOMAIN commands : n > cl.lastClientCommand}

Gap(commands) ==
  /\ Fresh(commands) # {}
  /\ cl.lastClientCommand + 1 \notin DOMAIN commands

(* Up to and including the first disconnect. *)
Executable(commands) ==
  {n \in Fresh(commands) :
     \A o \in Fresh(commands) : o < n => commands[o] # Disconnect}

SV_ClientCommands(commands) ==
  LET n == cl.lastClientCommand + Cardinality(Executable(commands))
  IN  /\ executed' = executed \o
           [i \in 1..n - cl.lastClientCommand |-> commands[cl.lastClientCommand + i]]
      /\ cl' = IF n = cl.lastClientCommand THEN cl
               ELSE [cl EXCEPT !.lastClientCommand = n,
                               !.lastClientCommandString = commands[n],
                               !.state = IF commands[n] = Disconnect
                                         THEN "zombie" ELSE @]
      /\ IF cl'.state = "zombie"
         THEN SV_Netchan_FreeQueue ELSE UNCHANGED <<queue, svSent>>

(* SV_ExecuteClientMessage.  A zombie's messages are thrown away, and so   *)
(* are those of a client that has not yet followed the server to another   *)
(* map: any message may be such a one.                                     *)
SV_ExecuteClientMessage(m) ==
  /\ toServer' = {o \in toServer : o.sequence > m.sequence}
  /\ \/ UNCHANGED <<cl, executed, queue, svSent>>
     \/ /\ cl.state # "zombie" /\ Gap(m.commands)
        /\ cl' = [cl EXCEPT !.state = "zombie", !.lost = TRUE]
        /\ SV_Netchan_FreeQueue
        /\ UNCHANGED executed
     \/ /\ cl.state # "zombie" /\ ~Gap(m.commands)
        /\ SV_ClientCommands(m.commands)
  /\ UNCHANGED <<clc, toClient>>

(* A kick or a timeout. *)
SV_DropClient ==
  /\ cl.state # "zombie"
  /\ cl' = [cl EXCEPT !.state = "zombie"]
  /\ SV_Netchan_FreeQueue
  /\ UNCHANGED <<clc, toServer, toClient, executed>>

Transmit(m) ==
  toClient' = toClient \cup
    {[sequence |-> svSent + 1 - Len(queue), reliableAcknowledge |-> m.reliableAcknowledge,
      key |-> m.clientCommandString]}

(* Make a message, and send it unless another one is still being sent.  A  *)
(* snapshot that is too long is cleared, its acknowledgement included.     *)
SV_SendMessageToClient ==
  /\ svSent < MaxServerMessages
  /\ svSent' = svSent + 1
  /\ \E n \in {cl.lastClientCommand, Cleared} :
       LET m == [reliableAcknowledge |-> n,
                 clientCommandString |-> cl.lastClientCommandString]
       IN  \/ queue = <<>> /\ Transmit(m) /\ UNCHANGED queue
           \/ queue' = Append(queue, m) /\ UNCHANGED toClient
  /\ UNCHANGED <<clc, toServer, cl, executed>>

(* A wrong SV_Netchan_TransmitNextInQueue, for mutation: the message is    *)
(* encoded with the last command of the moment it is sent.                 *)
TransmitWithCurrentKey ==
  /\ queue # <<>>
  /\ toClient' = toClient \cup
       {[sequence |-> svSent + 1 - Len(queue),
         reliableAcknowledge |-> Head(queue).reliableAcknowledge,
         key |-> cl.lastClientCommandString]}
  /\ queue' = Tail(queue)
  /\ UNCHANGED <<clc, toServer, cl, svSent, executed>>

SV_Netchan_TransmitNextInQueue ==
  /\ queue # <<>>
  /\ Transmit(Head(queue))
  /\ queue' = Tail(queue)
  /\ UNCHANGED <<clc, toServer, cl, svSent, executed>>

Next ==
  \/ CL_AddReliableCommand
  \/ CL_WritePacket
  \/ CL_Disconnect
  \/ \E m \in toClient : CL_ParseServerMessage(m)
  \/ \E m \in toServer : SV_ExecuteClientMessage(m)
  \/ SV_DropClient
  \/ SV_SendMessageToClient
  \/ SV_Netchan_TransmitNextInQueue

Spec == Init /\ [][Next]_vars

-----------------------------------------------------------------------------
clientConnection_t ==
  [state : {"connected", "disconnected", "error"}, reliableSequence : Nat,
   reliableAcknowledge : Nat \cup {Cleared}, sent : Nat,
   reliableCommands : [Slots -> Text]]

TypeOK ==
  /\ clc \in clientConnection_t
  /\ cl \in [state : {"connected", "zombie"}, lastClientCommand : Nat,
             lastClientCommandString : Text, lost : BOOLEAN]
  /\ \A m \in toServer : m.sequence \in 1..clc.sent
  /\ svSent \in Nat
  /\ queue \in Seq([reliableAcknowledge : Nat \cup {Cleared},
                    clientCommandString : Text])
  /\ Len(queue) <= svSent
  /\ toClient \subseteq [sequence : 1..svSent - Len(queue),
                         reliableAcknowledge : Nat \cup {Cleared}, key : Text]
  /\ clc.state = "connected" => clc.reliableAcknowledge \in 0..cl.lastClientCommand
  /\ cl.lastClientCommand <= clc.reliableSequence

(* Every command of a connected client that is not acknowledged is in the  *)
(* ring under its own number and can be sent again (CL_AddReliableCommand  *)
(* ends the connection rather than lose one).                              *)
PendingKept ==
  clc.state = "connected" =>
    /\ Unacknowledged(clc) <= MAX_RELIABLE_COMMANDS
    /\ \A n \in clc.reliableAcknowledge + 1..clc.reliableSequence :
         clc.reliableCommands[Slot(n)] = n

(* The server never finds a gap in the commands of a client that keeps to  *)
(* the protocol, so it never drops it with "Lost reliable commands"        *)
(* (SV_ClientCommand): whatever is lost, delayed or thrown away, a message *)
(* begins no later than after the last command the server has executed.    *)
(* The exception is a client that has read a cleared message: by then it   *)
(* may have taken its own commands for acknowledged, and says goodbye      *)
(* under a number the server does not expect (CL_ParseServerMessage).      *)
NeverLost == cl.lost => clc.state = "error"

(* The server executes the client's commands in order, each once, whatever *)
(* is lost and repeated, except that a disconnect may come early.          *)
AsIssued ==
  [i \in DOMAIN executed |-> IF executed[i] = Disconnect THEN i ELSE executed[i]]
Stream == INSTANCE ReliableStream
            WITH issued <- clc.reliableSequence, executed <- AsIssued
StreamSpec == Stream!Spec

(* A client of the older protocol decodes a message with the text of the   *)
(* command the message acknowledges, from its own ring: that is the text   *)
(* the server encoded it with, however long the message waited in the      *)
(* queue, as long as the ring has not been filled (CL_Netchan_Decode,      *)
(* SV_Netchan_Transmit).                                                   *)
DecodableBelowLimit ==
  \A m \in toClient :
    /\ clc.state = "connected" /\ m.reliableAcknowledge # Cleared
    /\ clc.reliableSequence < m.reliableAcknowledge + MAX_RELIABLE_COMMANDS
    => clc.reliableCommands[Slot(m.reliableAcknowledge)] = m.key

-----------------------------------------------------------------------------
(* Why these hold.  The ring has the last MAX_RELIABLE_COMMANDS commands,  *)
(* acknowledged or not.                                                    *)
RingKept ==
  clc.state = "connected" =>
    \A n \in 0..clc.reliableSequence :
      n + MAX_RELIABLE_COMMANDS > clc.reliableSequence =>
        clc.reliableCommands[Slot(n)] = n

(* A message has the commands from low + 1 to high, each under its number; *)
(* the disconnect is the last, and may have overwritten the first.         *)
HasCommands(m, low, high) ==
  /\ DOMAIN m.commands = low + 1..high
  /\ low <= cl.lastClientCommand \/ clc.state = "error"
  /\ \A n \in 1..high : n > low =>
       \/ m.commands[n] = n
       \/ /\ m.commands[n] = Disconnect /\ clc.state # "connected"
          /\ n \in {low + 1, high}
ToServerOK ==
  \A m \in toServer :
    \E low \in -1..clc.reliableSequence, high \in 0..clc.reliableSequence :
      HasCommands(m, low, high)

(* The messages the client may still receive, those in the queue included, *)
(* as they will be sent.                                                   *)
ToCome ==
  toClient \cup
    {[sequence |-> svSent - Len(queue) + i,
      reliableAcknowledge |-> queue[i].reliableAcknowledge,
      key |-> queue[i].clientCommandString] : i \in 1..Len(queue)}

(* Later messages acknowledge no less, and none less than the client knows *)
(* to be acknowledged; the key is the text of the command.                 *)
ToClientOK ==
  \A m \in ToCome : m.reliableAcknowledge # Cleared =>
    /\ m.reliableAcknowledge \in 0..cl.lastClientCommand
    /\ clc.state = "connected" =>
         /\ clc.reliableAcknowledge <= m.reliableAcknowledge
         /\ m.key = m.reliableAcknowledge
    /\ \A o \in ToCome :
         o.reliableAcknowledge # Cleared /\ o.sequence >= m.sequence =>
           o.reliableAcknowledge >= m.reliableAcknowledge

(* The server has executed every command up to the last, and has not heard *)
(* a disconnect from a client that is connected.                           *)
ExecutedOK ==
  /\ executed \in Seq(Text) /\ Len(executed) = cl.lastClientCommand
  /\ \A i \in DOMAIN executed : executed[i] \in {i, Disconnect}
  /\ clc.state = "connected" => cl.lastClientCommandString = cl.lastClientCommand

(* The inductive invariant. *)
IInv ==
  /\ TypeOK /\ PendingKept /\ NeverLost
  /\ RingKept /\ ToServerOK /\ ToClientOK /\ ExecutedOK

=============================================================================
