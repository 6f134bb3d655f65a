------------------------------ MODULE Download ------------------------------
(***************************************************************************)
(* Files sent over the channel, one after the other (sv_client.c,          *)
(* cl_parse.c, cl_main.c).  The server keeps a window of blocks and sends  *)
(* them in turn, beginning again at the first one that is not acknowledged *)
(* when the whole window has been out for a second.  The client writes the *)
(* block it expects and acknowledges it with the reliable command          *)
(* "nextdl"; an empty block ends the file.                                 *)
(*                                                                         *)
(* File f has Blocks[f] blocks of data, numbered from zero.  Messages to   *)
(* the client are a queue that may lose any of them (MessageChannel);      *)
(* commands are executed in order, each once, sometime (ClientCommands).   *)
(* Snapshots and gamestates are left out.                                  *)
(***************************************************************************)
EXTENDS Integers, Sequences, FiniteSetsExt

CONSTANTS
  Blocks,                 \* the files the client wants, by their lengths
  Refused,                \* those of them the server will not send
  MAX_DOWNLOAD_WINDOW,    \* blocks the server may be ahead of the client
  MAX_RELIABLE_COMMANDS,  \* commands the client may be ahead of the server
  BlockModulus,           \* block numbers in a message are modulo this
  InFlight                \* bound: messages on their way to the client

ASSUME BlocksAssumption == Blocks \in Seq(Nat) \ {<<>>}
ASSUME WindowAssumption == MAX_DOWNLOAD_WINDOW \in Nat \ {0}
ASSUME ReliableAssumption ==
  MAX_RELIABLE_COMMANDS \in Nat /\ MAX_RELIABLE_COMMANDS > MAX_DOWNLOAD_WINDOW
ASSUME ModulusAssumption ==
  BlockModulus \in Nat /\ BlockModulus > MAX_DOWNLOAD_WINDOW

VARIABLES
  cl,         \* the server's client_t
  toClient,   \* download messages on their way, oldest first
  commands,   \* every reliable command of the client
  clc         \* the client's clientConnection_t

vars == <<cl, toClient, commands, clc>>

File == DOMAIN Blocks
NoFile == 0
NoBlock == [file |-> NoFile, number |-> 0]

Slot(n) == n % MAX_DOWNLOAD_WINDOW

(* What a file's block n holds, and whether it is empty. *)
Block(f, n) == [file |-> f, number |-> n]
Empty(b) == b.file = NoFile \/ b.number = Blocks[b.file]

Download(f) == [op |-> "download", arg |-> f]
NextDl(n)   == [op |-> "nextdl", arg |-> n]
StopDl      == [op |-> "stopdl", arg |-> 0]
DoneDl      == [op |-> "donedl", arg |-> 0]

(* The client has just asked for the first file (CL_InitDownloads). *)
Init ==
  /\ cl = [state |-> "connected", lastClientCommand |-> 0,
           downloadName |-> NoFile, download |-> FALSE,
           downloadCurrentBlock |-> 0, downloadClientBlock |-> 0,
           downloadXmitBlock |-> 0,
           downloadBlocks |-> [i \in 0..MAX_DOWNLOAD_WINDOW - 1 |-> NoBlock]]
  /\ toClient = <<>>
  /\ commands = <<Download(1)>>
  /\ clc = [state |-> "downloading", reliableAcknowledge |-> 0, file |-> 1,
            downloadBlock |-> 0, written |-> <<>>, damaged |-> FALSE, mixed |-> FALSE]

-----------------------------------------------------------------------------
(* The server, executing the client's commands. *)
SV_CloseDownload(c) == [c EXCEPT !.downloadName = NoFile, !.download = FALSE]

SV_NextDownload_f(c, n) ==
  IF n # c.downloadClientBlock
  THEN [SV_CloseDownload(c) EXCEPT !.state = "zombie"]
  ELSE IF Empty(c.downloadBlocks[Slot(n)])
  THEN SV_CloseDownload(c)
  ELSE [c EXCEPT !.downloadClientBlock = @ + 1]

Executed(c, command) ==
  CASE command.op = "download" ->
         [SV_CloseDownload(c) EXCEPT !.downloadName = command.arg]
    [] command.op = "nextdl" -> SV_NextDownload_f(c, command.arg)
    [] command.op = "stopdl" -> SV_CloseDownload(c)
    [] command.op = "donedl" -> c

SV_ExecuteClientCommand ==
  /\ cl.state = "connected"
  /\ cl.lastClientCommand < Len(commands)
  /\ LET n == cl.lastClientCommand + 1
     IN  cl' = [Executed(cl, commands[n]) EXCEPT !.lastClientCommand = n]
  /\ UNCHANGED <<toClient, commands, clc>>

(* A wrong Opened, for mutation: the client's block is not reset. *)
OpenedWithoutReset(c) ==
  IF c.download THEN c
  ELSE [c EXCEPT !.download = TRUE, !.downloadCurrentBlock = 0,
                 !.downloadXmitBlock = 0]

(* The server, sending. *)
Opened(c) ==
  IF c.download THEN c
  ELSE [c EXCEPT !.download = TRUE, !.downloadCurrentBlock = 0,
                 !.downloadClientBlock = 0, !.downloadXmitBlock = 0]

(* A wrong WindowEnd, for mutation: one block too many.                 *)
WindowEndPlusOne(c) == c.downloadClientBlock + MAX_DOWNLOAD_WINDOW + 1

WindowEnd(c) == c.downloadClientBlock + MAX_DOWNLOAD_WINDOW

(* Read blocks until the window is full or the empty block is in it. *)
Filled(c) ==
  LET f    == c.downloadName
      end  == Max({c.downloadCurrentBlock, Min({WindowEnd(c), Blocks[f] + 1})})
      read == c.downloadCurrentBlock..end - 1
  IN  [c EXCEPT !.downloadCurrentBlock = end,
                !.downloadBlocks = [i \in DOMAIN @ |->
                   LET here == {n \in read : Slot(n) = i}
                   IN  IF here = {} THEN @[i] ELSE Block(f, Max(here))]]

(* A wrong NextToSend, for mutation: nothing is ever sent again.           *)
NeverAgain(c) == c.downloadXmitBlock

(* The whole window is out: begin again.  Whether a second has passed is   *)
(* left open: the step that finds that none has changes nothing more.      *)
NextToSend(c) ==
  IF c.downloadXmitBlock = c.downloadCurrentBlock
  THEN c.downloadClientBlock ELSE c.downloadXmitBlock

(* The number itself is not in the message; it is kept for the invariant.  *)
Message(c, n) ==
  [block |-> n % BlockModulus, first |-> n = 0,
   data |-> c.downloadBlocks[Slot(n)], reliableAcknowledge |-> c.lastClientCommand,
   number |-> n]

(* SV_WriteDownloadToClient and SV_Netchan_Transmit. *)
SendBlock ==
  /\ cl.downloadName # NoFile
  /\ cl.download \/ cl.downloadName \notin Refused
  /\ Len(toClient) < InFlight
  /\ LET c == Filled(Opened(cl))
         n == NextToSend(c)
     IN  /\ c.downloadClientBlock # c.downloadCurrentBlock
         /\ toClient' = Append(toClient, Message(c, n))
         /\ cl' = [c EXCEPT !.downloadXmitBlock = n + 1]
  /\ UNCHANGED <<commands, clc>>

(* The message with the reason is written, but 0 blocks are reported, and  *)
(* SV_SendDownloadMessages does not send it.                               *)
RefuseFile ==
  /\ cl.downloadName \in Refused /\ ~cl.download
  /\ cl' = [cl EXCEPT !.downloadName = NoFile]
  /\ UNCHANGED <<toClient, commands, clc>>

SV_SendDownloadMessages == SendBlock \/ RefuseFile

-----------------------------------------------------------------------------
(* The client. *)
Unacknowledged(c) == Len(commands) - c.reliableAcknowledge

(* Add commands and go on as c, unless there are too many.                 *)
CL_AddReliableCommands(c, new, failure) ==
  IF Unacknowledged(c) + Len(new) > MAX_RELIABLE_COMMANDS
  THEN clc' = [c EXCEPT !.state = failure] /\ UNCHANGED commands
  ELSE clc' = c /\ commands' = commands \o new

(* A message that is not read as it was written: its rest is taken for     *)
(* something else, which ends the connection unless it makes sense by      *)
(* chance.                                                                 *)
Misread(c, new) ==
  \/ CL_AddReliableCommands(c, new, "error")
  \/ clc' = [c EXCEPT !.state = "error"] /\ UNCHANGED commands

(* The file's size stands in its first block only, and is looked for by a  *)
(* client that expects the first block.                                    *)
Readable(c, m) == m.block = 0 => (m.first <=> c.downloadBlock = 0)

Expected(c, m) == c.downloadBlock % BlockModulus = m.block

(* What the client is about to write is the file, from its beginning. *)
Intact(f, written) ==
  written = [i \in 1..Blocks[f] |-> Block(f, i - 1)]

(* CL_NextDownload: the next file, or none.  A damaged file may be noticed *)
(* by its checksum, which covers only part of it.                          *)
NextFile(c, n) ==
  LET f    == c.file
      done == [c EXCEPT !.damaged = @ \/ ~Intact(f, c.written)]
      next == [done EXCEPT !.file = f + 1, !.downloadBlock = 0, !.written = <<>>]
  IN  \/ /\ f + 1 \in File
         /\ CL_AddReliableCommands(next, <<NextDl(n), Download(f + 1)>>, "overflow")
      \/ /\ f + 1 \notin File
         /\ CL_AddReliableCommands(
              [done EXCEPT !.state = "done", !.file = NoFile, !.downloadBlock = 0,
                           !.written = <<>>],
              <<NextDl(n), DoneDl>>, "overflow")
      \/ /\ ~Intact(f, c.written)
         /\ clc' = [done EXCEPT !.state = "error"]
         /\ UNCHANGED commands

TakeBlock(c, m) ==
  LET n     == c.downloadBlock
      taken == [c EXCEPT !.downloadBlock = n + 1,
                         !.mixed = @ \/ m.data.file # c.file]
  IN  \/ /\ ~Empty(m.data)
         /\ CL_AddReliableCommands(
              [taken EXCEPT !.written = Append(@, m.data)], <<NextDl(n)>>, "overflow")
      \/ Empty(m.data) /\ NextFile(taken, n)

CL_ParseDownload ==
  /\ clc.state \in {"downloading", "done"}
  /\ toClient # <<>>
  /\ toClient' = Tail(toClient)
  /\ LET m == Head(toClient)
         c == [clc EXCEPT !.reliableAcknowledge = m.reliableAcknowledge]
     IN  \/ clc.state = "done" /\ Misread(c, <<StopDl>>)
         \/ /\ clc.state = "downloading" /\ ~Readable(c, m)
            /\ Misread(c, <<>>)
         \/ /\ clc.state = "downloading" /\ Readable(c, m) /\ ~Expected(c, m)
            /\ clc' = c /\ UNCHANGED commands
         \/ /\ clc.state = "downloading" /\ Readable(c, m) /\ Expected(c, m)
            /\ TakeBlock(c, m)
  /\ UNCHANGED cl

(* The network has lost the message that would be the next to come. *)
Lose ==
  /\ toClient # <<>>
  /\ toClient' = Tail(toClient)
  /\ UNCHANGED <<cl, commands, clc>>

Next ==
  \/ SV_ExecuteClientCommand
  \/ SV_SendDownloadMessages
  \/ CL_ParseDownload
  \/ Lose

Spec == Init /\ [][Next]_vars

-----------------------------------------------------------------------------
(* Client and server keep running, the client's packets get through in the *)
(* end, and so does a block that is sent again and again.                  *)
Fairness ==
  /\ WF_vars(SV_ExecuteClientCommand)
  /\ WF_vars(SV_SendDownloadMessages)
  /\ WF_vars(CL_ParseDownload)
  /\ SF_vars(CL_ParseDownload /\ Expected(clc, Head(toClient)))

FairSpec == Spec /\ Fairness

-----------------------------------------------------------------------------
BlockData == [file : File \cup {NoFile}, number : Nat]
Commands == [op : {"download"}, arg : File] \cup [op : {"nextdl"}, arg : Nat]
              \cup {StopDl, DoneDl}
Messages == [block : Nat, first : BOOLEAN, data : BlockData,
             reliableAcknowledge : Nat, number : Nat]
Server == [state : {"connected", "zombie"}, lastClientCommand : Nat,
           downloadName : File \cup {NoFile}, download : BOOLEAN,
           downloadCurrentBlock : Nat, downloadClientBlock : Nat,
           downloadXmitBlock : Nat,
           downloadBlocks : [0..MAX_DOWNLOAD_WINDOW - 1 -> BlockData]]
Client == [state : {"downloading", "done", "error", "overflow"},
           reliableAcknowledge : Nat, file : File \cup {NoFile},
           downloadBlock : Nat, written : Seq(BlockData),
           damaged : BOOLEAN, mixed : BOOLEAN]

TypeOK ==
  /\ commands \in Seq(Commands)
  /\ cl \in Server /\ cl.lastClientCommand <= Len(commands)
  /\ cl.download => cl.downloadName # NoFile
  /\ toClient \in Seq(Messages)
  /\ \A i \in DOMAIN toClient :
       toClient[i].reliableAcknowledge <= cl.lastClientCommand
  /\ clc \in Client /\ clc.reliableAcknowledge <= Len(commands)
  /\ clc.state = "downloading" => clc.file # NoFile

(* A file the client has finished holds its own blocks, in order and each  *)
(* once, whatever was lost, sent again or read into the window meanwhile   *)
(* (SV_WriteDownloadToClient, CL_ParseDownload), unless the client took a  *)
(* late block of the file before.                                          *)
FileIntact == clc.damaged => clc.mixed

(* The client acknowledges the block the server takes for the last it has  *)
(* (SV_NextDownload_f), so no client is dropped for a "broken download"    *)
(* and the window's numbers keep within their limits, with the same        *)
(* exception.                                                              *)
InStep ==
  \/ clc.mixed
  \/ /\ cl.state = "connected"
     /\ cl.download =>
          /\ cl.downloadXmitBlock <= cl.downloadCurrentBlock
          /\ cl.downloadCurrentBlock - cl.downloadClientBlock
               \in 0..MAX_DOWNLOAD_WINDOW

(* "Cannot set this higher, or clients will overflow the reliable commands *)
(* buffer" (qcommon.h): with a smaller window the acknowledgements of a    *)
(* download never fill the client's ring, though the server may be long in *)
(* acknowledging them, with the same exception.                            *)
WindowFits == clc.state = "overflow" => clc.mixed

(* Every download comes to an end, unless the server refuses the file: the *)
(* window is sent again as often as it takes (SV_WriteDownloadToClient).   *)
Finishes ==
  <>(clc.state # "downloading" \/ cl.state = "zombie" \/ clc.file \in Refused)
-----------------------------------------------------------------------------
(* What the invariants rest on, as long as the client has not taken a late *)
(* block.  The window holds the blocks of the file that its numbers say.   *)
WindowOK(c) ==
  LET f == c.downloadName
  IN  /\ c.downloadClientBlock <= Blocks[f]
      /\ c.downloadClientBlock <= c.downloadCurrentBlock
      /\ c.downloadCurrentBlock <= WindowEnd(c)
      /\ c.downloadCurrentBlock <= Blocks[f] + 1
      /\ c.downloadXmitBlock <= c.downloadCurrentBlock
      /\ \A n \in 0..c.downloadCurrentBlock - 1 :
           c.downloadBlocks[Slot(n)].file = f
      /\ \A n \in c.downloadClientBlock..c.downloadCurrentBlock - 1 :
           c.downloadBlocks[Slot(n)] = Block(f, n)

Pending == Len(commands) - cl.lastClientCommand

(* The server's next commands are k acknowledgements, of the next k blocks *)
(* of the window.                                                          *)
Acks(k) ==
  /\ \A i \in 1..k :
       commands[cl.lastClientCommand + i] = NextDl(cl.downloadClientBlock + i - 1)
  /\ k > 0 => cl.download
  /\ cl.download => cl.downloadClientBlock + k <= cl.downloadCurrentBlock

(* After them the client's commands end in the middle of the file, or the  *)
(* file does, and the client asks for another or for none.                 *)
MidFile(k) ==
  /\ Pending = k
  /\ cl.download => cl.downloadClientBlock + k <= Blocks[cl.downloadName]

NextAsked(k) ==
  /\ Pending = k + 1
  /\ commands[Len(commands)].op = "download"

AllDone(k) ==
  /\ Pending > k
  /\ \A i \in cl.lastClientCommand + k + 1..Len(commands) :
       commands[i] \in {DoneDl, StopDl}

EndOfFile(k) ==
  IF cl.download THEN cl.downloadClientBlock + k = Blocks[cl.downloadName] + 1
                 ELSE cl.downloadName = NoFile

CommandsOK(k) ==
  /\ k \in 0..Pending /\ Acks(k)
  /\ \/ MidFile(k)
     \/ EndOfFile(k) /\ (NextAsked(k) \/ AllDone(k))

(* The client has the blocks that it has acknowledged, and is at the       *)
(* server's file or at the one it has asked for.                           *)
ClientOK(k) ==
  /\ clc.written = [i \in 1..clc.downloadBlock |-> Block(clc.file, i - 1)]
  /\ IF Pending = k
     THEN IF cl.download
          THEN /\ cl.downloadName = clc.file
               /\ clc.downloadBlock = cl.downloadClientBlock + k
               /\ clc.downloadBlock <= cl.downloadXmitBlock + MAX_DOWNLOAD_WINDOW
          ELSE clc.downloadBlock = 0 /\ cl.downloadName \in {clc.file, NoFile}
     ELSE /\ NextAsked(k) /\ commands[Len(commands)] = Download(clc.file)
          /\ clc.downloadBlock = 0
          /\ cl.download => cl.downloadName < clc.file

(* A message of the client's file is about a block less than a window away *)
(* from the one it expects, and from those of the messages behind it.      *)
OfThisFile == {i \in DOMAIN toClient : toClient[i].data.file = clc.file}

MessageOK(m) ==
  /\ cl.download /\ cl.downloadName = clc.file
  /\ m.block = m.number % BlockModulus
  /\ m.number < cl.downloadCurrentBlock
  /\ m.number < cl.downloadXmitBlock + MAX_DOWNLOAD_WINDOW
  /\ clc.downloadBlock <= m.number + MAX_DOWNLOAD_WINDOW
  /\ m.number + (Len(commands) - m.reliableAcknowledge)
       < clc.downloadBlock + MAX_DOWNLOAD_WINDOW
  /\ m.number >= clc.downloadBlock => m.data = Block(clc.file, m.number)

MessagesOK ==
  /\ \A i \in DOMAIN toClient : toClient[i].data.file <= clc.file
  /\ \A i \in OfThisFile : MessageOK(toClient[i])
  /\ \A i, j \in OfThisFile :
       i < j => toClient[i].number < toClient[j].number + MAX_DOWNLOAD_WINDOW

Sync ==
  /\ cl.state = "connected" /\ ~clc.damaged /\ clc.state # "overflow"
  /\ cl.download => WindowOK(cl)
  /\ \E k \in 0..Pending :
       /\ CommandsOK(k)
       /\ clc.state = "downloading" => ClientOK(k)
       /\ clc.state = "done" => EndOfFile(k) /\ ~NextAsked(k)
  /\ clc.state = "downloading" => MessagesOK

(* The inductive invariant: server, client and the messages and commands   *)
(* between them are in step until the client takes a late block.           *)
IInv == TypeOK /\ (clc.mixed \/ Sync)
=============================================================================
