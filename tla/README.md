# Verification of the ported programs: Quake 3's network protocol, NetHack's saves and keyboard

The repository collects C and C++ programs ported to Flash with FlasCC. Almost
all of it is third-party code built unchanged (OpenCV, protobuf, Bochs, DosBox,
Neverball); the port adds build files and thin ActionScript glue. Three parts
have a protocol of their own, with concurrency, failures or both, and this
project models them in TLA+, checks them with TLC and proves what matters most
about them with TLAPS:

* the client/server protocol of `src/Quake3/code` (`qcommon`, `server`, `client`
  and the network side of `cgame`);
* how NetHack (`src/nethack-3.4.3`) keeps a game on disk: level files,
  checkpoints, saving, restoring, and the recovery of a game after a crash;
* how a key reaches NetHack in the port: two threads, one counter, one buffer.

Paths below are relative to `src/Quake3/code`, or in the sections about NetHack to
`src/nethack-3.4.3`, unless they start with `src/`.

## 1. Inventory

### 1.1 Components

| Component | Code | State | Operations |
|---|---|---|---|
| Network channel | `qcommon/net_chan.c`, `server/sv_net_chan.c`, `client/cl_net_chan.c` | `netchan_t` on each side: sequence numbers, the message being sent in fragments, the message being put together; the server's list of waiting messages with a pointer to its tail | transmit, next fragment, next in queue, process a datagram, free the queue |
| Reliable commands, server to client | `server/sv_main.c`, `sv_client.c`, `sv_snapshot.c`, `client/cl_parse.c`, `cl_cgame.c`, `cgame/cg_servercmds.c`, `cg_snapshot.c` | a ring of 64 commands on both sides, the numbers issued, acknowledged, received and executed | add, drop, write into a message, parse, execute, acknowledge |
| Reliable commands, client to server | `client/cl_main.c`, `cl_input.c`, `cl_parse.c`, `server/sv_client.c` | the client's ring and numbers; the last number and text executed by the server | add, disconnect, write, execute, acknowledge |
| Gamestate and change of map | `server/sv_init.c`, `sv_ccmds.c`, `sv_client.c`, `sv_main.c`, `client/cl_parse.c`, `cl_cgame.c` | serverId, restartedServerId, configstrings, `csUpdated`, `gamestateMessageNum`; the client's copy of the configstrings and its map | spawn a server, restart a map, set a configstring, send or resend the gamestate, enter the world, load |
| Snapshots | `server/sv_snapshot.c`, `client/cl_parse.c`, `cl_input.c`, `cl_cgame.c` | rings of 32 frames on both sides, `deltaMessage`, rings of entities | build, write as a difference, parse, acknowledge, hand to the cgame |
| Downloads | `server/sv_client.c`, `client/cl_parse.c`, `cl_main.c` | a window of 48 blocks, the first not acknowledged, the next to send; the client's next block and file | begin, write a block, acknowledge, repeat, refuse, next file, done |
| Connection life cycle | `server/sv_client.c`, `sv_main.c`, `sv_ccmds.c`, `client/cl_main.c` | `svs.challenges`, the states and channels of `svs.clients`, the game's players, `clc` | ask for a challenge, authorize, connect, reconnect, refuse, drop, kick, become a zombie, time out, on both sides |
| Rate control, leaky bucket | `server/sv_main.c` | times and byte counts | `SV_RateMsec`, `SVC_RateLimit` |
| Loopback and delay queues | `qcommon/net_chan.c` | two rings of 16 packets, a list ordered by time | send, get, queue, flush |
| NetHack: saves | `src/nethack-3.4.3/src/save.c`, `restore.c`, `do.c`, `files.c`, `end.c`, `sys/unix/unixunix.c`, `unixmain.c`, `util/recover.c` | the level in core, level files, level file 0 with the checkpoint, the save file; `havestate`, `something_worth_saving`, `done_hup` | start, ask about an old game, play, change level, checkpoint, save, hang up, restore, die, recover |
| NetHack: keyboard | `src/nethack-3.4.3/com/adobe/flascc/Console.as`, `win/tty/wintty.c` | `keybytes` and `kp`; `TTYInputAvailable` and its mutex; stdin's buffer | key event, count up, spin, count down, `getchar`, `read()` |
| NetHack: the game; Neverball | `src/nethack-3.4.3/src`, `src/neverball-1.5.4` | a game world | game rules |
| Other consoles, VFS loader, ANSI terminal | `src/Quake3/Console.as`, `src/neverball-1.5.4/Console.as`, `VFSPreLoader.as`, `src/as3ansi` | a byte buffer; a chain of loads; a screen | key events and `read()`; load events; output |
| Bochs, DosBox, OpenCV, protobuf | `src/bochs-2.6`, `src/dosbox-0.74`, `src/OpenCV-2.4.2`, `src/protobuf-2.4.1` | a PC; none | emulation; library calls |
| Game, cgame, user interface | `game`, `cgame`, `q3_ui` | the game world | game rules, prediction, menus |
| Renderer, sound, bots, VM, files | `renderer`, `client/snd_*`, `botlib`, `qcommon/vm*.c`, `files.c` | large tables | numerical and data-driven work |

### 1.2 How they interact

Everything between client and server is a message. `SV_Netchan_Transmit` and
`CL_Netchan_Transmit` put one into the channel, which may lose it and otherwise
delivers it whole and in order. Each message of the server acknowledges the
client's last command, repeats every server command the client has not
acknowledged, and carries a gamestate, a snapshot or a download block. Each
message of the client names the serverId it knows, the last message and the last
command it received, repeats its commands, and usually carries moves. So nothing
is retransmitted by the channel: reliability is the business of the two command
streams, of the gamestate test in `SV_ExecuteClientMessage`, and of the download
window.

Inside a process control is single-threaded: `Com_Frame` runs the server's
frame, the packets that have come in and the client's frame in turn. The
interleavings are those of two machines and a network, plus, on the server, the
order of packets, console commands and frames.

NetHack's game, its `recover` program and a later run of the game meet in files
only: level files `1lock.0`, `.1`, ..., and the save file. A crash, or the signal
that the terminal has hung up, may come between any two system calls. In the port the
game runs in a worker thread; its system calls on the terminal are run for it by the
UI thread, which also takes the key events. The two share the counter
`TTYInputAvailable`, under a mutex, and nothing else.

### 1.3 What is hard

* **Loss, duplication and reordering** of datagrams, and so of fragments of
  different messages.
* **Sequence numbers that are read before they are fixed**: a snapshot and a
  gamestate remember `outgoingSequence` at a time when something may already be
  waiting to be sent under that number.
* **Rings**: commands (64), frames (32), entities (shared by all clients),
  download blocks (48). Each is indexed by a number modulo its size, and each
  index is right only as long as somebody else keeps up.
* **Old numbers**: an acknowledgement, a delta request, a serverId or a block
  number says something about the past, and is used in a present that may have
  another map, another file or another gamestate.
* **Limits**: the code at a full ring drops the client, from inside the function
  that fills the ring.
* **Pointers across a copy**: `client_t` holds a pointer into itself.
* **Something must get through**: queued messages, download blocks, keys.
* **A crash between two files**: a checkpoint, a save, a restore and a recovery
  each write several files in turn, and another program goes on from what is there.
* **A signal handler that does real work**: the hangup handler saves the game from
  wherever it is.
* **A counter that stands for what is in a buffer**, changed by two threads.

`PROJECT.json` lists each of these at its line, with the properties that cover
it, or the reason why none does yet.

### 1.4 What makes each component correct

* Connection: a client has one slot; the game has a player for each slot in use;
  a client joins only with an answer to the request it is making; a side whose
  partner has gone gives up in the end.
* Channel: the receiver is handed a subsequence of the messages sent, each whole
  and at most once; the server's queue loses and reorders nothing; every message
  leaves in the end.
* Command streams: each command is executed exactly once and in order or the
  connection ends; commands come before the snapshots that were built after
  them; both sides derive the same key.
* Gamestate: a client in the game has the server's configstrings; it is sent the
  gamestate again only when it has lost it; a client that is taken to be in the
  map is in the map.
* Snapshots: what the client makes of a difference is the snapshot the server
  made, and it always holds what the difference was taken from.
* Downloads: a finished file is the file; the acknowledgements are those the
  server expects; the client's ring does not overflow; the download ends.
* Saves: while the game is played each thing is in one place; what was checkpointed or
  saved can be brought back after a crash; a restored game is the one that was saved; a
  game is lost in the ways that are listed, and in no other.
* Keyboard: the game reads no end of file; it gets every key, in order.

## 2. Modules

    MessageChannel      what a channel promises, in one direction
      ^ implemented by
    Netchan             one direction of a netchan_t
      SVNetchan         + the server's queue      (MCSVNetchan)
      CLNetchan         + the client's flush loop (MCCLNetchan)
                        (NetchanProofs: the theorems about both)

    ReliableStream      what a stream of reliable commands promises
      ^ implemented by
    ServerCommands      commands from the server to a client
                                                    (ServerCommandsProofs)
    ClientCommands      commands from a client to the server
                                                    (ClientCommandsProofs)

    Gamestate           following the server from map to map
                                                    (GamestateProofs)
    Snapshot            snapshots as differences    (MCSnapshot, SnapshotProofs)
    Download            files over the channel      (MCDownload, DownloadProofs)
    Connection          how a client gets and loses its slot
                                                    (ConnectionProofs)

    SaveRestore         a NetHack game on disk      (MCSaveRestore)
    KeyInput            keys on their way to NetHack
                                                    (MCKeyInput)
                        (NetHackProofs: the theorems about both)

The layers are composed by abstraction. `SVNetchan` and `CLNetchan` are shown to
implement `MessageChannel`; the upper modules take its promise for the network:
messages stay in a set or a queue, the receiver takes any that is newer than the
last one it took, and what it skips is lost. `Gamestate` takes configstring
commands as a stream in order, which is what `ServerCommands` is shown to be;
`Download` takes the client's commands so, which is `ClientCommands`. `Connection`
comes before all of them: the other modules follow one client in one connection.
`SVNetchan` and `Netchan` are composed by `EXTENDS`: the queue's actions call
the channel's.

### 2.1 Netchan, SVNetchan, CLNetchan

A message is a sequence of bytes. `outgoingSequence`, `unsentFragments`,
`unsentFragmentStart`, `unsentBuffer`, `incomingSequence`, `fragmentSequence`
and `fragmentBuffer` are the fields of `netchan_t`; `unsentLength` and
`fragmentLength` are lengths of the buffers. `net` is the set of all datagrams
ever sent, any of which may arrive at any time and any number of times: that is
the whole of UDP. `Netchan_Transmit` has its two branches (`TransmitWhole`,
`TransmitFirstFragment`), `Netchan_Process` its four outcomes (`ProcessWhole`,
`ProcessGap`, `ProcessNextFragment`, `ProcessLastFragment`; a datagram that is
not newer changes nothing). `sent` and `accepted` are history variables.

`SVNetchan` adds the queue. `tailStale` stands for `netchan_end_queue` pointing
into the old storage of a `client_t` that `SV_ChangeMaxClients` has moved; what is then
queued hangs on freed memory (`EnqueueOnStaleTail`, counted in `hung`) and is not
accepted, until the queue has been emptied or freed. `SV_Netchan_FreeQueue` is what
dropping the client does to the queue. `CLNetchan` is `CL_Netchan_Transmit`, which
sends all its fragments in one call. Its specification is `CLSpec` (`CLNext`,
`CLChannelSpec`), so that one module, `NetchanProofs`, can be about both ends.

### 2.2 ServerCommands, ClientCommands

The text of command n is n, so that an executed sequence shows what was
executed. The rings are functions from slots to such numbers. A step of
`ServerCommands` is a whole call: `SV_AddServerCommand` with the drop that it
may cause, and the commands which that drop adds in its turn (`Overflow`, `Drop`);
parsing a message with all its commands; a transition of the cgame with all the
commands it executes. `snaps` holds the snapshots the client has and the cgame
has not come to. In `ClientCommands` the server's message queue appears again,
as far as the key of a waiting message needs it.

A snapshot that is too long for a message is cleared before it is sent
(`sv_snapshot.c:630`): in both modules the server may send such a message at any time.
It has no commands (`ClearedMessage`) and no acknowledgement (`Cleared`, the -1 that
`MSG_ReadLong` makes of reading past the end), and ends the connection of the client
that reads it.

`KeysAgreeBelowLimit` and `DecodableBelowLimit` are about the XOR encoding of
messages: what matters is which command's text is the key, so the key is the
number of that command. `LEGACY_PROTOCOL` is defined in the build, so the
encoding of queued messages exists.

### 2.3 Gamestate

`serverId` and `restartedServerId` count maps and restarts. Configstrings are
two: `systeminfo`, whose value is `sv_serverid`, and `other`, whose value counts
its changes. `pending` are messages not yet sent whole, so that
`gamestateMessageNum = outgoingSequence` can be wrong when something is waiting.
`systemInfoModified` is the bit of `cvar_modifiedFlags`, which delays the new
serverId of a map_restart to the next `SV_Frame`. `clc.replayed` is a history
bit: the new cgame has executed commands from before its gamestate. `Coming` are the
messages that may still reach the client, sent or waiting, with their numbers.

### 2.4 Snapshot

A snapshot is the number of the frame it was made of; a difference carries that
number, how far back its base is, and which frame the server really used for
it. The client rebuilds a frame: `Garbage` when the base is not the one the
server used, or when the entities of it are gone on either side. Entities are
counts: the rings are represented by their running numbers (`first_entity`,
`nextSnapshotEntities`, `parseEntitiesNum`). Other clients use the server's ring
too (`OthersEntities`, after the messages in `Busy`). A snapshot has any number of
entities up to `MaxEntities`, also more than a ring holds; `Sizes` lists by number what a
run tries. When the new entities may run over the old ones in the client's ring, the
order of both decides whether they do, so the outcome is a free choice (`Reconstructed`).
`crowded` is a history bit: the snapshot was larger than the server's ring, or came as a
difference of more than `ParseMargin` entities, or from one that did. What the client
counts while it reads a difference that it cannot use, or from a wrong base, may be another
number than the server sent; the model counts the server's, and no property depends on it,
because the code checks ages by what it has counted itself. `Coming` and `Going` are the messages that may still reach the
client and the server. A client that takes a
map_restart for its own map while it is still in the old one is marked
`astray` (see `gamestate_oldmap`).

### 2.5 Download

The file is a number of blocks; a block is the file and the number it came from,
so that a wrong block is seen. `downloadCount`, `downloadSize` and `downloadEOF`
are represented by how many blocks have been read. The second that must pass
before the window is sent again is left open: the call that finds that it has not
passed reads ahead at most, which the later call does as well. A message that the client
does not read as it was written ends the connection, or by chance not (`Misread`).
`number` of a message is the block's number before it is cut to 16 bits; no action
reads it, the invariant does.

### 2.6 Connection

A client is a base address with its qport; `SlotsOf` is the search of
`SV_DirectConnect` and `SV_PacketEvent` for its slot. `challenges` and `slots` are
`svs.challenges` and `svs.clients`, `cl` is `clc` of each client, `inGame` what the
game was told by `GAME_CLIENT_CONNECT` and `GAME_CLIENT_DISCONNECT`. A packet is
lost, late, or, if it belongs to a connection, delivered again; requests outside
a connection are sent again by `CL_CheckForResend`, which repeats them.

* *Time.* `sv_timeout`, `sv_zombietime`, `sv_reconnectlimit` and `cl_timeout` may
  have passed at any moment since the last packet, because any number of packets
  may have been lost; so each of these tests is a free choice. Challenges are
  numbered in the order in which they are given out, so the number is also its
  `time`. The code's numbers are random; that two agree by accident is left out.
* *Messages.* Only what tells one connection from another is kept: challenge,
  sequence number, what is acknowledged and whether the client has the gamestate
  (the rest is in the other modules). `Checksum` is `NETCHAN_GENCHECKSUM`
  (`qcommon.h`): challenge xor sequence times challenge, which is 0 for the
  sequence number 1. The three packets of `CL_Disconnect` are one.
* *Refusals.* Those that change nothing (ban, protocol version, name of the game,
  length of the userinfo) are as good as losses and left out. "Server is full" is
  possible whenever the client has no slot: others hold the rest. The game's own
  refusal is `Deny`.
* *The authorize server* is a packet that comes back with the number asked about
  and any of its answers.
* *History.* `given` records for whom and for which of its attempts each
  challenge was given, and how often it was used; `ghosts` the players of whom
  the game was not told that they had left.

### 2.7 SaveRestore (NetHack)

`lock` is level file 0, `file` the other level files, `save` the save file, each with
how far it has been written; `here`, `floor`, `carried`, `exists` are the game in core.
`pc` says which file operation comes next; a step is one system call that changes a
file with the work in core around it. `Crash` (the process dies) is possible before
each step, `hangup` wherever the signal is not ignored; it saves the game or, as long as
`something_worth_saving` (`worth`) is not set, removes the level files. It is set by a step
of its own, `UsefulData`, after a restore has deleted the save file and after a new game has
written its first state: between these and it, at `begin`, SIGHUP finds nothing worth
saving. `hup` keeps where it came. `GetLock`, `Refuse` and
`EraseOldLocks` are the answers to `getlock()`'s question about an old game.
`RecoverOpen` to `RecoverClose` are `util/recover.c`, a program of its own that runs
while the game does not. A file's contents are sets of items: an item is made with its
level and then only carried about, so losses and doubles show.

`last` is what should come back from the disk: the game at the last checkpoint, or as it
was when the save began, or nothing after the hero's death or the player's "destroy
old game". `lost` says that the disk did not have it when the program ended; what
may be said of such a game ends there.

### 2.8 KeyInput (NetHack's port)

`keybytes` and `kp` are the fields of `Console`, `available` the counter, `stdin` the
buffer of the C library, which `getchar()` fills with one `read()` of `ReadSize` bytes.
`++` and `--` are two steps, a load and a store, with the mutex held in between
(`IncrementEnter`, `IncrementLeave`, ...). `bufferKeyDown` is a whole event handler up
to its loop; the UI thread runs no other event and no `read()` until the loop has
ended, because ActionScript handlers are not interrupted. `typed` and `taken` are
histories. Keys are sequences of bytes: an arrow key has three. The specification is
`KeySpec` (`KeyInit`, `KeyNext`), so that one module, `NetHackProofs`, can be about both
parts of NetHack.

The consoles of the other two ports differ and are not modelled. Those of Quake 3
(`src/Quake3/Console.as:217`) and Neverball (`src/neverball-1.5.4/Console.as:288`) write
a key where the last read has left the position of the ByteArray, over bytes that were
not read yet: this is the mutant `KeyDownInPlace`, with which `InOrder` fails.

## 3. Runs

Every run takes the module's own specification with small constants; no
definition is replaced.

| Run | Question | Result |
|---|---|---|
| `svnetchan` | Does the server's channel keep its invariant, lose nothing it has accepted, through changes of `sv_maxclients` too, hand over whole messages, implement `MessageChannel`, and send everything in the end? | holds |
| `clnetchan` | The same safety for the client's side | holds |
| `servercommands` | Are server commands executed in order, once, before later snapshots, and with the same keys? | holds |
| `clientcommands` | Are client commands executed once, never missed, and can queued messages be decoded? | holds, with one exception that `NeverLost` names |
| `gamestate` | Do configstrings agree through changes of map and restarts, and is a gamestate resent only if needed? | holds, with one exception that the properties name |
| `snapshot` | Is what the cgame gets what the server made? Is each base still held? | holds, with an exception for crowded snapshots and one for a client astray |
| `download` | Are files intact, acknowledgements in step, the ring never full, every download finished? | holds |
| `connection` | One slot each? Does the game agree? Whose challenge does a client join with? When does a client wait for ever? Does each side notice that the other has gone? | holds, with two exceptions that the properties name |
| `saverestore` | Is everything there while the game is played? Does it come back after a crash or a hangup, and as it was? How can it be lost? | holds, with the exceptions that the properties name |
| `keyinput` | Does the game ever read the end of its input? Does it get every key, in order? | holds |
| `servercommands_drop` | Is the game told once that a client is gone? | violated |
| `gamestate_oldmap` | Is a client with the current serverId in the current map? | violated |

### 3.1 The violations

Each contradicts a sentence of the code or a comment, quoted in `PROJECT.json`.

* **`servercommands_drop`** `SV_DropClient` sets `CS_ZOMBIE` at its end. If
  exactly 64 commands are pending, its own broadcast print overflows the ring,
  which calls `SV_DropClient` again, and the game gets
  `GAME_CLIENT_DISCONNECT` twice.
* **`gamestate_oldmap`** After a change of map a client is `CS_CONNECTED` until
  its next message. A map_restart before that puts it into the world
  (`sv_ccmds.c:348`), so the new `sv_serverid` is sent to it as a command; its
  old cgame executes it, and from then on its messages look right to the server
  though it never loaded the map.

### 3.2 Exceptions and other observations

Met while modelling, and kept either as an exception in a property or here:

* *A moved queue.* `SV_ChangeMaxClients` (`sv_init.c:298-357`) copies `client_t`
  structures. With an empty queue `netchan_end_queue` points into the structure, so into
  the old copy; the next message that has to wait is hung on freed memory and is never
  sent, though `sv_net_chan.c:220-221` says "then buffer them and make sure they get sent
  in correct order". `Fifo` is about what was accepted before; `hung` counts the rest.
* *A refused file.* The message with the reason is written, then
  `SV_WriteDownloadToClient` returns 0 and `SV_SendDownloadMessages`
  (`sv_client.c:1172-1179`) sends only what is not 0. The client waits for ever; `Finishes`
  is about files that are not refused.
* *A cleared message* (`sv_snapshot.c:630-633`). The client takes -1 for the
  acknowledgement. If it has issued as many commands as its ring holds, it then takes all
  of them for acknowledged (`cl_parse.c:882`), reads past the end, and disconnects; its
  goodbye has a number that the server may find a gap before, so that the server drops it
  with "Lost reliable commands" though nothing was lost. The only exception of `NeverLost`.
* *Replay.* The new cgame starts from the last command executed
  (`cl_cgame.c:754`), so commands issued before a gamestate may be executed after
  it and bring an old configstring back, or an old serverId, after which the
  gamestate is resent though it was not lost. Hence `~clc.replayed` in both
  properties of `gamestate`.
* *Delta from an invalid frame.* The comment in `CL_ParseSnapshot` says that it is
  not supposed to happen; without `~clc.astray`, and with `PACKET_BACKUP` 6, TLC shows that
  it does, after the events of `gamestate_oldmap` followed by another resent gamestate. The
  client notices and skips the snapshot, so `SnapshotIntact` needs no exception.
* *Late blocks.* A block of the file before with the number that is expected is
  taken for one of the new file (`clc.mixed`); the file is then wrong (the
  checksum may tell) or the server drops the client for a "broken download".
* *Repeated first block.* The first block carries the file's size; the client
  reads the size only while it expects the first block (`cl_parse.c:581`). If its
  acknowledgement is late the window is sent again from block zero, and the client
  misreads the block, which usually ends its connection (`Misread`).
* *A connect that comes twice.* `SV_DirectConnect` starts a live slot anew, also
  when the connect is a second copy of the one the client joined with
  (`RETRANSMIT_TIMEOUT` is as long as the default `sv_reconnectlimit`). If the client
  has the gamestate by then its messages carry the right serverId, and the server,
  against the comment at `sv_client.c:571-573`, sends no gamestate, though the slot
  is only `CS_CONNECTED`; snapshots do not come either. First exception of
  `StuckOnlyIf`.
* *Sequence number 1* has the checksum 0 whatever the challenge, so the first
  message of an earlier connection, come late, is accepted in a new one. If it
  held a gamestate the client believes it has one: second exception.
* *Denied reconnect.* The slot has been overwritten with `CS_FREE` when the game
  refuses (`sv_client.c:527-556`); a player of the earlier connection stays in the
  game (`ghosts`). The call that told the game is commented out (line 459).
* *Disconnect while loading.* Until the client has the gamestate, the server
  returns from `SV_ExecuteClientMessage` before it reads the disconnect command, so
  such a slot is held for `sv_timeout`.
* *Cleared challenge.* `SV_DropClient` clears the first challenge of the address,
  which may be the one just given out; its client goes on sending connects that
  are refused, for as long as its user waits.
* *The full ring.* With exactly 64 commands pending the slot of the last
  acknowledged command holds a newer one, so the two sides use different keys
  (`sv_client.c:1690`): hence "BelowLimit" in two properties. The command that
  overflows the ring is numbered but not stored (`sv_main.c:155`): hence the
  exception in `StreamSpec`. With the client's ring full, the disconnect command
  is stored over the oldest one (`cl_main.c:577`); `ClientCommands` executes it
  under that number, which `AsIssued` allows for.
* *A primed client* never learns of a map_restart whose `SV_Frame` came while it
  was primed, because the change is kept for `SV_ClientEnterWorld`, which its
  messages, now ignored as outdated, do not reach (`sv_main.c:1119`).
* *A difference larger than the client's margin.* The client reads a difference into the
  ring its base is in and keeps 128 entities free for it (`cl_parse.c:255`); a snapshot may
  have 1024 (`sv_snapshot.c:238`). Sorted by number, new entities before the old ones
  overwrite those that have not been read, though `client.h:87-89` says that the ring is
  "large enough [...] so that when a delta compressed message arrives from the server it can
  be un-deltad from the original". `SnapshotIntact` excepts such snapshots, and those
  rebuilt from them, until one comes whole (`crowded`). They occur in the run: without
  `~s.crowded` TLC finds a snapshot that the cgame may get and the server never made.
* *A snapshot larger than the server's ring,* which has 256 entities for each slot if the
  server is not dedicated (`sv_init.c:277`): it overwrites itself and is sent so, which is
  the other case of `crowded`. No difference is taken from it, nor from what it overwrote
  (`HasEntities`). The run has no such snapshot, as in it the server's ring is the larger;
  TLC has checked `SnapshotIntact` with a ring of 3 and snapshots of up to 4 by hand, and
  the theorem is about every ring.

NetHack:

* *Crash in the middle of a change of level.* The level that is left is written before
  the checkpoint that says what the hero carries, so what was carried or dropped since the
  last change is lost or doubled by `recover` (`ChangingLevel`; `doc/recover.6:20-21` says
  games "can be recovered at the point of the last level change").
* *recover and a complete save.* If the game dies between closing the save file and
  removing the level files, `recover` takes the older checkpoint and writes over the
  save; it truncates the save file before it knows that it can open the level the hero is
  on (`util/recover.c:267-280`).
* *Hangup in the middle of `goto_level`* saves whatever is in core, an empty level
  included (`hup` is `left` or `arrive`).
* *Hangup at the end of a restore.* The save file is deleted (`restore.c:642`) before
  `something_worth_saving++` (`restore.c:677`). A SIGHUP between them finds nothing worth
  saving: `hangup()` skips `dosave0`, clears the level files, and the game is gone
  (`hup` is `begin`). So is a new game that has written its first checkpoint and not yet
  come to `allmain.c:538`.
* *Hangup when the save file cannot be created:* the level files are cleared all the same
  (`hup` is `refused`).
* *Hangup at `getlock()`'s question,* or while a save is being restored, runs `clearlocks`
  before the game knows which level files exist: level 0 goes, the others stay, and a
  later `recover` takes them for levels of the next game (`Leftover`).
* *Crash during a restore* leaves a save file of mode 0, which neither the game nor
  `recover` opens, and which the next game's save deletes (`Unreadable` in `LostOnlyIf`).
* In the port `recover` is not shipped (its Makefile target is removed) and the files are
  in memory; the model is of the program as its sources have it.
* Keys for which `Console.as` has no bytes (Shift alone) are sent as control characters.

### 3.3 Bounds

* `svnetchan`, `clnetchan`: fragments of 2 bytes, messages of 1 (whole), 2 (one
  full fragment and an empty one), 3 and 4 bytes, and 3 messages: enough to have
  one going out, one waiting and one coming, and fragments of two messages mixed
  at the receiver. The proofs remove all these bounds.
* `servercommands`: a ring of 4, 6 commands (it wraps and overflows), 3
  messages of the server and 2 of the client.
* `clientcommands`: a ring of 2, 5 commands (twice round and one), 4 messages each
  way and three more after a disconnect.
* `gamestate`: one change of map, one map_restart, one change of a configstring,
  5 server and 4 client messages: a gamestate can be lost, resent and loaded, and
  snapshots come before and after it. The proofs remove these bounds.
* `snapshot`: `PACKET_BACKUP` 5, so deltas of one message back and a ring that wraps
  within the 8 messages; a server ring of 8 entities that others can use up between two
  frames; a client ring of 4 with a margin of 2, and snapshots of one to three entities, so
  that one of three overruns the one of two before it. One change of map and one
  map_restart. `InFlight` is one message each way: more only delays (two have been run). 5
  is the smallest size with which there are differences; going astray matters from 6 on,
  which has been run with 9 messages (5.6 million states, too long to keep). The proofs
  remove all these bounds.
* `download`: files of 4, 1 and 1 blocks, the last refused; a window of 3; a
  client's ring of 4; block numbers modulo 4. The window wraps in its buffer and
  the block number wraps in the message. `WindowFits` holds with 3 and 4 as with
  48 and 64; with a window as large as the ring it fails.

* `saverestore`: two levels, one item made on each, three runs of the program: a game
  that ends, one that is restored or recovered, and one that has to live with what the
  second left. That gives 2.9 million states; every guard about a level is about one other
  level, and every loss or double shows with one item. The proofs remove these bounds.
* `keyinput`: a key of one byte and one of three, reads of two bytes, so that a key is
  split between reads and two keys share one; no key after five bytes. The proofs
  remove these bounds.
* `connection`: one client, which asks for a connection twice, so that packets of
  the first meet the second; two slots and two challenges, of which the search
  looks at one at least (`MAX_CHALLENGES_MULTI` 1); each challenge accepted twice at
  most; two sequence numbers each way, because only the first is special; two
  packets on their way. The client's rivals are in the refusals "full" and in
  the choice between slots. Two clients have been run with one packet on its way,
  with the same results; that run is too long to keep.

`CHECK_DEADLOCK` is off in every run but `keyinput`, because the bounds stop the system
and a client may leave it; NetHack stops after its last run. In `keyinput` the game spins
for ever, and TLC checks that neither thread waits for the other for good. `Lose`, and
messages never taken, are the losses.

### 3.4 Fairness

* `SVNetchan`: weak fairness of `SV_Netchan_TransmitNextFragment`. `Com_Frame`
  calls `SV_SendQueuedMessages` in every frame, which sends a fragment or a queued
  message for each client whose rate delay has run out; the delay is finite and
  nothing renews it while nothing is sent. No fairness of the receiver is assumed:
  `EventuallySent` is about leaving the server. Its alternative
  `Len(accepted) < n` is a drop, which frees the queue.
* `Download`: weak fairness of the server's commands, of sending and of parsing:
  each is done in every frame in which there is something to do, and the client's
  commands are repeated until acknowledged. Strong fairness of taking the block
  that is expected: the server sends it again for ever, and a network that lost
  every copy would be no network. Nothing is assumed of other messages.

* `Connection`: weak fairness of `SV_CheckTimeouts` for a slot whose client is
  neither heard (in a connection with the slot's challenge) nor asking for the
  connection again, and of `CL_CheckTimeout` for a client of which the server has
  no slot. Both are called in every frame, and nothing then renews
  `lastPacketTime` for ever; a client that does have a slot may hear packets of
  another connection, which count (`cl_main.c:2805`), so nothing is assumed of it
  until that slot is gone. Nothing is assumed of network and user.

* `KeyInput`: weak fairness of the game's own steps and of unlocking; strong fairness of
  taking the mutex, on both sides, because the other thread takes it again and again (a
  thread that spins on a mutex need not get it under weak fairness; `pthread` mutexes of the
  port let it in in the end); strong fairness of `read`, which the 5 ms timer
  of `serviceUIRequests` brings between any two key events.

The violated properties of the runs are invariants and need no fairness.

## 4. Properties

* `Fifo`, `Intact`, `SentComplete`, `EventuallySent`, `IInv`, `NetchanInv`,
  `ChannelSpec` (channel).
* `IInv` of `ServerCommands` and of `ClientCommands`: what is not acknowledged
  can be sent again (`PendingKept`), with the type invariant and all that makes it
  inductive.
* `StreamSpec` (both directions): refinement of `ReliableStream`, so each command
  is executed at its place and once.
* `CommandsBeforeSnapshot`: two buffers, two numberings, one order.
* `KeysAgreeBelowLimit`, `DecodableBelowLimit`: the keys of both sides.
* `NeverLost`: the server never drops a correct client for a gap.
* `Inv` of `Gamestate`: `ConfigstringsAgreeUnlessReplayed` with the inductive invariant
  that it rests on (`IInv`, see 5.9); `ResendOnlyIfDropped`; `IdOfCurrentMap`.
* `SnapshotIntact`, and `Inv` of `Snapshot`: `DeltaFromValid` with the inductive
  invariant that both rest on (`IInv`, see 5.8).
* `IInv` of `Download` (the two sides in step, see 5.6), `InStep`, `FileIntact`,
  `WindowFits`, `Finishes`.
* `IInv` of `Connection` (with `OneSlotEach`, see 5.5), `GameAgrees`,
  `AnswersThisAttempt`, `StuckOnlyIf`, `FindsOut`, `EventuallyFreed`.
* `IInv` of `SaveRestore` (what is in the files, see 5.7), `AllThere`, `Durable`,
  `RestoreExact`, `LostOnlyIf` (saves). `LostOnlyIf` looks at every step with which a game
  that could be brought back is given up or found lost, and lists what must then be the
  case. The list is complete, and TLC finds a counterexample with any of its lines removed.
* `KeyIInv`, `NeverEof`, `InOrder`, `AllTaken` (keyboard).

An `IInv` (`KeyIInv`) is an inductive invariant, which the run checks on its instance and a
theorem of section 5 proves.
Each property of a passing run has a mutant in `PROJECT.json`: a wrong form of
one operation, kept in the module and commented "for mutation", with which TLC
finds the property violated. No specification uses these forms.

## 5. Proofs

### 5.1 The channel

Assumptions: `FRAGMENT_SIZE` is a positive natural, `NoMessage` is no message,
the messages are sequences of bytes. Number and content of messages, fragment
size and behaviour of the network are arbitrary.

`NetchanProofs` has three parts.

* The lemmas of the channel. `FragmentShape` says what a fragment
  is; `PacketInvGrows` and `ReceiverInvGrows` that what was true of the history
  stays true when a message is appended to it; then one lemma per operation
  (`TransmitKeeps`, `NextFragmentKeeps`, `ProcessKeeps`, `InitKeeps`).
* The invariant is `IInv == NetchanInv /\ TypeOK /\ Fifo`.
  `Intact` is not inductive alone: that a reassembled message is the one sent
  needs that every datagram in the network is the part of its message that its
  header says (`PacketInv`), that the bytes collected are a prefix of the message
  they are collected for (`ReceiverInv`), and that the sender's buffer is the
  newest message (`SenderInv`), which in turn needs that nobody calls
  `Netchan_Transmit` while fragments are unsent: the guards of the queue.
* The server: `Invariance`, `TypeCorrect`, `Integrity`, `Order`, and
  `ChannelRefinement`: initial states map to initial states, sending from the
  queue or past it is `Send`, completing a message is `Receive`, the rest
  stutters. `Send` needs that what is queued is among the messages (`Queued`).
* `Completeness` (`SentComplete`): what the sender has put on the network for a message
  it is done with is enough to put it together. `CompleteInv`, inductive together with
  `IInv`, adds that of the message going out every full fragment before
  `unsentFragmentStart` is on the network; the last one is shorter than a fragment, and empty
  if the message is a whole number of fragments long.
* The client: `ClientInvariance` and `ClientChannelRefinement`, from the same lemmas.

### 5.2 The server's commands

Assumption: the ring has at least one slot. Everything else is arbitrary: the size of the
ring, the number of commands and messages, what is lost, delayed or cleared, when the ring
overflows and the client is dropped (the bounds are guards, which the proofs do not use).

First come two facts about natural numbers: numbers less than a ring apart have different
slots (`ModDiffers`), and sets of numbers have a least and a greatest element, for the
`CHOOSE` of `Stop` and `Newest`. Then `ServerCommandsProofs` follows the calls within a step:
`PutKeeps`, then `OverflowLater`, `AddLater` and `DropLater`, which say that after any of the
nested calls the record is `Good` and `Later` than before. The command that overflows is
numbered but in no slot, and its number stays in `overflowed`; hence every part of `IInv`
reads "n, or the overflown one" (`Overflown`):

* `ServerOK`, `ClientOK`: but for that one, each ring has the last `MAX_RELIABLE_COMMANDS`
  commands of its side. With the limit this gives `PendingKept`.
* `ToClientOK`: a message has all commands from one that the client knows to the last one
  issued, those within a ring of the last under their numbers, and later messages have no
  fewer. `ParseFacts` gets `ClientOK` from it again after a message.
* `ToServerOK`: acknowledgements do not go back and carry the text of the command they
  acknowledge. `AcknowledgementIn`: no live client's acknowledgement is out of range.
* `SnapsOK`, `ExecutedOK`: a waiting snapshot waits with all commands issued before it;
  what was executed is 1, 2, 3, ... `TransitionFacts` says what the cgame executes.

From the invariant follow `CommandsInvariance`, `CommandsKept`, `CommandsFirst`
(`CommandsBeforeSnapshot`), `KeysAgree` (`KeysAgreeBelowLimit`) and `CommandsRefineStream`.

### 5.3 The client's commands

Assumptions: the ring has at least one slot, the disconnect is no number. The size of the
ring and the number of commands and messages are arbitrary; the network loses, delays and
repeats as it likes (the bounds are guards, which the proofs do not use).

`ClientCommandsProofs` proves that `IInv` is inductive (`CommandsInvariance`). Besides
types it says four things, each needed for the next:

* `RingKept`: the ring has the last `MAX_RELIABLE_COMMANDS` commands, acknowledged or not.
  It rests on `ModDiffers`, as in 5.2, and on `PutKeeps`, and gives `PendingKept`.
* `ToServerOK`: each message on its way to the server has the commands from some number
  that the server has executed on, each under its number; only a disconnect may have
  taken the place of the first. So the server finds no gap (`NeverLost`), unless the
  client has read a cleared message.
* `ToClientOK`: acknowledgements on their way, in the queue too, are of executed commands,
  do not go back, are not below what the client knows, and carry the key of the command they
  acknowledge. So the client never takes a late one for an old one (`Acknowledged`).
* `ExecutedOK`: the server has executed as many commands as its last number says, each
  at its place. `ExecutableCommands` shows that what one message adds is an interval.

One lemma per action (`AddStep`, `ParseStep`, `ExecuteStep`, ...); the two ways to say
goodbye share `CloseStep`. From the invariant follow `CommandsNeverLost`,
`CommandsDecodable`, and `CommandsRefineStream`: `Spec => StreamSpec`, each step of
`ClientCommands` being an `Issue`, an `Execute` or a stutter of `ReliableStream`
(`IssueOrExecute`).

### 5.4 The keyboard

Assumptions: a key is a non-empty sequence of bytes, stdin's buffer has room for one byte.
`NetHackProofs` proves `KeyInvariance`, `NoEndOfFile` and `KeysInOrder`. What makes the
invariant inductive is `Counted`: the bytes in the buffers are those counted, those
about to be counted and the one that the game has claimed. It needs that a load of the
counter is still true at the store, which is `Locked`: who is between load and store holds
the mutex. `NeverEof` follows: a game in `read` has claimed a byte and stdin is
empty, so the byte is in the ByteArray.

### 5.5 The connection

Assumptions: `NoClient` is no client; the numbers of slots, challenges, sequence numbers and
packets on their way are naturals (`BoundAssumption`); the search for a client's challenge
looks at one entry at least and at most at all (`MultiAssumption`; 1024 of 2048 in the code).

`ConnectionProofs` proves `IInv` inductive (`Invariance`). None of the four properties is
inductive alone, because each is about two sides that hear of each other by packets only,
which may be as old as they like. What makes them so is the record of who was given what:

* `WasGiven(n, c)`: whatever names challenge n and client c, an entry (`ChallengesOK`), a
  slot (`SlotsOK`) or a packet (`PacketOK`), however late, names the client it was given to.
  Hence a slot found by address is that of the client asking, and a second slot cannot come
  about (`OneSlotEach`); hence, too, `AnswersThisAttempt`.
* `Served(n)`: a gamestate was sent to who connected with n, and the slot still knows it
  unless n was used a second time. A gamestate on its way, and one that a client runs, is of
  a challenge that was `Served`; `StuckOnlyIf` is what this says of the client's own slot.
  The two exceptions are where it does not carry over: a challenge used twice, and the
  sequence number whose checksum fits every challenge.
* `GameAgrees` needs that the slots of the `ghosts` have been wiped.

`GivenGrows` says that the record only grows; `PacketStays`, `SlotStays` and `ServedStays`
carry what was said of it over a step. `FirstSlot` says that the searches find something:
the least element of a finite set of numbers exists, by the well-founded order of its
subsets (`MinIsMember`). Then there is one lemma per action. Theorems: `Invariance`,
`GameKnows` (`GameAgrees`), `RightAttempt` (`AnswersThisAttempt`), `StuckForOneReason`
(`StuckOnlyIf`).

### 5.6 The download

Assumptions: there is a file, each with any number of blocks; the window has a slot; the
client's ring is longer than the window, as `qcommon.h:195` demands; more block numbers
than the window fit in a message. In the code 48, 64 and 65536. `InFlight` is a guard, which
the proofs do not use.

`DownloadProofs` proves that `IInv == TypeOK /\ (clc.mixed \/ Sync)` is inductive. `Sync`
says where the two sides are when the client is k blocks ahead of what the server knows:

* `WindowOK`: the window's slots hold the blocks that its numbers say, of the server's file.
* `CommandsOK(k)`: the next k commands the server will execute acknowledge the next k
  blocks, in order; after them the client is in the middle of the file (`MidFile`), or it has
  ended and the client has asked for another (`NextAsked`) or for none (`AllDone`).
* `ClientOK(k)`: the client has written the blocks it has acknowledged and expects the next.
* `MessagesOK`: a message of the client's file holds the block it was sent for, less than a
  window away from the expected one. With fewer than a modulus of numbers in that range a
  block is taken only if it is the expected one (`ExpectedBlock`): this is where the
  16 bits of the message matter. The distance is measured with what the message itself
  acknowledges, because reading it gives the ring back those slots (`RingHasRoom`).

`FileIntact` needs the data of `ClientOK`, which needs that of `MessagesOK`, which needs
`WindowOK`, and that no slot is written before its block is acknowledged needs
`CommandsOK`; so none of them can be proved alone. `AcknowledgedSync`, `FileEndedSync` and
`AfterAcksSync` are the server's three kinds of commands, `SendSync` a call of
`SV_WriteDownloadToClient`, `TakenSync`, `FileTakenSync` and `LateBlock` the three things that can
happen to a block, `ParseKeeps` the message that brought it. Theorems:
`DownloadInvariance`, `ClientInStep` (`InStep`), `FilesArriveWhole` (`FileIntact`),
`AcknowledgementsFit` (`WindowFits`).

That the window keeps within its limits does not hold after a late block has been
taken: with files of 0, 2, 0 and 2 blocks, a window of 1 and block numbers modulo 2 the
acknowledgements of file 4 can be those of late blocks of file 2, and
`downloadClientBlock` passes `downloadCurrentBlock`. So the limits are in `InStep`, with
the exception `clc.mixed`, and not in `TypeOK`.

### 5.7 NetHack's saves

Assumptions: levels are numbered by positive naturals and a new game starts on level 1
(`LevelAssumption`); each item is made on some level; `Nothing` is no file, no game and no
set of items; the runs of the program are counted by a natural. Levels, items and runs are
otherwise arbitrary.

`NetHackProofs` proves `GameOK` inductive (`KnownFiles`). A step writes one file, and what
has been written so far matters only when the program next opens it, which may be after a
crash and two more runs. So the invariant follows the game from core into the files and back:

* `ControlOK`, `LockOK`, `SaveOK`: what the program knows at each control point of level 0
  and the save file without looking again. No game is in core while none is played (`Blank`).
* `WorldOK`: a game in core is `Conserved`: an item is on one level or in the pack, and is
  anywhere only if its level was made. The other levels are in files `Usable` by this run.
* `SavingOK`: while levels are collected, the game being saved is what the save file has
  together with the level files that are still there.
* `RestoreOK`: while a save becomes level files again, every level of it is either still to
  be written or is in its file as it was.
* `LastOK`: where the game that should come back is. `Known` says that it has no level that
  the state on disk does not name: `recover` and a restore ask for the named ones only.

A program that ends, by itself or by a crash, leaves the disk as it was (`GoneKeeps`), so
the crash, hangup and panic actions share one argument; each of the others has a lemma of its
own. `RestoredWorld` says that the level files of a restore make up the saved game,
`CollectedKnown` the same of a save.

`GameOK` does not say what `recover` has in hand, nor what is left when level files are
cleared, and `LostOnlyIf` is about both. `IInv` adds `RecoverOK`, what `recover` has copied
and what it has still to copy make up the game that should come back, and `ClearOK`, what is
cleared is worth nothing any more or was given up (`KnownGame`, by `RecoverKeeps`,
`ClearKnown`). Then `LosingSteps` goes through the actions: of those that end a program,
`KilledLoses` shows that the disk has the game outside the stretches named, by `Durable`; and
`RecoveredWhole` that a recover that comes to its end has put back all of it.

Theorems: `KnownFiles` (`GameOK`), `KnownGame` (`IInv`), `NothingLostOrDoubled`
(`AllThere`), `AlwaysDurable` (`Durable`), `RestoredExactly` (`RestoreExact`),
`GameLostOnlyIf` (`LostOnlyIf`).

### 5.8 Snapshots

Assumptions: the rings of frames are longer than 3 (`BackupAssumption`; 32 in the code, and
`sv_snapshot.c:136` takes 3 off it); the sizes of the snapshots and of both rings of
entities are any naturals (`EntitiesAssumption`), whatever the ones are to the others, and
`Sizes` any sets of sizes. Messages, maps, map_restarts, what is lost and how much is on its
way are arbitrary (the bounds are guards, which the proofs do not use but to know that a
message in `Sizes` has a size).

`SnapshotProofs` proves `IInv` inductive (`Invariance`). Slots are reused and messages are
late, so nothing that is in a slot can be trusted alone; the invariant says of every number
in use, wherever it is, what stands behind it:

* `NumbersOK`: messages come in the order of their numbers, acknowledgements are of messages
  that came, and a snapshot has the number of its frame, because it is made only when
  nothing waits, unless it is larger than the server's ring.
* `FramesOK`: a number in the client's slots, in an acknowledgement on its way, in
  `deltaMessage` or in a snapshot on its way is that of a frame the server still has, or so
  old that nobody will ask for it (`Kept`). `KeptBuilt`: a new frame overwrites none of
  these. So a difference is from the frame the server says (`DeltaFacts`).
* `SlotsOK`: a valid slot of the client is of a number no more than a ring before the
  newest, and has the frame of that number unless it is crowded. It needs `FramesOK` when a difference is read (`RebuiltFacts`), and that
  `Skipped` takes exactly the slots that went out of the ring (`SkippedOld`, `SkippedAll`).
* `BasesOK`: what the server may take the difference from, and what it has taken, the client
  holds (`Holds`), unless it is astray. A gamestate empties the client's ring, so this needs
  that none comes before that difference:
* `MapsOK`, `GamestateOK`: what is sent of a map has the ids of that map; once the client has
  loaded the server's map and says so, no gamestate is on its way, and nothing on its way
  to the server asks for one. This is what a client astray breaks.

`ReceivedFacts` and `TransmitFacts` say what taking and sending a message does to what is on
its way; then there is one lemma per action, `SnapshotKeeps` and `GamestateKeeps` for the two
kinds of messages, `MoveKeeps`, `ResentKeeps` and `IgnoredKeeps` for what a move can do.
Theorems: `Invariance` (`IInv`), `DifferencesReadable` (`Inv`, and so `DeltaFromValid`: the
server takes nothing that is `PACKET_BACKUP - 3` or more messages old, so what the client
holds has not been overwritten), `SnapshotsIntact` (`SnapshotIntact`: the margin is enough
for a base that is not crowded and a difference of at most `ParseMargin` entities, however
many the others have).

### 5.9 The gamestate

Assumptions: none. The constants of `Gamestate` only bound maps, restarts, changes and
messages in guards, which the proofs do not use.

`GamestateProofs` proves `IInv` inductive (`Invariance`). That a client has the server's
configstrings can be said only of one that has caught up, and most of the time it has not:
it has configstrings of some command, and the rest is in commands issued since, and in
`csUpdated`. So the invariant is about every place where configstrings of the server's map
are, not only the client:

* `Follow`: with the commands after their own, and those kept for `SV_ClientEnterWorld`, the
  configstrings become the server's; and none of these gives a serverId from before the map.
  It is kept by a change that is broadcast (`FollowAppend`), one that is kept (`FollowKept`),
  the client's entering the world (`FollowEnter`) and the commands it executes
  (`FollowExecuted`).
* `FollowsOK`: a gamestate of the server's map that is coming follows, and so does a client
  that has the map, unless it has replayed old commands. To such a client no gamestate
  is coming, and none of its messages asks for one.
* `GamestateOK`: one gamestate is coming at most. Its number is `gamestateMessageNum`, or
  one more: one snapshot may be waiting when it is sent, and never two (`NumbersOK`),
  because none is made while anything waits (`SnapshotAllowed`).
* `CommandsOK`, `IdsOK`: later messages have more commands; nobody has an id or a map that
  is newer than the server's, and a client that is not let in is not in the map.

`ServerSteps` treats all that the server does on its map at once: what a step does to the
configstrings (`ConfigstringStep`) and to the messages (`MessageStep`). A new map
(`SpawnKeeps`), a gamestate sent again (`ResentKeeps`) and the client's actions have lemmas
of their own. Theorems: `Invariance` (`IInv`), `ConfigstringsFollow` (`Inv`, and so
`ConfigstringsAgreeUnlessReplayed`: a client in the game that has executed every command
has nothing left to follow), `ResentOnlyIfDropped` (`ResendOnlyIfDropped`).

### 5.10 What is only model-checked

Liveness (`EventuallySent`, `Finishes`, `FindsOut`, `EventuallyFreed`, `AllTaken`), which is
out of the prover's reach. Every other property of a passing run is a theorem. None of the
modules has recursive operators.

## 6. Not modelled

* Loopback and delay queues. `NET_SendLoopPacket` overwrites the oldest of 16 packets and
  `NET_QueuePacket` sends later: a loss and a delay, both of which `net` in `Netchan` has.
* Of the connection: bots, local and LAN clients, private slots, bans, a port
  that a router changes, legacy clients (whose packets have no checksum),
  heartbeats, the status, info and rcon queries, shutdown of the server.
* Rate control and `SVC_RateLimit`: they decide when something happens, and the
  models let it happen at any time.
* Within modelled components: flood protection and the text of commands
  (`ServerCommands` needs only which one is the disconnect), `sv_pure`, bots, the
  gamestate's delay during downloads (the `nextdl` exception in
  `SV_ExecuteClientMessage`), file system errors in downloads, demos, VoIP and
  cURL (not built), sequence numbers beyond 2^31. The packet header's qport and
  checksum are in `Connection` only.
* Game rules, prediction, user interface, renderer, sound, bots, VM and file
  system: content, arithmetic and input/output, without a protocol of their own.
* Of NetHack's saves: pets that follow, the endgame branch, bones, wizard and explore
  mode, a second process under the same name, failing system calls, the refusal of a save
  that belongs to another user.
* Of NetHack's keyboard: which key gives which bytes, the mouse, reads of one byte.
* Game rules of NetHack and Neverball, the consoles of the other ports, the ANSI terminal
  and telnet example, the VFS loader: sequential.
* Bochs, DosBox, OpenCV and protobuf: third-party code of some 1.4 million lines, built as
  it is. They, with renderer, sound and libraries, are why the models cover a small share of
  the repository's lines: what is modelled is what the repository has of protocols.

## 7. Plan

1. A combined model of `Gamestate` with `Download` (the `nextdl` exception), and
   liveness of the gamestate handshake: a client whose messages get through
   enters the world.
2. `SaveRestore` with two processes under one name, and with disk errors.
