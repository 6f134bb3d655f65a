---------------------------- MODULE SaveRestore ----------------------------
(***************************************************************************)
(* How NetHack keeps a game on disk (save.c, do.c, restore.c, files.c, the *)
(* Unix getlock and hangup, and the separate program util/recover.c).      *)
(*                                                                         *)
(* The current level is in core, every other level that was ever entered   *)
(* in a level file.  With the "checkpoint" option each change of level     *)
(* also writes the new level and, into level file 0, all that belongs to   *)
(* no level.  "S" collects everything in one save file and removes the     *)
(* level files; "recover" does so from the outside after a crash.          *)
(*                                                                         *)
(* A step is one system call that changes a file, with the work in core    *)
(* around it: a crash or a SIGHUP can come between any two.  (Files that a *)
(* loop unlinks go in one step.)  A file that has been created and not     *)
(* been closed is not "whole".  What a level or the hero's pack holds is a *)
(* set of items; an item is made with its level and then only carried      *)
(* about, so a game in order has each item once.  Left out are pets that   *)
(* follow the hero, the endgame, bones, wizard and discover mode, failing  *)
(* system calls, and a second game under the same name while one runs (so  *)
(* savestateinlock() always finds its own pid in level 0).  SIGHUP stays   *)
(* possible after a save that failed, although dosave0 goes on ignoring    *)
(* it.  panic() is what __AVM2__ makes of it: an exception.                *)
(***************************************************************************)
EXTENDS Naturals, FiniteSets, FiniteSetsExt

CONSTANTS
  Level,     \* ledger numbers; a new game begins on the first
  Item,      \* the things a game has
  MadeOn,    \* the level each is made with
  Nothing,   \* no file; nothing that could be brought back
  MaxRuns    \* bound: how often the program is started

ASSUME LevelAssumption == Level \subseteq Nat \ {0} /\ 1 \in Level
ASSUME ItemAssumption == MadeOn \in [Item -> Level]
ASSUME BoundAssumption == MaxRuns \in Nat

VARIABLES
  pc,        \* what the program (the game, or recover) does next
  back,      \* where savestateinlock() returns to
  hackpid,   \* the process: the number of the run
  here,      \* u.uz
  core,      \* the current level is in core ...
  floor,     \* ... with these items (fobj)
  carried,   \* invent
  exists,    \* the levels marked LFILE_EXISTS in level_info
  chkpt,     \* flags.ins_chkpt
  havestate, \* savestateinlock()'s static
  worth,     \* something_worth_saving
  hup,       \* done_hup, and where SIGHUP came: there, or "refused" when the
             \* save failed after it
  todo,      \* dorecover: the levels still in the save file
  lock,      \* level file 0
  file,      \* the other level files
  save,      \* the save file
  last,      \* history: the game as it should come back from the disk
  saving,    \* history: the game when dosave0() began
  lost       \* history: the disk no longer had it when the program ended, or
             \* something else was restored

coreVars == <<here, core, floor, carried, exists, chkpt>>
runVars == <<havestate, worth, hup, todo>>
diskVars == <<lock, file, save>>
history == <<last, saving, lost>>
vars == <<pc, back, hackpid, coreVars, runVars, diskVars, history>>

(* What gets written: the part of a game that belongs to no level. *)
State == [here : Level, carried : SUBSET Item, exists : SUBSET Level,
          chkpt : BOOLEAN]
LevelFile == [whole : BOOLEAN, pid : 1 .. MaxRuns, items : SUBSET Item]
(* Level 0 grows: created, the pid, what recover needs, everything. *)
Stage == {"empty", "pid", "header", "whole"}
LockFile == [stage : Stage, pid : 1 .. MaxRuns, state : State]
(* "levels" has Nothing for a level that is not in the save file.  A file  *)
(* that recover made from broken files can be complete and not "sound".    *)
SaveFile == [whole : BOOLEAN, sound : BOOLEAN, readable : BOOLEAN,
             part : {"empty", "level", "state"}, state : State,
             floor : SUBSET Item,
             levels : [Level -> (SUBSET Item) \cup {Nothing}]]

(* A game as a value: where everything is. *)
Game == [here : Level, carried : SUBSET Item,
         at : [Level -> (SUBSET Item) \cup {Nothing}]]

ASSUME NothingAssumption ==
  /\ Nothing \notin LevelFile \cup LockFile \cup SaveFile \cup Game
  /\ \A items \in SUBSET Item : items # Nothing

ItemsIn(l) == IF file[l] = Nothing THEN Nothing ELSE file[l].items

(* What open_levelfile() and getlev() will make of a level file. *)
Kind(l) ==
  CASE file[l] = Nothing -> "none"
    [] file[l] # Nothing /\ ~file[l].whole -> "broken"
    [] file[l] # Nothing /\ file[l].whole ->
         IF file[l].pid = hackpid THEN "good" ELSE "foreign"

(* A file of mode 0 can neither be opened nor created. *)
Unreadable == save # Nothing /\ ~save.readable
CanRestore == save # Nothing /\ save.readable /\ save.part # "empty"

(* The game that is being played. *)
World ==
  [here |-> here, carried |-> carried,
   at |-> [l \in Level |-> IF l = here /\ core THEN floor
                           ELSE IF l \in exists THEN ItemsIn(l) ELSE Nothing]]

(* The game that recover would find in the level files. *)
LockImage ==
  IF /\ lock # Nothing /\ lock.stage = "whole"
     /\ \A l \in Level : Kind(l) # "broken"
     /\ \A l \in lock.state.exists \cup {lock.state.here} : file[l] # Nothing
  THEN [here |-> lock.state.here, carried |-> lock.state.carried,
        at |-> [l \in Level |-> ItemsIn(l)]]
  ELSE Nothing

(* The game that dorecover would find in the save file. *)
SaveImage ==
  IF /\ save # Nothing /\ save.whole /\ save.sound
     /\ \A l \in save.state.exists \ {save.state.here} :
          save.levels[l] # Nothing
  THEN [here |-> save.state.here, carried |-> save.state.carried,
        at |-> [save.levels EXCEPT ![save.state.here] = save.floor]]
  ELSE Nothing

OnDisk == last \in {LockImage, SaveImage}

-----------------------------------------------------------------------------
AtInit == [here |-> 1, carried |-> {}, exists |-> {}, chkpt |-> TRUE]

Init ==
  /\ pc = "shell" /\ back = "play" /\ hackpid = 0
  /\ here = 1 /\ core = FALSE /\ floor = {} /\ carried = {} /\ exists = {}
  /\ chkpt = TRUE /\ havestate = TRUE /\ worth = FALSE /\ hup = "no"
  /\ todo = {}
  /\ lock = Nothing /\ file = [l \in Level |-> Nothing] /\ save = Nothing
  /\ last = Nothing /\ saving = Nothing /\ lost = FALSE

Step(from, to) == pc = from /\ pc' = to

(* The process is gone, and what it had in core. *)
Gone ==
  /\ UNCHANGED <<hackpid, last>>
  /\ pc' = "shell" /\ back' = "play" /\ worth' = FALSE /\ hup' = "no"
  /\ here' = 1 /\ core' = FALSE /\ floor' = {} /\ carried' = {} /\ exists' = {}
  /\ chkpt' = TRUE /\ havestate' = TRUE /\ todo' = {} /\ saving' = Nothing
  /\ lost' = (lost \/ (last # Nothing /\ ~OnDisk'))

Levels(content) == [l \in Level |-> content]
Created == [whole |-> FALSE, pid |-> hackpid, items |-> {}]
Written(items) == [whole |-> TRUE, pid |-> hackpid, items |-> items]
PidOnly(pid) == [stage |-> "pid", pid |-> pid, state |-> AtInit]
(* A level file's unlink and its flag. *)
delete_levelfile(l) ==
  /\ file' = [file EXCEPT ![l] = Nothing]
  /\ exists' = exists \ {l}

-----------------------------------------------------------------------------
(* Starting: getlock() asks before it destroys the files of another game,  *)
(* or finds them older than three days and does not ask.                   *)
GetLock ==
  /\ pc = "shell" /\ hackpid < MaxRuns
  /\ hackpid' = hackpid + 1
  /\ IF lock = Nothing THEN pc' = "start" /\ lock' = PidOnly(hackpid')
                       ELSE pc' = "ask" /\ UNCHANGED lock
  /\ UNCHANGED <<back, coreVars, runVars, file, save, history>>

Refuse ==
  /\ pc = "ask"
  /\ UNCHANGED diskVars
  /\ Gone

EraseOldLocks ==
  /\ Step("ask", "erase")
  /\ file' = Levels(Nothing)
  /\ last' = IF last = SaveImage THEN last ELSE Nothing
  /\ UNCHANGED <<back, hackpid, coreVars, runVars, lock, save, saving, lost>>

EraseOldLock ==
  /\ Step("erase", "start")
  /\ lock' = PidOnly(hackpid)
  /\ UNCHANGED <<back, hackpid, coreVars, runVars, file, save, history>>

(* newgame(), when there is no save file that can be opened, or an empty   *)
(* one.                                                                    *)
NewGame ==
  /\ Step("start", "level")
  /\ ~CanRestore
  /\ save' = IF Unreadable THEN save ELSE Nothing
  /\ core' = TRUE
  /\ floor' = {i \in Item : MadeOn[i] = 1}
  /\ last' = Nothing /\ lost' = FALSE
  /\ UNCHANGED <<back, hackpid, here, carried, exists, chkpt, runVars, lock,
                 file, saving>>

-----------------------------------------------------------------------------
(* Playing. *)
PickUp(i) ==
  /\ pc = "play" /\ i \in floor
  /\ floor' = floor \ {i} /\ carried' = carried \cup {i}
  /\ UNCHANGED <<pc, back, hackpid, here, core, exists, chkpt, runVars,
                 diskVars, history>>

Drop(i) ==
  /\ pc = "play" /\ i \in carried
  /\ carried' = carried \ {i} /\ floor' = floor \cup {i}
  /\ UNCHANGED <<pc, back, hackpid, here, core, exists, chkpt, runVars,
                 diskVars, history>>

(* The option "checkpoint" can be set in the game. *)
Toggle ==
  /\ pc = "play"
  /\ chkpt' = ~chkpt
  /\ UNCHANGED <<pc, back, hackpid, here, core, floor, carried, exists,
                 runVars, diskVars, history>>

(* done(): the level files go, the rest is score. *)
Done ==
  /\ Step("play", "clear")
  /\ last' = Nothing
  /\ UNCHANGED <<back, hackpid, coreVars, runVars, diskVars, saving, lost>>

clearlocks ==
  /\ pc = "clear"
  /\ file' = [l \in Level |-> IF l \in exists THEN Nothing ELSE file[l]]
  /\ lock' = Nothing
  /\ UNCHANGED save
  /\ Gone

-----------------------------------------------------------------------------
(* goto_level(): write the level that is left and free it, then make or    *)
(* read the other, then save_currentstate().                               *)
RewriteLeft ==
  /\ Step("play", "leave")
  /\ file' = [file EXCEPT ![here] = Created]
  /\ exists' = exists \cup {here}
  /\ UNCHANGED <<back, hackpid, here, core, floor, carried, chkpt, runVars,
                 lock, save, history>>

SaveLeft ==
  /\ Step("leave", "left")
  /\ file' = [file EXCEPT ![here] = Written(floor)]
  /\ floor' = {} /\ core' = FALSE
  /\ UNCHANGED <<back, hackpid, here, carried, exists, chkpt, runVars, lock,
                 save, history>>

AssignLevel(new) ==
  /\ Step("left", "arrive")
  /\ new # here
  /\ here' = new
  /\ UNCHANGED <<back, hackpid, core, floor, carried, exists, chkpt, runVars,
                 diskVars, history>>

(* Mutant: the level just attained is not written, only the state. *)
OnlyState == "state"

(* save_currentstate() writes the level only under checkpoint. *)
AfterArrival == IF chkpt THEN "level" ELSE "state"

MakeLevel ==
  /\ Step("arrive", AfterArrival)
  /\ here \notin exists
  /\ floor' = {i \in Item : MadeOn[i] = here} /\ core' = TRUE
  /\ UNCHANGED <<back, hackpid, here, carried, exists, chkpt, runVars,
                 diskVars, history>>

GetLevel ==
  /\ Step("arrive", AfterArrival)
  /\ here \in exists
  /\ Kind(here) = "good"
  /\ floor' = file[here].items /\ core' = TRUE
  /\ UNCHANGED <<back, hackpid, here, carried, exists, chkpt, runVars,
                 diskVars, history>>

(* done(TRICKED): the file is not there, or is another process's. *)
Tricked ==
  /\ Step("arrive", "clear")
  /\ here \in exists
  /\ Kind(here) \in {"none", "foreign"}
  /\ UNCHANGED <<back, hackpid, coreVars, runVars, diskVars, history>>

(* mread() panics. *)
BrokenLevel ==
  /\ pc = "arrive" /\ here \in exists
  /\ Kind(here) = "broken"
  /\ UNCHANGED diskVars
  /\ Gone

(* save_currentstate() *)
RewriteHere ==
  /\ Step("level", "write")
  /\ file' = [file EXCEPT ![here] = Created]
  /\ exists' = exists \cup {here}
  /\ UNCHANGED <<back, hackpid, here, core, floor, carried, chkpt, runVars,
                 lock, save, history>>

SaveHere ==
  /\ Step("write", "state")
  /\ file' = [file EXCEPT ![here] = Written(floor)]
  /\ UNCHANGED <<back, hackpid, coreVars, runVars, lock, save, history>>

(* savestateinlock(): level 0 is written from nothing, the pid first, then *)
(* what recover needs to know, then the rest.  Without checkpoint it is    *)
(* written once more, to forget what an earlier checkpoint put there.      *)
State0 == [here |-> here, carried |-> carried, exists |-> exists,
           chkpt |-> chkpt]
AfterState == pc' = IF back = "play" /\ ~worth THEN "begin" ELSE back

LeaveLock ==
  /\ pc = "state"
  /\ ~chkpt /\ ~havestate
  /\ AfterState
  /\ UNCHANGED <<back, hackpid, coreVars, runVars, diskVars, history>>

CreateLock ==
  /\ Step("state", "pid")
  /\ chkpt \/ havestate
  /\ lock' = [PidOnly(hackpid) EXCEPT !.stage = "empty"]
  /\ UNCHANGED <<back, hackpid, coreVars, runVars, file, save, history>>

WritePid ==
  /\ pc = "pid" /\ chkpt
  /\ pc' = "header"
  /\ lock' = PidOnly(hackpid)
  /\ UNCHANGED <<back, hackpid, coreVars, runVars, file, save, history>>

WritePidOnly ==
  /\ pc = "pid" /\ ~chkpt
  /\ AfterState
  /\ lock' = PidOnly(hackpid)
  /\ havestate' = FALSE
  /\ last' = IF back = "play" THEN Nothing ELSE last
  /\ UNCHANGED <<back, hackpid, coreVars, worth, hup, todo, file, save, saving,
                 lost>>

WriteHeader ==
  /\ Step("header", "content")
  /\ lock' = [stage |-> "header", pid |-> hackpid, state |-> State0]
  /\ UNCHANGED <<back, hackpid, coreVars, runVars, file, save, history>>

WriteState ==
  /\ pc = "content"
  /\ AfterState
  /\ lock' = [lock EXCEPT !.stage = "whole"]
  /\ havestate' = TRUE
  /\ last' = IF back = "play" THEN World ELSE last
  /\ UNCHANGED <<back, hackpid, coreVars, worth, hup, todo, file, save, saving,
                 lost>>

(* Mutant: what begins a game does not say that it is worth saving. *)
UsefulDataForgotten ==
  /\ Step("begin", "play")
  /\ UNCHANGED <<back, hackpid, coreVars, runVars, diskVars, history>>

(* A game that was made or restored is worth saving only now: until then   *)
(* hangup() clears the level files and saves nothing.                      *)
UsefulData ==
  /\ Step("begin", "play")
  /\ worth' = TRUE
  /\ UNCHANGED <<back, hackpid, coreVars, havestate, hup, todo, diskVars,
                 history>>

-----------------------------------------------------------------------------
(* dosave0(), by the command or in the SIGHUP handler.  A readable save    *)
(* file cannot be there: it would have been restored at the start.         *)
dosave ==
  /\ Step("play", "save")
  /\ UNCHANGED <<back, hackpid, coreVars, runVars, diskVars, history>>

Interruptible == {"ask", "erase", "start", "restore", "restCreate",
                  "restWrite", "begin", "play", "leave", "left", "arrive", "level",
                  "write", "state", "pid", "header", "content"}

hangup ==
  /\ pc \in Interruptible
  /\ pc' = IF worth THEN "save" ELSE "clear"
  /\ hup' = pc
  /\ UNCHANGED <<back, hackpid, coreVars, havestate, worth, todo, diskVars,
                 history>>

(* creat() fails on a file of mode 0, and the file is deleted. *)
SaveRefused ==
  /\ pc = "save"
  /\ Unreadable
  /\ save' = Nothing
  /\ IF hup = "no" THEN pc' = "play" /\ UNCHANGED hup
                    ELSE pc' = "clear" /\ hup' = "refused"
  /\ UNCHANGED <<back, hackpid, coreVars, havestate, worth, todo, lock, file,
                 history>>

EmptySave ==
  [whole |-> FALSE, sound |-> TRUE, readable |-> TRUE, part |-> "empty",
   state |-> AtInit, floor |-> {}, levels |-> Levels(Nothing)]

SaveCreate ==
  /\ Step("save", "saveCurrent")
  /\ ~Unreadable
  /\ save' = EmptySave
  /\ UNCHANGED <<back, hackpid, coreVars, runVars, lock, file, history>>

(* savelev() and savegamestate(), which also free what they write. *)
SaveCurrent ==
  /\ Step("saveCurrent", "saveLevels")
  /\ save' = [save EXCEPT !.part = "state", !.state = State0, !.floor = floor]
  /\ saving' = World
  /\ core' = FALSE /\ floor' = {} /\ carried' = {}
  /\ UNCHANGED <<back, hackpid, here, exists, chkpt, runVars, lock, file,
                 last, lost>>

NextToSave == Min(exists \ {here})

SaveLevel ==
  /\ pc = "saveLevels" /\ exists \ {here} # {}
  /\ LET l == NextToSave
     IN  /\ Kind(l) = "good"
         /\ save' = [save EXCEPT !.levels[l] = file[l].items]
         /\ delete_levelfile(l)
  /\ UNCHANGED <<pc, back, hackpid, here, core, floor, carried, chkpt,
                 runVars, lock, history>>

SaveLevelGone ==
  /\ Step("saveLevels", "clear")
  /\ exists \ {here} # {} /\ Kind(NextToSave) = "none"
  /\ save' = Nothing
  /\ UNCHANGED <<back, hackpid, coreVars, runVars, lock, file, history>>

(* trickery() leaves the save file as it is. *)
SaveLevelTricked ==
  /\ Step("saveLevels", "clear")
  /\ exists \ {here} # {} /\ Kind(NextToSave) = "foreign"
  /\ UNCHANGED <<back, hackpid, coreVars, runVars, diskVars, history>>

SaveLevelBroken ==
  /\ pc = "saveLevels" /\ exists \ {here} # {}
  /\ Kind(NextToSave) = "broken"
  /\ UNCHANGED diskVars
  /\ Gone

SaveClose ==
  /\ Step("saveLevels", "saveDone")
  /\ exists \ {here} = {}
  /\ save' = [save EXCEPT !.whole = TRUE]
  /\ last' = saving
  /\ UNCHANGED <<back, hackpid, coreVars, runVars, lock, file, saving, lost>>

SaveDropHere ==
  /\ Step("saveDone", "saveEnd")
  /\ IF here \in exists THEN delete_levelfile(here)
                       ELSE UNCHANGED <<file, exists>>
  /\ UNCHANGED <<back, hackpid, here, core, floor, carried, chkpt, runVars,
                 lock, save, history>>

SaveDropLock ==
  /\ pc = "saveEnd"
  /\ lock' = Nothing
  /\ UNCHANGED <<file, save>>
  /\ Gone

-----------------------------------------------------------------------------
(* dorecover(): the save file is made unreadable while it is restored, and *)
(* deleted at the end.                                                     *)
StartRestore ==
  /\ Step("start", "restore")
  /\ CanRestore
  /\ save' = [save EXCEPT !.readable = FALSE]
  /\ UNCHANGED <<back, hackpid, coreVars, runVars, lock, file, history>>

Broken == ~save.whole \/ ~save.sound

(* mread() finds too little: the save file is deleted. *)
RestoreFails ==
  /\ pc \in {"restore", "restCreate"} /\ Broken
  /\ save' = Nothing
  /\ UNCHANGED <<lock, file>>
  /\ Gone

(* Mutant: the loop over the levels ends one too early. *)
RestoreStateShort ==
  /\ Step("restore", "state")
  /\ save.part = "state"
  /\ here' = save.state.here /\ carried' = save.state.carried
  /\ exists' = save.state.exists /\ chkpt' = save.state.chkpt
  /\ todo' = {here'} \cup
             {l \in Level : l < Max(Level) /\ save.levels[l] # Nothing}
  /\ back' = "restCreate"
  /\ UNCHANGED <<hackpid, core, floor, havestate, worth, hup, diskVars,
                 history>>

(* The current level and the state.  A broken file may have been cut       *)
(* between two levels, which cannot be told from its end.                  *)
RestoreState ==
  /\ Step("restore", "state")
  /\ save.part = "state"
  /\ here' = save.state.here /\ carried' = save.state.carried
  /\ exists' = save.state.exists /\ chkpt' = save.state.chkpt
  /\ \E upTo \in Level \cup {0} :
       /\ ~Broken => \A l \in Level : l <= upTo
       /\ todo' = {here'} \cup
                  {l \in Level : l <= upTo /\ save.levels[l] # Nothing}
  /\ back' = "restCreate"
  /\ UNCHANGED <<hackpid, core, floor, havestate, worth, hup, diskVars,
                 history>>

(* Mutant: ledger numbers counted from 1 are stored as counted from 0. *)
NextToRestoreOff == (IF here \in todo THEN here ELSE Min(todo)) - 1

NextToRestore == IF here \in todo THEN here ELSE Min(todo)

(* restlevelfile(), once for each level. *)
RestoreCreate ==
  /\ Step("restCreate", "restWrite")
  /\ todo # {}
  /\ file' = [file EXCEPT ![NextToRestore] = Created]
  /\ exists' = exists \cup {NextToRestore}
  /\ UNCHANGED <<back, hackpid, here, core, floor, carried, chkpt, runVars,
                 lock, save, history>>

(* Mutant: the level is copied with the pid of the run that saved it. *)
RestoreCopied ==
  /\ Step("restWrite", "restCreate")
  /\ LET l == NextToRestore
     IN  /\ file' = [file EXCEPT ![l] =
                       [whole |-> TRUE, pid |-> hackpid - 1,
                        items |-> IF l = here THEN save.floor
                                  ELSE save.levels[l]]]
         /\ todo' = todo \ {l}
  /\ UNCHANGED <<back, hackpid, coreVars, havestate, worth, hup, lock, save,
                 history>>

RestoreWrite ==
  /\ Step("restWrite", "restCreate")
  /\ LET l == NextToRestore
     IN  /\ file' = [file EXCEPT ![l] = Written(IF l = here THEN save.floor
                                                ELSE save.levels[l])]
         /\ todo' = todo \ {l}
  /\ UNCHANGED <<back, hackpid, coreVars, havestate, worth, hup, lock, save,
                 history>>

RestoreDone ==
  /\ Step("restCreate", "begin")
  /\ todo = {}
  /\ floor' = save.floor /\ core' = TRUE
  /\ save' = Nothing
  /\ back' = "play"
  /\ last' = IF chkpt THEN last ELSE Nothing
  /\ lost' = (lost \/ last = Nothing \/ SaveImage # last)
  /\ UNCHANGED <<hackpid, here, carried, exists, chkpt, runVars, lock, file,
                 saving>>

-----------------------------------------------------------------------------
(* util/recover.c.  It creates the save file before it looks for the       *)
(* current level, and unlinks each file once it has copied it.             *)
RecoverOpen ==
  /\ Step("shell", "recLevel")
  /\ lock # Nothing /\ lock.stage \in {"header", "whole"}
  /\ ~Unreadable
  /\ save' = EmptySave
  /\ lost' = (lost \/ (last # Nothing /\ LockImage # last))
  /\ UNCHANGED <<back, hackpid, coreVars, runVars, lock, file, last, saving>>

RecoverNoLevel ==
  /\ pc = "recLevel" /\ file[lock.state.here] = Nothing
  /\ UNCHANGED diskVars
  /\ Gone

RecoverCurrent ==
  /\ Step("recLevel", "recState")
  /\ LET f == file[lock.state.here]
     IN  /\ f # Nothing
         /\ save' = [save EXCEPT !.part = "level", !.floor = f.items,
                                 !.sound = f.whole]
  /\ file' = [file EXCEPT ![lock.state.here] = Nothing]
  /\ UNCHANGED <<back, hackpid, coreVars, runVars, lock, history>>

RecoverState ==
  /\ Step("recState", "recLevels")
  /\ save' = IF lock.stage = "whole"
             THEN [save EXCEPT !.part = "state", !.state = lock.state]
             ELSE [save EXCEPT !.sound = FALSE]
  /\ lock' = Nothing
  /\ UNCHANGED <<back, hackpid, coreVars, runVars, file, history>>

Left == {l \in Level : file[l] # Nothing}

RecoverLevel ==
  /\ pc = "recLevels" /\ Left # {}
  /\ LET l == Min(Left)
     IN  /\ save' = [save EXCEPT !.levels[l] = file[l].items,
                                 !.sound = @ /\ file[l].whole]
         /\ file' = [file EXCEPT ![l] = Nothing]
  /\ UNCHANGED <<pc, back, hackpid, coreVars, runVars, lock, history>>

RecoverClose ==
  /\ pc = "recLevels" /\ Left = {}
  /\ save' = [save EXCEPT !.whole = TRUE]
  /\ UNCHANGED <<lock, file>>
  /\ Gone

-----------------------------------------------------------------------------
Crash ==
  /\ pc # "shell"
  /\ UNCHANGED diskVars
  /\ Gone

(* What the player decides, and what the program does once it has begun.   *)
Player ==
  \/ GetLock \/ Refuse \/ EraseOldLocks \/ RecoverOpen
  \/ \E i \in Item : PickUp(i) \/ Drop(i)
  \/ Toggle \/ Done \/ RewriteLeft \/ dosave

Program ==
  \/ EraseOldLock \/ NewGame \/ clearlocks
  \/ SaveLeft \/ (\E new \in Level : AssignLevel(new)) \/ MakeLevel \/ GetLevel
  \/ Tricked \/ BrokenLevel \/ RewriteHere \/ SaveHere
  \/ LeaveLock \/ CreateLock \/ WritePid \/ WritePidOnly \/ WriteHeader
  \/ WriteState \/ UsefulData
  \/ SaveRefused \/ SaveCreate \/ SaveCurrent \/ SaveLevel \/ SaveLevelGone
  \/ SaveLevelTricked \/ SaveLevelBroken \/ SaveClose \/ SaveDropHere
  \/ SaveDropLock
  \/ StartRestore \/ RestoreFails \/ RestoreState \/ RestoreCreate
  \/ RestoreWrite \/ RestoreDone
  \/ RecoverNoLevel \/ RecoverCurrent \/ RecoverState \/ RecoverLevel
  \/ RecoverClose

Next == Player \/ Program \/ hangup \/ Crash

Spec == Init /\ [][Next]_vars

-----------------------------------------------------------------------------
TypeOK ==
  /\ pc \in Interruptible \cup
       {"shell", "clear", "save", "saveCurrent", "saveLevels", "saveDone",
        "saveEnd", "recLevel", "recState", "recLevels"}
  /\ back \in {"play", "restCreate"} /\ hackpid \in 0 .. MaxRuns
  /\ here \in Level /\ exists \subseteq Level /\ todo \subseteq Level
  /\ floor \subseteq Item /\ carried \subseteq Item
  /\ {core, chkpt, havestate, worth, lost} \subseteq BOOLEAN
  /\ hup \in Interruptible \cup {"no", "refused"}
  /\ lock \in LockFile \cup {Nothing}
  /\ file \in [Level -> LevelFile \cup {Nothing}]
  /\ save \in SaveFile \cup {Nothing}
  /\ last \in Game \cup {Nothing} /\ saving \in Game \cup {Nothing}

(* Where an item is: on levels, or, as 0, in the pack. *)
Places(i) ==
  {l \in Level : l \in exists \cup {here} /\ i \in World.at[l]}
    \cup (IF i \in carried THEN {0} ELSE {})

(* Nothing is lost or doubled in a game that is being played: each item of *)
(* a level that was ever made is in one place, and every level that the    *)
(* hero can go back to is in a file that goto_level() will accept.         *)
AllThere ==
  pc \in {"begin", "play"} /\ ~lost =>
    /\ \A i \in Item :
         Cardinality(Places(i)) =
           IF MadeOn[i] \in exists \cup {here} THEN 1 ELSE 0
    /\ \A l \in exists \ {here} : Kind(l) = "good"

(* The stretches in which the disk is behind: a change of level (what was  *)
(* carried or dropped since has half been written), also when the program  *)
(* is saving because SIGHUP came in it; the collecting of the other levels *)
(* into the save file, by dosave0 or recover; and level files of an        *)
(* earlier game that lie about, which recover takes for levels of this one *)
(* (a SIGHUP at getlock()'s question, or a recover cut short, removes      *)
(* level 0 and leaves the others).                                         *)
Midway(point) ==
  /\ back = "play"
  /\ point \in {"leave", "left", "arrive", "level", "write", "state", "pid",
                "header", "content"}

ChangingLevel == Midway(pc)
Torn == Midway(hup)

Collecting ==
  \/ pc = "saveLevels" /\ ~exists = lock.state.exists
  \/ pc \in {"recState", "recLevels"}

Leftover ==
  /\ worth \/ pc = "begin"
  /\ \E l \in Level \ exists : file[l] # Nothing

(* Whenever a crash comes, the game can be brought back from the disk as   *)
(* it was at the last checkpoint or save, except in those stretches and    *)
(* while the level files are cleared.                                      *)
Durable ==
  /\ last # Nothing /\ ~lost
  /\ ~(ChangingLevel \/ Torn \/ Collecting \/ Leftover) /\ pc # "clear"
  => OnDisk

(* A restored game is the game that was to come back. *)
RestoreExact ==
  [][back = "restCreate" /\ pc' = "begin" /\ last # Nothing /\ ~lost
       => World' = last]_vars

(* The whole list of how a game that could be brought back comes to be     *)
(* lost, whether it is given up or a program ends and the disk no longer   *)
(* has it.  A save, a restore and recover that run to their end lose no    *)
(* game that they found in order.  A SIGHUP loses none, unless it comes at *)
(* getlock()'s question (the old game's level 0 is removed unasked), after *)
(* the save file was deleted and before something_worth_saving++ (the      *)
(* level files that were just restored are removed), in a change of level  *)
(* while no level is in core (the current level is saved empty), or the    *)
(* save file cannot be created.                                            *)
LosesGame == last # Nothing /\ ~lost /\ (last' = Nothing \/ lost')

LostOnlyIf ==
  [][LosesGame =>
       \/ pc = "ask" /\ pc' = "erase"            \* the player's answer
       \/ pc = "play" /\ pc' = "clear"           \* the hero's death
       \/ ~chkpt /\ pc' \in {"play", "begin"}    \* no checkpoints from now on
       \/ pc = "start" /\ Unreadable             \* new game, restore cut short
       \/ pc = "shell" /\ SaveImage = last       \* recover over a whole save
       \/ UNCHANGED diskVars                     \* killed midway
            /\ (ChangingLevel \/ Torn \/ Collecting \/ Leftover)
       \/ hup \in {"ask", "begin", "left", "arrive", "refused"}]_vars
-----------------------------------------------------------------------------
(* What the invariants rest on.  The program's control points: no game is  *)
(* in core; a game is played, but for the writing of its state; level 0 is *)
(* written, for a checkpoint or in the middle of a restore; a game is      *)
(* saved.                                                                  *)
Recovering == {"recLevel", "recState", "recLevels"}
Idle == {"shell", "ask", "erase", "start", "restore"} \cup Recovering
Changing == {"begin", "play", "leave", "left", "arrive", "level", "write"}
WritingLock == {"state", "pid", "header", "content"}
Saving == {"save", "saveCurrent", "saveLevels", "saveDone", "saveEnd"}

(* SIGHUP came when the level in core had been freed and no other was read. *)
LevelFreed == hup \in {"left", "arrive"}

InGame == pc \in Changing \/ (pc \in WritingLock /\ back = "play")
Restoring ==
  pc \in {"restCreate", "restWrite"} \/ (pc \in WritingLock /\ back = "restCreate")

Blank ==
  /\ here = 1 /\ ~core /\ floor = {} /\ carried = {} /\ exists = {}
  /\ chkpt /\ havestate /\ ~worth /\ back = "play"

ControlOK ==
  /\ pc \in Idle => Blank
  /\ pc \notin {"shell"} \cup Recovering => hackpid # 0
  /\ worth => back = "play"
  /\ pc \in {"restCreate", "restWrite"} => back = "restCreate"
  /\ pc \notin {"restCreate", "restWrite", "clear"} \cup WritingLock => back = "play"
  /\ pc \in {"play", "leave", "left", "arrive"} \cup Saving => worth
  /\ hup # "no" => pc \in Saving \cup {"clear"}
  /\ pc \in {"header", "content"} => chkpt

(* What the program finds in the files that it has opened or closed.       *)
LockOK ==
  /\ pc = "erase" => \A l \in Level : file[l] = Nothing
  /\ pc \in {"start", "restore"} => lock = PidOnly(hackpid)
  /\ pc = "content" =>
       lock = [stage |-> "header", pid |-> hackpid, state |-> State0]
  /\ pc \in {"recLevel", "recState"} => lock # Nothing
  /\ pc = "recLevels" => lock = Nothing

SaveOK ==
  /\ save # Nothing /\ save.whole => save.part # "empty"
  /\ save # Nothing /\ save.part = "level" => ~save.whole \/ ~save.sound
  /\ InGame \/ pc = "save" => save = Nothing \/ ~save.readable
  /\ Restoring \/ pc = "restore" => save # Nothing /\ ~save.readable
  /\ pc \in {"saveCurrent", "recLevel"} => save = EmptySave
  /\ pc = "saveLevels" => save # Nothing /\ ~save.whole /\ save.sound /\ save.part = "state"
  /\ pc = "recState" => save # Nothing /\ ~save.whole /\ save.part = "level"
  /\ pc = "recLevels" =>
       /\ save # Nothing /\ ~save.whole
       /\ save.part = "state" \/ (save.part = "level" /\ ~save.sound)
  /\ Restoring =>
       /\ save.part = "state" /\ here = save.state.here
       /\ \A l \in todo : l = here \/ save.levels[l] # Nothing
       /\ pc = "restWrite" => todo # {} /\ NextToRestore \in exists

(* A level file that a process may go back to. *)
Usable(f, pid) == f # Nothing /\ f.whole /\ f.pid = pid

(* Nothing is lost or doubled in a game.                                   *)
HeldOn(game, l, i) == game.at[l] # Nothing /\ i \in game.at[l]

Conserved(game) ==
  \A i \in Item :
    /\ game.at[MadeOn[i]] # Nothing =>
         i \in game.carried \/ \E l \in Level : HeldOn(game, l, i)
    /\ i \in game.carried \/ (\E l \in Level : HeldOn(game, l, i)) =>
         game.at[MadeOn[i]] # Nothing
    /\ i \in game.carried => \A l \in Level : ~HeldOn(game, l, i)
    /\ \A l, k \in Level : HeldOn(game, l, i) /\ HeldOn(game, k, i) => l = k

WorldOK ==
  /\ InGame => (core <=> pc \notin {"left", "arrive"})
  /\ pc \in {"save", "saveCurrent"} /\ ~LevelFreed => core
  /\ pc \in {"leave", "left", "write"} => here \in exists
  /\ InGame /\ pc \in WritingLock /\ chkpt =>
       here \in exists /\ file[here] = Written(floor)
  /\ (InGame \/ pc \in {"save", "saveCurrent"}) /\ ~lost =>
       /\ Conserved(World)
       /\ \A l \in exists \ {here} : Usable(file[l], hackpid)
  /\ pc \in {"left", "arrive"} /\ ~lost => \A l \in exists : Usable(file[l], hackpid)

(* There is a game that should come back and can.                          *)
Kept == last # Nothing /\ ~lost

(* The game has no other levels than the state that was written says.      *)
Known(game, state) ==
  \A l \in Level : game.at[l] # Nothing => l \in state.exists \cup {state.here}

(* The save file is being turned into level files again.                   *)
RestoreOK ==
  Restoring /\ Kept =>
    /\ SaveImage = last /\ Known(last, save.state)
    /\ carried = save.state.carried
    /\ save.state.exists \subseteq exists
    /\ exists \subseteq save.state.exists \cup {here}
    /\ pc \in WritingLock => exists = save.state.exists
    /\ \A l \in save.state.exists \cup {here} :
         l \in todo \/ (l \in exists /\ file[l] = Written(last.at[l]))
    /\ pc \in {"restCreate", "restWrite"} /\ chkpt =>
         /\ havestate /\ lock # Nothing /\ lock.stage = "whole"
         /\ lock.state.here = here /\ lock.state.carried = carried
         /\ lock.state.exists = save.state.exists

(* The levels are being collected in the save file.                        *)
SavingOK ==
  pc \in {"saveLevels", "saveDone", "saveEnd"} =>
    /\ saving \in Game /\ saving.here = here /\ save.state.here = here
    /\ ~lost => Conserved(saving)
    /\ pc = "saveLevels" /\ ~lost =>
         \A l \in exists \ {here} : Usable(file[l], hackpid)
    /\ Known(saving, save.state)
    /\ \A l \in Level \ {here} :
         saving.at[l] # Nothing => l \in exists \/ file[l] = Nothing
    /\ pc # "saveLevels" => last = saving /\ exists \subseteq {here}
    /\ ~LevelFreed /\ pc # "saveLevels" => SaveImage = saving
    /\ ~LevelFreed /\ pc = "saveLevels" =>
         /\ save.state.carried = saving.carried /\ save.floor = saving.at[here]
         /\ \A l \in Level \ {here} :
              saving.at[l] = IF l \in exists THEN ItemsIn(l) ELSE save.levels[l]
         /\ \A l \in save.state.exists \ {here} :
              l \in exists \/ save.levels[l] # Nothing

(* Where the game that should come back is.                                *)
LastOK ==
  Kept =>
    /\ Conserved(last)
    /\ LockImage = last => Known(last, lock.state)
    /\ SaveImage = last /\ save.readable => Known(last, save.state)
    /\ /\ InGame \/ Restoring \/ pc \in {"save", "saveCurrent", "saveLevels", "recState"}
       /\ lock # Nothing /\ lock.stage = "whole"
       => Known(last, lock.state)
    /\ pc = "restore" \/ (pc = "recLevels" /\ save.part = "state") =>
         Known(last, save.state)
    /\ pc \in {"shell", "ask"} => OnDisk
    /\ pc \in {"erase", "start", "restore"} => SaveImage = last
    /\ pc = "recLevel" => LockImage = last
    /\ InGame \/ pc = "save" => havestate
    /\ pc \in {"begin", "play", "save", "saveCurrent"} /\ ~Torn =>
         /\ LockImage = last \/ Leftover
         /\ lock # Nothing /\ exists \ {here} \subseteq lock.state.exists
    /\ pc = "saveLevels" /\ ~Torn =>
         /\ lock # Nothing /\ exists \ {here} \subseteq lock.state.exists
         /\ exists = lock.state.exists => LockImage = last \/ Leftover

(* recover has the game partly in the save file, partly in level files.    *)
RecoverOK ==
  Kept /\ pc \in {"recState", "recLevels"} =>
    LET state == IF pc = "recState" THEN lock.state ELSE save.state
    IN  /\ save.sound
        /\ pc = "recState" => lock.stage = "whole" /\ save.levels = Levels(Nothing)
        /\ pc = "recLevels" => save.part = "state"
        /\ last.here = state.here /\ last.carried = state.carried
        /\ last.at[state.here] = save.floor /\ file[state.here] = Nothing
        /\ \A l \in Level \ {state.here} :
             /\ last.at[l] = IF file[l] # Nothing THEN ItemsIn(l) ELSE save.levels[l]
             /\ file[l] # Nothing => file[l].whole
             /\ l \in state.exists => last.at[l] # Nothing

(* A game that is not worth saving yet is not on disk either, or in the    *)
(* save file; the level files are cleared when it is there, or where       *)
(* SIGHUP came made it so.                                                 *)
ClearOK ==
  Kept =>
    /\ InGame /\ pc # "begin" => worth
    /\ pc = "clear" =>
         SaveImage = last \/ hup \in {"ask", "begin", "left", "arrive", "refused"}

(* The program knows what is in the files it works on, nothing of a game   *)
(* is lost or doubled, and the game that should come back is where the     *)
(* next step of the program leaves it.                                     *)
GameOK ==
  /\ TypeOK /\ ControlOK /\ LockOK /\ SaveOK /\ WorldOK /\ RestoreOK
  /\ SavingOK /\ LastOK

(* The inductive invariant. *)
IInv == GameOK /\ RecoverOK /\ ClearOK
=============================================================================
