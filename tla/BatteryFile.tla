----------------------------- MODULE BatteryFile -----------------------------
(***************************************************************************)
(* A game's battery save: the machine's bytes and whether they changed     *)
(* (CoreEngine::save_sram), the file kept in its place or still in its     *)
(* earlier one (battery.rs), and the whole-file write beneath both         *)
(* (galaxia's atomic.rs), each call on the file system a step.             *)
(*                                                                         *)
(* One program plays the game; others read the file at any moment.  A      *)
(* write may fail at any of its calls and the program may be killed at     *)
(* any.  A file is its chunks in order, a save two chunks or one, so that  *)
(* a short one written over a long one would show.  A reader reads a file  *)
(* it has open to its end, whatever the name has come to mean.             *)
(***************************************************************************)
EXTENDS Integers, Sequences

CONSTANTS
    Readers,   \* the programs that read the file
    MaxSaves,  \* what the machine's battery holds, in the order it comes to
    MaxFiles,  \* files made in a run
    Moved      \* whether the save may lie in its earlier place

VARIABLES
    live, temp,      \* the files <path> and <path>.tmp name, 0 for none
    data,            \* what each file made holds
    earlier,         \* the save in the earlier place, 0 for none
    battery,         \* the machine's: a save, 0 for one never written
    saves,           \* saves made so far
    unsaved,         \* BATTERY_CHANGED: the machine's is not the one last saved
    pc,              \* down, opening, settling, playing; writing, naming
    writes,          \* the save being written, and its chunks to come
    reader           \* each reader: its file, how far, what it has read

battery_vars == <<live, temp, data, earlier, battery, saves, unsaved, pc, writes, reader>>

\* Save 1, the earlier place's when there is one, is long; the next is short.
Contents(s) == IF s = 0 THEN <<>> ELSE IF s % 2 = 1 THEN <<s, s>> ELSE <<s>>
Idle == [save |-> 0, left |-> <<>>, at |-> 0, then |-> "playing"]
Resting == [file |-> 0, at |-> 0, got |-> <<>>]

BatteryInit ==
    /\ live = 0 /\ temp = 0 /\ data = <<>>
    /\ earlier \in IF Moved THEN {0, 1} ELSE {0}
    /\ saves = earlier
    /\ battery = 0 /\ unsaved = FALSE
    /\ pc = "down" /\ writes = Idle
    /\ reader = [r \in Readers |-> Resting]

-----------------------------------------------------------------------------
(* The whole-file write: a temporary file made or emptied, its chunks, the *)
(* name moved.                                                             *)

\* The save a read of the two places finds, by its first chunk.
OnDisk == IF live # 0 THEN data[live][1] ELSE earlier

\* What the call has to write, and what it goes back to.
Begin(s, then) ==
    writes' = [save |-> s, left |-> Contents(s), at |-> 0, then |-> then]

\* A temporary file opened as it was left.
CreateOver ==
    /\ pc = "naming" /\ writes.at = 0 /\ writes.left # <<>>
    /\ IF temp # 0
       THEN UNCHANGED <<temp, data>>
       ELSE /\ Len(data) < MaxFiles
            /\ data' = Append(data, <<>>) /\ temp' = Len(data) + 1
    /\ pc' = "writing"
    /\ UNCHANGED <<live, earlier, battery, saves, unsaved, writes, reader>>

Create ==
    /\ pc = "naming" /\ writes.at = 0 /\ writes.left # <<>>
    /\ IF temp # 0
       THEN data' = [data EXCEPT ![temp] = <<>>] /\ UNCHANGED temp
       ELSE /\ Len(data) < MaxFiles
            /\ data' = Append(data, <<>>) /\ temp' = Len(data) + 1
    /\ pc' = "writing"
    /\ UNCHANGED <<live, earlier, battery, saves, unsaved, writes, reader>>

WriteChunk ==
    /\ pc = "writing" /\ writes.left # <<>>
    /\ LET at == writes.at + 1 IN
          /\ data' = [data EXCEPT ![temp] =
                        [i \in 1 .. IF Len(@) < at THEN at ELSE Len(@) |->
                            IF i = at THEN Head(writes.left) ELSE @[i]]]
          /\ writes' = [save |-> writes.save, left |-> Tail(writes.left), at |-> at,
                        then |-> writes.then]
    /\ UNCHANGED <<live, temp, earlier, battery, saves, unsaved, pc, reader>>

\* The name moved, and the machine told when the save was its own.
Rename ==
    /\ pc = "writing" /\ writes.left = <<>>
    /\ live' = temp /\ temp' = 0
    /\ unsaved' = IF writes.then = "playing" THEN FALSE ELSE unsaved
    /\ pc' = "playing" /\ writes' = Idle
    /\ UNCHANGED <<data, earlier, battery, saves, reader>>

\* A failure the machine is not told apart from a save.
FailUntold ==
    /\ pc \in {"naming", "writing"}
    /\ pc' = "playing" /\ writes' = Idle
    /\ unsaved' = FALSE
    /\ UNCHANGED <<live, temp, data, earlier, battery, saves, reader>>

\* A call of the write's fails: the file is as it was, the machine told nothing.
Fail ==
    /\ pc \in {"naming", "writing"}
    /\ pc' = "playing" /\ writes' = Idle
    /\ UNCHANGED <<live, temp, data, earlier, battery, saves, unsaved, reader>>

-----------------------------------------------------------------------------
(* The program that plays.                                                 *)

\* BatterySave::read, as the machine is made.
Open ==
    /\ pc = "down"
    /\ battery' = OnDisk /\ unsaved' = FALSE
    /\ pc' = "settling"
    /\ UNCHANGED <<live, temp, data, earlier, saves, writes, reader>>

\* Copied whether or not there is one.
SettleAnyway ==
    /\ pc = "settling"
    /\ IF earlier # 0
       THEN pc' = "naming" /\ Begin(earlier, "settled")
       ELSE pc' = "playing" /\ UNCHANGED writes
    /\ UNCHANGED <<live, temp, data, earlier, battery, saves, unsaved, reader>>

\* BatterySave::settle: the earlier place's copied, where there is none yet.
Settle ==
    /\ pc = "settling"
    /\ IF live = 0 /\ earlier # 0
       THEN pc' = "naming" /\ Begin(earlier, "settled")
       ELSE pc' = "playing" /\ UNCHANGED writes
    /\ UNCHANGED <<live, temp, data, earlier, battery, saves, unsaved, reader>>

Play ==
    /\ pc = "playing" /\ saves < MaxSaves
    /\ saves' = saves + 1 /\ battery' = saves + 1 /\ unsaved' = TRUE
    /\ UNCHANGED <<live, temp, data, earlier, pc, writes, reader>>

\* A flush frame, a battery event, the session's close: a changed one written.
SaveSram ==
    /\ pc = "playing" /\ unsaved
    /\ pc' = "naming" /\ Begin(battery, "playing")
    /\ UNCHANGED <<live, temp, data, earlier, battery, saves, unsaved, reader>>

\* The session closed, its battery tried once more, or the program killed.
Down ==
    /\ pc # "down"
    /\ pc' = "down" /\ writes' = Idle /\ battery' = 0 /\ unsaved' = FALSE
    /\ UNCHANGED <<live, temp, data, earlier, saves, reader>>

-----------------------------------------------------------------------------
(* A reader: the file opened by name, read to its end.                     *)

OpenToRead(r) ==
    /\ reader[r].file = 0 /\ live # 0
    /\ reader' = [reader EXCEPT ![r] = [file |-> live, at |-> 0, got |-> <<>>]]
    /\ UNCHANGED <<live, temp, data, earlier, battery, saves, unsaved, pc, writes>>

AtEnd(r) == reader[r].at >= Len(data[reader[r].file])

ReadChunk(r) ==
    /\ reader[r].file # 0 /\ ~AtEnd(r)
    /\ LET chunk == data[reader[r].file][reader[r].at + 1] IN
       reader' = [reader EXCEPT ![r] = [file |-> @.file, at |-> @.at + 1,
                                        got |-> Append(@.got, chunk)]]
    /\ UNCHANGED <<live, temp, data, earlier, battery, saves, unsaved, pc, writes>>

CloseRead(r) ==
    /\ reader[r].file # 0 /\ AtEnd(r)
    /\ reader' = [reader EXCEPT ![r] = Resting]
    /\ UNCHANGED <<live, temp, data, earlier, battery, saves, unsaved, pc, writes>>

-----------------------------------------------------------------------------
BatteryNext ==
    \/ Create \/ WriteChunk \/ Rename \/ Fail
    \/ Open \/ Settle \/ Play \/ SaveSram \/ Down
    \/ \E r \in Readers : OpenToRead(r) \/ ReadChunk(r) \/ CloseRead(r)

BatterySpec == BatteryInit /\ [][BatteryNext]_battery_vars

-----------------------------------------------------------------------------
(* Properties.                                                             *)

\* Who has read the file to its end has read one save, the whole of it: a
\* write cut short at any call leaves the old one or the new one, and a
\* temporary file left behind never shows through a later save.
WholeSaves ==
    /\ live # 0 => data[live] = Contents(data[live][1])
    /\ \A r \in Readers : reader[r].file # 0 /\ AtEnd(r) /\ reader[r].got # <<>> =>
          reader[r].got = Contents(reader[r].got[1])

\* A machine whose battery is called saved would find it again if its
\* program ended now, whatever failed on the way.
SavedIsFound == pc = "playing" /\ ~unsaved => OnDisk = battery

\* No save takes the place of a later one: what was played last stays.
NothingGoesBack == [][OnDisk' >= OnDisk]_battery_vars
=============================================================================
