# A verification project for EmuSen

EmuSen plays games of a dozen consoles. Its frontends (Mistress, Hotaru, Pharaoh, Endymion's and DianaSh's tools) are
clients of one runtime, Crystal, written in Rust (`src/Platform/crystal`) behind a C header
(`src/EmuSen.Crystal/include/emusen_crystal.h`). The runtime opens games into *sessions*, runs their frames on the
client's frame thread, and answers every other call from whatever thread makes it. Under it, cores may run in processes
of their own (`emusen-core-broker`), and one of them, the Nintendo 64's, draws its display list on threads of its own
(`MarsRT - N64/src/memory/dp_threads.rs`).

The modules here model, from the code, the parts where several actors meet: the frame loop that never pauses and what
gets in beside it, the history that is encoded behind it, events, files that several programs touch, a process that may
hang or die, and a machine and its drawing threads over one memory. TLC checks them on small instances, and TLAPS proves
what it can for every value of the constants. Paths below are of the repository; a bare `session.rs` is
`src/Platform/crystal/src/session.rs`.

## 1. The system

| Part | Its state | Its operations | Who it meets |
|---|---|---|---|
| Session gate, `crystal/src/session.rs` | engine mutex, `pending`, `owner`, `in_frame`, `frame_thread`, `closed`, `woken` and its condition variable | `lock`, `change`, `close`, `frame`, `wait`, and reads that take the mutex past the gate | every call on a session |
| Rewind history, `crystal/src/rewind.rs` | newest snapshot, deltas, byte count, moments, the mailbox to the encoding thread | capture after a frame, `step`, `to`, settings, `clear`, capture before a load | the frame's end, loads, reset, run control; its own worker thread |
| Events, `crystal/src/events.rs` | the list of subscriptions, a bounded queue in each | `raise`, `wait`, `drain`, `add`, `remove`, `clear` | every call that tells of something; clients' event threads |
| Sessions, `crystal/src/open.rs`, `runtime.rs` | the list, the current id, the next id | open, close, disc change and its event, the runtime's end | the gate, events |
| Run control, `crystal/src/service/machine.rs`, `session.rs`, `crystal-debug` | `Run`'s flags, the engine's halt, breakpoints and steps armed | pause, resume, step, run-tos, frame advance | the frame; rewind, loads and reset |
| Input latch, `emusen-core-host/src/latch.rs` | held buttons, axes and presence of each port, and what changed of them | hold, move, connect; send at the frame; resend after a load | the frame; pads on their threads |
| Battery saves, `crystal/src/battery.rs`, `engine.rs`; whole-file writes, `galaxia/src/atomic.rs` | the battery, whether it changed, a file, its temporary name, its earlier place | open, settle, save, read | the disk; a killed program; readers |
| Medium lock, `galaxia/src/medium_lock.rs` | `<file>.lock` and the system's lock on it, a table in each program | `try_take`, `release`, `holder_of` | other programs; machines sharing a memory card |
| Core broker, `emusen-core-broker` | a runner process, one call out, a deadline, the window of memory | each export of a core, memory reads and writes, free | a core that hangs, dies or answers late; a host that is killed |
| N64 threaded display list, `dp_threads.rs` | the ring, each worker's count, a barrier, sleep flags, the pause | publish, wait for room, join, hold for a snapshot, stop; a worker's loop | the machine's thread; the savestate; a worker that panics |
| N64 memory marks, `dp_threads.rs`, `dp.rs` | page marks, ranges, idle ranges, boxes, the open batch | shadow a word, end a batch, wait before an access | the display list's counts; the verifier on a worker's thread |
| Scraper's run, `scrape/src` | a queue of games, workers, quota, pauses | start, pause, cancel | the network, SQLite |
| The rest | state slots, settings, rumble, recorder, core discovery, library, presenter, audio and pads, shell, C# frontends, emulation cores | | |

How they meet. A client's call finds its session in the list of **Sessions**, takes its **gate**, and works on the
engine, on `Run`'s flags (**run control**) and on the **rewind** chain, all of which the gate guards. What it did is
told of by raising an **event**. A frame call is one of these, with a slot so that one thread makes them and a yield so
that others get in first. It gives the machine what the **input latch** holds, runs it, saves the **battery** now and
then, and at its end captures for the rewind history and raises the event of a halt or a pause. The **medium lock** is
taken when a session's saves are placed, before any frame. Where the core is in another process every call on it is a
request of the **core broker**, made under the gate. Where it is the N64's, its own thread publishes words to the
**display list**, and asks the **marks** before each access whether a word still to run may touch those bytes; a
snapshot, the rewind history's too, holds the list still at one word.

What makes each part correct:

- the gate: one thread inside; nobody inside after a close; the frame loop starves no caller; every way out gives back
  what was taken; a parked frame thread hears of every change;
- rewind: going back lands on the state the frame was left in, whatever was trimmed, cleared or still encoding; the
  encoding thread and its callers never wait on each other;
- events: one order for everybody, nothing lost without a count, nothing after the end;
- sessions: an id or 0 names what it should, a close happens once;
- run control: nothing runs that was not let go, a frame advance is one frame, a halt can be got past;
- the latch: what is held and what the machine was given differ only where a frame still has to give it;
- the battery: a file read is one save, whole; what the session was told is saved is found; no save goes back;
- the medium lock: one program at a time;
- the broker: a call has its own answer or an error; no runner outlives its machine or its host; every call ends;
- the display list: no word overwritten before all ran it, shared words in step, a hold that holds, and no wait for ever;
- the marks: no access to a byte that a word still to run may touch.

## 2. The plan

Written, in this order: `SessionGate` with `GatePromise`; `Rewind` with `RewindHistory`; `Events`; `Sessions`;
`MediumLock`; `RunControl`; `InputLatch`; `BatteryFile`; `CoreLink`; `DpDrain` with `DrainPromise`; `DpMarks`; and a
module of proofs for each, the four small ones of the host sharing `Host_proofs`. Every safety property the passing runs
check is proved.

What would come next, most wanted first:

1. `Session`: the gate composed with run control and rewind for one session, to check that `frame`, `load` and `close`
   keep each other's promises through the gate's steps rather than as atomic calls.
2. Two writers of one file, which share one temporary name; the broker's `LibraryRunner`, which tries a call twice.
3. The scrape run: quota, back-off, pause and cancel over several workers.
4. The codec of a delta as bytes and the reel's pictures, over bounded inputs, as operators with a reference definition.

## 3. The modules

Each module's own header says what its steps are and what it leaves out; `PROJECT.json` maps every definition to lines.

### SessionGate, GatePromise, SessionGate_proofs

Every access of the code to a shared atomic, mutex or condition variable is a step, so `pc[t]` is a line of
`session.rs`. `Count`, `Acquire`, `Uncount` and `Mark` are `lock`; `Body` is what runs inside; `Unmark` and `Release`
are the guard's drop in the order Rust drops its fields; `Claim`, `Yield` and `Leave` are `frame`'s slot and loop;
`Tell`, `WakeOnce` and `WakeAgain` are `wake_up` after a change and after a close; `Announce`, `Park`, `TimeOut` and
`TakeFlag` are `wait`; `Look` is a read such as `info_json` that takes the engine's mutex and not the gate. The mutex
is unfair: any thread waiting for it may get it. A condition variable woken for no reason is covered by `TimeOut`, which
may happen at any time; the code takes either for a timeout.

`overtaken` is history: frames let in ahead of a counted waiter. `MaxOvertaken` is where it stops counting, and it is
above what the invariant allows. `GatePromise` says what callers are promised without any of that: let in alone, turned
away exactly when the session was shut before their turn, overtaken by one frame at most. `KeepsThePromise` is the
refinement, its mapping at the end of `SessionGate`.

Left out: a call made on a thread that holds the gate already, which the API's paths never make and the code refuses.
A body that panics is out: the runtime aborts.

### Rewind, RewindHistory, MCRewind, Rewind_proofs

Calls on the history are made under the gate, so each is one step; the encoding thread steps between them. A call that
needs the delta still out waits on the mailbox (`caller = "waiting"`) and goes on with the same call once it is in.
`chain` is the record of what `clear` resets: newest, deltas, their bytes, the moments, and whether one is encoding.
`asked`, `done` and `quit` are the mailbox, `work` what the thread has in hand. A snapshot is a length and a set of
bits; a delta is the set that differs, and its size their number, so that equal snapshots cost nothing as they do in
the codec, and the lengths that differ cost a whole snapshot as they do there.

`RewindHistory` keeps every snapshot whole. `KeepsTheHistory` refines it: `Held` undoes the deltas since from the newest
snapshot, and what is held for a frame never changes, is put back exactly, and is only ever forgotten from the oldest
end or past the point gone back to. `StepsTo` and `To` count deltas; this is where a moment too many would show.

Environment: the engine may refuse to save (length 0), refuse to load, take too long for a snapshot, or halt a frame
before its end; settings change at will.

### Events, Events_proofs

`Raise`, `HandOut` (which takes the list's lock and holds it), `AddNext` and `Raised` are `raise`; `AddTo` is a queue's
own add with its drop of the oldest. The client's side is the C# client's: `Wait`, `AskLength` (a drain with no
buffer), then `CopyOut`, which takes nothing if what is there outgrew the buffer. `added` and `taken` are histories.
`QueueTellsAll` is the one property of a queue: what a client took, what is still there and what it is or will be told
it lost make up everything it was given, in order.

### Sessions, Host_proofs

Opens take an id and add themselves in two steps, as in `open`, so that ids and the order of adding may differ; the list
is a set, its own order being read nowhere (`all` sorts it by id, `remove` takes the greatest id for the next current
one). `Find` looks a session up by id or 0 and what follows uses it later: `CloseUnderGate`, `TakeOut`, `SayClosed` for
a close; `ChangeDisc`, `NameSession`, `SayDisc` for a disc change. `FreeRuntime` is the runtime's drop, with no call in
it.

### MediumLock, MCMediumLock, MediumLock_proofs

A program makes one call at a time (its table is under a mutex), and each call it makes on the file system is a step:
`OpenLock`, `Lock` or `LockRefused`, `HoldMedium` or `WriteFails`; `Release`, `Unlink`, `Close`; `Look`, `OpenProbe`,
`Probe` for `holder_of`. Files are numbered as they are made, since one removed while open lives on; `link` is the one
the name names. `kept` is the owners' view: the handles they have not let go. `Kill` ends a program anywhere.

### RunControl, Host_proofs

A frame is `Length` instructions named by their places. `Checked` is the set of places at which the debugger would ask
`should_break`: none in a frame run plain, all but the first in a frame that resumes a halt. `Halt` and `Complete` are
`advance` of `session.rs`. `stopped` is the engine's `halted`, `halted` the session's: the code sets and clears them in
different places, and so does the model. `advancing` is history, for the frame advance.

### InputLatch, Host_proofs

`Hold`, `MoveAxis` and `Connect` are the player's calls, on any thread, under the latch's lock. A send is two steps:
`SendCopy` takes the held values and clears the marks under the lock, `SendGive` tells the machine outside it, and the
player's calls fall between. `Grow` gives more ports, `Reset` is a new machine, `LoadState` puts a state's own buttons,
axes and controllers into the machine and asks for the controllers again (`engine.rs:1071`). `loaded` is what the
machine has from a state and has not been given since: the code gives controllers again and not buttons
(`EmuSen_CoreAPI.md:802`), and `DifferenceIsMarked` says so exactly.

### BatteryFile, Host_proofs

`Create`, `WriteChunk`, `Rename` and `Fail` are `atomic::write` one system call at a time; a file is its chunks, and a
file made is a number, so that a reader with one open goes on reading it whatever the name has come to mean
(`OpenToRead`, `ReadChunk`, `CloseRead`). `Open` reads the save from its place or its earlier one, `Settle` copies the
earlier one in where its own place has none (`battery.rs:67`), `Play` is the game writing to its battery, `SaveSram`
is `save_sram`, after which the battery stays unsaved unless the write comes through, and `Down` is the program's end
or its death, at any step. A save's contents are two chunks or one, so that a short file written over a long temporary
one would show.

### CoreLink, MCCoreLink, CoreLink_proofs

One machine's handle over its runner. `Start`, `Advance`, `Load`, `Look`, `SpaceRead`, `SpaceWrite` and `Free` are the
host's calls (`proxy.rs`), which send and then receive; `TakeHead`, `TakeRest`, `TimeOut`, `SeesEnd`, `Stop`, `Reap`,
`Shut` and `Bury` are `Link::receive` and what follows a deadline or a death (`client.rs`). The runner reads a request,
answers in two writes (`Read`, `WriteHead`, `WriteRest`) and may `Crash` or close its socket at any step; `SeesClose`
is its watcher's. `HostEnds` is the host's death. `window` is the copy of memory reads are answered from; what a call
may do to memory is `Changed`.

### DpDrain, DrainPromise, DpDrain_proofs

Every access to a shared atomic is a step of `N` workers and the machine's thread. A worker's `pc` is a line of
`run_worker`, `Barrier::arrive`, `stand` and `sleep`: `Top`, `Gather`, `Assemble`, `Execute`; `ReadGeneration`,
`Arrive`, `Open`, `Pass` and `GoHome` for a barrier; `HearPause`, `Raise`, `Stand`, `Lift`, `Answer` for a pause;
`Doze`, `Check`, `Unparked` for sleep; `Fall` for a panic. The machine publishes, waits for room, for a count or for
all (`Arrived`), asks for a pause, reads its point and scans the workers (`Ask`, `ReadPoint`, `Scan`,
`ReadPointAgain`), and ends the workers or drops them. `step` is what each word asks of the workers: nothing, the
leader alone, a meeting before, or a meeting before and after.

`DrainPromise` is what the machine's thread relies on: words run in order by each worker, none overwritten before all
ran it, and while the list is held all workers at one word with the rest fitting a snapshot. `KeepsThePromise` refines
it. After a worker falls, the barrier opens for everybody and the scratch may be read while written: `AssembledAlone`
and `SharedWordsInStep` are promised while nobody has fallen, as in the code, whose `SAFETY` comment (`assemble`) does
not say so.

### DpMarks, MCDpMarks, DpMarks_proofs

The drain is reduced to the count of words all have run (`Run`). `BeginBatch`, `SetImage`, `Load`, `Draw`, `Publish` are
a word shadowed before it is published, `EndBatch`, `EndRange`, `EndAppend`, `EndIdle` and `Join` the end of a batch,
each store its own step where the verifier may look between. `Begin`, `Pass`, `Wait`, `Waited`, `Touch` are an access of
the machine's and its waits, page by page and then by ranges and boxes; `Verify…` is the verifier's look-up on a
worker's thread, slot by slot of the same tables: a byte's mark, then idle ranges and the ring of ranges (`covers`), then
for a write the draw's box (`box_for`), found by its end in one step (`VerifyBox`) and read field by field in another
(`VerifyFields`), with the machine's stores between. A range and a box are written when their word is shadowed and
counted at `Publish`, so that a slot may be read half way. `TouchedInTurn` is the file's own rule (`dp_threads.rs:3`).

### MCHost

Six components that share no state with one another, run control, battery, latch, medium lock, sessions and events, in
one run:
`part` is chosen at first and does not change, so the states explored are the sum of theirs, not the product. Each keeps
its own variables, actions and properties; nothing is composed. `Host_proofs` proves about each of them but the lock
and the events, which have modules of proofs to themselves.

## 4. The runs

Every run passes but the last five, each of which shows one disagreement of section 6.

| Run | Module | Bounds | It shows |
|---|---|---|---|
| `gate_calls` | `SessionGate` | two threads that call `frame`, `change` and `wait`, a client that reads, changes, closes and looks; fair; 146,611 states | the gate implements `GatePromise`; a waiter is overtaken once at most; no wake lost; callers are served beside an endless frame loop; a frame call ends; a change ends the frame thread's wait |
| `rewind_safety` | `MCRewind` | snapshots of three lengths (one none), intervals 1 and 2, budgets 0 and 2, three frames; fair; 60,784 states | chain, moments, bytes and budget in step; one job out; `RewindHistory` implemented; waits and joins end |
| `host_calls` | `MCHost` | two programs, three lock files, two handles, one kill; four saves, four files, one reader, an earlier place; frames of three instructions, three frames, steps of one and two, a core that halts and one that does not; two threads, three sessions, one disc change; a port that comes and goes with one button, one axis, one load; two raisers, two subscriptions, two topics, two filters, queues of two, three events; 807,976 states | the properties of the six components `MCHost` holds; of the events, order, delivery, the count of what was lost, wakes, silence after the end |
| `link_safety` | `MCCoreLink` | two addresses, six calls, two runners; fair; 371,344 states | a call's own answer or an error; no runner outlives its machine; the window is the memory; calls end; a host's orphans end |
| `dp_drain` | `DpDrain` | two workers, three words through a ring of two, two holds, a snapshot of one word; 2,318,380 states | words stay till all ran them; the leader's scratch; shared words in step; `DrainPromise` implemented |
| `dp_ends` | `DpDrain` | two workers, two words through a ring of one, one hold, any worker may fall; fair; 542,231 states | whatever the machine waits for comes |
| `dp_marks` | `MCDpMarks` | three cells in pages of two, rings of two ranges and two boxes, one idle range, three words, two accesses; 1,648,761 states | an access goes on only past the words that touch its bytes; marks stand; the verifier objects to nothing but a write whose box is being written over |
| `lock_two_holders` | `MCMediumLock` | two programs, two lock files, no kill | **violation**: both hold the medium |
| `run_halted` | `RunControl` | frames of two instructions | **violation**: halted with nothing to resume |
| `dp_torn` | `MCDpMarks` | as `dp_marks`, with no accesses | **violation**: the verifier objects to a write inside its own box |
| `dp_unlisted` | `MCDpMarks` | as `dp_marks`, with four words and a batch that draws again to an image it has not listed | **violation**: bytes read before they are drawn |
| `link_window` | `MCCoreLink` | as `link_safety`, with a byte no write changes | **violation**: the window differs from the memory |

**Why the bounds are enough.** The gate's races are between a frame, one waiter, and a second one that comes between
its steps: two frame threads and a client have all three, and the proofs take the bound away. Rewind needs a delta in
the chain, one encoding and a capture after it, which is three frames; two budgets, one of nothing, make trims of none,
some and all; the two intervals make a frame that is captured and one that is not; a snapshot of another length makes
the codec's whole-state delta. A queue of two overflows at three events. Two threads and three sessions let an id be
opened, current, closed and replaced while another call holds it. A lock file orphaned needs a second; the third shows
what follows a release of an orphan, which removes the name of a file another program holds. Three places in a frame are
a first, a middle and a last instruction, and steps of two end in the frame or in the next. Four saves are an earlier
place's, one over it, a failed one and one after; four files are as many temporary files as a kill and a failure leave.
Six calls are a hello, a create and four more, which are a call that is late, one after it, and the window filled and
written; two runners are one given up and the next. Two workers are a leader and another, which is every role there is;
three words through a ring of two bring the ring round, and two holds bring the stamp of an old pause to a new one.
Three cells in pages of two give a page shared by two spans and a span over two pages; the rings of two and the one idle
range overflow at the third word. What a proof covers is free of these bounds.

**Symmetry** is used where no definition names a subscription or program, in runs of safety only.
**Deadlock** is checked except where a run has an end: events stop at `MaxEvents` with everybody resting, calls at
`MaxCalls`, words at `MaxWords` in the marks, and the parts of `MCHost` at their bounds. The gate, the rewind history
and the drain never stop; a drain that has ended its workers stands still by a step of its own (`Gone`).

**Fairness.** `FairSpec` of the gate is weak fairness of each thread's own steps inside a call: a scheduler runs every
thread that can run. Nobody has to call anything, no timeout has to pass, and the mutex owes a waiter nothing, being
only weakly fair to a step that others may disable again and again; `ServedBesideFrames` therefore allows for other
*clients* that keep taking the gate, and nothing else. `FairSpec` of rewind is weak fairness of the encoding thread and
of the join. The link's is of the proxy, whose waits have deadlines of its own clock, and of the runner's watcher, a
thread that only waits for a socket to close: the core is promised nothing. The drain's is of every worker and of the
machine's steps once it has begun something, which its thread does without being asked; when it publishes, asks or
accesses is its own choice and not fair. After a worker has fallen the machine may only make one more access or let go
of the list, which is what bounds that part of the run.

**Type invariants** are conjuncts of `ChainHoldsTogether`, `QueueTellsAll`, `ListHoldsTogether` and `RingHoldsTogether`,
or are part of the inductive invariants proved.

## 5. What is proved

Every theorem is of the module's own specification, for every value of its constants under the assumptions its module
names; the runs show the same properties on small instances.

**`SessionGate_proofs`**: any finite sets of frame threads and clients, any calls (`ThreadsAssumption`,
`CallsAssumption`, `BoundAssumption`). Types, the mark, the count, the closed session, the slot, `OvertakenAtMostOnce`,
`NoLostWake`, one holder at a time, and that the gate implements `GatePromise` (`PromiseIsKept`). None of these is
inductive alone. `IInv` adds: `EngineIsInside`, the mutex's holder is the thread whose place is inside it;
`OwnerIsMarked`, the mark is on exactly between `Mark` and `Unmark`; `SlotPlaces`, only frame calls are where the slot
is claimed or left; `NextFrameBehindTheWaiters`, which carries the argument for `OvertakenAtMostOnce`: a frame that
overtook a waiter has come from a yield that saw a count of zero, and no other frame can be past its yield while the
waiter is counted, since the slot admits one and the next one's yield sees the waiter. The count needs cardinalities,
one lemma for a thread that joins the waiters and one for a thread that leaves. For the refinement, the places of a call
map to the abstract ones (`CallersPlaces`), and a thread let in is one at work (`LetInIsAtWork`).

**`Events_proofs`**: any raisers, subscriptions, topics, filters and queue length. The five properties of the events
that `host_calls` checks. `EInv` has five parts: `LockInv`, the list's lock is its raiser's exactly while it adds;
`ListedInv`, who is listed is somebody's; `EventInv`, what was added anywhere was raised, in raising order, once;
`DueInv`, a raiser's list of those to serve is those who wanted the event and have not been served or left; `QueueInv`,
the queue is the last of what was added less what was taken, with the rest counted. One order for all follows from the
numbers being rising in each.

**`Host_proofs`**, run control: frames of any length. Types, `FrameAdvanceHolds` (a frame that runs has used a request
up whether it halts or completes), `ResumingMovesOn` and `RunToFrameStops`, the last two from what the first checked
place of a frame is. The latch: any ports and buttons. `DifferenceIsMarked`, with `ChangesSinceMarked`: a copy taken
and not given yet differs from what is held only where the port was marked since the copy. The battery: saves of any
number. `WholeSaves`, `SavedIsFound`, `NothingGoesBack`. A save is followed through the temporary file, the name and
the readers: a file under the name is whole (`LiveIsWhole`), a reader has read the first chunks of one save
(`ReadersReadOne`), what is being written is the one save begun (`WriteIsTheirs`, `WriteIsUnderWay`), and the disk is
never ahead of the battery (`DiskIsBehind`). Sessions: any threads, opens and changes. `ListHoldsTogether` and
`EndToldOnce`, from a life of a session that no step leaves: ids are given once and below the next (`IdsBelowNext`),
added by the one open that took them (`AddedAlone`), found only once added (`FoundIsKnown`), taken off by the one
close that was let in (`ClosesApart`), and told of as ended only after that (`EndsTold`).

**`MediumLock_proofs`**: any programs, files, takes and kills. `LockedWhileKept` and `AloneHasNoCompany`. Each
program's part is sound by itself, wherever it stands in its call: its table has the handles not let go
(`TableIsExact`), it has a file open exactly in a call that needs one or for its handles (`FileIsNeeded`), and has
locked that file or none, which of the two its place in the call says (`LocksItsOwn`). What others do to the file's
name is in none of these, and that they hold all the same is what leaves room for two holders: section 6.

**`CoreLink_proofs`**: any memory, any number of calls and runners. `AnswersAreTheirOwn` and `NoRunnerLeftBehind` from
`Pipe`: whatever lies between proxy and runner, a request, one being answered, half a reply or a whole one, is of the
call waited for and alone there; a link given up is never used again. `WindowIsTheMemory` from `Mirror`, the window
being the memory but for what the call under way may still change, under `Exact`: no byte read-only, no address that
mirrors another. Without `Exact` it does not hold: section 6.

**`DpDrain_proofs`**: any number of workers, any ring, list and snapshot. `RingHoldsTogether` and the refinement of
`DrainPromise` hold whoever falls: `DInv` counts words (`CountsFit`, and the word in each slot of the ring) and
carries the pause's protocol (`AnswerInv`, an answer of this pause is of a worker that stands; `StoodInv`, where it
stands; `ScanInv`, what the machine has read of the answers still holds; `HeldInv`). While no worker has fallen,
`AssembledAlone` and `SharedWordsInStep`: `BInv` says that workers at one word agree on which of its barriers they are
at (`Agree`), that the count at the barrier is of those who have arrived since its last opening (`CountInv`), and who
is behind whom across the first and the second barrier of a word (`BehindInv`, `FirstInv`, `SecondInv`).

**`Rewind_proofs`**: any snapshots, intervals, budgets and number of frames (`StatesAssumption`, `SettingsAssumption`).
`ChainHoldsTogether`, `OneJobOut`, `SettledWithinBudget`, and that the chain implements `RewindHistory`
(`KeepsTheHistory`). The invariant `IInv` says that there are whole snapshots behind the chain (`Behind`): one for each
moment, of which each delta takes a neighbour to the one before it and the newest is the chain's own or the job's. A
trim, a step, a jump, a capture and a settle are each a change of that sequence (`DropKeeps`, `UndoKeeps`, `MoreKeeps`,
`JoinKeeps`), and of the record of frames it makes (`RecordTrim`, `RecordPrefix`, `RecordMore`). `ChainInv` has the
shape of a chain and its counts; `LastIsPast`, that no moment is of a frame to come, without which a capture could take
one's place; `MailInv`, where the job is and that it is of the pair left encoding. That deltas undone one after another
come to the snapshot as many before is by a least counterexample (`UpTo`, `Unwinding`); that a trim ends within budget
is by the least of the numbers that fit (`ExcessFits`).

**`DpMarks_proofs`**: any memory, pages, rings, list and accesses, with `Overflows` false, which is that no batch
draws again to an image it had no room to list: where one may, `TouchedInTurn` does not hold (section 6).
`TouchedInTurn`, `MarkedFor` and `ObjectsOnlyToTheTorn`, from `MarksInv`, which follows a word from its shadowing to its
run: every page it reaches is marked for it, or idle (`AllMarked`); a range of the ring or of the open batch holds it,
or the ring is full of ranges no older, which answer for everything (`Answered`; `EndAnswered` while a batch is ended;
`RingInOrder`; `PendingIsDue`, what is being written over the oldest range); and a box has each draw, or the ring of
boxes is full of later ones (`BoxesInOrder`, `BoxesAnswer`). Of an access, no word left to run touches its bytes below
the page it has come to, and what it waits for is no earlier than the last that touches those in the page
(`AccessHolds`), because `Reaches` misses no word and `LastHolding` names none too early. Of a look-up, what the
verifier has yet to look down still has its word's range, or the ring has been written over, which it sees
(`CheckHolds`); and the box it found is its word's, or has been counted over, which it sees, or is the one slot the
machine is writing now (`FieldsHold`), which it does not: section 6.

**Only model-checked**: liveness under fairness, which TLAPS does not do here (nor `ENABLED`): `ServedBesideFrames`,
`FrameComesThrough` and `ChangeEndsTheWait` of the gate, `CallsComeBack` of rewind, `MachineComesThrough` of the drain,
`CallsEnd` and `OrphansEnd` of the link. Every other property of a passing run is a theorem. Induction over data is out
of the provers' reach: what a chain of deltas computes together is stated in closed form (`Together`: a bit changes when
it is in an odd number of them), and its size as a count, which is what `step`, `to` and `trim_to_budget` come to in
loops.

## 6. Where the code and its words part

Shown by a run:

- **Two programs may hold one medium** (`lock_two_holders`). `release_file` removes the name, then closes; `open`
  opens the name, then locks. A program that opened before the removal locks after it a file nobody can name, and the
  next one locks a new file. Asking, once locked, whether the name still names the locked file would close it.
- **A step of rewind leaves a halted session halted** (`run_halted`), with no halt in the engine: `session_info` says
  "halted" with a null processor, and the next step, not being a resume, stops at an armed breakpoint without moving.
  `rewind_to` and a load clear both.
- **A second draw to an image that found no room in its batch's list is not marked** (`dp_unlisted`). `grow` returns at
  once for it (`dp_threads.rs:1189`), having marked only its first draw's pages; the machine may read what the second
  reaches before it is drawn. It takes 257 images in one batch.
- **The verifier may object to a write inside its own box** (`dp_torn`). `box_for` takes a box for gone when
  `boxes_appended - i > BOX_COUNT` (`dp_threads.rs:481`), where `covers` has `>=` for a range (`:448`). The machine fills
  the slot before it moves the count, so a box's end may be its own and its other fields those of the draw `BOX_COUNT`
  later, and the fault recorded panics the machine. It takes a worker 16,384 draws behind, with the verifier on (a debug
  build, or `EMUSEN_MARSRT_VERIFY_RDP=1`). `>=` would close it, and `ObjectsOnlyToTheTorn` says it is the only case.
- **A write answered in part leaves the window wrong** (`link_window`). `space_write` changes the window only when the
  answer is no error; a core that writes the bytes it may and then answers `READ_ONLY`, as `libretro-host`'s does, has
  changed the memory and not the window. Only the test core turns the window on today (`libretro-proxy/src/lib.rs:33`).

Read in the code and in the model, without a run of their own:

- A look at the engine may starve: `info_json`, `save_media_json` and `sessions_json` (`session.rs:648`, `:765`,
  `runtime.rs:403`) are not counted, where `EmuSen_Backend.md:7459` says every taking of the gate now is.
- A step back after a load does not undo it: the newest moment, which the load kept of the present, is dropped first
  (`rewind.rs:445`), where `EmuSen_Backend.md:9500` and `saving.rs:128` say a step or a jump back undoes the load.
  `rewind_to` that moment does.
- A disc event may name another session: the id given is looked up again after the change (`runtime.rs:438`), where
  `emusen_crystal.h:98` and `:526` have it name the one changed.
- `EmuSen_Backend.md` §29.4 says a waiting change lands before the next frame. One frame may go first, its yield having
  seen no waiter; `OvertakenAtMostOnce` is what holds.
- `capture_unless_held` (`rewind.rs:372`) takes the newest moment for the present when the frame counts agree. After a
  frame a halt cut short, or a load at the same count, it is not, and the present is kept nowhere.
- After the current session closes, the listed one with the greatest id is current; `open.rs:67` says the one last
  opened. Two opens that finish in the other order differ.
- A session's "opened" may be raised after its "closed", when another thread closes it in between (`runtime.rs:364`).
- `holder_of` locks a free file for a moment; a `try_take` in another program just then is refused.
- `pause` leaves a requested frame, a hold and a step armed; `resume` leaves a step armed (`machine.rs:172`). `reset`
  leaves the engine's halt, so the first instruction after it is run unchecked.
- Reads answered from the window go on being answered after the runner has died, where `EmuSen_LibretroHost.md` §3.4
  has later calls answer -10; and a write to one space leaves another space's window of the same bytes, or a mirror in
  the same space, as it was.
- `send_request` (`wire.rs:158`) has no deadline: a request larger than the socket's buffer, to a runner that has
  stopped reading, waits for ever. The model's requests fit.
- After a worker's fault the scratch may be put together while others write theirs, which `assemble`'s `SAFETY` comment
  rules out; the machine then raises the fault, and the picture is not used.

## 7. Not modelled

Each part left out is in `PROJECT.json` with its reason. Within the parts modelled:

- the broker: `LibraryRunner`'s calls without a machine and their second try, the crash log, the ring's descriptors, the
  sandbox; a memory read or write that moves fewer bytes than asked, and the window filled by such a read
  (`valid = at == r.bytes.len()`);
- the battery and whole-file writes: two programs that write one file share its temporary name; a settle races a newer
  save in another program; a file that cannot be read is taken for one that is not there;
- the latch: buttons a state brought stay until the player's change, which is what the core's API says;
- the display list: the device's thread and the leader's own way through `serve_device`, a fault the verifier records
  while its worker goes on, the range the verifier remembers between bytes, the depth image's extent, commands of
  several words, the geometry of a triangle within its box. `standing_at` is read relaxed in the code and the model
  reads it in one order with the rest; a pause's point raised late, after a release, leaves the point set for the next
  pause, which sets its own first;
- the rewind history: the codec's bytes and the reel's pictures.

Parts not modelled: state slots and records, settings, the library, core discovery, patches and the shell are
sequential over files; the recorder appends in the frame's order; rumble is a value written and read; the presenter's
and audio's order is a driver's; the C# frontends are clients of the same header; the scrape run is planned.

The emulation cores, most of the repository's lines, are sequential: processors, video and sound of a dozen consoles,
defined by their hardware and tested against other emulators' traces. A model of them would be a second emulator with
nothing to check it against but the first, so the map's share of all lines stays small by design: it covers the code in
which an order nobody wrote a test for can go wrong.

## 8. Running it

`tlc -config gate_calls.cfg SessionGate` and so on, with the runs and modules of section 4; the longest, `dp_drain`,
takes a few minutes. `tlapm SessionGate_proofs.tla` takes about half a minute, `Events_proofs` two minutes,
`DpDrain_proofs` two and a half, `Rewind_proofs` and `DpMarks_proofs` four each, `Host_proofs` one, the others seconds
to a minute. Definitions whose comment begins "A faulty", or that `PROJECT.json` lists under "mutants", are mutants:
they are used by nothing, and put in place of the definition after them each breaks the property named beside it.
