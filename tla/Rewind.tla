------------------------------- MODULE Rewind -------------------------------
(***************************************************************************)
(* The rewind history of one session (Platform/crystal/src/rewind.rs): the *)
(* newest snapshot whole, a chain of XOR deltas back from it, the moments  *)
(* a reel shows, and the one-slot mailbox to the thread that encodes the   *)
(* deltas.                                                                 *)
(*                                                                         *)
(* Every call on the history is made under the session's gate, so each is  *)
(* one step of the caller; the encoding thread takes its steps between     *)
(* them.  A call that needs the delta still being encoded waits for it on  *)
(* the mailbox's condition variable, which both sides share.               *)
(*                                                                         *)
(* A snapshot is its length and the set of its bits that are set, a delta  *)
(* the set of bits that differ, and a delta's size their number: nothing   *)
(* for two equal snapshots, as the codec's.  The buffers kept for reuse    *)
(* and the reel's pictures are left out.                                   *)
(***************************************************************************)
EXTENDS Naturals, Sequences, FiniteSets, FiniteSetsExt, SequencesExt

CONSTANTS
    States,     \* the machine's snapshots; one of length 0 says it keeps none
    Intervals,  \* the capture intervals a client may set, in frames
    Budgets,    \* the budgets it may set
    NoState,    \* no newest snapshot
    NoJob,      \* an empty slot of the mailbox
    MaxFrames   \* where a run's count of frames stops

\* The bits any snapshot may have set, what differs between two, and what
\* the encoding thread is given and hands back.
Bits == UNION {s.bits : s \in States}
Deltas == SUBSET Bits
Jobs == [previous : States, state : States, delta : Deltas]

ASSUME StatesAssumption ==
    /\ IsFiniteSet(Bits)
    /\ States \subseteq [length : Nat, bits : Deltas]
    /\ NoState \notin States
    /\ NoJob \notin Jobs

ASSUME SettingsAssumption ==
    /\ Intervals \subseteq Nat \ {0}
    /\ Budgets \subseteq Nat
    /\ MaxFrames \in Nat

VARIABLES
    machine,        \* the state the engine is in
    enabled,        \* rewind is on
    interval,
    budget,
    withheld,       \* capture stopped: a snapshot took longer than a frame
    frames,         \* frames completed while on, rewound with the chain
    since_capture,
    chain,          \* newest, deltas (oldest first), delta_bytes, moments, encoding
    asked,          \* the mailbox: the job for the worker,
    done,           \*   the job it handed back,
    quit,           \*   and the word to stop
    worker,         \* where the encoding thread stands; "inline" has no thread
    work,           \* the job it has in hand
    caller          \* where the thread inside the gate stands

settings == <<enabled, interval, budget, withheld>>
clock == <<frames, since_capture>>
mail == <<asked, done, quit>>
thread == <<worker, work>>
vars == <<machine, enabled, interval, budget, withheld, frames, since_capture,
          chain, asked, done, quit, worker, work, caller>>

EmptyChain == [newest |-> NoState, deltas |-> <<>>, delta_bytes |-> 0,
               moments |-> <<>>, encoding |-> FALSE]

Init ==
    /\ machine \in States
    /\ enabled = FALSE
    /\ interval \in Intervals
    /\ budget \in Budgets
    /\ withheld = FALSE
    /\ frames = 0
    /\ since_capture = 0
    /\ chain = EmptyChain
    /\ asked = NoJob
    /\ done = NoJob
    /\ quit = FALSE
    /\ worker = "none"
    /\ work = NoJob
    /\ caller = "idle"

-----------------------------------------------------------------------------
(* The codec.                                                              *)

Delta(a, b) == SymDiff(a.bits, b.bits)
Apply(s, delta) == [s EXCEPT !.bits = SymDiff(@, delta)]
Size(delta) == Cardinality(delta)
SizeOf(deltas) == Cardinality({p \in (DOMAIN deltas) \X Bits : p[2] \in deltas[p[1]]})

\* What deltas applied one after another change, as step and to do in a loop:
\* a bit as often as it is in one of them.
Together(deltas) ==
    {b \in Bits : Cardinality({i \in DOMAIN deltas : b \in deltas[i]}) % 2 = 1}

-----------------------------------------------------------------------------
(* What the chain is made into.                                            *)

Oldest(deltas, n) == SubSeq(deltas, 1, n)
Newest(deltas, n) == SubSeq(deltas, Len(deltas) - n + 1, Len(deltas))
AllBut(seq, n) == SubSeq(seq, 1, Len(seq) - n)

\* How many of the oldest deltas must go before the bytes counted fit.
Excess(c) ==
    LET all == Len(c.deltas)
        Fits(n) == c.delta_bytes - SizeOf(Oldest(c.deltas, n)) <= budget
    IN  Min({n \in 0 .. all : Fits(n)} \union {all})

\* A faulty DropOldest: the moment of a delta dropped is kept.
DropOldestKeepingMoments(c, n) ==
    [c EXCEPT !.deltas = SubSeq(@, n + 1, Len(@)),
              !.delta_bytes = @ - SizeOf(Oldest(c.deltas, n))]

DropOldest(c, n) ==
    [c EXCEPT !.deltas = SubSeq(@, n + 1, Len(@)),
              !.delta_bytes = @ - SizeOf(Oldest(c.deltas, n)),
              !.moments = SubSeq(@, n + 1, Len(@))]

\* The delta left encoding joined to the chain.
Joined(c) == [c EXCEPT !.encoding = FALSE,
                       !.newest = done.state,
                       !.deltas = Append(@, done.delta),
                       !.delta_bytes = @ + Size(done.delta)]

\* A faulty Settled: the chain is trimmed before the delta joins it.
SettledTrimmedFirst(c) ==
    IF c.encoding THEN Joined(DropOldest(c, Excess(c))) ELSE c

Settled(c) ==
    IF c.encoding THEN DropOldest(Joined(c), Excess(Joined(c))) ELSE c

\* Settled, then everything let go.
Cleared(c) == EmptyChain

\* A faulty Undone: the deltas applied are the oldest.
UndoneFromTheWrongEnd(c, n) ==
    [c EXCEPT !.newest = Apply(@, Together(Oldest(c.deltas, n))),
              !.deltas = SubSeq(@, n + 1, Len(@)),
              !.delta_bytes = @ - SizeOf(Oldest(c.deltas, n)),
              !.moments = AllBut(@, n)]

\* The newest n deltas undone: their moments are gone and the one before
\* them is newest.
Undone(c, n) ==
    [c EXCEPT !.newest = Apply(@, Together(Newest(c.deltas, n))),
              !.deltas = AllBut(@, n),
              !.delta_bytes = @ - SizeOf(Newest(c.deltas, n)),
              !.moments = AllBut(@, n)]

-----------------------------------------------------------------------------
(* The caller and the mailbox.                                             *)

\* Nothing is left encoding, or it has come back: a settle does not wait.
CanSettle == caller = "idle" /\ (chain.encoding => done # NoJob)

\* A settle empties the slot it takes the job from.
DoneTaken == IF chain.encoding THEN NoJob ELSE done

Woken(w) == IF w = "parked" THEN "looking" ELSE w

Await ==
    /\ caller = "idle"
    /\ chain.encoding
    /\ done = NoJob
    /\ caller' = "waiting"
    /\ UNCHANGED <<machine, settings, clock, chain, mail, thread>>

\* A wait of the condition variable that ends with nothing to show.
Rouse ==
    /\ \/ caller = "waiting" /\ caller' = "idle" /\ UNCHANGED worker
       \/ worker = "parked" /\ worker' = "looking" /\ UNCHANGED caller
    /\ UNCHANGED <<machine, settings, clock, chain, mail, work>>

\* The thread of the first job, or none where it could not be started.
Started == IF worker = "none" THEN {"looking", "inline"} ELSE {Woken(worker)}

\* A faulty Ask: the job is left for a thread that was never started.
AskNobody(job) ==
    /\ worker' \in Started
    /\ asked' = job
    /\ done' = DoneTaken

\* The job handed to the thread, or encoded here and now where there is none.
Ask(job) ==
    /\ worker' \in Started
    /\ IF worker' = "inline"
       THEN /\ done' = [job EXCEPT !.delta = Delta(job.previous, job.state)]
            /\ UNCHANGED asked
       ELSE /\ asked' = job
            /\ done' = DoneTaken

\* Worker's drop: the thread told to stop, then joined.
Stop(next) ==
    IF worker \in {"none", "inline"}
    THEN worker' = "none" /\ UNCHANGED <<quit, caller>>
    ELSE quit' = TRUE /\ caller' = next /\ worker' = Woken(worker)

Join ==
    /\ worker = "exited"
    /\ caller \in {"joining", "disposing"}
    /\ caller' = IF caller = "joining" THEN "idle" ELSE "gone"
    /\ worker' = "none"
    /\ asked' = NoJob
    /\ done' = NoJob
    /\ quit' = FALSE
    /\ chain' = IF caller = "joining" THEN chain ELSE EmptyChain
    /\ UNCHANGED <<machine, settings, clock, work>>

-----------------------------------------------------------------------------
(* The encoding thread.                                                    *)

\* A faulty Take: the job is copied out and its slot left full.
TakeACopy ==
    /\ worker = "looking"
    /\ ~quit
    /\ asked # NoJob
    /\ work' = asked
    /\ worker' = "encoding"
    /\ UNCHANGED <<machine, settings, clock, chain, mail, caller>>

Take ==
    /\ worker = "looking"
    /\ ~quit
    /\ asked # NoJob
    /\ work' = asked
    /\ asked' = NoJob
    /\ worker' = "encoding"
    /\ UNCHANGED <<machine, settings, clock, chain, done, quit, caller>>

Park ==
    /\ worker = "looking"
    /\ ~quit
    /\ asked = NoJob
    /\ worker' = "parked"
    /\ UNCHANGED <<machine, settings, clock, chain, mail, work, caller>>

Exit ==
    /\ worker = "looking"
    /\ quit
    /\ worker' = "exited"
    /\ UNCHANGED <<machine, settings, clock, chain, mail, work, caller>>

\* The delta made and handed back, and the caller waiting for it roused.
Encoded ==
    /\ worker = "encoding"
    /\ done' = [work EXCEPT !.delta = Delta(work.previous, work.state)]
    /\ work' = NoJob
    /\ worker' = "looking"
    /\ caller' = IF caller = "waiting" THEN "idle" ELSE caller
    /\ UNCHANGED <<machine, settings, clock, chain, asked, quit>>

-----------------------------------------------------------------------------
(* capture(): a snapshot s of the frame f.  It settles the chain first; a  *)
(* chain it clears starts the interval again, any other leaves it at n.    *)

CaptureFailed(n) ==
    /\ chain' = Settled(chain)
    /\ since_capture' = n
    /\ done' = DoneTaken
    /\ UNCHANGED <<withheld, asked, quit, worker, caller>>

\* The snapshot took longer than a frame: no more are taken, ever.
CaptureTooSlow ==
    /\ withheld' = TRUE
    /\ chain' = Cleared(chain)
    /\ since_capture' = 0
    /\ done' = DoneTaken
    /\ Stop("joining")
    /\ UNCHANGED asked

CaptureEmpty(s) ==
    /\ s.length = 0
    /\ chain' = Cleared(chain)
    /\ since_capture' = 0
    /\ done' = DoneTaken
    /\ UNCHANGED <<withheld, asked, quit, worker, caller>>

\* Whether a snapshot can be kept as a difference from the newest.
Continues(s) ==
    LET newest == Settled(chain).newest
    IN  newest # NoState /\ newest.length = s.length

CaptureSeed(f, s) ==
    /\ s.length # 0
    /\ ~Continues(s)
    /\ chain' = [Cleared(chain) EXCEPT !.newest = s, !.moments = <<f>>]
    /\ since_capture' = 0
    /\ done' = DoneTaken
    /\ UNCHANGED <<withheld, asked, quit, worker, caller>>

CaptureDelta(f, s, n) ==
    /\ s.length # 0
    /\ Continues(s)
    /\ chain' = [Settled(chain) EXCEPT !.newest = NoState,
                                       !.moments = Append(@, f),
                                       !.encoding = TRUE]
    /\ since_capture' = n
    /\ Ask([previous |-> Settled(chain).newest, state |-> s, delta |-> {}])
    /\ UNCHANGED <<withheld, quit, caller>>

Captured(f, s, n) ==
    \/ CaptureTooSlow
    \/ CaptureEmpty(s)
    \/ CaptureSeed(f, s)
    \/ CaptureDelta(f, s, n)

-----------------------------------------------------------------------------
(* The calls, each whole under the gate.  A caller roused from its wait    *)
(* goes on with any of them, its own among them.                           *)

Keeping == enabled /\ ~withheld

FrameCompleted(s) ==
    /\ machine' = s
    /\ UNCHANGED <<enabled, interval, budget, work>>
    /\ \/ /\ caller = "idle"
          /\ ~Keeping
          /\ UNCHANGED <<withheld, clock, chain, mail, worker, caller>>
       \/ /\ caller = "idle"
          /\ Keeping
          /\ frames < MaxFrames
          /\ frames' = frames + 1
          /\ since_capture + 1 < interval
          /\ since_capture' = since_capture + 1
          /\ UNCHANGED <<withheld, chain, mail, worker, caller>>
       \/ /\ CanSettle
          /\ Keeping
          /\ frames < MaxFrames
          /\ frames' = frames + 1
          /\ since_capture + 1 >= interval
          /\ CaptureFailed(0) \/ Captured(frames + 1, s, 0)

\* A frame a breakpoint halts, or one that fails: it does not count as one.
FrameCutShort(s) ==
    /\ caller = "idle"
    /\ machine' = s
    /\ UNCHANGED <<settings, clock, chain, mail, thread, caller>>

TurnOn(i, b) ==
    /\ ~enabled
    /\ enabled' = TRUE
    /\ interval' = i
    /\ budget' = b
    /\ \/ /\ caller = "idle"
          /\ withheld
          /\ UNCHANGED <<withheld, since_capture, chain, mail, worker, caller>>
       \/ /\ CanSettle
          /\ ~withheld
          /\ CaptureFailed(since_capture) \/ Captured(frames, machine, since_capture)
    /\ UNCHANGED <<machine, frames, work>>

TurnOff(i, b) ==
    /\ CanSettle
    /\ enabled
    /\ enabled' = FALSE
    /\ interval' = i
    /\ budget' = b
    /\ chain' = Cleared(chain)
    /\ since_capture' = 0
    /\ done' = DoneTaken
    /\ UNCHANGED <<machine, withheld, frames, asked, quit, thread, caller>>

Tune(i, b) ==
    /\ caller = "idle"
    /\ interval' = i
    /\ budget' = b
    /\ UNCHANGED <<machine, enabled, withheld, clock, chain, mail, thread, caller>>

\* moments(), and a step or a jump that finds nothing to go back to.
Look ==
    /\ CanSettle
    /\ chain' = Settled(chain)
    /\ done' = DoneTaken
    /\ UNCHANGED <<machine, settings, clock, asked, quit, thread, caller>>

\* The chain moved back to c, and the engine with it to frame f unless it
\* refuses: the chain has moved by then, and the frame count has not.
GoBack(c, f) ==
    /\ chain' = c
    /\ done' = DoneTaken
    /\ \/ /\ machine' = c.newest
          /\ since_capture' = 0
          /\ frames' = f
       \/ UNCHANGED <<machine, clock>>
    /\ UNCHANGED <<settings, asked, quit, thread, caller>>

Step ==
    LET c == Settled(chain)
    IN  /\ CanSettle
        /\ c.newest # NoState
        /\ c.deltas # <<>>
        /\ GoBack(Undone(c, 1), Last(Undone(c, 1).moments))

StepsTo(c, i) == Len(c.moments) - i

To(f) ==
    LET c == Settled(chain)
    IN  /\ CanSettle
        /\ c.newest # NoState
        /\ \E i \in DOMAIN c.moments :
            /\ c.moments[i] = f
            /\ GoBack(Undone(c, StepsTo(c, i)), f)

\* The newest moment is of the frame the session is at.
HeldAlready == chain.moments # <<>> /\ Last(chain.moments) = frames

\* A state s loaded, or refused by the engine.
Load(s) ==
    \/ machine' = s
    \/ UNCHANGED machine

\* A state load: while rewind is on the present is kept first, unless held.
LoadState(s) ==
    /\ \/ /\ CanSettle
          /\ Keeping
          /\ ~HeldAlready
          /\ \/ CaptureFailed(since_capture) /\ UNCHANGED machine
             \/ Captured(frames, machine, since_capture) /\ Load(s)
       \/ /\ caller = "idle"
          /\ enabled
          /\ withheld \/ HeldAlready
          /\ Load(s)
          /\ UNCHANGED <<withheld, since_capture, chain, mail, worker, caller>>
       \/ /\ CanSettle
          /\ ~enabled
          /\ \/ /\ machine' = s
                /\ chain' = Cleared(chain)
                /\ since_capture' = 0
                /\ done' = DoneTaken
             \/ UNCHANGED <<machine, chain, since_capture, done>>
          /\ UNCHANGED <<withheld, asked, quit, worker, caller>>
    /\ UNCHANGED <<enabled, interval, budget, frames, work>>

Reset(s) ==
    /\ CanSettle
    /\ machine' = s
    /\ chain' = Cleared(chain)
    /\ since_capture' = 0
    /\ done' = DoneTaken
    /\ UNCHANGED <<settings, frames, asked, quit, thread, caller>>

\* The session's last holder lets it go, whatever the thread is at.
Dispose ==
    /\ caller = "idle"
    /\ IF worker \in {"none", "inline"}
       THEN /\ caller' = "gone"
            /\ chain' = EmptyChain
            /\ worker' = "none"
            /\ done' = NoJob
            /\ UNCHANGED quit
       ELSE Stop("disposing") /\ UNCHANGED <<chain, done>>
    /\ UNCHANGED <<machine, settings, clock, asked, work>>

Ended == caller = "gone" /\ UNCHANGED vars

-----------------------------------------------------------------------------
WorkerStep == Take \/ Park \/ Exit \/ Encoded

Next ==
    \/ \E s \in States :
        FrameCompleted(s) \/ FrameCutShort(s) \/ LoadState(s) \/ Reset(s)
    \/ \E i \in Intervals, b \in Budgets :
        TurnOn(i, b) \/ TurnOff(i, b) \/ Tune(i, b)
    \/ \E f \in 0 .. MaxFrames : To(f)
    \/ Step \/ Look \/ Await \/ Rouse \/ Dispose \/ Join
    \/ WorkerStep
    \/ Ended

Spec == Init /\ [][Next]_vars

\* The scheduler runs the encoding thread, and a caller whose join can end.
\* Nobody has to make a call, and no wait ends by itself.
Fairness == WF_vars(WorkerStep) /\ WF_vars(Join)

FairSpec == Spec /\ Fairness

-----------------------------------------------------------------------------
(* Every variable keeps its type: the shapes the fields of Rewind, Slots   *)
(* and Job have.                                                           *)
TypeOK ==
    /\ machine \in States
    /\ enabled \in BOOLEAN /\ withheld \in BOOLEAN /\ quit \in BOOLEAN
    /\ interval \in Intervals
    /\ budget \in Budgets
    /\ frames \in Nat
    /\ since_capture \in Nat
    /\ chain \in [newest : States \union {NoState}, deltas : Seq(Deltas),
                  delta_bytes : Nat, moments : Seq(Nat), encoding : BOOLEAN]
    /\ {asked, done, work} \subseteq Jobs \union {NoJob}
    /\ worker \in {"none", "inline", "looking", "parked", "encoding", "exited"}
    /\ caller \in {"idle", "waiting", "joining", "disposing", "gone"}

(* The moments stay in step with the chain: one for each delta, one for    *)
(* the newest snapshot, and two for the pair still encoding.  A moment     *)
(* more or fewer and rewind_to unwinds to another frame's state            *)
(* (trim_to_budget, drop_newest_moment, clear).                            *)
MomentsInStep ==
    Len(chain.moments) = Len(chain.deltas)
                         + (IF chain.newest # NoState THEN 1 ELSE 0)
                         + (IF chain.encoding THEN 2 ELSE 0)

(* No frame has two moments, they are in order, and none is of a frame the *)
(* session has not reached: the frame is the name a client goes back to a  *)
(* moment by (rewind_to, capture_unless_held, the frame count rewound).    *)
MomentsInOrder ==
    LET m == chain.moments
    IN  /\ \A i, j \in DOMAIN m : i < j => m[i] < m[j]
        /\ m # <<>> => Last(m) <= frames

(* The bytes counted are the bytes of the deltas held, through every trim, *)
(* step and clear: the budget is kept against the count alone.             *)
BytesAreTheDeltas == chain.delta_bytes = SizeOf(chain.deltas)

(* One job is out while a delta is encoding and none otherwise, in one     *)
(* place only, and there is a worker to hand it back: a settle never waits *)
(* for a job that cannot come, nor takes one of an earlier chain.          *)
OneJobOut ==
    LET out == {slot \in {"asked", "done", "work"} :
                    [asked |-> asked, done |-> done, work |-> work][slot] # NoJob}
    IN  /\ Cardinality(out) = (IF chain.encoding THEN 1 ELSE 0)
        /\ chain.encoding => worker # "none"

(* No history outlives what stopped it: nothing is held once rewind is off *)
(* or withheld, so nothing from before is ever gone back to.               *)
NothingHeldWhileOff == (~enabled \/ withheld) => chain = EmptyChain

(* The chain and what is counted of it hold together, through every trim,  *)
(* step, clear, load and change of settings between two encodings.         *)
ChainHoldsTogether ==
    TypeOK /\ MomentsInStep /\ MomentsInOrder /\ BytesAreTheDeltas /\ NothingHeldWhileOff

(* Whatever moves the chain while a delta is out takes the delta in first  *)
(* and leaves the bytes of its deltas within the budget in force: a look,  *)
(* a step, a jump, a load or a capture, the next delta going out at once   *)
(* (settle trims last, and one over the budget goes with all before it).   *)
SettledWithinBudget ==
    [][chain.encoding /\ chain' # chain => chain'.delta_bytes <= budget]_vars

-----------------------------------------------------------------------------
(* What the history holds: for each moment the snapshot its frame was left *)
(* in, found by undoing the deltas since from the newest whole one.         *)

JobOut == IF asked # NoJob THEN asked ELSE IF done # NoJob THEN done ELSE work

LastWhole == IF chain.encoding THEN JobOut.previous ELSE chain.newest

Unwound(n) == Apply(LastWhole, Together(Newest(chain.deltas, n)))

HeldAt(i) ==
    LET fromNewest == Len(chain.moments) - i
    IN  IF ~chain.encoding THEN Unwound(fromNewest)
        ELSE IF fromNewest = 0 THEN JobOut.state
        ELSE Unwound(fromNewest - 1)

Held == [f \in {chain.moments[i] : i \in DOMAIN chain.moments} |->
            HeldAt(CHOOSE i \in DOMAIN chain.moments : chain.moments[i] = f)]

History == INSTANCE RewindHistory WITH
    present <- machine,
    held <- Held

(* The chain of deltas is a history of whole snapshots: what is held for a *)
(* frame is what the machine was when it was taken and never changes, a    *)
(* step or a jump puts exactly that back and forgets the frames after it,  *)
(* and only the oldest are ever let go alone.                              *)
KeepsTheHistory == History!Spec

-----------------------------------------------------------------------------
(* A call that waits for the delta goes on, with no wake but the worker's  *)
(* (Mailbox: both sides wait on one condition variable).                   *)
WaitEnds == (caller = "waiting") ~> (caller # "waiting")

(* A session let go, and a capture that stops for good, get their thread   *)
(* back: the thread hears the word to stop wherever it stands.             *)
JoinEnds == (caller \in {"joining", "disposing"}) ~> (caller \in {"idle", "gone"})

(* Neither caller nor worker is ever left parked for the other: every wait *)
(* for the worker comes to its end.                                        *)
CallsComeBack == WaitEnds /\ JoinEnds
=============================================================================
