----------------------------- MODULE SessionGate -----------------------------
(***************************************************************************)
(* The gate of one open session (Platform/crystal/src/session.rs): the     *)
(* engine mutex, the count of waiters the frame thread yields to, the      *)
(* owner mark that turns a re-entrant take into a refusal, the slot that   *)
(* admits one frame thread, the closed flag, and the flag and condition    *)
(* variable a paused frame thread parks on.                                *)
(*                                                                         *)
(* Every shared atomic, mutex or condition variable the code touches is a  *)
(* step of its own, so the threads interleave as the build lets them.  Two *)
(* neighbouring accesses share a step only where no other thread can tell  *)
(* them apart.  What a read, a change or a frame does to the machine       *)
(* inside the gate is one step, Body; the run flags and the rewind chain   *)
(* it works on have modules of their own.  A body that fails follows the   *)
(* path of one that succeeds, as in the code, so the two are not told      *)
(* apart.                                                                  *)
(***************************************************************************)
EXTENDS Naturals, FiniteSets

CONSTANTS
    FrameThreads,  \* the threads that call frame and wait; a client has one
    Clients,       \* every other thread holding the session
    NoThread,      \* the 0 of owner, in_frame and frame_thread
    FrameCalls,    \* the calls a frame thread makes
    ClientCalls,   \* the calls a client thread makes
    MaxOvertaken   \* where the history of overtaking frames stops counting

Threads == FrameThreads \union Clients

\* "read" is any caller of lock(); "change" any caller of change(); "look" any
\* caller that takes the engine's mutex without lock(), such as info_json().
AllCalls == {"read", "change", "close", "frame", "wait", "look"}

ASSUME ThreadsAssumption ==
    /\ FrameThreads \cap Clients = {}
    /\ NoThread \notin Threads
    /\ IsFiniteSet(Threads)

ASSUME CallsAssumption ==
    /\ FrameCalls \subseteq AllCalls
    /\ ClientCalls \subseteq AllCalls \ {"frame", "wait"}

ASSUME BoundAssumption == MaxOvertaken \in Nat /\ MaxOvertaken > 1

VARIABLES
    engine,        \* the thread inside the engine's mutex
    owner,         \* the thread marked as holding the gate
    pending,       \* how many threads are counted as waiting for the gate
    in_frame,      \* the thread inside a frame call
    frame_thread,  \* the thread that last ran a frame or waited
    closed,        \* the session was closed
    woken,         \* the flag under the condition variable
    pc,            \* where each thread stands
    call,          \* the call each thread is making, or made last
    answer,        \* what that call answered
    overtaken      \* frames let in ahead of a counted waiter (history)

gate == <<engine, owner, pending, overtaken>>
wake == <<frame_thread, woken>>
vars == <<engine, owner, pending, in_frame, frame_thread, closed, woken,
          pc, call, answer, overtaken>>

CallsOf(t) == IF t \in FrameThreads THEN FrameCalls ELSE ClientCalls

Init ==
    /\ engine = NoThread
    /\ owner = NoThread
    /\ pending = 0
    /\ in_frame = NoThread
    /\ frame_thread = NoThread
    /\ closed = FALSE
    /\ woken = FALSE
    /\ pc = [t \in Threads |-> "idle"]
    /\ call = [t \in Threads |-> "read"]
    /\ answer = [t \in Threads |-> "none"]
    /\ overtaken = [t \in Threads |-> 0]

At(t, here) == pc[t] = here
Goto(t, there) == pc' = [pc EXCEPT ![t] = there]
Answer(t, what) == answer' = [answer EXCEPT ![t] = what]
Return(t, what) == Goto(t, "idle") /\ Answer(t, what)

-----------------------------------------------------------------------------
(* Calls.                                                                  *)

FirstStep == [read |-> "enter", change |-> "enter", close |-> "enter",
              frame |-> "claim", wait |-> "announce", look |-> "look"]

Call(t, c) ==
    /\ At(t, "idle")
    /\ call' = [call EXCEPT ![t] = c]
    /\ Answer(t, "none")
    /\ Goto(t, FirstStep[c])
    /\ UNCHANGED <<gate, wake, in_frame, closed>>

-----------------------------------------------------------------------------
(* frame(): the slot claimed, then the counted waiters let in first.       *)

Claim(t) ==
    /\ At(t, "claim")
    /\ in_frame = NoThread
    /\ in_frame' = t
    /\ Goto(t, "yield")
    /\ UNCHANGED <<gate, wake, closed, call, answer>>

ClaimRefused(t) ==
    /\ At(t, "claim")
    /\ in_frame # NoThread
    /\ Return(t, "busy")
    /\ UNCHANGED <<gate, wake, in_frame, closed, call>>

\* A faulty Yield: the frame does not wait for the waiters.
YieldToNobody(t) ==
    /\ At(t, "yield")
    /\ Goto(t, "enter")
    /\ UNCHANGED <<gate, wake, in_frame, closed, call, answer>>

Yield(t) ==
    /\ At(t, "yield")
    /\ pending = 0
    /\ Goto(t, "enter")
    /\ UNCHANGED <<gate, wake, in_frame, closed, call, answer>>

-----------------------------------------------------------------------------
(* lock(): counted, taken, uncounted, marked; refused once closed.         *)

Count(t) ==
    /\ At(t, "enter")
    /\ owner # t
    /\ pending' = pending + 1
    /\ Goto(t, "queued")
    /\ UNCHANGED <<engine, owner, overtaken, wake, in_frame, closed, call, answer>>

\* The mutex is not fair: any thread waiting for it may be next.  A frame that
\* is next has overtaken every thread still counted as waiting.
Overtake(t) ==
    [u \in Threads |->
        IF u = t THEN 0
        ELSE IF call[t] = "frame" /\ pc[u] = "queued" /\ overtaken[u] < MaxOvertaken
             THEN overtaken[u] + 1
        ELSE overtaken[u]]

Acquire(t) ==
    /\ At(t, "queued")
    /\ engine = NoThread
    /\ engine' = t
    /\ overtaken' = Overtake(t)
    /\ Goto(t, "taken")
    /\ UNCHANGED <<owner, pending, wake, in_frame, closed, call, answer>>

\* A faulty Uncount: a caller about to be refused leaves without uncounting.
UncountUnlessClosed(t) ==
    /\ At(t, "taken")
    /\ pending' = IF closed THEN pending ELSE pending - 1
    /\ Goto(t, "mark")
    /\ UNCHANGED <<engine, owner, overtaken, wake, in_frame, closed, call, answer>>

Uncount(t) ==
    /\ At(t, "taken")
    /\ pending' = pending - 1
    /\ Goto(t, "mark")
    /\ UNCHANGED <<engine, owner, overtaken, wake, in_frame, closed, call, answer>>

\* A faulty Mark: the closed flag is not looked at again inside the mutex.
MarkUnchecked(t) ==
    /\ At(t, "mark")
    /\ owner' = t
    /\ Goto(t, "hold")
    /\ UNCHANGED <<engine, pending, overtaken, wake, in_frame, closed, call, answer>>

Mark(t) ==
    /\ At(t, "mark")
    /\ owner' = t
    /\ \/ /\ ~closed
          /\ Goto(t, "hold")
          /\ UNCHANGED answer
       \/ /\ closed
          /\ Goto(t, "drop")
          /\ Answer(t, "no_session")
    /\ UNCHANGED <<engine, pending, overtaken, wake, in_frame, closed, call>>

\* What the gate is held for.  close() shuts the session under it; frame()
\* names its thread the frame thread.
Body(t) ==
    /\ At(t, "hold")
    /\ closed' = (closed \/ call[t] = "close")
    /\ frame_thread' = IF call[t] = "frame" THEN t ELSE frame_thread
    /\ Answer(t, "ok")
    /\ Goto(t, "drop")
    /\ UNCHANGED <<gate, woken, in_frame, call>>

\* Held's drop clears the mark before its field, the guard, frees the mutex.
Unmark(t) ==
    /\ At(t, "drop")
    /\ owner' = NoThread
    /\ Goto(t, "release")
    /\ UNCHANGED <<engine, pending, overtaken, wake, in_frame, closed, call, answer>>

AfterGate(t) ==
    CASE call[t] = "frame" -> "leave"
      [] call[t] \in {"change", "close"} /\ answer[t] = "ok" -> "tell"
      [] OTHER -> "idle"

Release(t) ==
    /\ At(t, "release")
    /\ engine' = NoThread
    /\ Goto(t, AfterGate(t))
    /\ UNCHANGED <<owner, pending, overtaken, wake, in_frame, closed, call, answer>>

Leave(t) ==
    /\ At(t, "leave")
    /\ in_frame' = NoThread
    /\ Goto(t, "idle")
    /\ UNCHANGED <<gate, wake, closed, call, answer>>

-----------------------------------------------------------------------------
(* change() and close(): the parked frame thread woken after the gate.     *)

AfterWake(t) == IF call[t] = "close" THEN "wake_again" ELSE "idle"

\* A faulty Tell: the test for the frame thread is the wrong way round.
TellTheOtherWay(t) ==
    /\ At(t, "tell")
    /\ Goto(t, IF frame_thread # t THEN AfterWake(t) ELSE "wake")
    /\ UNCHANGED <<gate, wake, in_frame, closed, call, answer>>

Tell(t) ==
    /\ At(t, "tell")
    /\ Goto(t, IF frame_thread = t THEN AfterWake(t) ELSE "wake")
    /\ UNCHANGED <<gate, wake, in_frame, closed, call, answer>>

\* A faulty WakeUp: the flag is set and nobody is notified.
WakeUpUnheard(t, there) ==
    /\ woken' = TRUE
    /\ Goto(t, there)
    /\ UNCHANGED <<gate, frame_thread, in_frame, closed, call, answer>>

\* woken is set under its mutex and every thread parked on the condition
\* variable is notified; each takes the mutex again before it returns.
WakeUp(t, there) ==
    /\ woken' = TRUE
    /\ pc' = [u \in Threads |->
                IF u = t THEN there
                ELSE IF pc[u] = "parked" THEN "roused" ELSE pc[u]]
    /\ UNCHANGED <<gate, frame_thread, in_frame, closed, call, answer>>

WakeOnce(t) == At(t, "wake") /\ WakeUp(t, AfterWake(t))
WakeAgain(t) == At(t, "wake_again") /\ WakeUp(t, "idle")

-----------------------------------------------------------------------------
(* wait(): parked until woken, or until the timeout.                       *)

Announce(t) ==
    /\ At(t, "announce")
    /\ frame_thread' = t
    /\ Goto(t, "check")
    /\ UNCHANGED <<gate, woken, in_frame, closed, call, answer>>

\* The flag is read, and the thread parked, under one hold of its mutex.
Park(t) ==
    /\ At(t, "check")
    /\ ~woken
    /\ Goto(t, "parked")
    /\ UNCHANGED <<gate, wake, in_frame, closed, call, answer>>

\* The timeout passing, or a wake of the condition variable nobody asked for.
TimeOut(t) ==
    /\ At(t, "parked")
    /\ Goto(t, "roused")
    /\ UNCHANGED <<gate, wake, in_frame, closed, call, answer>>

\* The flag is answered and taken, after a timeout as after a wake.
TakeFlag(t) ==
    /\ \/ At(t, "check") /\ woken
       \/ At(t, "roused")
    /\ woken' = FALSE
    /\ Return(t, IF woken THEN "woken" ELSE "timed_out")
    /\ UNCHANGED <<gate, frame_thread, in_frame, closed, call>>

-----------------------------------------------------------------------------
(* A look at the engine that takes its mutex and not the gate: neither     *)
(* counted, nor marked, nor refused on a closed session.                   *)

Look(t) ==
    /\ At(t, "look")
    /\ engine = NoThread
    /\ engine' = t
    /\ Goto(t, "looking")
    /\ UNCHANGED <<owner, pending, overtaken, wake, in_frame, closed, call, answer>>

Looked(t) ==
    /\ At(t, "looking")
    /\ engine' = NoThread
    /\ Return(t, "ok")
    /\ UNCHANGED <<owner, pending, overtaken, wake, in_frame, closed, call>>

-----------------------------------------------------------------------------
\* The steps a thread takes by itself once it is inside a call.
Step(t) ==
    \/ Claim(t) \/ ClaimRefused(t) \/ Yield(t)
    \/ Count(t) \/ Acquire(t) \/ Uncount(t) \/ Mark(t)
    \/ Body(t) \/ Unmark(t) \/ Release(t) \/ Leave(t)
    \/ Tell(t) \/ WakeOnce(t) \/ WakeAgain(t)
    \/ Announce(t) \/ Park(t) \/ TakeFlag(t)
    \/ Look(t) \/ Looked(t)

Next ==
    \E t \in Threads :
        \/ \E c \in CallsOf(t) : Call(t, c)
        \/ Step(t)
        \/ TimeOut(t)

Spec == Init /\ [][Next]_vars

\* The scheduler runs every thread that can go on.  Nobody has to make a call,
\* no timeout has to pass, and a mutex owes a waiter nothing: it may be taken
\* by others each time it is free.
Fairness == \A t \in Threads : WF_vars(Step(t))

FairSpec == Spec /\ Fairness

-----------------------------------------------------------------------------
Places == {"idle", "claim", "yield", "enter", "queued", "taken", "mark",
           "hold", "drop", "release", "leave", "tell", "wake", "wake_again",
           "announce", "check", "parked", "roused", "look", "looking"}

Answers == {"none", "ok", "no_session", "busy", "woken", "timed_out"}

(* Every variable keeps its type: the shapes the fields of Session have.   *)
TypeOK ==
    /\ engine \in Threads \union {NoThread}
    /\ owner \in Threads \union {NoThread}
    /\ pending \in Nat
    /\ in_frame \in Threads \union {NoThread}
    /\ frame_thread \in Threads \union {NoThread}
    /\ closed \in BOOLEAN
    /\ woken \in BOOLEAN
    /\ pc \in [Threads -> Places]
    /\ call \in [Threads -> AllCalls]
    /\ answer \in [Threads -> Answers]
    /\ overtaken \in [Threads -> 0 .. MaxOvertaken]

Counted == {t \in Threads : pc[t] \in {"queued", "taken"}}

(* The owner mark is the holder's for as long as the gate is held, and no  *)
(* thread comes to lock() marked.  So a second take by the holder is       *)
(* refused rather than deadlocked, and no other caller is refused for it   *)
(* (lock()'s check of owner, and the order in which Held is dropped).      *)
MarkedWhileHeld ==
    \A t \in Threads :
        /\ At(t, "hold") => owner = t /\ engine = t
        /\ At(t, "enter") => owner # t

(* The count the frame thread yields to is exactly the threads waiting:    *)
(* one too many and no frame ever runs again, one too few and a waiter is  *)
(* passed over (pending's two fetches in lock()).                          *)
PendingIsTheWaiters == pending = Cardinality(Counted)

(* Once a close has been applied no caller of lock() works on the engine,  *)
(* whenever it began to wait: the flag is read inside the mutex.           *)
ClosedLetsNobodyIn == \A t \in Threads : At(t, "hold") => ~closed

InsideFrame == {"yield", "enter", "queued", "taken", "mark", "hold",
                "drop", "release", "leave"}

(* The frame slot is held by the thread inside a frame call and by no      *)
(* other, and given back on every way out, the refused ones too: a slot    *)
(* left held would answer BUSY to every later frame.                       *)
FrameSlotIsTheCallers ==
    \A t \in Threads :
        in_frame = t <=> call[t] = "frame" /\ pc[t] \in InsideFrame

(* A counted waiter is overtaken by at most one frame: the one whose       *)
(* yield had already seen a count of zero when the waiter was counted.     *)
OvertakenAtMostOnce == \A t \in Threads : overtaken[t] <= 1

(* No wake is lost: a frame thread is never parked while the flag says a   *)
(* change was applied (wake_up() sets it and notifies under one mutex).    *)
NoLostWake == \A t \in Threads : At(t, "parked") => ~woken

-----------------------------------------------------------------------------
\* Calls other than frames, of other threads, take the gate for ever.
OthersKeepComing(t) == []<>(\E u \in Threads \ {t} : engine = u /\ call[u] # "frame")

(* A frame loop that never pauses starves no caller of lock(): a counted   *)
(* client gets the gate unless calls that are no frames keep taking it for *)
(* ever (EmuSen_Backend.md 29.28).                                         *)
ServedBesideFrames ==
    \A t \in Clients :
        (At(t, "queued") ~> ~At(t, "queued")) \/ OthersKeepComing(t)

(* A frame call comes to its end unless other calls keep taking the gate   *)
(* for ever: its yield waits for a count that goes back to zero.           *)
FrameComesThrough ==
    \A t \in FrameThreads :
        (At(t, "yield") ~> At(t, "idle")) \/ OthersKeepComing(t)

(* A change by another thread ends the frame thread's wait, with no help   *)
(* from the timeout (wake_up() after change() and close()).                *)
ChangeEndsTheWait ==
    \A f \in FrameThreads, t \in Clients :
        (At(f, "parked") /\ At(t, "hold") /\ call[t] \in {"change", "close"})
            ~> ~At(f, "parked")

-----------------------------------------------------------------------------
(* The gate keeps what GatePromise says.  A thread waits from its count to *)
(* the mutex, and is inside until its work is done or it is refused.       *)

GateCallers == {t \in Threads : call[t] # "look" /\ call[t] # "wait"}

ToldAs == [none |-> "nothing", ok |-> "done", no_session |-> "refused",
           busy |-> "nothing", woken |-> "nothing", timed_out |-> "nothing"]

LetInNow == IF \E t \in Threads : pc[t] \in {"taken", "mark", "hold"}
            THEN engine ELSE NoThread

Passed == [t \in {u \in Threads : pc[u] = "queued"} |-> overtaken[t]]

Told == [t \in Threads |-> IF t \in GateCallers THEN ToldAs[answer[t]] ELSE "nothing"]

Promise == INSTANCE GatePromise WITH
    inside <- LetInNow, framing <- in_frame, shut <- closed,
    passed <- Passed, told <- Told

(* Every step of the gate is a step GatePromise allows, or changes nothing *)
(* it speaks of: callers are let in alone, never into a closed session,    *)
(* frames one thread at a time and at most once ahead of a waiter.         *)
KeepsThePromise == Promise!Spec
=============================================================================
