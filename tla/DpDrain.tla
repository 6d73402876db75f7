------------------------------- MODULE DpDrain -------------------------------
(***************************************************************************)
(* The Nintendo 64's display list run on threads of its own                *)
(* (MarsRT - N64/src/memory/dp_threads.rs): the machine's thread publishes *)
(* the list's words into a ring, and N workers run every word, each on a   *)
(* processor of its own and the first of them, the leader, on the          *)
(* machine's.  The workers meet at a barrier for the words they cannot run *)
(* apart, stand still at one word when the machine asks for a snapshot,    *)
(* and park when there is nothing to run.                                  *)
(*                                                                         *)
(* Every access to a shared atomic is a step, and they interleave in one   *)
(* order for all threads, but for the one the code says is not: the look   *)
(* after a publish may come before the publish is seen, so it may miss any *)
(* worker that sleeps.  Reads of several flags in a row share a step where *)
(* a flag raised in between is seen by the next look or leaves a token.    *)
(* What a word draws is in DpMarks; the device's thread is left out.      *)
(***************************************************************************)
EXTENDS Integers, FiniteSets, FiniteSetsExt

CONSTANTS
    N,              \* the workers that share the list
    Ring,           \* the words the ring holds
    SnapshotWords,  \* the words a snapshot may carry
    MaxWords,       \* bound: the words of the list
    MaxHolds,       \* bound: the pauses asked for
    CanFail         \* whether a worker may panic

ASSUME DrainAssumption ==
    /\ N \in Nat \ {0}
    /\ Ring \in Nat \ {0}
    /\ SnapshotWords \in Nat
    /\ MaxWords \in Nat
    /\ MaxHolds \in Nat
    /\ CanFail \in BOOLEAN

Workers == 0 .. N - 1
leader == 0

\* What running a word asks of the workers, decided alike by each of them from
\* its own registers: nothing; that the leader runs it alone; that all have
\* come to it; that all have come to it and then all have run it.  One worker
\* has nobody to meet.
Steps == IF N = 1 THEN {"ready"} ELSE {"ready", "leader", "all", "joined"}

\* A worker that fell counts as past every word.
Far == MaxWords + 2

VARIABLES
    step,       \* the list: what each word asks, from the first worker to
                \* take it until the last has run it; undecided otherwise
    ring,       \* the word in each slot, counted from 1; 0 for none yet
    issued,     \* the words published
    completed,  \* the words each worker has run
    pc,         \* where each worker stands
    meeting,    \* which of a word's barriers a worker is at, 1 or 2
    seen,       \* the barrier's generation as the worker read it, arriving;
                \* -1 for none read yet
    arrived, generation,                \* the barrier
    sleeping, token,                    \* a worker's flag, and its park token
    pause_request, pause_at, pauses,    \* the pause asked for, and its word
    asked, standing, standing_at,       \* each worker's answer to it
    stopping, faulted,
    machine,    \* where the machine's thread stands
    goal,       \* the count it waits for
    after,      \* what it does then
    looked,     \* the pause's word and the next worker to look at
    holds       \* how often it holds

barrier == <<meeting, seen, arrived, generation>>
rest == <<sleeping, token>>
stands == <<asked, standing, standing_at>>
pausing == <<pause_request, pause_at, pauses, holds>>
list == <<step, ring, issued>>
mine == <<machine, goal, after, looked>>
vars == <<list, completed, pc, barrier, rest, stands, pausing, stopping,
          faulted, mine>>

Init ==
    /\ step = [n \in 1 .. MaxWords |-> "undecided"]
    /\ ring = [s \in 0 .. Ring - 1 |-> 0]
    /\ issued = 0
    /\ completed = [w \in Workers |-> 0]
    /\ pc = [w \in Workers |-> "top"]
    /\ meeting = [w \in Workers |-> 1]
    /\ seen = [w \in Workers |-> -1]
    /\ arrived = 0
    /\ generation = 0
    /\ sleeping = [w \in Workers |-> FALSE]
    /\ token = [w \in Workers |-> FALSE]
    /\ pause_request = 0
    /\ pause_at = -1
    /\ pauses = 0
    /\ holds = 0
    /\ asked = [w \in Workers |-> 0]
    /\ standing = [w \in Workers |-> 0]
    /\ standing_at = [w \in Workers |-> -1]
    /\ stopping = FALSE
    /\ faulted = FALSE
    /\ machine = "idle"
    /\ goal = 0
    /\ after = "idle"
    /\ looked = [at |-> -1, next |-> 0]

Completed == Min({completed[w] : w \in Workers})
Raised(to) == IF pause_at < to THEN to ELSE pause_at

At(w, here) == pc[w] = here
Goto(w, there) == pc' = [pc EXCEPT ![w] = there]

\* The word a worker is at, and what it asks.
Word(w) == completed[w] + 1
StepOf(w) == step[Word(w)]

-----------------------------------------------------------------------------
(* A worker's loop: stop, stand, sleep, or take the next word.             *)

Fetch(w) == Goto(w, IF completed[w] = issued THEN "doze" ELSE "gather")

Top(w) ==
    /\ At(w, "top")
    /\ \/ stopping /\ Goto(w, "home")
       \/ ~stopping /\ pause_request # 0 /\ Goto(w, "stand")
       \/ ~stopping /\ pause_request = 0 /\ Fetch(w)
    /\ UNCHANGED <<list, completed, barrier, rest, stands, pausing, stopping, faulted, mine>>

\* The word run, with what it drew, before its count passes it.
Done(w, s) ==
    /\ completed' = [completed EXCEPT ![w] = @ + 1]
    /\ Goto(w, "top")
    /\ step' = [step EXCEPT ![Word(w)] =
                    IF \A v \in Workers \ {w} : completed[v] >= Word(w)
                    THEN "undecided" ELSE s]

Gather(w) ==
    /\ At(w, "gather")
    /\ \E s \in IF StepOf(w) = "undecided" THEN Steps ELSE {StepOf(w)} :
           \/ s = "ready" /\ Done(w, s) /\ UNCHANGED meeting
           \/ /\ s # "ready"
              /\ step' = [step EXCEPT ![Word(w)] = s]
              /\ meeting' = [meeting EXCEPT ![w] = 1]
              /\ Goto(w, "generation")
              /\ UNCHANGED completed
    /\ UNCHANGED <<ring, issued, seen, arrived, generation, rest, stands, pausing, stopping, faulted, mine>>

Assemble(w) ==
    /\ At(w, "assemble")
    /\ Goto(w, "execute")
    /\ UNCHANGED <<list, completed, barrier, rest, stands, pausing, stopping, faulted, mine>>

\* A faulty Execute: a joined word is left without meeting again.
ExecuteUnjoined(w) ==
    /\ At(w, "execute")
    /\ IF StepOf(w) \in {"all", "joined"}
       THEN Done(w, StepOf(w)) /\ UNCHANGED meeting
       ELSE /\ meeting' = [meeting EXCEPT ![w] = 2]
            /\ Goto(w, "generation")
            /\ UNCHANGED <<step, completed>>
    /\ UNCHANGED <<ring, issued, seen, arrived, generation, rest, stands, pausing, stopping, faulted, mine>>

Execute(w) ==
    /\ At(w, "execute")
    /\ IF StepOf(w) = "all"
       THEN Done(w, StepOf(w)) /\ UNCHANGED meeting
       ELSE /\ meeting' = [meeting EXCEPT ![w] = 2]
            /\ Goto(w, "generation")
            /\ UNCHANGED <<step, completed>>
    /\ UNCHANGED <<ring, issued, seen, arrived, generation, rest, stands, pausing, stopping, faulted, mine>>

-----------------------------------------------------------------------------
(* The barrier.                                                            *)

ReadGeneration(w) ==
    /\ At(w, "generation")
    /\ seen' = [seen EXCEPT ![w] = generation]
    /\ Goto(w, "arrive")
    /\ UNCHANGED <<list, completed, meeting, arrived, generation, rest, stands, pausing, stopping, faulted, mine>>

\* The last to arrive empties the count before it opens the barrier.
Arrive(w) ==
    /\ At(w, "arrive")
    /\ IF arrived + 1 = N
       THEN arrived' = 0 /\ Goto(w, "open")
       ELSE arrived' = arrived + 1 /\ Goto(w, "wait")
    /\ UNCHANGED <<list, completed, meeting, seen, generation, rest, stands, pausing, stopping, faulted, mine>>

\* A faulty Through: the others run on past the word the leader is running.
ThroughAtOnce(w) ==
    \/ /\ meeting[w] = 2 \/ w # leader
       /\ Done(w, StepOf(w))
       /\ UNCHANGED meeting
    \/ /\ meeting[w] = 1 /\ w = leader
       /\ Goto(w, IF StepOf(w) = "leader" THEN "assemble" ELSE "execute")
       /\ UNCHANGED <<meeting, step, completed>>

\* Through the barrier: the leader's word is assembled and run by the leader
\* while the others are on their way to the second one.
Through(w) ==
    \/ /\ meeting[w] = 2
       /\ Done(w, StepOf(w))
       /\ UNCHANGED meeting
    \/ /\ meeting[w] = 1
       /\ IF StepOf(w) = "leader" /\ w # leader
          THEN Goto(w, "generation") /\ meeting' = [meeting EXCEPT ![w] = 2]
          ELSE /\ Goto(w, IF StepOf(w) = "leader" THEN "assemble" ELSE "execute")
               /\ UNCHANGED meeting
       /\ UNCHANGED <<step, completed>>

Open(w) ==
    /\ At(w, "open")
    /\ generation' = seen[w] + 1
    /\ Through(w)
    /\ UNCHANGED <<ring, issued, seen, arrived, rest, stands, pausing, stopping, faulted, mine>>

Pass(w) ==
    /\ At(w, "wait")
    /\ generation # seen[w] \/ faulted
    /\ Through(w)
    /\ UNCHANGED <<ring, issued, seen, arrived, generation, rest, stands, pausing, stopping, faulted, mine>>

GoHome(w) ==
    /\ At(w, "wait")
    /\ generation = seen[w]
    /\ ~faulted
    /\ stopping
    /\ Goto(w, "home")
    /\ UNCHANGED <<list, completed, barrier, rest, stands, pausing, stopping, faulted, mine>>

\* A faulty HearPause: a pause is not heard at a barrier.
HearNoPause(w) == FALSE

HearPause(w) ==
    /\ At(w, "wait")
    /\ generation = seen[w]
    /\ ~faulted
    /\ ~stopping
    /\ pause_request # 0
    /\ pause_at < Word(w)
    /\ Goto(w, "raise")
    /\ UNCHANGED <<list, completed, barrier, rest, stands, pausing, stopping, faulted, mine>>

\* The pause point raised past the word waited at, so that those who stand
\* before it come on to the barrier.
Raise(w) ==
    /\ At(w, "raise")
    /\ pause_at' = Raised(Word(w))
    /\ Goto(w, "wait")
    /\ UNCHANGED <<list, completed, barrier, rest, stands, pause_request, pauses, holds, stopping, faulted, mine>>

-----------------------------------------------------------------------------
(* Standing for a pause.                                                   *)

Stand(w) ==
    /\ At(w, "stand")
    /\ IF pause_request = 0 \/ stopping
       THEN Goto(w, "top") /\ UNCHANGED asked
       ELSE /\ asked' = [asked EXCEPT ![w] = pause_request]
            /\ Goto(w, "lift")
    /\ UNCHANGED <<list, completed, barrier, rest, standing, standing_at, pausing, stopping, faulted, mine>>

Lift(w) ==
    /\ At(w, "lift")
    /\ pause_at' = Raised(completed[w])
    /\ IF Raised(completed[w]) > completed[w]
       THEN Fetch(w) /\ asked' = [asked EXCEPT ![w] = 0]
       ELSE Goto(w, "answer") /\ UNCHANGED asked
    /\ UNCHANGED <<list, completed, barrier, rest, standing, standing_at, pause_request, pauses, holds, stopping, faulted, mine>>

Answer(w) ==
    /\ At(w, "answer")
    /\ standing_at' = [standing_at EXCEPT ![w] = completed[w]]
    /\ standing' = [standing EXCEPT ![w] = asked[w]]
    /\ asked' = [asked EXCEPT ![w] = 0]
    /\ Goto(w, "stand")
    /\ UNCHANGED <<list, completed, barrier, rest, pausing, stopping, faulted, mine>>

-----------------------------------------------------------------------------
(* Sleeping: the flag, one more look, the park.  The spinning before it    *)
(* only looks, as the worker has just done.                                *)

Wanted(w) == issued # completed[w] \/ pause_request # 0 \/ stopping

Doze(w) ==
    /\ At(w, "doze")
    /\ sleeping' = [sleeping EXCEPT ![w] = TRUE]
    /\ Goto(w, "check")
    /\ UNCHANGED <<list, completed, barrier, token, stands, pausing, stopping, faulted, mine>>

\* Up again; a kick before the flag is down would only leave a token more.
Wake(w) ==
    /\ sleeping' = [sleeping EXCEPT ![w] = FALSE]
    /\ Goto(w, "top")

Check(w) ==
    /\ At(w, "check")
    /\ IF Wanted(w) THEN Wake(w) ELSE Goto(w, "park") /\ UNCHANGED sleeping
    /\ UNCHANGED <<list, completed, barrier, token, stands, pausing, stopping, faulted, mine>>

\* A thread parks until it has a token, which it then spends.
Unparked(w) ==
    /\ At(w, "park")
    /\ token[w]
    /\ token' = [token EXCEPT ![w] = FALSE]
    /\ Wake(w)
    /\ UNCHANGED <<list, completed, barrier, stands, pausing, stopping, faulted, mine>>

Unpark(ws) == token' = [w \in Workers |-> token[w] \/ w \in ws]
Sleepers == {w \in Workers : sleeping[w]}

-----------------------------------------------------------------------------
(* Failing: a word that panics, after which the worker goes home.  A fault *)
(* the verifier records while the worker goes on is left out.              *)

Busy(w) == pc[w] \in {"gather", "assemble", "execute"}

Panic(w) ==
    /\ CanFail
    /\ Busy(w)
    /\ Goto(w, "fall")
    /\ faulted' = TRUE
    /\ UNCHANGED <<list, completed, barrier, rest, stands, pausing, stopping, mine>>

Fall(w) ==
    /\ At(w, "fall")
    /\ completed' = [completed EXCEPT ![w] = Far]
    /\ Goto(w, "home")
    /\ UNCHANGED <<list, barrier, rest, stands, pausing, stopping, faulted, mine>>

-----------------------------------------------------------------------------
(* The machine's thread.  Publishing, and waiting for room first.          *)

Idle == machine = "idle"
MachineGoes(there) == machine' = there
Kick == Unpark(Sleepers)
AllUnmoved == UNCHANGED <<completed, pc, barrier, stands, faulted>>

\* A faulty Room: one word more than the ring holds.
RoomForOneMore == issued - Completed <= Ring

Room == issued - Completed < Ring

NeedRoom ==
    /\ Idle
    /\ issued < MaxWords
    /\ ~Room
    /\ Kick
    /\ MachineGoes("room")
    /\ UNCHANGED <<list, sleeping, pausing, stopping, goal, after, looked>> /\ AllUnmoved

\* The word and its count, then a look for sleepers that is not ordered after
\* them: it may miss any.
Publish ==
    /\ Idle \/ (machine = "room" /\ ~faulted)
    /\ issued < MaxWords
    /\ Room
    /\ ring' = [ring EXCEPT ![issued % Ring] = issued + 1]
    /\ issued' = issued + 1
    /\ \E found \in SUBSET Sleepers : Unpark(found)
    /\ MachineGoes("idle")
    /\ UNCHANGED <<step, sleeping, pausing, stopping, goal, after, looked>> /\ AllUnmoved

\* A batch's end wakes whoever the looks missed.
EndBatch ==
    /\ Idle
    /\ Kick
    /\ UNCHANGED <<list, sleeping, pausing, stopping, mine>> /\ AllUnmoved

-----------------------------------------------------------------------------
(* Waiting for a count: of an access, a join, a hold, a stop.              *)

WaitUntil(words, next) ==
    /\ goal' = words
    /\ after' = next
    /\ MachineGoes("wait")
    /\ IF Completed < words THEN Kick ELSE UNCHANGED token

Access ==
    /\ Idle
    /\ \E words \in 1 .. issued : Completed < words /\ WaitUntil(words, "idle")
    /\ UNCHANGED <<list, sleeping, pausing, stopping, looked>> /\ AllUnmoved

Join ==
    /\ Idle
    /\ WaitUntil(issued, "joined")
    /\ UNCHANGED <<list, sleeping, pausing, stopping, looked>> /\ AllUnmoved

Stop ==
    /\ Idle
    /\ IF faulted
       THEN MachineGoes("end") /\ UNCHANGED <<token, goal, after>>
       ELSE WaitUntil(issued, "stopped")
    /\ UNCHANGED <<list, sleeping, pausing, stopping, looked>> /\ AllUnmoved

\* The machine is dropped with its drain running: nothing handed over is
\* waited for, and a worker may be at a barrier that will not open.
Drop ==
    /\ Idle
    /\ MachineGoes("end")
    /\ UNCHANGED <<list, rest, pausing, stopping, goal, after, looked>> /\ AllUnmoved

Arrived ==
    /\ machine = "wait"
    /\ Completed >= goal
    /\ ~faulted
    /\ MachineGoes(after)
    /\ goal' = 0 /\ after' = "idle"
    /\ UNCHANGED <<list, rest, pausing, stopping, looked>> /\ AllUnmoved

\* The leader's scratch put together, at a join and before a stop.
Assembled ==
    /\ machine \in {"joined", "stopped"}
    /\ MachineGoes(IF machine = "joined" THEN "idle" ELSE "end")
    /\ UNCHANGED <<list, rest, pausing, stopping, goal, after, looked>> /\ AllUnmoved

-----------------------------------------------------------------------------
(* Holding: the backlog brought within a snapshot, the pause asked for,    *)
(* and looked for at every worker until all stand at one word.             *)

Hold ==
    /\ Idle
    /\ pauses < MaxHolds
    /\ WaitUntil(issued - SnapshotWords, "hold")
    /\ UNCHANGED <<list, sleeping, pausing, stopping, looked>> /\ AllUnmoved

Ask ==
    /\ machine = "hold"
    /\ holds' = holds + 1
    /\ pauses' = pauses + 1
    /\ pause_request' = pauses + 1
    /\ Unpark(Workers)
    /\ MachineGoes("read")
    /\ UNCHANGED <<list, sleeping, pause_at, stopping, goal, after, looked>> /\ AllUnmoved

ReadPoint ==
    /\ machine = "read"
    /\ ~faulted
    /\ pause_at >= 0
    /\ looked' = [at |-> pause_at, next |-> 0]
    /\ MachineGoes("scan")
    /\ UNCHANGED <<list, rest, pausing, stopping, goal, after>> /\ AllUnmoved

\* A faulty StandsThere: an answer counts wherever the worker stood.
StandsSomewhere(w) == standing[w] = pauses

StandsThere(w) == standing[w] = pauses /\ standing_at[w] = looked.at

Scan ==
    /\ machine = "scan"
    /\ IF StandsThere(looked.next)
       THEN /\ looked' = [looked EXCEPT !.next = @ + 1]
            /\ MachineGoes(IF looked.next + 1 = N THEN "again" ELSE "scan")
       ELSE MachineGoes("read") /\ UNCHANGED looked
    /\ UNCHANGED <<list, rest, pausing, stopping, goal, after>> /\ AllUnmoved

ReadPointAgain ==
    /\ machine = "again"
    /\ MachineGoes(IF pause_at = looked.at THEN "gathered" ELSE "read")
    /\ UNCHANGED <<list, rest, pausing, stopping, goal, after, looked>> /\ AllUnmoved

AssembledHeld ==
    /\ machine = "gathered"
    /\ MachineGoes("held")
    /\ looked' = [at |-> -1, next |-> 0]
    /\ UNCHANGED <<list, rest, pausing, stopping, goal, after>> /\ AllUnmoved

\* A snapshot is sized under one hold and written under a second within it.
HoldAgain ==
    /\ machine = "held"
    /\ holds = 1
    /\ holds' = 2
    /\ UNCHANGED <<list, rest, pause_request, pause_at, pauses, stopping, mine>> /\ AllUnmoved

Resume ==
    /\ machine = "held"
    /\ holds' = holds - 1
    /\ IF holds = 1
       THEN pause_request' = 0 /\ MachineGoes("forget")
       ELSE UNCHANGED <<pause_request, machine>>
    /\ UNCHANGED <<list, rest, pause_at, pauses, stopping, goal, after, looked>> /\ AllUnmoved

Forget ==
    /\ machine = "forget"
    /\ pause_at' = -1
    /\ Unpark(Workers)
    /\ MachineGoes("idle")
    /\ UNCHANGED <<list, sleeping, pause_request, pauses, holds, stopping, goal, after, looked>> /\ AllUnmoved

-----------------------------------------------------------------------------
(* The end.  A fault is the machine's to raise wherever it checks, and the *)
(* drop that follows ends the workers as a stop does.                      *)

Rethrow ==
    /\ machine \in {"room", "wait", "read"}
    /\ faulted
    /\ MachineGoes("end")
    /\ UNCHANGED <<list, rest, pausing, stopping, goal, after, looked>> /\ AllUnmoved

End ==
    /\ machine = "end"
    /\ stopping' = TRUE
    /\ Unpark(Workers)
    /\ MachineGoes("ending")
    /\ UNCHANGED <<list, sleeping, pausing, goal, after, looked>> /\ AllUnmoved

Ended ==
    /\ machine = "ending"
    /\ \A w \in Workers : At(w, "home")
    /\ MachineGoes("ended")
    /\ UNCHANGED <<list, rest, pausing, stopping, goal, after, looked>> /\ AllUnmoved

\* The drain is gone; another one starts from Init.
Gone == machine = "ended" /\ UNCHANGED vars

-----------------------------------------------------------------------------

Worker(w) ==
    \/ Top(w)
    \/ Gather(w) \/ Assemble(w) \/ Execute(w)
    \/ ReadGeneration(w) \/ Arrive(w) \/ Open(w)
    \/ Pass(w) \/ GoHome(w) \/ HearPause(w) \/ Raise(w)
    \/ Stand(w) \/ Lift(w) \/ Answer(w)
    \/ Doze(w) \/ Check(w) \/ Unparked(w)
    \/ Fall(w)

\* What the machine does once it has begun, and never puts off.
MachineStep ==
    \/ (machine = "room" /\ Publish)
    \/ Arrived \/ Assembled
    \/ Ask \/ ReadPoint \/ Scan \/ ReadPointAgain \/ AssembledHeld
    \/ Forget \/ Rethrow \/ End \/ Ended

\* After a fault (bound) the machine only reads once more, or lets go.
MachineChoice ==
    \/ /\ ~faulted
       /\ NeedRoom \/ (Idle /\ Publish) \/ EndBatch \/ Join \/ Hold \/ HoldAgain
    \/ Access \/ Stop \/ Drop \/ Resume

Next ==
    \/ \E w \in Workers : Worker(w) \/ Panic(w)
    \/ MachineStep
    \/ MachineChoice
    \/ Gone

Spec == Init /\ [][Next]_vars

\* A scheduler runs every thread that can run.
FairSpec ==
    /\ Spec
    /\ \A w \in Workers : WF_vars(Worker(w))
    /\ WF_vars(MachineStep)

-----------------------------------------------------------------------------

Places == {"top", "gather", "assemble", "execute",
           "generation", "arrive", "open", "wait", "raise",
           "stand", "lift", "answer",
           "doze", "check", "park", "fall", "home"}

Resting == {"idle", "held", "ended"}
Working == {"room", "wait", "joined", "stopped", "hold",
            "read", "scan", "again", "gathered", "forget", "end", "ending"}

\* Every value is of the shape the code gives it.
TypeOK ==
    /\ step \in [1 .. MaxWords -> Steps \union {"undecided"}]
    /\ ring \in [0 .. Ring - 1 -> 0 .. MaxWords]
    /\ issued \in 0 .. MaxWords
    /\ completed \in [Workers -> Nat]
    /\ pc \in [Workers -> Places]
    /\ meeting \in [Workers -> {1, 2}]
    /\ seen \in [Workers -> Nat \union {-1}]
    /\ arrived \in 0 .. N - 1 /\ generation \in Nat
    /\ sleeping \in [Workers -> BOOLEAN] /\ token \in [Workers -> BOOLEAN]
    /\ pause_request \in Nat /\ pauses \in Nat /\ holds \in Nat
    /\ pause_at \in Int
    /\ asked \in [Workers -> Nat] /\ standing \in [Workers -> Nat]
    /\ standing_at \in [Workers -> Int]
    /\ stopping \in BOOLEAN /\ faulted \in BOOLEAN
    /\ machine \in Resting \union Working
    /\ goal \in Int
    /\ after \in {"idle", "joined", "stopped", "hold"}
    /\ looked \in [at : Int, next : 0 .. N]

\* A word stays in the ring until every worker has run it: the machine waits
\* for room before it writes over the oldest (publish, make_room).
UnreadWordsStay ==
    \A w \in Workers : \A n \in completed[w] + 1 .. issued :
        ring[(n - 1) % Ring] = n

\* The ring and the counts over it hold together.
RingHoldsTogether == TypeOK /\ UnreadWordsStay

\* Whoever puts the leader's scratch together, the leader between the two
\* barriers of a word it runs alone or the machine at a join, a stop or a
\* hold, no other worker is writing its own processor then (assemble).  After
\* a fault nobody waits at a barrier and this is not kept.
AssembledAlone ==
    ~faulted =>
        /\ At(leader, "assemble") =>
               \A w \in Workers \ {leader} : ~Busy(w)
        /\ machine \in {"joined", "stopped", "gathered"} =>
               \A w \in Workers : ~Busy(w)

\* A word the workers must meet for is run by none before all have run every
\* word before it, and one they must also leave together is passed by none
\* while any is still running it (run_worker's barriers).
SharedWordsInStep ==
    ~faulted =>
        \A w \in Workers : At(w, "execute") =>
            \A v \in Workers :
                /\ completed[v] >= completed[w]
                /\ StepOf(w) # "all" => completed[v] = completed[w]

HeldAt == IF machine \in {"gathered", "held"} THEN pause_at ELSE -1

Promise == INSTANCE DrainPromise WITH run <- completed, held <- HeldAt

\* The drain keeps what DrainPromise says: a word goes over none that is still
\* to run, and while the machine holds every worker is at the pause's one
\* word, none passes it, and what is left fits a snapshot (publish, make_room,
\* hold, stand, raise).
KeepsThePromise == Promise!Spec

\* Whatever the machine waits for comes: room, a count, a pause answered, the
\* workers gone, whoever sleeps, waits at a barrier, stands or has fallen.
MachineComesThrough == machine \in Working ~> machine \in Resting
=============================================================================
