---------------------------- MODULE DpDrain_proofs ----------------------------
(***************************************************************************)
(* What holds of the threaded display list for any number of workers, any  *)
(* ring, any list and any pauses, whether or not a worker falls: no word   *)
(* is published over one still to run, a snapshot is taken only while      *)
(* every worker stands at the pause's one word, and so the drain keeps     *)
(* what DrainPromise says.  And while none has fallen, the workers meet    *)
(* for the words they share and leave them together.                       *)
(***************************************************************************)
EXTENDS DpDrain, FiniteSetTheorems, WellFoundedInduction, TLAPS

AtBarrier == {"generation", "arrive", "open", "wait", "raise"}
Running == {"gather", "assemble", "execute"} \union AtBarrier
StandPlaces == {"stand", "lift", "answer"}

(* No worker runs past what is published, but one that fell, which counts  *)
(* as past all of it.                                                      *)
CountsFit ==
    \A w \in Workers :
        /\ completed[w] <= issued \/ (At(w, "home") /\ completed[w] = Far)
        /\ pc[w] \in Running => completed[w] < issued

(* What the machine waits for, and what it finds when that has come: it    *)
(* publishes nothing meanwhile.                                            *)
Holding == {"read", "scan", "again", "gathered", "held"}

GoalInv ==
    /\ machine = "wait" =>
          /\ after \in {"joined", "stopped"} => goal = issued
          /\ after = "hold" => goal = issued - SnapshotWords
    /\ machine \in {"joined", "stopped"} => \A w \in Workers : completed[w] >= issued
    /\ machine \in Holding \union {"hold"} =>
          \A w \in Workers : completed[w] >= issued - SnapshotWords

(* A pause is asked for from Ask to Resume, once or with one more within.  *)
HoldsInv ==
    /\ machine \in {"idle", "room", "wait", "joined", "stopped", "hold", "forget"} =>
          holds = 0 /\ pause_request = 0
    /\ machine \in Holding => holds >= 1
    /\ machine \in Holding => pause_request = pauses /\ pauses > 0
    /\ stopping => machine \in {"ending", "ended"}

(* Nobody has heard of a pause not asked for yet.                          *)
HeardInv ==
    /\ pause_request <= pauses
    /\ \A w \in Workers : asked[w] <= pauses /\ standing[w] <= pauses

(* Who answers the pause asked for has lifted its word to its own; and who *)
(* has answered stands where it said, unless the word was raised since.    *)
Asked(w, who) == pause_request # 0 /\ pause_request = pauses /\ who[w] = pauses

AnswerInv ==
    \A w \in Workers :
        At(w, "answer") /\ Asked(w, asked) => pause_at >= completed[w]

StoodInv ==
    \A w \in Workers :
        Asked(w, standing) /\ ~stopping =>
            \/ pause_at > standing_at[w]
            \/ /\ pause_at = standing_at[w]
               /\ completed[w] = standing_at[w]
               /\ pc[w] \in StandPlaces

(* A worker the machine has looked at stands at the word it looks for, or  *)
(* the word was raised since.                                              *)
ScanInv ==
    machine \in {"scan", "again"} =>
        /\ looked.at >= 0
        /\ looked.at <= pause_at
        /\ machine = "scan" => looked.next < N
        /\ machine = "again" => looked.next = N
        /\ \A w \in Workers : w < looked.next =>
              pause_at > looked.at \/ (completed[w] = looked.at /\ pc[w] \in StandPlaces)

(* While the machine holds, everybody stands at the pause's word.          *)
HeldInv ==
    machine \in {"gathered", "held"} =>
        /\ pause_at >= 0
        /\ \A w \in Workers : completed[w] = pause_at /\ pc[w] \in StandPlaces

DInv ==
    /\ TypeOK /\ UnreadWordsStay /\ CountsFit
    /\ GoalInv /\ HoldsInv /\ HeardInv
    /\ AnswerInv /\ StoodInv /\ ScanInv /\ HeldInv

-----------------------------------------------------------------------------
(* The least of some numbers.                                              *)
LEMMA MinOfNats ==
  ASSUME NEW S, S \subseteq Nat, S # {}
  PROVE  Min(S) \in S /\ \A y \in S : Min(S) <= y
<1>1. \E x \in S : \A y \in S : ~ (<<y, x>> \in OpToRel(<, Nat))
  BY WFMin, NatLessThanWellFounded
<1>2. PICK x \in S : \A y \in S : ~ (<<y, x>> \in OpToRel(<, Nat))
  BY <1>1
<1>3. \A y \in S : x <= y
  <2> TAKE y \in S
  <2>1. x \in Nat /\ y \in Nat
    OBVIOUS
  <2>2. <<y, x>> \in Nat \X Nat
    BY <2>1
  <2>3. ~(y < x)
    BY <1>2, <2>2 DEF OpToRel
  <2> QED BY <2>1, <2>3
<1> QED BY <1>3 DEF Min

(* Words fewer apart than the ring is long have slots of their own.        *)
LEMMA SlotsApart ==
  ASSUME NEW R \in Nat \ {0}, NEW a \in Nat, NEW b \in Nat, a < b, b - a < R
  PROVE  a % R # b % R
<1>1. a = R * (a \div R) + (a % R) /\ a \div R \in Int /\ a % R \in Int
  OBVIOUS
<1>2. b = R * (b \div R) + (b % R) /\ b \div R \in Int /\ b % R \in Int
  OBVIOUS
<1> DEFINE d == (b \div R) - (a \div R)
<1>3. SUFFICES ASSUME a % R = b % R PROVE FALSE
  OBVIOUS
<1>4. d \in Int /\ b - a = R * d
  BY <1>1, <1>2, <1>3
<1> HIDE DEF d
<1>5. CASE d <= 0
  <2>1. R * d <= 0
    BY <1>4, <1>5
  <2> QED BY <2>1, <1>4
<1>6. CASE d >= 1
  <2>1. R * d >= R
    BY <1>4, <1>6
  <2> QED BY <2>1, <1>4
<1> QED BY <1>4, <1>5, <1>6

(* The slowest worker has run no more than any.                            *)
LEMMA CompletedIsLeast ==
  ASSUME completed \in [Workers -> Nat]
  PROVE  Completed \in Nat /\ \A w \in Workers : Completed <= completed[w]
<1>1. {completed[w] : w \in Workers} \subseteq Nat
  OBVIOUS
<1>2. leader \in Workers
  BY DrainAssumption DEF Workers, leader
<1>3. {completed[w] : w \in Workers} # {}
  BY <1>2
<1> QED BY <1>1, <1>3, MinOfNats DEF Completed

-----------------------------------------------------------------------------
(* What any step of a worker does to the others, to its count and to the   *)
(* pause; and that it touches nothing of the machine's.                    *)
WorkerMoves(w) ==
    /\ UNCHANGED <<ring, issued, pause_request, pauses, holds, stopping, mine>>
    /\ \A v \in Workers \ {w} :
          /\ pc'[v] = pc[v] /\ completed'[v] = completed[v]
          /\ asked'[v] = asked[v]
          /\ standing'[v] = standing[v] /\ standing_at'[v] = standing_at[v]
    /\ pc[w] # "home"
    /\ \/ completed'[w] = completed[w]
       \/ pc[w] \in Running /\ completed'[w] = completed[w] + 1 /\ pc'[w] = "top"
       \/ At(w, "fall") /\ completed'[w] = Far /\ pc'[w] = "home"
    /\ pc'[w] \in Running => pc[w] \in Running \/ completed[w] # issued

PauseMoves(w) ==
    /\ asked'[w] \in {asked[w], 0, pause_request}
    /\ pc'[w] = "answer" => asked'[w] = asked[w] /\ pause_at' >= completed[w]
                            /\ completed'[w] = completed[w]
    /\ \/ standing'[w] = standing[w] /\ standing_at'[w] = standing_at[w]
       \/ /\ At(w, "answer")
          /\ standing'[w] = asked[w] /\ standing_at'[w] = completed[w]
          /\ pause_at' = pause_at /\ completed'[w] = completed[w]
          /\ pc'[w] = "stand"
    /\ pause_at' \in Int /\ pause_at' >= pause_at
    /\ pause_at' # pause_at => At(w, "raise") \/ (At(w, "lift") /\ pause_at' = completed[w])
    /\ pc[w] \in StandPlaces =>
          /\ completed'[w] = completed[w]
          /\ \/ pc'[w] \in StandPlaces
             \/ pause_request = 0 \/ stopping
             \/ pause_at' > completed[w]

LEMMA WorkerSteps ==
  ASSUME TypeOK, NEW w \in Workers, Worker(w) \/ Panic(w)
  PROVE  WorkerMoves(w) /\ PauseMoves(w)
<1> USE DEF TypeOK, WorkerMoves, PauseMoves, At, Goto, Done, Fetch, Running, AtBarrier, StandPlaces,
            Raised, Word, pausing, stands, list, barrier, rest, mine
<1>1. CASE Top(w) BY <1>1 DEF Top
<1>2. CASE Gather(w) BY <1>2 DEF Gather
<1>3. CASE Assemble(w) BY <1>3 DEF Assemble
<1>4. CASE Execute(w) BY <1>4 DEF Execute
<1>5. CASE ReadGeneration(w) BY <1>5 DEF ReadGeneration
<1>6. CASE Arrive(w) BY <1>6 DEF Arrive
<1>7. CASE Open(w) BY <1>7 DEF Open, Through
<1>8. CASE Pass(w) BY <1>8 DEF Pass, Through
<1>9. CASE GoHome(w) BY <1>9 DEF GoHome
<1>10. CASE HearPause(w) BY <1>10 DEF HearPause
<1>11. CASE Raise(w) BY <1>11 DEF Raise
<1>12. CASE Stand(w) BY <1>12 DEF Stand
<1>13. CASE Lift(w) BY <1>13 DEF Lift
<1>14. CASE Answer(w) BY <1>14 DEF Answer
<1>15. CASE Doze(w) BY <1>15 DEF Doze
<1>16. CASE Check(w) BY <1>16 DEF Check, Wake
<1>17. CASE Unparked(w) BY <1>17 DEF Unparked, Wake
<1>18. CASE Fall(w) BY <1>18 DEF Fall
<1>19. CASE Panic(w) BY <1>19 DEF Panic, Busy
<1> QED
  BY <1>1, <1>2, <1>3, <1>4, <1>5, <1>6, <1>7, <1>8, <1>9, <1>10, <1>11, <1>12,
     <1>13, <1>14, <1>15, <1>16, <1>17, <1>18, <1>19 DEF Worker

-----------------------------------------------------------------------------
(* The invariant holds at the start.                                       *)
LEMMA InitDInv == Init => DInv
<1> SUFFICES ASSUME Init PROVE DInv
  OBVIOUS
<1> USE DrainAssumption DEF Init, At
<1>1. TypeOK
  <2>1. sleeping \in [Workers -> BOOLEAN] /\ token \in [Workers -> BOOLEAN]
    BY Zenon
  <2>2. stopping \in BOOLEAN /\ faulted \in BOOLEAN
    BY Zenon
  <2>3. ring \in [0 .. Ring - 1 -> 0 .. MaxWords] /\ arrived \in 0 .. N - 1
    OBVIOUS
  <2>4. looked \in [at : Int, next : 0 .. N]
    OBVIOUS
  <2>5. step \in [1 .. MaxWords -> Steps \union {"undecided"}] /\ pc \in [Workers -> Places]
    BY DEF Places
  <2> QED BY <2>1, <2>2, <2>3, <2>4, <2>5 DEF TypeOK, Resting
<1>2. UnreadWordsStay /\ CountsFit
  BY DEF UnreadWordsStay, CountsFit, Running, AtBarrier
<1>3. GoalInv /\ HoldsInv /\ HeardInv
  BY DEF GoalInv, HoldsInv, HeardInv, Holding
<1>4. AnswerInv /\ StoodInv /\ ScanInv /\ HeldInv
  BY DEF AnswerInv, StoodInv, ScanInv, HeldInv, Asked
<1> QED BY <1>1, <1>2, <1>3, <1>4 DEF DInv

-----------------------------------------------------------------------------
(* The types are kept.  The flags first, which are plain logic.            *)
Flags ==
    /\ sleeping \in [Workers -> BOOLEAN] /\ token \in [Workers -> BOOLEAN]
    /\ stopping \in BOOLEAN /\ faulted \in BOOLEAN

Listed ==
    /\ step \in [1 .. MaxWords -> Steps \union {"undecided"}]
    /\ ring \in [0 .. Ring - 1 -> 0 .. MaxWords]
    /\ issued \in 0 .. MaxWords
    /\ completed \in [Workers -> Nat]

Placed ==
    /\ pc \in [Workers -> Places]
    /\ meeting \in [Workers -> {1, 2}]
    /\ seen \in [Workers -> Nat \union {-1}]
    /\ arrived \in 0 .. N - 1 /\ generation \in Nat

Pausing ==
    /\ pause_request \in Nat /\ pauses \in Nat /\ holds \in Nat
    /\ pause_at \in Int
    /\ asked \in [Workers -> Nat] /\ standing \in [Workers -> Nat]
    /\ standing_at \in [Workers -> Int]
    /\ machine \in Resting \union Working
    /\ goal \in Int
    /\ after \in {"idle", "joined", "stopped", "hold"}
    /\ looked \in [at : Int, next : 0 .. N]

LEMMA TypeParts == TypeOK <=> Flags /\ Listed /\ Placed /\ Pausing
BY Zenon DEF TypeOK, Flags, Listed, Placed, Pausing

LEMMA FlagsKept ==
  ASSUME Flags, [Next]_vars
  PROVE  Flags'
<1>1. ASSUME NEW w \in Workers, Worker(w) \/ Panic(w) PROVE Flags'
  <2>1. CASE Doze(w) \/ Check(w) \/ Unparked(w)
    BY <2>1, Zenon DEF Doze, Check, Unparked, Wake, Flags, stands
  <2>2. CASE Panic(w)
    BY <2>2, Zenon DEF Panic, Flags, rest
  <2>3. CASE Worker(w) /\ ~(Doze(w) \/ Check(w) \/ Unparked(w))
    <3>1. UNCHANGED <<rest, stopping, faulted>>
      BY <2>3, Zenon DEF Worker, Top, Gather, Assemble, Execute, ReadGeneration, Arrive, Open, Pass,
         GoHome, HearPause, Raise, Stand, Lift, Answer, Fall
    <3> QED BY <3>1, Zenon DEF rest, Flags
  <2> QED BY <1>1, <2>1, <2>2, <2>3
<1>2. ASSUME NEW ws, Unpark(ws) PROVE token' \in [Workers -> BOOLEAN]
  BY <1>2, Zenon DEF Unpark
<1>3. CASE MachineStep \/ MachineChoice
  <2>1. UNCHANGED <<sleeping, faulted>>
    BY <1>3, Zenon DEF MachineStep, MachineChoice, NeedRoom, Publish, EndBatch, Access, Join, Stop, Drop,
       Arrived, Assembled, Hold, Ask, ReadPoint, Scan, ReadPointAgain, AssembledHeld, HoldAgain, Resume,
       Forget, Rethrow, End, Ended, AllUnmoved, rest
  <2>2. UNCHANGED stopping \/ stopping' = TRUE
    BY <1>3, Zenon DEF MachineStep, MachineChoice, NeedRoom, Publish, EndBatch, Access, Join, Stop, Drop,
       Arrived, Assembled, Hold, Ask, ReadPoint, Scan, ReadPointAgain, AssembledHeld, HoldAgain, Resume,
       Forget, Rethrow, End, Ended
  <2>3. UNCHANGED token \/ \E ws : Unpark(ws)
    BY <1>3, Zenon DEF MachineStep, MachineChoice, NeedRoom, Publish, EndBatch, Access, Join, Stop, Drop,
       Arrived, Assembled, Hold, Ask, ReadPoint, Scan, ReadPointAgain, AssembledHeld, HoldAgain, Resume,
       Forget, Rethrow, End, Ended, Kick, WaitUntil, rest
  <2> QED BY <1>2, <2>1, <2>2, <2>3, Zenon DEF Flags
<1>4. CASE UNCHANGED vars
  BY <1>4, Zenon DEF vars, rest, Flags
<1> QED BY <1>1, <1>3, <1>4, Zenon DEF Next, Gone

LEMMA DoneKept ==
  ASSUME Listed, NEW w \in Workers, NEW s \in Steps \union {"undecided"}, Done(w, s)
  PROVE  /\ step' \in [1 .. MaxWords -> Steps \union {"undecided"}]
         /\ completed' \in [Workers -> Nat]
<1>1. PICK x \in Steps \union {"undecided"} : step' = [step EXCEPT ![Word(w)] = x]
  BY Zenon DEF Done
<1>2. completed' = [completed EXCEPT ![w] = completed[w] + 1]
  BY DEF Done
<1>3. step' \in [1 .. MaxWords -> Steps \union {"undecided"}]
  BY <1>1, Zenon DEF Listed
<1>4. completed[w] + 1 \in Nat
  BY DEF Listed
<1>5. completed' \in [Workers -> Nat]
  BY <1>2, <1>4, Zenon DEF Listed
<1> QED BY <1>3, <1>5

LEMMA ListedKept ==
  ASSUME Listed, Placed, CountsFit, NEW w \in Workers, Worker(w) \/ Panic(w)
  PROVE  Listed'
<1> USE DrainAssumption
    DEF Listed, Placed, CountsFit, Running, AtBarrier, At, Goto, Word, StepOf, list
<1> Far \in Nat
  BY DEF Far
<1>1. CASE Top(w) BY <1>1 DEF Top
<1>2. CASE Gather(w)
  <2>1. StepOf(w) \in Steps \union {"undecided"}
    BY <1>2 DEF Gather
  <2> QED BY <1>2, <2>1, DoneKept DEF Gather
<1>3. CASE Assemble(w) BY <1>3 DEF Assemble
<1>4. CASE Execute(w)
  <2>1. StepOf(w) \in Steps \union {"undecided"}
    BY <1>4 DEF Execute
  <2> QED BY <1>4, <2>1, DoneKept DEF Execute
<1>5. CASE ReadGeneration(w) BY <1>5 DEF ReadGeneration
<1>6. CASE Arrive(w) BY <1>6 DEF Arrive
<1>7. CASE Open(w)
  <2>1. StepOf(w) \in Steps \union {"undecided"}
    BY <1>7 DEF Open
  <2> QED BY <1>7, <2>1, DoneKept DEF Open, Through
<1>8. CASE Pass(w)
  <2>1. StepOf(w) \in Steps \union {"undecided"}
    BY <1>8 DEF Pass
  <2> QED BY <1>8, <2>1, DoneKept DEF Pass, Through
<1>9. CASE GoHome(w) BY <1>9 DEF GoHome
<1>10. CASE HearPause(w) BY <1>10 DEF HearPause
<1>11. CASE Raise(w) BY <1>11 DEF Raise
<1>12. CASE Stand(w) BY <1>12 DEF Stand
<1>13. CASE Lift(w) BY <1>13 DEF Lift
<1>14. CASE Answer(w) BY <1>14 DEF Answer
<1>15. CASE Doze(w) BY <1>15 DEF Doze
<1>16. CASE Check(w) BY <1>16 DEF Check, Wake
<1>17. CASE Unparked(w) BY <1>17 DEF Unparked, Wake
<1>18. CASE Fall(w) BY <1>18 DEF Fall
<1>19. CASE Panic(w) BY <1>19 DEF Panic
<1> QED
  BY <1>1, <1>2, <1>3, <1>4, <1>5, <1>6, <1>7, <1>8, <1>9, <1>10, <1>11, <1>12, <1>13, <1>14, <1>15, <1>16, <1>17, <1>18, <1>19 DEF Worker

LEMMA PlacedKept ==
  ASSUME Placed, NEW w \in Workers, Worker(w) \/ Panic(w)
  PROVE  Placed'
<1> USE DrainAssumption DEF Placed, Places, At, Goto, Fetch, barrier
<1>1. CASE Top(w) BY <1>1 DEF Top
<1>2. CASE Gather(w) BY <1>2 DEF Gather, Done
<1>3. CASE Assemble(w) BY <1>3 DEF Assemble
<1>4. CASE Execute(w) BY <1>4 DEF Execute, Done
<1>5. CASE ReadGeneration(w) BY <1>5 DEF ReadGeneration
<1>6. CASE Arrive(w) BY <1>6 DEF Arrive
<1>7. CASE Open(w) BY <1>7 DEF Open, Through, Done
<1>8. CASE Pass(w) BY <1>8 DEF Pass, Through, Done
<1>9. CASE GoHome(w) BY <1>9 DEF GoHome
<1>10. CASE HearPause(w) BY <1>10 DEF HearPause
<1>11. CASE Raise(w) BY <1>11 DEF Raise
<1>12. CASE Stand(w) BY <1>12 DEF Stand
<1>13. CASE Lift(w) BY <1>13 DEF Lift
<1>14. CASE Answer(w) BY <1>14 DEF Answer
<1>15. CASE Doze(w) BY <1>15 DEF Doze
<1>16. CASE Check(w) BY <1>16 DEF Check, Wake
<1>17. CASE Unparked(w) BY <1>17 DEF Unparked, Wake
<1>18. CASE Fall(w) BY <1>18 DEF Fall
<1>19. CASE Panic(w) BY <1>19 DEF Panic
<1> QED
  BY <1>1, <1>2, <1>3, <1>4, <1>5, <1>6, <1>7, <1>8, <1>9, <1>10, <1>11, <1>12, <1>13, <1>14, <1>15, <1>16, <1>17, <1>18, <1>19 DEF Worker

LEMMA PausingKept ==
  ASSUME Placed, Pausing, completed \in [Workers -> Nat], NEW w \in Workers, Worker(w) \/ Panic(w)
  PROVE  Pausing'
<1> USE DEF Pausing, Raised, At, Word, pausing, stands, mine
<1>1. CASE Top(w) BY <1>1 DEF Top
<1>2. CASE Gather(w) BY <1>2 DEF Gather, Done
<1>3. CASE Assemble(w) BY <1>3 DEF Assemble
<1>4. CASE Execute(w) BY <1>4 DEF Execute, Done
<1>5. CASE ReadGeneration(w) BY <1>5 DEF ReadGeneration
<1>6. CASE Arrive(w) BY <1>6 DEF Arrive
<1>7. CASE Open(w) BY <1>7 DEF Open, Through, Done
<1>8. CASE Pass(w) BY <1>8 DEF Pass, Through, Done
<1>9. CASE GoHome(w) BY <1>9 DEF GoHome
<1>10. CASE HearPause(w) BY <1>10 DEF HearPause
<1>11. CASE Raise(w) BY <1>11 DEF Raise
<1>12. CASE Stand(w) BY <1>12 DEF Stand
<1>13. CASE Lift(w) BY <1>13 DEF Lift
<1>14. CASE Answer(w) BY <1>14 DEF Answer
<1>15. CASE Doze(w) BY <1>15 DEF Doze
<1>16. CASE Check(w) BY <1>16 DEF Check, Wake
<1>17. CASE Unparked(w) BY <1>17 DEF Unparked, Wake
<1>18. CASE Fall(w) BY <1>18 DEF Fall
<1>19. CASE Panic(w) BY <1>19 DEF Panic
<1> QED
  BY <1>1, <1>2, <1>3, <1>4, <1>5, <1>6, <1>7, <1>8, <1>9, <1>10, <1>11, <1>12, <1>13, <1>14, <1>15, <1>16, <1>17, <1>18, <1>19 DEF Worker

(* What any step of the machine does: it moves no worker.                  *)
MachineMoves == MachineStep \/ MachineChoice

LEMMA MachineTypes ==
  ASSUME Listed, Placed, Pausing, HoldsInv, ScanInv, MachineMoves
  PROVE  Listed' /\ Placed' /\ Pausing'
<1> USE DrainAssumption
    DEF Listed, Pausing, HoldsInv, Holding, ScanInv, Resting, Working, MachineGoes, AllUnmoved,
        Idle, pausing, stands, list, mine
<1>0. UNCHANGED <<completed, pc, barrier>> /\ Placed'
  <2>1. UNCHANGED <<completed, pc, barrier>>
    BY Zenon DEF MachineMoves, MachineStep, MachineChoice, NeedRoom, Publish, EndBatch, Access, Join, Stop, Drop, Arrived, Assembled, Hold, Ask, ReadPoint, Scan, ReadPointAgain, AssembledHeld, HoldAgain, Resume, Forget, Rethrow, End, Ended
  <2> QED BY <2>1 DEF Placed, barrier
<1>1. CASE NeedRoom BY <1>0, <1>1 DEF NeedRoom
<1>2. CASE Publish BY <1>0, <1>2 DEF Publish
<1>3. CASE EndBatch BY <1>0, <1>3 DEF EndBatch
<1>4. CASE Access BY <1>0, <1>4 DEF Access, WaitUntil
<1>5. CASE Join BY <1>0, <1>5 DEF Join, WaitUntil
<1>6. CASE Stop BY <1>0, <1>6 DEF Stop, WaitUntil
<1>7. CASE Drop BY <1>0, <1>7 DEF Drop
<1>8. CASE Arrived BY <1>0, <1>8 DEF Arrived
<1>9. CASE Assembled BY <1>0, <1>9 DEF Assembled
<1>10. CASE Hold BY <1>0, <1>10 DEF Hold, WaitUntil
<1>11. CASE Ask BY <1>0, <1>11 DEF Ask
<1>12. CASE ReadPoint BY <1>0, <1>12 DEF ReadPoint
<1>13. CASE Scan
  <2>1. looked.next \in 0 .. N /\ looked.next < N /\ looked.at \in Int
    BY <1>13 DEF Scan
  <2>2. looked' \in [at : Int, next : 0 .. N]
    BY <1>13, <2>1 DEF Scan
  <2> QED BY <1>0, <1>13, <2>2 DEF Scan
<1>14. CASE ReadPointAgain BY <1>0, <1>14 DEF ReadPointAgain
<1>15. CASE AssembledHeld BY <1>0, <1>15 DEF AssembledHeld
<1>16. CASE HoldAgain BY <1>0, <1>16 DEF HoldAgain
<1>17. CASE Resume BY <1>0, <1>17 DEF Resume
<1>18. CASE Forget BY <1>0, <1>18 DEF Forget
<1>19. CASE Rethrow BY <1>0, <1>19 DEF Rethrow
<1>20. CASE End BY <1>0, <1>20 DEF End
<1>21. CASE Ended BY <1>0, <1>21 DEF Ended
<1> QED
  BY <1>1, <1>2, <1>3, <1>4, <1>5, <1>6, <1>7, <1>8, <1>9, <1>10, <1>11, <1>12, <1>13, <1>14, <1>15, <1>16, <1>17, <1>18, <1>19, <1>20, <1>21, <1>0 DEF MachineMoves, MachineStep, MachineChoice

LEMMA TypeKept == DInv /\ [Next]_vars => TypeOK'
<1> SUFFICES ASSUME DInv, [Next]_vars PROVE TypeOK'
  OBVIOUS
<1>1. Flags /\ Listed /\ Placed /\ Pausing /\ CountsFit /\ HoldsInv /\ ScanInv
  BY TypeParts DEF DInv
<1>2. Flags'
  BY <1>1, FlagsKept
<1>3. Listed' /\ Placed' /\ Pausing'
  <2>1. ASSUME NEW w \in Workers, Worker(w) \/ Panic(w) PROVE Listed' /\ Placed' /\ Pausing'
    BY <1>1, <2>1, ListedKept, PlacedKept, PausingKept DEF Listed
  <2>2. CASE MachineMoves
    BY <1>1, <2>2, MachineTypes
  <2>3. CASE UNCHANGED vars
    BY <1>1, <2>3 DEF Listed, Placed, Pausing, vars, list, barrier, stands, pausing, mine
  <2> QED BY <2>1, <2>2, <2>3 DEF Next, MachineMoves, Gone
<1>4. TypeOK' <=> Flags' /\ Listed' /\ Placed' /\ Pausing'
  BY Zenon DEF TypeOK, Flags, Listed, Placed, Pausing
<1> QED BY <1>2, <1>3, <1>4

-----------------------------------------------------------------------------
(* No worker runs past what is published.                                  *)
LEMMA CountsKept ==
  ASSUME TypeOK, CountsFit, [Next]_vars
  PROVE  CountsFit'
<1> USE DEF CountsFit, At, TypeOK
<1>1. ASSUME NEW w \in Workers, WorkerMoves(w) PROVE CountsFit'
  <2>1. /\ completed'[w] <= issued' \/ (pc'[w] = "home" /\ completed'[w] = Far)
        /\ pc'[w] \in Running => completed'[w] < issued'
    BY <1>1 DEF WorkerMoves, Running, AtBarrier
  <2> QED BY <1>1, <2>1 DEF WorkerMoves
<1>2. CASE MachineMoves
  <2>1. UNCHANGED <<completed, pc>>
    BY <1>2, Zenon DEF MachineMoves, MachineStep, MachineChoice, NeedRoom, Publish, EndBatch, Access,
       Join, Stop, Drop, Arrived, Assembled, Hold, Ask, ReadPoint, Scan, ReadPointAgain,
       AssembledHeld, HoldAgain, Resume, Forget, Rethrow, End, Ended, AllUnmoved
  <2>2. issued' = issued \/ issued' = issued + 1
    BY <1>2, Zenon DEF MachineMoves, MachineStep, MachineChoice, NeedRoom, Publish, EndBatch, Access,
       Join, Stop, Drop, Arrived, Assembled, Hold, Ask, ReadPoint, Scan, ReadPointAgain,
       AssembledHeld, HoldAgain, Resume, Forget, Rethrow, End, Ended, list
  <2> QED BY <2>1, <2>2
<1>3. CASE UNCHANGED vars
  BY <1>3 DEF vars, list
<1> QED BY <1>1, <1>2, <1>3, WorkerSteps DEF Next, MachineMoves, Gone

(* A word stays until all have run it: a slot is written over only once    *)
(* the word in it is behind every worker.                                  *)
LEMMA WordsKept ==
  ASSUME TypeOK, CountsFit, UnreadWordsStay, [Next]_vars
  PROVE  UnreadWordsStay'
<1>1. ASSUME NEW w \in Workers, WorkerMoves(w) PROVE UnreadWordsStay'
  <2>1. completed'[w] \in Nat /\ (completed'[w] >= completed[w] \/ completed'[w] > issued)
    BY <1>1, DrainAssumption DEF WorkerMoves, TypeOK, Far
  <2>2. ASSUME NEW v \in Workers, NEW n \in completed'[v] + 1 .. issued
        PROVE  n \in completed[v] + 1 .. issued
    <3>1. completed[v] \in Nat /\ issued \in Nat
      BY DEF TypeOK
    <3>2. CASE v = w
      BY <2>1, <2>2, <3>1, <3>2
    <3>3. CASE v # w
      BY <1>1, <3>3, <2>2 DEF WorkerMoves
    <3> QED BY <3>2, <3>3
  <2> QED BY <1>1, <2>2 DEF WorkerMoves, UnreadWordsStay
<1>2. CASE Publish
  <2> SUFFICES ASSUME NEW w \in Workers, NEW n \in completed[w] + 1 .. issued + 1
               PROVE  ring'[(n - 1) % Ring] = n
    BY <1>2 DEF Publish, UnreadWordsStay, AllUnmoved
  <2>1. /\ ring' = [ring EXCEPT ![issued % Ring] = issued + 1]
        /\ completed[w] \in Nat /\ issued \in Nat /\ ring \in [0 .. Ring - 1 -> 0 .. MaxWords]
    BY <1>2 DEF Publish, TypeOK
  <2>2. issued - completed[w] < Ring
    BY <1>2, <2>1, CompletedIsLeast, DrainAssumption DEF Publish, Room, TypeOK
  <2>3. issued % Ring \in 0 .. Ring - 1 /\ (n - 1) % Ring \in 0 .. Ring - 1
    BY <2>1, DrainAssumption
  <2>4. CASE n = issued + 1
    BY <2>1, <2>3, <2>4
  <2>5. CASE n # issued + 1
    <3>1. n \in completed[w] + 1 .. issued
      BY <2>1, <2>5
    <3>2. (n - 1) % Ring # issued % Ring
      <4>1. n - 1 \in Nat /\ n - 1 < issued /\ issued - (n - 1) < Ring
        BY <2>1, <2>2, <3>1, DrainAssumption
      <4> QED BY <2>1, <4>1, SlotsApart, DrainAssumption
    <3>3. ring[(n - 1) % Ring] = n
      BY <3>1 DEF UnreadWordsStay
    <3> QED BY <2>1, <2>3, <3>2, <3>3
  <2> QED BY <2>4, <2>5
<1>3. CASE MachineMoves /\ ~Publish
  <2>1. UNCHANGED <<completed, ring, issued>>
    BY <1>3, Zenon DEF MachineMoves, MachineStep, MachineChoice, NeedRoom, EndBatch, Access,
       Join, Stop, Drop, Arrived, Assembled, Hold, Ask, ReadPoint, Scan, ReadPointAgain,
       AssembledHeld, HoldAgain, Resume, Forget, Rethrow, End, Ended, AllUnmoved, list
  <2> QED BY <2>1 DEF UnreadWordsStay
<1>4. CASE UNCHANGED vars
  BY <1>4 DEF vars, list, UnreadWordsStay
<1> QED BY <1>1, <1>2, <1>3, <1>4, WorkerSteps DEF Next, MachineMoves, Gone

-----------------------------------------------------------------------------
(* The pause, and what the machine waits for.                              *)
PauseInv == GoalInv /\ HoldsInv /\ HeardInv /\ AnswerInv /\ StoodInv /\ ScanInv /\ HeldInv

LEMMA WorkerKeepsPause ==
  ASSUME TypeOK, TypeOK', CountsFit, PauseInv, NEW w \in Workers, WorkerMoves(w), PauseMoves(w)
  PROVE  PauseInv'
<1> USE DEF PauseInv
<1>0. /\ UNCHANGED <<issued, pause_request, pauses, holds, stopping, machine, goal, after, looked>>
      /\ pause_at \in Int /\ pause_at' \in Int /\ pause_at' >= pause_at
      /\ \A v \in Workers : completed[v] \in Nat /\ completed'[v] \in Nat
      /\ \A v \in Workers : standing_at[v] \in Int /\ standing_at'[v] \in Int
      /\ pauses \in Nat /\ pause_request \in Nat /\ issued \in Nat
      /\ \A v \in Workers : asked[v] \in Nat /\ standing[v] \in Nat
      /\ looked.at \in Int /\ looked.next \in 0 .. N
  BY DEF WorkerMoves, PauseMoves, mine, TypeOK
<1>1. \A v \in Workers : completed'[v] >= completed[v] \/ completed'[v] >= issued
  <2> TAKE v \in Workers
  <2>1. CASE v = w
    <3>1. \/ completed'[w] = completed[w]
          \/ completed'[w] = completed[w] + 1
          \/ completed'[w] = MaxWords + 2
      BY Zenon DEF WorkerMoves, Far
    <3>2. issued \in 0 .. MaxWords
      BY DEF TypeOK
    <3> QED BY <1>0, <2>1, <3>1, <3>2, DrainAssumption
  <2>2. CASE v # w
    BY <1>0, <2>2 DEF WorkerMoves
  <2> QED BY <2>1, <2>2
<1>2. GoalInv' /\ HoldsInv'
  BY <1>0, <1>1, DrainAssumption DEF GoalInv, HoldsInv
<1>3. HeardInv'
  BY <1>0 DEF HeardInv, WorkerMoves, PauseMoves
<1>4. AnswerInv'
  BY <1>0 DEF AnswerInv, Asked, At, WorkerMoves, PauseMoves
<1>5. StoodInv'
  <2> SUFFICES ASSUME NEW v \in Workers, ~stopping,
                      pause_request # 0, pause_request = pauses, standing'[v] = pauses
               PROVE  \/ pause_at' > standing_at'[v]
                      \/ /\ pause_at' = standing_at'[v]
                         /\ completed'[v] = standing_at'[v]
                         /\ pc'[v] \in StandPlaces
    BY <1>0 DEF StoodInv, Asked
  <2>1. CASE v # w
    BY <1>0, <2>1 DEF StoodInv, Asked, WorkerMoves
  <2>2. CASE v = w /\ standing'[w] = standing[w] /\ standing_at'[w] = standing_at[w]
    BY <1>0, <2>2 DEF StoodInv, Asked, PauseMoves
  <2>3. CASE v = w /\ At(w, "answer") /\ standing'[w] = asked[w] /\ standing_at'[w] = completed[w]
             /\ pause_at' = pause_at /\ completed'[w] = completed[w] /\ pc'[w] = "stand"
    BY <1>0, <2>3 DEF AnswerInv, Asked, StandPlaces
  <2> QED BY <2>1, <2>2, <2>3 DEF PauseMoves
<1>6. ASSUME NEW at \in Int, NEW v \in Workers, pause_at >= at,
             pause_request # 0, ~stopping,
             pause_at > at \/ (completed[v] = at /\ pc[v] \in StandPlaces)
      PROVE  pause_at' > at \/ (completed'[v] = at /\ pc'[v] \in StandPlaces)
  BY <1>0, <1>6 DEF WorkerMoves, PauseMoves
<1>7. ScanInv'
  <2> SUFFICES ASSUME machine \in {"scan", "again"} PROVE ScanInv'
    BY <1>0 DEF ScanInv
  <2>1. pause_request # 0 /\ ~stopping
    BY <1>0 DEF HoldsInv, Holding
  <2> QED BY <1>0, <1>6, <2>1 DEF ScanInv
<1>8. HeldInv'
  <2> SUFFICES ASSUME machine \in {"gathered", "held"} PROVE HeldInv'
    BY <1>0 DEF HeldInv
  <2>1. pause_request # 0 /\ ~stopping
    BY <1>0 DEF HoldsInv, Holding
  <2>2. pause_at' = pause_at
    BY <1>0 DEF HeldInv, StandPlaces, PauseMoves, At
  <2> QED BY <1>0, <1>6, <2>1, <2>2 DEF HeldInv
<1> QED BY <1>2, <1>3, <1>4, <1>5, <1>7, <1>8

LEMMA MachineKeepsPause ==
  ASSUME TypeOK, CountsFit, PauseInv, MachineMoves
  PROVE  PauseInv'
<1>0. /\ UNCHANGED <<completed, pc, asked, standing, standing_at, faulted>>
      /\ \A v \in Workers : completed[v] \in Nat
      /\ Completed \in Nat /\ \A v \in Workers : Completed <= completed[v]
      /\ \A v \in Workers : standing_at[v] \in Int /\ asked[v] \in Nat /\ standing[v] \in Nat
      /\ issued \in Nat /\ pauses \in Nat /\ pause_request \in Nat /\ holds \in Nat
      /\ after \in {"idle", "joined", "stopped", "hold"}
      /\ pause_at \in Int /\ goal \in Int /\ looked \in [at : Int, next : 0 .. N]
      /\ N \in Nat \ {0} /\ SnapshotWords \in Nat /\ Workers = 0 .. N - 1
  <2>1. UNCHANGED <<completed, pc, stands, faulted>>
    BY Zenon DEF MachineMoves, MachineStep, MachineChoice, AllUnmoved, NeedRoom, Publish, EndBatch, Access, Join, Stop, Drop, Arrived, Assembled, Hold, Ask, ReadPoint, Scan, ReadPointAgain, AssembledHeld, HoldAgain, Resume, Forget, Rethrow, End, Ended
  <2>2. completed \in [Workers -> Nat]
    BY DEF TypeOK
  <2> QED BY <2>1, <2>2, CompletedIsLeast, DrainAssumption DEF TypeOK, stands, Workers
<1> USE DEF PauseInv, GoalInv, HoldsInv, HeardInv, AnswerInv, StoodInv, ScanInv, HeldInv, Asked,
            Holding, Idle, MachineGoes, list, pausing, mine, StandsThere, At
<1>1. CASE NeedRoom BY <1>0, <1>1 DEF NeedRoom
<1>2. CASE Publish BY <1>0, <1>2 DEF Publish
<1>3. CASE EndBatch BY <1>0, <1>3 DEF EndBatch
<1>4. CASE Access BY <1>0, <1>4 DEF Access, WaitUntil
<1>5. CASE Join BY <1>0, <1>5 DEF Join, WaitUntil
<1>6. CASE Stop BY <1>0, <1>6 DEF Stop, WaitUntil
<1>7. CASE Drop BY <1>0, <1>7 DEF Drop
<1>8. CASE Arrived BY <1>0, <1>8 DEF Arrived
<1>9. CASE Assembled BY <1>0, <1>9 DEF Assembled
<1>10. CASE Hold BY <1>0, <1>10 DEF Hold, WaitUntil
<1>11. CASE Ask BY <1>0, <1>11 DEF Ask
<1>12. CASE ReadPoint BY <1>0, <1>12 DEF ReadPoint
<1>13. CASE Scan
  <2>1. CASE StandsThere(looked.next)
    <3>1. looked.next \in Workers /\ looked.next < N
      BY <1>0, <1>13 DEF Scan
    <3>2. /\ looked'.at = looked.at /\ looked'.next = looked.next + 1
          /\ machine' = IF looked.next + 1 = N THEN "again" ELSE "scan"
      BY <1>0, <1>13, <2>1 DEF Scan
    <3>3. \A v \in Workers : v < looked.next + 1 => v < looked.next \/ v = looked.next
      BY <1>0
    <3>4. \A v \in Workers : v < looked.next + 1 =>
             pause_at > looked.at \/ (completed[v] = looked.at /\ pc[v] \in StandPlaces)
      BY <1>0, <1>13, <2>1, <3>1, <3>3 DEF Scan
    <3>5. ScanInv'
      BY <1>0, <1>13, <3>1, <3>2, <3>4 DEF Scan
    <3> QED BY <1>0, <1>13, <3>2, <3>5 DEF Scan
  <2>2. CASE ~StandsThere(looked.next)
    BY <1>0, <1>13, <2>2 DEF Scan
  <2> QED BY <2>1, <2>2
<1>14. CASE ReadPointAgain BY <1>0, <1>14 DEF ReadPointAgain
<1>15. CASE AssembledHeld BY <1>0, <1>15 DEF AssembledHeld
<1>16. CASE HoldAgain BY <1>0, <1>16 DEF HoldAgain
<1>17. CASE Resume BY <1>0, <1>17 DEF Resume
<1>18. CASE Forget BY <1>0, <1>18 DEF Forget
<1>19. CASE Rethrow BY <1>0, <1>19 DEF Rethrow
<1>20. CASE End BY <1>0, <1>20 DEF End
<1>21. CASE Ended BY <1>0, <1>21 DEF Ended
<1> QED
  BY <1>1, <1>2, <1>3, <1>4, <1>5, <1>6, <1>7, <1>8, <1>9, <1>10, <1>11, <1>12, <1>13, <1>14, <1>15, <1>16, <1>17, <1>18, <1>19, <1>20, <1>21 DEF MachineMoves, MachineStep, MachineChoice

-----------------------------------------------------------------------------
LEMMA NextDInv == DInv /\ [Next]_vars => DInv'
<1> SUFFICES ASSUME DInv, [Next]_vars PROVE DInv'
  OBVIOUS
<1>1. TypeOK /\ CountsFit /\ UnreadWordsStay /\ PauseInv
  BY DEF DInv, PauseInv
<1>2. TypeOK'
  BY TypeKept
<1>3. CountsFit' /\ UnreadWordsStay'
  BY <1>1, CountsKept, WordsKept
<1>4. PauseInv'
  <2>1. ASSUME NEW w \in Workers, Worker(w) \/ Panic(w) PROVE PauseInv'
    BY <1>1, <1>2, <2>1, WorkerSteps, WorkerKeepsPause
  <2>2. CASE MachineMoves
    BY <1>1, <2>2, MachineKeepsPause
  <2>3. CASE UNCHANGED vars
    BY <1>1, <2>3
       DEF vars, list, stands, pausing, mine, PauseInv, GoalInv, HoldsInv, HeardInv, AnswerInv,
           StoodInv, ScanInv, HeldInv, Asked, At
  <2> QED BY <2>1, <2>2, <2>3 DEF Next, MachineMoves, Gone
<1> QED BY <1>2, <1>3, <1>4 DEF DInv, PauseInv

(* The invariant holds in every reachable state.                           *)
THEOREM AlwaysDInv == Spec => []DInv
BY InitDInv, NextDInv, PTL DEF Spec

(* A word stays in the ring until every worker has run it, and every       *)
(* variable keeps its type (dp_threads.rs: publish, make_room), for any    *)
(* number of workers, any ring, any list and any faults.                   *)
THEOREM WordsStay == Spec => []RingHoldsTogether
<1>1. DInv => RingHoldsTogether
  BY DEF DInv, RingHoldsTogether
<1> QED BY <1>1, AlwaysDInv, PTL

-----------------------------------------------------------------------------
(* Each step of a worker runs a word, falls, or is nothing to the promise. *)
LEMMA WorkerPromise ==
  ASSUME DInv, NEW w \in Workers, WorkerMoves(w), PauseMoves(w), TypeOK'
  PROVE  [Promise!Next]_(Promise!promise)
<1>1. /\ completed \in [Workers -> Nat] /\ completed' \in [Workers -> Nat]
      /\ UNCHANGED <<issued, machine>>
      /\ pause_at \in Int
  BY DEF DInv, TypeOK, WorkerMoves, mine
<1>2. HeldAt' = HeldAt
  <2>1. CASE machine \in {"gathered", "held"}
    <3>1. pc[w] \in StandPlaces /\ completed[w] = pause_at
      BY <2>1 DEF DInv, HeldInv
    <3>2. pause_at' = pause_at
      BY <1>1, <3>1 DEF PauseMoves, StandPlaces, At
    <3> QED BY <1>1, <3>2 DEF HeldAt
  <2>2. CASE machine \notin {"gathered", "held"}
    BY <1>1, <2>2 DEF HeldAt
  <2> QED BY <2>1, <2>2
<1>3. CASE completed'[w] = completed[w]
  <2>1. completed' = completed
    BY <1>1, <1>3 DEF WorkerMoves
  <2> QED BY <1>1, <1>2, <2>1 DEF Promise!promise
<1>4. CASE pc[w] \in Running /\ completed'[w] = completed[w] + 1
  <2>1. completed' = [completed EXCEPT ![w] = completed[w] + 1]
    BY <1>1, <1>4 DEF WorkerMoves
  <2>2. HeldAt = -1
    BY <1>4 DEF HeldAt, DInv, HeldInv, Running, AtBarrier, StandPlaces
  <2>3. completed[w] < issued
    BY <1>4 DEF DInv, CountsFit
  <2>4. Promise!Run(w)
    BY <1>1, <1>2, <2>1, <2>2, <2>3 DEF Promise!Run
  <2> QED BY <2>4 DEF Promise!Next
<1>5. CASE completed'[w] = Far
  <2>1. completed' = [completed EXCEPT ![w] = Far]
    BY <1>1, <1>5 DEF WorkerMoves
  <2>2. Promise!Fall(w)
    BY <1>1, <1>2, <2>1 DEF Promise!Fall
  <2> QED BY <2>2 DEF Promise!Next
<1> QED BY <1>3, <1>4, <1>5 DEF WorkerMoves

(* Each step of the machine publishes, holds, lets go, or is nothing to    *)
(* the promise.                                                            *)
LEMMA MachinePromise ==
  ASSUME DInv, MachineMoves
  PROVE  [Promise!Next]_(Promise!promise)
<1>1. UNCHANGED completed
  BY Zenon DEF MachineMoves, MachineStep, MachineChoice, NeedRoom, Publish, EndBatch, Access,
     Join, Stop, Drop, Arrived, Assembled, Hold, Ask, ReadPoint, Scan, ReadPointAgain,
     AssembledHeld, HoldAgain, Resume, Forget, Rethrow, End, Ended, AllUnmoved
<1>2. /\ completed \in [Workers -> Nat] /\ issued \in Nat /\ pause_at \in Int
      /\ SnapshotWords \in Nat
  BY DrainAssumption DEF DInv, TypeOK
<1>3. CASE Publish
  <2>1. HeldAt = -1 /\ HeldAt' = -1
    BY <1>3 DEF Publish, Idle, MachineGoes, HeldAt
  <2>2. \A w \in Workers : issued - completed[w] < Ring
    BY <1>2, <1>3, CompletedIsLeast, DrainAssumption DEF Publish, Room
  <2>3. Promise!Publish
    BY <1>1, <1>3, <2>1, <2>2 DEF Publish, Promise!Publish
  <2> QED BY <2>3 DEF Promise!Next
<1>4. CASE ReadPointAgain
  <2>1. CASE pause_at = looked.at
    <3>1. /\ \A w \in Workers : completed[w] = pause_at /\ pc[w] \in StandPlaces
          /\ pause_at >= 0
      <4>1. machine = "again" /\ ScanInv
        BY <1>4 DEF ReadPointAgain, DInv
      <4>2. \A w \in Workers : w < looked.next
        BY <4>1, DrainAssumption DEF ScanInv, Workers
      <4> QED BY <1>2, <2>1, <4>1, <4>2 DEF ScanInv
    <3>2. \A w \in Workers :
             /\ completed[w] >= issued - SnapshotWords
             /\ completed[w] <= issued
      BY <1>4, <3>1 DEF ReadPointAgain, DInv, GoalInv, Holding, CountsFit, At, StandPlaces
    <3>3. leader \in Workers
      BY DrainAssumption DEF Workers, leader
    <3>4. pause_at \in issued - SnapshotWords .. issued
      BY <1>2, <3>1, <3>2, <3>3
    <3>5. HeldAt = -1 /\ HeldAt' = pause_at
      BY <1>4, <2>1 DEF ReadPointAgain, MachineGoes, HeldAt, pausing
    <3>6. Promise!Hold
      BY <1>1, <1>4, <3>1, <3>4, <3>5 DEF ReadPointAgain, list, Promise!Hold
    <3> QED BY <3>6 DEF Promise!Next
  <2>2. CASE pause_at # looked.at
    BY <1>1, <1>4, <2>2 DEF ReadPointAgain, MachineGoes, HeldAt, list, Promise!promise
  <2> QED BY <2>1, <2>2
<1>5. CASE Resume
  <2>1. HeldAt = pause_at /\ pause_at >= 0
    BY <1>5 DEF Resume, HeldAt, DInv, HeldInv
  <2>2. HeldAt' = HeldAt \/ HeldAt' = -1
    BY <1>5, <2>1 DEF Resume, MachineGoes, HeldAt
  <2>3. CASE HeldAt' = HeldAt
    BY <1>1, <1>5, <2>3 DEF Resume, list, Promise!promise
  <2>4. CASE HeldAt' = -1
    <3>1. Promise!LetGo
      BY <1>1, <1>2, <1>5, <2>1, <2>4 DEF Resume, list, Promise!LetGo
    <3> QED BY <3>1 DEF Promise!Next
  <2> QED BY <2>2, <2>3, <2>4
<1>6. CASE MachineMoves /\ ~Publish /\ ~ReadPointAgain /\ ~Resume
  <2>1. UNCHANGED issued
    BY <1>6, Zenon DEF MachineMoves, MachineStep, MachineChoice, NeedRoom, EndBatch, Access,
       Join, Stop, Drop, Arrived, Assembled, Hold, Ask, ReadPoint, Scan,
       AssembledHeld, HoldAgain, Forget, Rethrow, End, Ended, list
  <2>2. HeldAt' = HeldAt
    <3> USE DEF HeldAt, MachineGoes, Idle, pausing, mine
    <3>1. CASE NeedRoom \/ EndBatch \/ Drop \/ Assembled \/ Ask \/ ReadPoint \/ Scan
      BY <3>1 DEF NeedRoom, EndBatch, Drop, Assembled, Ask, ReadPoint, Scan
    <3>2. CASE Access \/ Join \/ Stop \/ Hold
      BY <3>2 DEF Access, Join, Stop, Hold, WaitUntil
    <3>3. CASE AssembledHeld \/ HoldAgain \/ Forget \/ Rethrow \/ End \/ Ended
      BY <3>3 DEF AssembledHeld, HoldAgain, Forget, Rethrow, End, Ended
    <3>4. CASE Arrived
      BY <3>4 DEF Arrived, DInv, TypeOK
    <3> QED
      BY <1>6, <3>1, <3>2, <3>3, <3>4 DEF MachineMoves, MachineStep, MachineChoice
  <2> QED BY <1>1, <2>1, <2>2 DEF Promise!promise
<1> QED BY <1>3, <1>4, <1>5, <1>6

(* A word goes over none that is still to run, and while the list is held  *)
(* for a snapshot every worker is at the pause's one word and what is left *)
(* fits (dp_threads.rs: publish, hold, stand, raise), whoever falls.       *)
THEOREM PromiseIsKept == Spec => KeepsThePromise
<1>1. Init => Promise!Init
  <2> SUFFICES ASSUME Init PROVE Promise!Init
    OBVIOUS
  <2>1. HeldAt = -1
    BY DEF Init, HeldAt
  <2> QED BY <2>1 DEF Init, Promise!Init
<1>2. DInv /\ DInv' /\ [Next]_vars => [Promise!Next]_(Promise!promise)
  <2> SUFFICES ASSUME DInv, DInv', [Next]_vars PROVE [Promise!Next]_(Promise!promise)
    OBVIOUS
  <2>1. ASSUME NEW w \in Workers, Worker(w) \/ Panic(w) PROVE [Promise!Next]_(Promise!promise)
    BY <2>1, WorkerSteps, WorkerPromise DEF DInv
  <2>2. CASE MachineMoves
    BY <2>2, MachinePromise
  <2>3. CASE UNCHANGED vars
    BY <2>3 DEF vars, list, pausing, mine, HeldAt, Promise!promise
  <2> QED BY <2>1, <2>2, <2>3 DEF Next, MachineMoves, Gone
<1> QED BY <1>1, <1>2, AlwaysDInv, PTL DEF Spec, KeepsThePromise, Promise!Spec

-----------------------------------------------------------------------------
(* The barrier, while no worker has fallen: a word the workers must meet   *)
(* for is run by none before all have come to it, and the leader's scratch *)
(* is put together only while no other worker writes its own.              *)
(*                                                                         *)
(* The argument: those who have arrived at the barrier and are not let out *)
(* yet are at one word and one of its two meetings (Agree), their number   *)
(* is the barrier's count (CountInv), who is behind them has nothing to    *)
(* meet for before it reaches them (BehindInv), and who is through a       *)
(* meeting has everybody through it or gone home (FirstInv, SecondInv).    *)

(* Arrived at the barrier and not let out; it counts who went home there.  *)
Waits(w) == pc[w] \in {"wait", "raise", "home"} /\ seen[w] = generation
Waiters == {w \in Workers : Waits(w)}

(* On the way to the barrier that opens next, or arrived there.            *)
AtNext(w) == pc[w] \in {"generation", "arrive", "open"} \/ Waits(w)

(* Let out, and not gone on yet.                                           *)
LetOut(w) == pc[w] \in {"wait", "raise"} /\ seen[w] < generation

(* Through the first meeting of its word, and let out of the second.       *)
PastFirst(w) ==
    \/ pc[w] \in {"assemble", "execute"}
    \/ pc[w] \in AtBarrier /\ meeting[w] = 2
    \/ LetOut(w)
    \/ At(w, "home") /\ meeting[w] = 2 /\ seen[w] = generation

PastSecond(w) == LetOut(w) /\ meeting[w] = 2

(* Gone home; perhaps from a meeting that has opened since.                *)
Left(w) == At(w, "home") /\ seen[w] < generation

Shared == {"leader", "all", "joined"}

SeenInv ==
    \A w \in Workers :
        /\ seen[w] <= generation
        /\ pc[w] \notin {"arrive", "open", "wait", "raise", "home"} => seen[w] < generation
        /\ pc[w] \in {"arrive", "open"} => seen[w] = generation

CountInv ==
    /\ (\A w \in Workers : ~At(w, "open")) => arrived = Cardinality(Waiters)
    /\ \A w \in Workers : At(w, "open") => arrived = 0 /\ Waiters = Workers \ {w}

StepInv ==
    \A w \in Workers :
        /\ PastFirst(w) \/ AtNext(w) => completed[w] < issued /\ StepOf(w) \in Shared
        /\ (pc[w] \in AtBarrier \/ Waits(w)) /\ meeting[w] = 2 => StepOf(w) # "all"
        /\ At(w, "assemble") => StepOf(w) = "leader"
        /\ pc[w] \in {"assemble", "execute"} /\ StepOf(w) = "leader" => w = leader
        /\ At(w, "gather") => completed[w] < issued
        /\ pc[w] # "fall" /\ completed[w] <= issued

Agree ==
    \A u, w \in Workers :
        AtNext(u) /\ AtNext(w) => completed[u] = completed[w] /\ meeting[u] = meeting[w]

BehindInv ==
    \A v, w \in Workers :
        completed[v] < completed[w] =>
            /\ StepOf(v) # "undecided"
            /\ ~AtNext(v)
            /\ StepOf(v) \in {"leader", "joined"} => At(v, "home") \/ PastSecond(v)
            /\ StepOf(v) = "all" => pc[v] \in {"home", "execute"} \/ LetOut(v)
            /\ \A n \in completed[v] + 2 .. completed[w] : step[n] = "ready"

FirstInv ==
    \A w, v \in Workers :
        PastFirst(w) =>
            /\ completed[v] >= completed[w]
            /\ completed[v] = completed[w] => PastFirst(v) \/ Left(v)

SecondInv ==
    \A w, v \in Workers :
        PastSecond(w) =>
            /\ completed[v] >= completed[w]
            /\ completed[v] = completed[w] => PastSecond(v) \/ Left(v)

Meeting ==
    SeenInv /\ CountInv /\ StepInv /\ Agree /\ BehindInv /\ FirstInv /\ SecondInv

BInv == ~faulted => Meeting

-----------------------------------------------------------------------------
LEMMA InitBInv == Init => BInv
<1> SUFFICES ASSUME Init PROVE Meeting
  BY DEF BInv
<1> USE DEF Init, At
<1>1. Waiters = {}
  BY DEF Waiters, Waits
<1>2. SeenInv /\ CountInv
  BY <1>1, FS_EmptySet DEF SeenInv, CountInv
<1>3. StepInv
  BY DEF StepInv, PastFirst, LetOut, AtNext, Waits, AtBarrier
<1>4. Agree /\ BehindInv
  BY DEF Agree, BehindInv, AtNext, Waits
<1>5. FirstInv /\ SecondInv
  BY DEF FirstInv, SecondInv, PastFirst, PastSecond, LetOut, AtBarrier
<1> QED BY <1>2, <1>3, <1>4, <1>5 DEF Meeting

-----------------------------------------------------------------------------
(* Where a worker has nothing to do with the barrier.                      *)
Free == {"top", "gather", "stand", "lift", "answer", "doze", "check", "park"}

Frame == UNCHANGED <<step, issued, completed, meeting, seen, arrived, generation>>

(* A worker that keeps out of the barrier, or goes home from there.        *)
LEMMA FreeMove ==
  ASSUME Listed, Placed, Meeting, Frame, NEW w \in Workers, NEW there \in Free \union {"home"},
         pc[w] \in Free, pc' = [pc EXCEPT ![w] = there],
         there = "gather" => completed[w] < issued
  PROVE  Meeting'
<1> USE DEF Listed, Placed, Meeting, Frame, Free, At, SeenInv
<1>1. SeenInv'
  OBVIOUS
<1>2. seen[w] < generation
  OBVIOUS
<1>3. \A v \in Workers : Waits(v)' <=> Waits(v)
  BY <1>2 DEF Waits
<1>4. CountInv'
  <2>1. Waiters' = Waiters
    BY <1>3 DEF Waiters
  <2> QED BY <2>1 DEF CountInv
<1>5. \A v \in Workers : /\ AtNext(v)' <=> AtNext(v)
                         /\ LetOut(v)' <=> LetOut(v)
                         /\ PastFirst(v)' <=> PastFirst(v)
                         /\ PastSecond(v)' <=> PastSecond(v)
                         /\ Left(v) => Left(v)'
  BY <1>2, <1>3 DEF AtNext, LetOut, PastFirst, PastSecond, Left, AtBarrier
<1>6. StepInv'
  BY <1>2, <1>3, <1>5 DEF StepInv, StepOf, Word, AtBarrier
<1>7. Agree' /\ FirstInv' /\ SecondInv'
  BY <1>5 DEF Agree, FirstInv, SecondInv
<1>8. BehindInv'
  BY <1>5 DEF BehindInv, StepOf, Word
<1> QED BY <1>1, <1>4, <1>6, <1>7, <1>8

(* A worker that hears of a pause while it waits and goes back to wait, or *)
(* goes home from there and still counts, or has assembled its word.       *)
LEMMA StillMove ==
  ASSUME Listed, Placed, Meeting, Frame, NEW w \in Workers, NEW there,
         pc' = [pc EXCEPT ![w] = there],
         \/ pc[w] \in {"wait", "raise"} /\ there \in {"wait", "raise"}
         \/ At(w, "wait") /\ seen[w] = generation /\ there = "home"
         \/ At(w, "assemble") /\ there = "execute"
  PROVE  Meeting'
<1> USE DEF Listed, Placed, Meeting, Frame, At
<1>1. SeenInv'
  BY DEF SeenInv
<1>2. \A v \in Workers : Waits(v)' <=> Waits(v)
  BY DEF Waits
<1>3. CountInv'
  <2>1. Waiters' = Waiters
    BY <1>2 DEF Waiters
  <2> QED BY <2>1 DEF CountInv
<1>4. \A v \in Workers : /\ AtNext(v)' <=> AtNext(v)
                         /\ LetOut(v)' <=> LetOut(v)
                         /\ PastFirst(v)' <=> PastFirst(v)
                         /\ PastSecond(v)' <=> PastSecond(v)
                         /\ Left(v)' <=> Left(v)
  BY <1>2 DEF AtNext, LetOut, PastFirst, PastSecond, Left, AtBarrier
<1>5. StepInv'
  BY <1>2, <1>4 DEF StepInv, StepOf, Word, AtBarrier
<1>6. Agree' /\ FirstInv' /\ SecondInv'
  BY <1>4 DEF Agree, FirstInv, SecondInv
<1>7. BehindInv'
  BY <1>4 DEF BehindInv, StepOf, Word
<1> QED BY <1>1, <1>3, <1>5, <1>6, <1>7

-----------------------------------------------------------------------------
(* A worker that sets out for the first meeting of a word: whoever is on   *)
(* the way to the barrier is on the way to the same.                       *)
LEMMA SetOut ==
  ASSUME Listed, Placed, Meeting, NEW w \in Workers, NEW s \in Shared,
         At(w, "gather"),
         StepOf(w) = "undecided" \/ StepOf(w) = s,
         step' = [step EXCEPT ![Word(w)] = s],
         meeting' = [meeting EXCEPT ![w] = 1],
         pc' = [pc EXCEPT ![w] = "generation"],
         UNCHANGED <<issued, completed, seen, arrived, generation>>
  PROVE  Meeting'
<1> USE DEF Listed, Placed, Meeting, At, Shared
<1>0. /\ seen[w] < generation /\ completed[w] < issued /\ completed[w] \in Nat
      /\ ~AtNext(w) /\ ~PastFirst(w) /\ ~PastSecond(w) /\ ~LetOut(w) /\ ~Left(w) /\ ~Waits(w)
  BY DEF SeenInv, StepInv, AtNext, PastFirst, PastSecond, LetOut, Left, Waits, AtBarrier
<1>1. SeenInv'
  BY <1>0 DEF SeenInv
<1>2. \A v \in Workers : Waits(v)' <=> Waits(v)
  BY <1>0 DEF Waits
<1>3. CountInv'
  <2>1. Waiters' = Waiters
    BY <1>2 DEF Waiters
  <2> QED BY <2>1 DEF CountInv
<1>4. /\ \A v \in Workers \ {w} :
             /\ AtNext(v)' <=> AtNext(v)
             /\ LetOut(v)' <=> LetOut(v)
             /\ PastFirst(v)' <=> PastFirst(v)
             /\ PastSecond(v)' <=> PastSecond(v)
             /\ Left(v)' <=> Left(v)
      /\ AtNext(w)' /\ ~PastFirst(w)' /\ ~PastSecond(w)' /\ ~LetOut(w)' /\ ~Left(w)'
  BY <1>0, <1>2 DEF AtNext, LetOut, PastFirst, PastSecond, Left, AtBarrier
<1>5. \A v \in Workers : StepOf(v) # "undecided" => StepOf(v)' = StepOf(v)
  BY DEF StepOf, Word
<1>6. StepOf(w)' = s
  <2>1. Word(w) \in 1 .. MaxWords
    BY <1>0, DrainAssumption DEF Word
  <2> QED BY <2>1 DEF StepOf, Word
<1>7. StepInv'
  <2>1. \A v \in Workers \ {w} : PastFirst(v) \/ AtNext(v) => StepOf(v)' = StepOf(v)
    BY <1>5 DEF StepInv
  <2> QED BY <1>0, <1>2, <1>4, <1>6, <2>1 DEF StepInv, PastFirst, AtNext, AtBarrier
<1>8. Agree'
  <2>1. ASSUME NEW u \in Workers \ {w}, AtNext(u)
        PROVE  completed[u] = completed[w] /\ meeting[u] = 1
    <3>1. ~(completed[u] < completed[w])
      BY <2>1 DEF BehindInv
    <3>2. ~(completed[w] < completed[u])
      BY <1>0 DEF BehindInv
    <3>3. completed[u] = completed[w]
      BY <3>1, <3>2
    <3>4. ~PastFirst(u)
      BY <1>0, <3>3 DEF FirstInv
    <3> QED BY <2>1, <3>3, <3>4 DEF PastFirst, AtNext, Waits, AtBarrier
  <2> QED BY <1>4, <2>1 DEF Agree
<1>9. FirstInv' /\ SecondInv'
  BY <1>0, <1>4 DEF FirstInv, SecondInv
<1>10. BehindInv'
  <2>1. \A v \in Workers : ~(completed[w] < completed[v])
    BY <1>0 DEF BehindInv
  <2>2. \A v \in Workers : \A n \in completed[v] + 2 .. completed[w] : n # Word(w)
    BY DEF Word
  <2> QED BY <1>0, <1>4, <1>5, <2>1, <2>2 DEF BehindInv, StepOf, Word
<1> QED BY <1>1, <1>3, <1>7, <1>8, <1>9, <1>10

-----------------------------------------------------------------------------
(* A worker that counts a word as run: one that asks nothing of the        *)
(* others, or one they need not be waited for any more.                    *)
LEMMA DoneMove ==
  ASSUME Listed, Placed, Meeting, NEW w \in Workers, NEW s \in Shared \union {"ready"},
         Done(w, s), UNCHANGED <<issued, meeting, seen, arrived, generation>>,
         StepOf(w) = s \/ (StepOf(w) = "undecided" /\ s = "ready"),
         pc[w] \in {"gather", "execute", "wait"}, seen[w] < generation,
         completed[w] < issued,
         s # "ready" =>
            \A v \in Workers :
               /\ completed[v] >= completed[w]
               /\ completed[v] = completed[w] /\ v # w =>
                     /\ ~AtNext(v)
                     /\ s \in {"leader", "joined"} => At(v, "home") \/ PastSecond(v)
                     /\ s = "all" => pc[v] \in {"home", "execute"} \/ LetOut(v)
  PROVE  Meeting'
<1> USE DEF Listed, Placed, Meeting, At, Shared
<1>0. /\ completed[w] \in Nat /\ issued <= MaxWords /\ Word(w) \in 1 .. MaxWords
      /\ \A v \in Workers : completed[v] \in Nat /\ completed[v] <= issued
      /\ ~AtNext(w) /\ ~Waits(w)
      /\ MaxWords \in Nat
  BY DrainAssumption DEF StepInv, AtNext, Waits, Word
<1>1. /\ \A v \in Workers \ {w} : completed'[v] = completed[v] /\ pc'[v] = pc[v]
      /\ completed'[w] = completed[w] + 1 /\ pc'[w] = "top"
      /\ \A n \in 1 .. MaxWords : n # Word(w) => step'[n] = step[n]
      /\ \A v \in Workers : completed[v] < Word(w) /\ v # w => step'[Word(w)] = s
  BY <1>0 DEF Done, Goto
<1>2. SeenInv'
  BY <1>1 DEF SeenInv
<1>3. \A v \in Workers : Waits(v)' <=> Waits(v)
  BY <1>0, <1>1 DEF Waits
<1>4. CountInv'
  <2>1. Waiters' = Waiters
    BY <1>3 DEF Waiters
  <2> QED BY <1>1, <2>1 DEF CountInv
<1>5. /\ \A v \in Workers \ {w} :
             /\ AtNext(v)' <=> AtNext(v)
             /\ LetOut(v)' <=> LetOut(v)
             /\ PastFirst(v)' <=> PastFirst(v)
             /\ PastSecond(v)' <=> PastSecond(v)
             /\ Left(v)' <=> Left(v)
      /\ ~AtNext(w)' /\ ~PastFirst(w)' /\ ~PastSecond(w)'
  BY <1>1, <1>3 DEF AtNext, LetOut, PastFirst, PastSecond, Left, AtBarrier, Waits
<1>6. \A v \in Workers \ {w} :
         StepOf(v) # "undecided" /\ completed[v] < issued => StepOf(v)' = StepOf(v)
  <2> SUFFICES ASSUME NEW v \in Workers \ {w}, StepOf(v) # "undecided", completed[v] < issued
               PROVE  step'[completed[v] + 1] = step[completed[v] + 1]
    BY <1>1 DEF StepOf, Word
  <2>1. CASE completed[v] = completed[w]
    BY <1>0, <1>1, <2>1 DEF StepOf, Word
  <2>2. CASE completed[v] # completed[w]
    BY <1>0, <1>1, <2>2 DEF Word
  <2> QED BY <2>1, <2>2
<1>7. StepInv'
  <2>1. \A v \in Workers \ {w} : PastFirst(v) \/ AtNext(v) => StepOf(v)' = StepOf(v)
    BY <1>6 DEF StepInv
  <2>2. \A v \in Workers : pc[v] \in AtBarrier => PastFirst(v) \/ AtNext(v)
    BY DEF SeenInv, PastFirst, AtNext, LetOut, Waits, AtBarrier
  <2>3. \A v \in Workers : /\ Waits(v) => AtNext(v)
                           /\ pc[v] \in {"assemble", "execute"} => PastFirst(v)
    BY DEF PastFirst, AtNext
  <2>4. ASSUME NEW v \in Workers \ {w}
        PROVE  /\ PastFirst(v)' \/ AtNext(v)' => completed'[v] < issued' /\ StepOf(v)' \in Shared
               /\ (pc'[v] \in AtBarrier \/ Waits(v)') /\ meeting'[v] = 2 => StepOf(v)' # "all"
               /\ pc'[v] = "assemble" => StepOf(v)' = "leader"
               /\ pc'[v] \in {"assemble", "execute"} /\ StepOf(v)' = "leader" => v = leader
               /\ pc'[v] = "gather" => completed'[v] < issued'
               /\ pc'[v] # "fall" /\ completed'[v] <= issued'
    BY <1>1, <1>3, <1>5, <2>1, <2>2, <2>3 DEF StepInv
  <2>5. /\ ~(PastFirst(w)' \/ AtNext(w)')
        /\ pc'[w] \notin AtBarrier \union {"assemble", "execute", "gather", "fall"} /\ ~Waits(w)'
        /\ completed'[w] <= issued'
    BY <1>0, <1>1, <1>3, <1>5 DEF AtBarrier
  <2> QED BY <2>4, <2>5 DEF StepInv
<1>8. Agree'
  BY <1>1, <1>5 DEF Agree
<1>9. FirstInv' /\ SecondInv'
  <2>1. \A u \in Workers \ {w} : completed[w] >= completed[u] => completed'[w] > completed'[u]
    BY <1>0, <1>1
  <2>2. FirstInv'
    BY <1>1, <1>5, <2>1 DEF FirstInv
  <2>3. SecondInv'
    BY <1>1, <1>5, <2>1 DEF SecondInv
  <2> QED BY <2>2, <2>3
<1>10. BehindInv'
  <2> SUFFICES ASSUME NEW v \in Workers, NEW u \in Workers, completed'[v] < completed'[u]
               PROVE  /\ StepOf(v)' # "undecided"
                      /\ ~AtNext(v)'
                      /\ StepOf(v)' \in {"leader", "joined"} => pc'[v] = "home" \/ PastSecond(v)'
                      /\ StepOf(v)' = "all" => pc'[v] \in {"home", "execute"} \/ LetOut(v)'
                      /\ \A n \in completed'[v] + 2 .. completed'[u] : step'[n] = "ready"
    BY DEF BehindInv
  <2>1. CASE v = w
    <3>1. completed[w] < completed[u] /\ u # w
      BY <1>0, <1>1, <2>1
    <3>2. \A n \in completed[w] + 2 .. completed[u] : step[n] = "ready"
      BY <3>1 DEF BehindInv
    <3>3. ASSUME NEW n \in completed[w] + 2 .. completed[u] PROVE step'[n] = "ready"
      <4>1. n \in 1 .. MaxWords /\ n # Word(w)
        BY <1>0 DEF Word
      <4> QED BY <1>1, <3>2, <4>1
    <3>4. StepOf(w)' = "ready"
      BY <1>0, <1>1, <2>1, <3>1, <3>3 DEF StepOf, Word
    <3> QED BY <1>0, <1>1, <1>5, <2>1, <3>1, <3>3, <3>4
  <2>2. CASE v # w /\ completed[v] = completed[w]
    <3>1. StepOf(v) = StepOf(w) /\ StepOf(v)' = s
      BY <1>0, <1>1, <2>2 DEF StepOf, Word
    <3>2. CASE u = w
      <4>1. \A n \in completed'[v] + 2 .. completed'[u] : FALSE
        BY <1>0, <1>1, <2>2, <3>2
      <4>2. s = "ready" => ~AtNext(v)
        BY <2>2, <3>1 DEF StepInv
      <4> QED BY <1>1, <1>5, <2>2, <3>1, <4>1, <4>2
    <3>3. CASE u # w
      <4>1. completed[v] < completed[u]
        BY <1>1, <2>2, <3>3
      <4>2. StepOf(v) = s
        BY <3>1, <4>1 DEF BehindInv
      <4>3. ASSUME NEW n \in completed[v] + 2 .. completed[u] PROVE step'[n] = step[n]
        <5>1. n \in 1 .. MaxWords /\ n # Word(w)
          BY <1>0, <2>2 DEF Word
        <5> QED BY <1>1, <5>1
      <4> QED BY <1>1, <1>5, <2>2, <3>1, <3>3, <4>1, <4>2, <4>3 DEF BehindInv
    <3> QED BY <3>2, <3>3
  <2>3. CASE v # w /\ completed[v] # completed[w] /\ u = w
    <3>1. completed[v] < completed[w]
      BY <1>0, <1>1, <2>3
    <3>2. s = "ready" /\ step'[Word(w)] = "ready"
      BY <1>0, <1>1, <2>3, <3>1 DEF Word
    <3>3. \A n \in completed[v] + 2 .. completed[w] + 1 : step'[n] = "ready"
      BY <1>0, <1>1, <3>1, <3>2 DEF BehindInv, Word
    <3>4. StepOf(v)' = StepOf(v)
      BY <1>0, <1>6, <2>3, <3>1 DEF BehindInv
    <3> QED BY <1>1, <1>5, <2>3, <3>1, <3>3, <3>4 DEF BehindInv
  <2>4. CASE v # w /\ completed[v] # completed[w] /\ u # w
    <3>1. completed[v] < completed[u]
      BY <1>1, <2>4
    <3>2. StepOf(v)' = StepOf(v)
      BY <1>0, <1>6, <2>4, <3>1 DEF BehindInv
    <3>3. ASSUME NEW n \in completed[v] + 2 .. completed[u] PROVE step'[n] = "ready"
      <4>1. step[n] = "ready" /\ n \in 1 .. MaxWords
        BY <1>0, <3>1 DEF BehindInv
      <4>2. CASE n = Word(w)
        BY <1>0, <1>1, <2>4, <4>1, <4>2 DEF StepOf, Word
      <4> QED BY <1>1, <4>1, <4>2
    <3> QED BY <1>1, <1>5, <2>4, <3>1, <3>2, <3>3 DEF BehindInv
  <2> QED BY <2>1, <2>2, <2>3, <2>4
<1> QED BY <1>2, <1>4, <1>7, <1>8, <1>9, <1>10

-----------------------------------------------------------------------------
(* A worker let out of the first meeting that goes on to its word.         *)
LEMMA WorkMove ==
  ASSUME Listed, Placed, Meeting, Frame, NEW w \in Workers, NEW there \in {"assemble", "execute"},
         At(w, "wait"), seen[w] < generation, meeting[w] = 1,
         IF StepOf(w) = "leader" THEN w = leader ELSE there = "execute",
         pc' = [pc EXCEPT ![w] = there]
  PROVE  Meeting'
<1> USE DEF Listed, Placed, Meeting, Frame, At
<1>1. SeenInv'
  BY DEF SeenInv
<1>2. \A v \in Workers : Waits(v)' <=> Waits(v)
  BY DEF Waits
<1>3. CountInv'
  <2>1. Waiters' = Waiters
    BY <1>2 DEF Waiters
  <2> QED BY <2>1 DEF CountInv
<1>4. /\ \A v \in Workers : /\ AtNext(v)' <=> AtNext(v)
                            /\ PastFirst(v)' <=> PastFirst(v)
                            /\ PastSecond(v)' <=> PastSecond(v)
                            /\ Left(v)' <=> Left(v)
      /\ \A v \in Workers \ {w} : LetOut(v)' <=> LetOut(v)
  BY <1>2 DEF AtNext, LetOut, PastFirst, PastSecond, Left, AtBarrier
<1>5. StepInv'
  BY <1>2, <1>4 DEF StepInv, StepOf, Word, AtBarrier, PastFirst, LetOut
<1>6. Agree' /\ FirstInv' /\ SecondInv'
  BY <1>4 DEF Agree, FirstInv, SecondInv
<1>7. BehindInv'
  BY <1>4 DEF BehindInv, StepOf, Word
<1> QED BY <1>1, <1>3, <1>5, <1>6, <1>7

(* A worker that sets out for the second meeting of its word: whoever is   *)
(* on the way to the barrier is on the way to the same.                    *)
LEMMA SetOutAgain ==
  ASSUME Listed, Placed, Meeting, NEW w \in Workers,
         At(w, "execute") \/ (At(w, "wait") /\ seen[w] < generation /\ meeting[w] = 1),
         StepOf(w) \in {"leader", "joined"},
         meeting' = [meeting EXCEPT ![w] = 2],
         pc' = [pc EXCEPT ![w] = "generation"],
         UNCHANGED <<step, issued, completed, seen, arrived, generation>>
  PROVE  Meeting'
<1> USE DEF Listed, Placed, Meeting, At
<1>0. /\ seen[w] < generation /\ completed[w] < issued /\ completed[w] \in Nat
      /\ ~AtNext(w) /\ PastFirst(w) /\ ~PastSecond(w) /\ ~Left(w) /\ ~Waits(w)
  BY DEF SeenInv, StepInv, AtNext, PastFirst, PastSecond, LetOut, Left, Waits, AtBarrier
<1>1. SeenInv'
  BY <1>0 DEF SeenInv
<1>2. \A v \in Workers : Waits(v)' <=> Waits(v)
  BY <1>0 DEF Waits
<1>3. CountInv'
  <2>1. Waiters' = Waiters
    BY <1>2 DEF Waiters
  <2> QED BY <2>1 DEF CountInv
<1>4. /\ \A v \in Workers \ {w} :
             /\ AtNext(v)' <=> AtNext(v)
             /\ LetOut(v)' <=> LetOut(v)
             /\ PastFirst(v)' <=> PastFirst(v)
             /\ PastSecond(v)' <=> PastSecond(v)
             /\ Left(v)' <=> Left(v)
      /\ AtNext(w)' /\ PastFirst(w)' /\ ~PastSecond(w)' /\ ~LetOut(w)' /\ ~Left(w)'
  BY <1>0, <1>2 DEF AtNext, LetOut, PastFirst, PastSecond, Left, AtBarrier
<1>5. StepInv'
  BY <1>0, <1>2, <1>4 DEF StepInv, StepOf, Word, AtBarrier
<1>6. ASSUME NEW v \in Workers PROVE ~(completed[w] < completed[v])
  BY <1>0, <1>6 DEF BehindInv
<1>7. Agree'
  <2>1. ASSUME NEW u \in Workers \ {w}, AtNext(u)
        PROVE  completed[u] = completed[w] /\ meeting[u] = 2
    <3>1. completed[u] = completed[w]
      BY <1>0, <1>6 DEF FirstInv
    <3>2. PastFirst(u)
      BY <1>0, <2>1, <3>1 DEF FirstInv, Left, AtNext, Waits
    <3> QED BY <2>1, <3>1, <3>2 DEF PastFirst, AtNext, Waits, LetOut, AtBarrier
  <2> QED BY <1>4, <2>1 DEF Agree
<1>8. FirstInv'
  BY <1>0, <1>4 DEF FirstInv
<1>9. SecondInv'
  BY <1>0, <1>4 DEF SecondInv
<1>10. BehindInv'
  BY <1>4, <1>6 DEF BehindInv, StepOf, Word
<1> QED BY <1>1, <1>3, <1>5, <1>7, <1>8, <1>9, <1>10

-----------------------------------------------------------------------------
(* A worker that reads the barrier's generation.                           *)
LEMMA ReadMove ==
  ASSUME Listed, Placed, Meeting, NEW w \in Workers, At(w, "generation"),
         seen' = [seen EXCEPT ![w] = generation],
         pc' = [pc EXCEPT ![w] = "arrive"],
         UNCHANGED <<step, issued, completed, meeting, arrived, generation>>
  PROVE  Meeting'
<1> USE DEF Listed, Placed, Meeting, At
<1>1. SeenInv'
  BY DEF SeenInv
<1>2. \A v \in Workers : Waits(v)' <=> Waits(v)
  BY DEF Waits
<1>3. CountInv'
  <2>1. Waiters' = Waiters
    BY <1>2 DEF Waiters
  <2> QED BY <2>1 DEF CountInv
<1>4. \A v \in Workers : /\ AtNext(v)' <=> AtNext(v)
                         /\ LetOut(v)' <=> LetOut(v)
                         /\ PastFirst(v)' <=> PastFirst(v)
                         /\ PastSecond(v)' <=> PastSecond(v)
                         /\ Left(v)' <=> Left(v)
  BY <1>2 DEF AtNext, LetOut, PastFirst, PastSecond, Left, AtBarrier
<1>5. StepInv'
  BY <1>2, <1>4 DEF StepInv, StepOf, Word, AtBarrier
<1>6. Agree' /\ FirstInv' /\ SecondInv'
  BY <1>4 DEF Agree, FirstInv, SecondInv
<1>7. BehindInv'
  BY <1>4 DEF BehindInv, StepOf, Word
<1> QED BY <1>1, <1>3, <1>5, <1>6, <1>7

(* While a worker is still to arrive the barrier is not being opened, and  *)
(* its count is of those who have.                                         *)
LEMMA NotOpening ==
  ASSUME Placed, Meeting, NEW w \in Workers, At(w, "arrive")
  PROVE  /\ \A v \in Workers : ~At(v, "open")
         /\ seen[w] = generation
         /\ w \notin Waiters /\ IsFiniteSet(Waiters) /\ arrived = Cardinality(Waiters)
         /\ IsFiniteSet(Workers) /\ Cardinality(Workers) = N
<1>1. w \notin Waiters /\ seen[w] = generation
  BY DEF At, Waiters, Waits, Meeting, SeenInv
<1>2. \A v \in Workers : ~At(v, "open")
  BY <1>1 DEF At, Meeting, CountInv
<1>3. IsFiniteSet(Workers) /\ Cardinality(Workers) = N
  BY FS_Interval, DrainAssumption DEF Workers
<1>4. IsFiniteSet(Waiters)
  BY <1>3, FS_Subset DEF Waiters
<1> QED BY <1>1, <1>2, <1>3, <1>4 DEF Meeting, CountInv

(* A worker that arrives and is not the last.                              *)
LEMMA ArriveMove ==
  ASSUME Listed, Placed, Meeting, NEW w \in Workers, At(w, "arrive"),
         arrived' = arrived + 1,
         pc' = [pc EXCEPT ![w] = "wait"],
         UNCHANGED <<step, issued, completed, meeting, seen, generation>>
  PROVE  Meeting'
<1> USE DEF Listed, Placed, Meeting, At
<1>1. SeenInv'
  BY DEF SeenInv
<1>2. seen[w] = generation
  BY NotOpening
<1>3. Waits(w)' /\ \A v \in Workers \ {w} : Waits(v)' <=> Waits(v)
  BY <1>2 DEF Waits
<1>4. CountInv'
  <2>1. Waiters' = Waiters \union {w}
    BY <1>3 DEF Waiters
  <2>2. Cardinality(Waiters') = Cardinality(Waiters) + 1
    BY <2>1, NotOpening, FS_AddElement
  <2>3. arrived' = Cardinality(Waiters')
    BY <2>2, NotOpening
  <2>4. \A v \in Workers : pc'[v] # "open"
    BY NotOpening
  <2> QED BY <2>3, <2>4 DEF CountInv
<1>5. \A v \in Workers : /\ AtNext(v)' <=> AtNext(v)
                         /\ LetOut(v)' <=> LetOut(v)
                         /\ PastFirst(v)' <=> PastFirst(v)
                         /\ PastSecond(v)' <=> PastSecond(v)
                         /\ Left(v)' <=> Left(v)
  BY <1>2, <1>3 DEF AtNext, LetOut, PastFirst, PastSecond, Left, AtBarrier
<1>6. StepInv'
  BY <1>3, <1>5 DEF StepInv, StepOf, Word, AtBarrier
<1>7. Agree' /\ FirstInv' /\ SecondInv'
  BY <1>5 DEF Agree, FirstInv, SecondInv
<1>8. BehindInv'
  BY <1>5 DEF BehindInv, StepOf, Word
<1> QED BY <1>1, <1>4, <1>6, <1>7, <1>8

(* The last to arrive: all the others wait.                                *)
LEMMA LastMove ==
  ASSUME Listed, Placed, Meeting, NEW w \in Workers, At(w, "arrive"),
         arrived + 1 = N, arrived' = 0,
         pc' = [pc EXCEPT ![w] = "open"],
         UNCHANGED <<step, issued, completed, meeting, seen, generation>>
  PROVE  Meeting'
<1> USE DEF Listed, Placed, Meeting, At
<1>1. SeenInv'
  BY DEF SeenInv
<1>2. \A v \in Workers : Waits(v)' <=> Waits(v)
  BY DEF Waits
<1>3. CountInv'
  <2>1. Waiters' = Waiters
    BY <1>2 DEF Waiters
  <2>2. /\ IsFiniteSet(Workers \ {w})
        /\ Cardinality(Workers \ {w}) = N - 1
    BY NotOpening, FS_RemoveElement
  <2>3. Waiters \subseteq Workers \ {w}
    BY NotOpening DEF Waiters
  <2>4. Cardinality(Waiters) = N - 1
    BY NotOpening, DrainAssumption
  <2>5. Waiters = Workers \ {w}
    BY <2>2, <2>3, <2>4, FS_Subset
  <2>6. \A v \in Workers \ {w} : pc'[v] # "open"
    BY NotOpening
  <2> QED BY <2>1, <2>5, <2>6 DEF CountInv
<1>4. \A v \in Workers : /\ AtNext(v)' <=> AtNext(v)
                         /\ LetOut(v)' <=> LetOut(v)
                         /\ PastFirst(v)' <=> PastFirst(v)
                         /\ PastSecond(v)' <=> PastSecond(v)
                         /\ Left(v)' <=> Left(v)
  BY <1>2 DEF AtNext, LetOut, PastFirst, PastSecond, Left, AtBarrier
<1>5. StepInv'
  BY <1>2, <1>4 DEF StepInv, StepOf, Word, AtBarrier
<1>6. Agree' /\ FirstInv' /\ SecondInv'
  BY <1>4 DEF Agree, FirstInv, SecondInv
<1>7. BehindInv'
  BY <1>4 DEF BehindInv, StepOf, Word
<1> QED BY <1>1, <1>3, <1>5, <1>6, <1>7

-----------------------------------------------------------------------------
(* The last to arrive opens the barrier: all the others wait there or went *)
(* home from there, at the word and the meeting it is at.                  *)
LEMMA Opening ==
  ASSUME Placed, Meeting, NEW w \in Workers, At(w, "open")
  PROVE  /\ seen[w] = generation /\ arrived = 0
         /\ completed[w] < issued /\ StepOf(w) \in Shared
         /\ meeting[w] = 2 => StepOf(w) # "all"
         /\ \A v \in Workers \ {w} :
               /\ pc[v] \in {"wait", "raise", "home"} /\ seen[v] = generation
               /\ completed[v] = completed[w] /\ meeting[v] = meeting[w]
<1> USE DEF At
<1>1. AtNext(w) /\ Waiters = Workers \ {w} /\ arrived = 0
  BY DEF Meeting, CountInv, AtNext
<1>2. \A v \in Workers \ {w} : Waits(v) /\ AtNext(v)
  BY <1>1 DEF Waiters, AtNext
<1>3. \A v \in Workers \ {w} : completed[v] = completed[w] /\ meeting[v] = meeting[w]
  BY <1>1, <1>2 DEF Meeting, Agree
<1>4. seen[w] = generation
  BY DEF Meeting, SeenInv
<1>5. completed[w] < issued /\ StepOf(w) \in Shared /\ (meeting[w] = 2 => StepOf(w) # "all")
  BY <1>1 DEF Meeting, StepInv, AtBarrier
<1> QED BY <1>1, <1>2, <1>3, <1>4, <1>5 DEF Waits

(* Then nobody waits any more, and whoever is let out is where it was.     *)
LEMMA Opened ==
  ASSUME Placed, Meeting, NEW w \in Workers, At(w, "open"),
         generation' = seen[w] + 1, UNCHANGED <<seen, arrived>>,
         \A v \in Workers \ {w} : pc'[v] = pc[v],
         pc'[w] \in {"top", "generation", "assemble", "execute"}
  PROVE  /\ SeenInv' /\ CountInv'
         /\ generation' = generation + 1
         /\ \A v \in Workers : ~Waits(v)'
         /\ \A v \in Workers \ {w} : ~AtNext(v)' /\ (LetOut(v)' \/ Left(v)')
         /\ ~LetOut(w)' /\ ~Left(w)'
<1> USE DEF Placed, At
<1>1. generation' = generation + 1 /\ \A v \in Workers : seen[v] <= generation /\ seen[v] \in Int
  BY Opening DEF Meeting, SeenInv
<1>2. \A v \in Workers \ {w} : pc'[v] \in {"wait", "raise", "home"} /\ seen'[v] = generation
  BY Opening
<1>3. SeenInv'
  BY <1>1, <1>2 DEF SeenInv
<1>4. \A v \in Workers : ~Waits(v)'
  BY <1>1 DEF Waits
<1>5. CountInv'
  <2>1. Waiters' = {}
    BY <1>4 DEF Waiters
  <2> QED BY <1>2, <2>1, Opening, FS_EmptySet DEF CountInv
<1>6. \A v \in Workers \ {w} : ~AtNext(v)' /\ (LetOut(v)' \/ Left(v)')
  BY <1>1, <1>2, <1>4 DEF AtNext, LetOut, Left
<1> QED BY <1>1, <1>3, <1>4, <1>5, <1>6 DEF LetOut, Left

(* It opens the second meeting, and the word is run.                       *)
LEMMA OpenDone ==
  ASSUME Listed, Placed, Meeting, NEW w \in Workers, At(w, "open"), meeting[w] = 2,
         generation' = seen[w] + 1, Done(w, StepOf(w)),
         UNCHANGED <<issued, meeting, seen, arrived>>
  PROVE  Meeting'
<1> USE DEF Listed, Placed, At
<1>0. /\ \A v \in Workers \ {w} : completed'[v] = completed[v] /\ pc'[v] = pc[v]
      /\ completed'[w] = completed[w] + 1 /\ pc'[w] = "top"
      /\ completed[w] < issued /\ completed[w] \in Nat /\ Word(w) \in 1 .. MaxWords
      /\ \A v \in Workers \ {w} : /\ completed[v] = completed[w] /\ meeting[v] = 2
                                  /\ pc[v] \in {"wait", "raise", "home"}
      /\ StepOf(w) \in {"leader", "joined"}
  BY Opening, DrainAssumption DEF Done, Goto, Word, Shared
<1>1. /\ SeenInv' /\ CountInv'
      /\ \A v \in Workers : ~Waits(v)'
      /\ \A v \in Workers \ {w} : ~AtNext(v)' /\ (LetOut(v)' \/ Left(v)')
      /\ ~LetOut(w)' /\ ~AtNext(w)' /\ ~PastFirst(w)' /\ ~PastSecond(w)'
  BY <1>0, Opened DEF AtNext, PastFirst, PastSecond, LetOut, AtBarrier
<1>2. \A v \in Workers \ {w} : (PastFirst(v)' /\ PastSecond(v)') \/ Left(v)'
  BY <1>0, <1>1 DEF PastFirst, PastSecond
<1>3. ASSUME NEW v \in Workers \ {w} PROVE StepOf(v)' = StepOf(w)
  <2>1. completed[v] < Word(w) /\ Word(v) = Word(w)
    BY <1>0 DEF Word
  <2>2. step'[Word(w)] = StepOf(w)
    BY <1>0, <2>1 DEF Done, Goto
  <2> QED BY <1>0, <2>1, <2>2 DEF StepOf, Word
<1>4. StepInv'
  <2>1. \A v \in Workers \ {w} : completed'[v] < issued' /\ StepOf(v)' \in {"leader", "joined"}
                                 /\ pc'[v] \in {"wait", "raise", "home"}
    BY <1>0, <1>3
  <2>2. completed'[w] <= issued' /\ pc'[w] = "top"
    BY <1>0
  <2>3. ASSUME NEW v \in Workers
        PROVE  /\ PastFirst(v)' \/ AtNext(v)' => completed'[v] < issued' /\ StepOf(v)' \in Shared
               /\ StepOf(v)' = "all" => v = w
               /\ pc'[v] \notin {"gather", "assemble", "execute", "fall"}
               /\ pc'[v] \in AtBarrier \/ Waits(v)' => v # w
               /\ completed'[v] <= issued'
    BY <1>0, <1>1, <2>1, <2>2 DEF AtBarrier, Shared
  <2> QED BY <2>3 DEF StepInv
<1>5. Agree'
  BY <1>1 DEF Agree
<1>6. FirstInv' /\ SecondInv'
  <2>1. ASSUME NEW u \in Workers \ {w}, NEW v \in Workers
        PROVE  completed'[v] >= completed'[u] /\ (completed'[v] = completed'[u] => v # w)
    BY <1>0
  <2>2. ASSUME NEW u \in Workers, NEW v \in Workers, PastFirst(u)'
        PROVE  /\ completed'[v] >= completed'[u]
               /\ completed'[v] = completed'[u] => PastFirst(v)' \/ Left(v)'
    <3>1. u # w
      BY <1>1, <2>2
    <3>2. v # w => PastFirst(v)' \/ Left(v)'
      BY <1>2
    <3> QED BY <2>1, <3>1, <3>2
  <2>3. ASSUME NEW u \in Workers, NEW v \in Workers, PastSecond(u)'
        PROVE  /\ completed'[v] >= completed'[u]
               /\ completed'[v] = completed'[u] => PastSecond(v)' \/ Left(v)'
    <3>1. u # w
      BY <1>1, <2>3
    <3>2. v # w => PastSecond(v)' \/ Left(v)'
      BY <1>2
    <3> QED BY <2>1, <3>1, <3>2
  <2>4. FirstInv'
    BY <2>2 DEF FirstInv
  <2>5. SecondInv'
    BY <2>3 DEF SecondInv
  <2> QED BY <2>4, <2>5
<1>7. BehindInv'
  <2>1. \A v, u \in Workers : completed'[v] < completed'[u] =>
            /\ v # w /\ u = w
            /\ \A n \in completed'[v] + 2 .. completed'[u] : FALSE
    BY <1>0
  <2>2. \A v \in Workers \ {w} : pc'[v] = "home" \/ PastSecond(v)'
    BY <1>2 DEF Left
  <2> QED BY <1>0, <1>1, <1>3, <2>1, <2>2 DEF BehindInv
<1> QED BY <1>1, <1>4, <1>5, <1>6, <1>7 DEF Meeting

(* It opens the first meeting, and goes on to its word or to the second.   *)
LEMMA OpenWork ==
  ASSUME Listed, Placed, Meeting, NEW w \in Workers, At(w, "open"), meeting[w] = 1,
         generation' = seen[w] + 1,
         UNCHANGED <<step, issued, completed, seen, arrived>>,
         NEW there \in {"generation", "assemble", "execute"},
         pc' = [pc EXCEPT ![w] = there],
         IF there = "generation"
         THEN StepOf(w) = "leader" /\ meeting' = [meeting EXCEPT ![w] = 2]
         ELSE /\ UNCHANGED meeting
              /\ IF StepOf(w) = "leader" THEN w = leader ELSE there = "execute"
  PROVE  Meeting'
<1> USE DEF Listed, Placed, At
<1>0. /\ \A v \in Workers \ {w} : pc'[v] = pc[v] /\ meeting'[v] = 1
      /\ pc'[w] = there /\ (there = "generation" => meeting'[w] = 2)
      /\ completed[w] < issued /\ completed[w] \in Nat
      /\ \A v \in Workers : completed[v] = completed[w]
      /\ \A v \in Workers \ {w} : pc[v] \in {"wait", "raise", "home"}
      /\ \A v \in Workers : StepOf(v)' = StepOf(w)
      /\ StepOf(w) \in Shared
  <2>1. /\ completed[w] < issued /\ StepOf(w) \in Shared
        /\ \A v \in Workers : completed[v] = completed[w]
        /\ \A v \in Workers \ {w} : pc[v] \in {"wait", "raise", "home"} /\ meeting[v] = 1
    BY Opening
  <2>2. /\ \A v \in Workers \ {w} : pc'[v] = pc[v] /\ meeting'[v] = meeting[v]
        /\ pc'[w] = there /\ (there = "generation" => meeting'[w] = 2)
    OBVIOUS
  <2>3. \A v \in Workers : StepOf(v)' = StepOf(w)
    BY <2>1 DEF StepOf, Word
  <2> QED BY <2>1, <2>2, <2>3
<1>1. /\ SeenInv' /\ CountInv'
      /\ \A v \in Workers : ~Waits(v)'
      /\ \A v \in Workers \ {w} : ~AtNext(v)' /\ (LetOut(v)' \/ Left(v)')
      /\ ~LetOut(w)'
  BY <1>0, Opened
<1>2. /\ PastFirst(w)' /\ ~PastSecond(w)'
      /\ \A v \in Workers \ {w} : (PastFirst(v)' \/ Left(v)') /\ ~PastSecond(v)'
  BY <1>0, <1>1 DEF PastFirst, PastSecond, AtBarrier
<1>3. StepInv'
  <2>1. \A v \in Workers : completed'[v] < issued' /\ StepOf(v)' = StepOf(w)
    BY <1>0
  <2> QED BY <1>0, <1>1, <2>1 DEF StepInv, AtBarrier
<1>4. Agree'
  BY <1>0, <1>1 DEF Agree
<1>5. FirstInv' /\ SecondInv'
  BY <1>0, <1>2 DEF FirstInv, SecondInv
<1>6. BehindInv'
  BY <1>0 DEF BehindInv
<1> QED BY <1>1, <1>3, <1>4, <1>5, <1>6 DEF Meeting

-----------------------------------------------------------------------------
(* What a worker does where it has nothing to do with the barrier.         *)
LEMMA ApartSteps ==
  ASSUME Listed, Placed, CountsFit, Meeting, NEW w \in Workers,
         \/ Top(w) \/ Stand(w) \/ Lift(w) \/ Answer(w)
         \/ Doze(w) \/ Check(w) \/ Unparked(w)
  PROVE  Meeting'
<1> USE DEF At, Goto, list, barrier
<1>1. Frame
  BY DEF Frame, Top, Stand, Lift, Answer, Doze, Check, Unparked
<1>2. pc[w] \in Free
  BY DEF Free, Top, Stand, Lift, Answer, Doze, Check, Unparked
<1>3. completed[w] # issued => completed[w] < issued
  <2>1. pc[w] # "home" /\ completed[w] \in Nat /\ issued \in Nat
    BY <1>2, DrainAssumption DEF Free, Listed
  <2> QED BY <2>1 DEF CountsFit
<1>4. \E there \in Free \union {"home"} :
         pc' = [pc EXCEPT ![w] = there] /\ (there = "gather" => completed[w] < issued)
  <2>1. CASE Top(w) BY <1>3, <2>1 DEF Top, Fetch, Free
  <2>2. CASE Stand(w) BY <2>2 DEF Stand, Free
  <2>3. CASE Lift(w) BY <1>3, <2>3 DEF Lift, Fetch, Free
  <2>4. CASE Answer(w) BY <2>4 DEF Answer, Free
  <2>5. CASE Doze(w) BY <2>5 DEF Doze, Free
  <2>6. CASE Check(w) BY <2>6 DEF Check, Wake, Free
  <2>7. CASE Unparked(w) BY <2>7 DEF Unparked, Wake, Free
  <2> QED BY <2>1, <2>2, <2>3, <2>4, <2>5, <2>6, <2>7
<1> QED BY <1>1, <1>2, <1>4, FreeMove

LEMMA GatherStep ==
  ASSUME Listed, Placed, Meeting, NEW w \in Workers, Gather(w)
  PROVE  Meeting'
<1> USE DEF At
<1>1. PICK s \in IF StepOf(w) = "undecided" THEN Steps ELSE {StepOf(w)} :
         \/ s = "ready" /\ Done(w, s) /\ UNCHANGED meeting
         \/ /\ s # "ready"
            /\ step' = [step EXCEPT ![Word(w)] = s]
            /\ meeting' = [meeting EXCEPT ![w] = 1]
            /\ Goto(w, "generation")
            /\ UNCHANGED completed
  BY DEF Gather
<1>2. /\ At(w, "gather") /\ UNCHANGED <<issued, seen, arrived, generation>>
      /\ seen[w] < generation /\ completed[w] < issued
  BY DEF Gather, Meeting, SeenInv, StepInv
<1>3. StepOf(w) \in Steps \union {"undecided"}
  <2>1. Word(w) \in 1 .. MaxWords
    BY <1>2, DrainAssumption DEF Listed, Word
  <2> QED BY <2>1 DEF Listed, StepOf
<1>4. s \in Shared \union {"ready"} /\ (StepOf(w) = "undecided" \/ StepOf(w) = s)
  BY <1>1, <1>3 DEF Steps, Shared
<1>5. CASE s = "ready"
  BY <1>1, <1>2, <1>4, <1>5, DoneMove
<1>6. CASE s # "ready"
  BY <1>1, <1>2, <1>4, <1>6, SetOut DEF Goto
<1> QED BY <1>5, <1>6

LEMMA ExecuteStep ==
  ASSUME Listed, Placed, Meeting, NEW w \in Workers, Execute(w)
  PROVE  Meeting'
<1> USE DEF At
<1>1. /\ At(w, "execute") /\ UNCHANGED <<issued, seen, arrived, generation>>
      /\ seen[w] < generation /\ PastFirst(w)
      /\ completed[w] < issued /\ StepOf(w) \in Shared
  BY DEF Execute, PastFirst, Meeting, SeenInv, StepInv
<1>2. CASE StepOf(w) = "all"
  <2>1. ASSUME NEW v \in Workers
        PROVE  /\ completed[v] >= completed[w]
               /\ completed[v] = completed[w] => PastFirst(v) \/ Left(v)
    BY <1>1 DEF Meeting, FirstInv
  <2>2. ASSUME NEW v \in Workers, completed[v] = completed[w]
        PROVE  ~AtNext(v) /\ (pc[v] \in {"home", "execute"} \/ LetOut(v))
    <3>1. StepOf(v) = "all"
      BY <1>2, <2>2 DEF StepOf, Word
    <3>2. PastFirst(v) \/ Left(v)
      BY <2>1, <2>2
    <3>3. pc[v] \in AtBarrier \/ Waits(v) => meeting[v] # 2
      BY <3>1 DEF Meeting, StepInv
    <3>4. ~At(v, "assemble")
      BY <3>1 DEF Meeting, StepInv
    <3> QED BY <3>2, <3>3, <3>4 DEF Placed, PastFirst, Left, AtNext, Waits, LetOut, AtBarrier
  <2>3. Done(w, "all") /\ UNCHANGED meeting
    BY <1>2 DEF Execute
  <2> QED BY <1>1, <1>2, <2>1, <2>2, <2>3, DoneMove DEF Shared
<1>3. CASE StepOf(w) # "all"
  BY <1>1, <1>3, SetOutAgain DEF Execute, Goto, Shared
<1> QED BY <1>2, <1>3

LEMMA PassStep ==
  ASSUME Listed, Placed, Meeting, ~faulted, NEW w \in Workers, Pass(w)
  PROVE  Meeting'
<1> USE DEF At
<1>1. /\ At(w, "wait") /\ UNCHANGED <<issued, seen, arrived, generation>>
      /\ seen[w] < generation /\ PastFirst(w)
      /\ completed[w] < issued /\ StepOf(w) \in Shared
      /\ meeting[w] \in {1, 2} /\ (meeting[w] = 2 => StepOf(w) # "all")
  <2>1. At(w, "wait") /\ UNCHANGED <<issued, seen, arrived, generation>> /\ generation # seen[w]
    BY DEF Pass
  <2>2. seen[w] < generation
    BY <2>1 DEF Placed, Meeting, SeenInv
  <2>3. PastFirst(w)
    BY <2>1, <2>2 DEF PastFirst, LetOut
  <2> QED BY <2>1, <2>2, <2>3 DEF Meeting, StepInv, AtBarrier, Placed
<1>2. CASE meeting[w] = 2
  <2>1. PastSecond(w)
    BY <1>1, <1>2 DEF PastSecond, LetOut
  <2>2. ASSUME NEW v \in Workers
        PROVE  /\ completed[v] >= completed[w]
               /\ completed[v] = completed[w] =>
                     ~AtNext(v) /\ (At(v, "home") \/ PastSecond(v))
    BY <2>1 DEF Placed, Meeting, SecondInv, PastSecond, LetOut, Left, AtNext, Waits
  <2>3. Done(w, StepOf(w)) /\ UNCHANGED meeting /\ StepOf(w) # "all"
    BY <1>1, <1>2 DEF Pass, Through
  <2> QED BY <1>1, <2>2, <2>3, DoneMove
<1>3. CASE meeting[w] = 1
  <2>1. UNCHANGED <<step, completed>>
    BY <1>1, <1>3 DEF Pass, Through
  <2>2. CASE StepOf(w) = "leader" /\ w # leader
    BY <1>1, <1>3, <2>1, <2>2, SetOutAgain DEF Pass, Through, Goto
  <2>3. CASE ~(StepOf(w) = "leader" /\ w # leader)
    <3>1. PICK there \in {"assemble", "execute"} :
             /\ there = IF StepOf(w) = "leader" THEN "assemble" ELSE "execute"
             /\ pc' = [pc EXCEPT ![w] = there] /\ UNCHANGED meeting
      BY <1>3, <2>3 DEF Pass, Through, Goto
    <3> QED BY <1>1, <1>3, <2>1, <2>3, <3>1, WorkMove DEF Frame
  <2> QED BY <2>2, <2>3
<1> QED BY <1>1, <1>2, <1>3

LEMMA OpenStep ==
  ASSUME Listed, Placed, Meeting, NEW w \in Workers, Open(w)
  PROVE  Meeting'
<1> USE DEF At
<1>1. /\ At(w, "open") /\ generation' = seen[w] + 1 /\ UNCHANGED <<issued, seen, arrived>>
      /\ meeting[w] \in {1, 2}
  BY DEF Open, Placed
<1>2. CASE meeting[w] = 2
  BY <1>1, <1>2, OpenDone DEF Open, Through
<1>3. CASE meeting[w] = 1
  <2>1. UNCHANGED <<step, completed>>
    BY <1>3 DEF Open, Through
  <2>2. CASE StepOf(w) = "leader" /\ w # leader
    <3>1. meeting' = [meeting EXCEPT ![w] = 2] /\ pc' = [pc EXCEPT ![w] = "generation"]
      BY <1>3, <2>2 DEF Open, Through, Goto
    <3> QED BY <1>1, <1>3, <2>1, <2>2, <3>1, OpenWork
  <2>3. CASE ~(StepOf(w) = "leader" /\ w # leader)
    <3>1. PICK there \in {"assemble", "execute"} :
             /\ there = IF StepOf(w) = "leader" THEN "assemble" ELSE "execute"
             /\ pc' = [pc EXCEPT ![w] = there] /\ UNCHANGED meeting
      BY <1>3, <2>3 DEF Open, Through, Goto
    <3> QED BY <1>1, <1>3, <2>1, <2>3, <3>1, OpenWork
  <2> QED BY <2>2, <2>3
<1> QED BY <1>1, <1>2, <1>3

LEMMA BarrierSteps ==
  ASSUME Listed, Placed, Meeting, NEW w \in Workers, ~faulted,
         \/ Assemble(w) \/ GoHome(w) \/ HearPause(w) \/ Raise(w)
         \/ ReadGeneration(w) \/ Arrive(w)
  PROVE  Meeting'
<1> USE DEF At, Goto, Frame, list, barrier
<1>1. CASE Assemble(w) BY <1>1, StillMove DEF Assemble
<1>2. CASE GoHome(w) BY <1>2, StillMove DEF GoHome
<1>3. CASE HearPause(w) BY <1>3, StillMove DEF HearPause
<1>4. CASE Raise(w) BY <1>4, StillMove DEF Raise
<1>5. CASE ReadGeneration(w) BY <1>5, ReadMove DEF ReadGeneration
<1>6. CASE Arrive(w)
  <2>1. CASE arrived + 1 = N
    BY <1>6, <2>1, LastMove DEF Arrive
  <2>2. CASE arrived + 1 # N
    BY <1>6, <2>2, ArriveMove DEF Arrive
  <2> QED BY <2>1, <2>2
<1> QED BY <1>1, <1>2, <1>3, <1>4, <1>5, <1>6

(* The machine's steps at most publish a word.                             *)
LEMMA MachineKeepsMeeting ==
  ASSUME Listed, Placed, Meeting,
         UNCHANGED <<completed, pc, barrier, step>>, issued' \in Nat, issued' >= issued
  PROVE  Meeting'
<1> USE DEF Listed, Placed, Meeting, At, barrier
<1>1. SeenInv'
  BY DEF SeenInv
<1>2. \A v \in Workers : /\ Waits(v)' <=> Waits(v)
                         /\ AtNext(v)' <=> AtNext(v)
                         /\ LetOut(v)' <=> LetOut(v)
                         /\ PastFirst(v)' <=> PastFirst(v)
                         /\ PastSecond(v)' <=> PastSecond(v)
                         /\ Left(v)' <=> Left(v)
  BY DEF Waits, AtNext, LetOut, PastFirst, PastSecond, Left
<1>3. CountInv'
  <2>1. Waiters' = Waiters
    BY <1>2 DEF Waiters
  <2> QED BY <2>1 DEF CountInv
<1>4. StepInv'
  BY <1>2 DEF StepInv, StepOf, Word
<1>5. Agree' /\ FirstInv' /\ SecondInv'
  BY <1>2 DEF Agree, FirstInv, SecondInv
<1>6. BehindInv'
  BY <1>2 DEF BehindInv, StepOf, Word
<1> QED BY <1>1, <1>3, <1>4, <1>5, <1>6

-----------------------------------------------------------------------------
(* A fault stays.                                                          *)
LEMMA FaultStays == [Next]_vars /\ faulted => faulted'
<1> SUFFICES ASSUME [Next]_vars, faulted PROVE faulted'
  OBVIOUS
<1>1. ASSUME NEW w \in Workers, Worker(w) PROVE faulted'
  BY <1>1, Zenon DEF Worker, Top, Gather, Assemble, Execute, ReadGeneration, Arrive, Open, Pass,
     GoHome, HearPause, Raise, Stand, Lift, Answer, Doze, Check, Unparked, Fall
<1>2. ASSUME NEW w \in Workers, Panic(w) PROVE faulted'
  BY <1>2, Zenon DEF Panic
<1>3. CASE MachineMoves
  BY <1>3, Zenon DEF MachineMoves, MachineStep, MachineChoice, AllUnmoved, NeedRoom, Publish, EndBatch,
     Access, Join, Stop, Drop, Arrived, Assembled, Hold, Ask, ReadPoint, Scan, ReadPointAgain,
     AssembledHeld, HoldAgain, Resume, Forget, Rethrow, End, Ended
<1>4. CASE UNCHANGED vars
  BY <1>4, Zenon DEF vars
<1> QED BY <1>1, <1>2, <1>3, <1>4, Zenon DEF Next, MachineMoves, Gone

LEMMA NextBInv == DInv /\ BInv /\ [Next]_vars => BInv'
<1> SUFFICES ASSUME DInv, BInv, [Next]_vars, ~faulted' PROVE Meeting'
  BY DEF BInv
<1>1. ~faulted /\ Meeting
  BY FaultStays, Zenon DEF BInv
<1>2. Listed /\ Placed /\ CountsFit
  BY TypeParts DEF DInv
<1>3. ASSUME NEW w \in Workers, Worker(w) PROVE Meeting'
  <2>1. CASE \/ Top(w) \/ Stand(w) \/ Lift(w) \/ Answer(w)
             \/ Doze(w) \/ Check(w) \/ Unparked(w)
    BY <1>1, <1>2, <2>1, ApartSteps
  <2>2. CASE \/ Assemble(w) \/ GoHome(w) \/ HearPause(w) \/ Raise(w)
             \/ ReadGeneration(w) \/ Arrive(w)
    BY <1>1, <1>2, <2>2, BarrierSteps
  <2>3. CASE Gather(w)
    BY <1>1, <1>2, <2>3, GatherStep
  <2>4. CASE Execute(w)
    BY <1>1, <1>2, <2>4, ExecuteStep
  <2>5. CASE Open(w)
    BY <1>1, <1>2, <2>5, OpenStep
  <2>6. CASE Pass(w)
    BY <1>1, <1>2, <2>6, PassStep
  <2>7. CASE Fall(w)
    BY <1>1, <2>7 DEF Fall, At, Meeting, StepInv
  <2> QED BY <1>3, <2>1, <2>2, <2>3, <2>4, <2>5, <2>6, <2>7 DEF Worker
<1>4. ASSUME NEW w \in Workers, Panic(w) PROVE Meeting'
  BY <1>4, Zenon DEF Panic
<1>5. CASE MachineMoves
  <2>1. UNCHANGED <<completed, pc, barrier>>
    BY <1>5, Zenon DEF MachineMoves, MachineStep, MachineChoice, AllUnmoved, NeedRoom, Publish, EndBatch,
       Access, Join, Stop, Drop, Arrived, Assembled, Hold, Ask, ReadPoint, Scan, ReadPointAgain,
       AssembledHeld, HoldAgain, Resume, Forget, Rethrow, End, Ended
  <2>2. UNCHANGED step /\ (issued' = issued \/ issued' = issued + 1)
    BY <1>5, Zenon DEF MachineMoves, MachineStep, MachineChoice, NeedRoom, Publish, EndBatch,
       Access, Join, Stop, Drop, Arrived, Assembled, Hold, Ask, ReadPoint, Scan, ReadPointAgain,
       AssembledHeld, HoldAgain, Resume, Forget, Rethrow, End, Ended, list
  <2>3. issued' \in Nat /\ issued' >= issued
    BY <1>2, <2>2, DrainAssumption DEF Listed
  <2> QED BY <1>1, <1>2, <2>1, <2>2, <2>3, MachineKeepsMeeting
<1>6. CASE UNCHANGED vars
  <2>1. UNCHANGED <<completed, pc, barrier, list>>
    BY <1>6, Zenon DEF vars
  <2>2. issued' \in Nat /\ issued' >= issued
    BY <1>2, <2>1, DrainAssumption DEF Listed, list
  <2> QED BY <1>1, <1>2, <2>1, <2>2, MachineKeepsMeeting DEF list
<1> QED BY <1>3, <1>4, <1>5, <1>6 DEF Next, MachineMoves, Gone

THEOREM AlwaysBInv == Spec => []BInv
BY InitBInv, NextBInv, AlwaysDInv, PTL DEF Spec

-----------------------------------------------------------------------------
(* A word the workers must meet for is run by none before all have run     *)
(* every word before it, and one they must also leave together is passed   *)
(* by none while any is still running it (dp_threads.rs: run_worker,       *)
(* WorkerBarrier), for any number of workers and any list.                 *)
THEOREM WordsInStep == Spec => []SharedWordsInStep
<1>1. DInv /\ BInv => SharedWordsInStep
  <2> SUFFICES ASSUME DInv, BInv, ~faulted, NEW w \in Workers, At(w, "execute"), NEW v \in Workers
               PROVE  /\ completed[v] >= completed[w]
                      /\ StepOf(w) # "all" => completed[v] = completed[w]
    BY DEF SharedWordsInStep
  <2>1. Meeting /\ Listed
    BY TypeParts DEF DInv, BInv
  <2>2. PastFirst(w)
    BY DEF At, PastFirst
  <2>3. completed[v] >= completed[w] /\ completed[v] \in Nat /\ completed[w] \in Nat
    BY <2>1, <2>2 DEF Meeting, FirstInv, Listed
  <2>4. StepOf(w) # "all" => StepOf(w) \in {"leader", "joined"}
    BY <2>1, <2>2 DEF Meeting, StepInv, Shared
  <2>5. ~At(w, "home") /\ ~PastSecond(w)
    BY DEF At, PastSecond, LetOut
  <2>6. StepOf(w) # "all" => ~(completed[w] < completed[v])
    BY <2>1, <2>4, <2>5 DEF Meeting, BehindInv
  <2> QED BY <2>3, <2>6
<1> QED BY <1>1, AlwaysDInv, AlwaysBInv, PTL

(* The leader's scratch is put together while no other worker writes its   *)
(* own: between the two meetings of a word it runs alone (dp_threads.rs:   *)
(* run_worker), and by the machine at a join, a stop and a hold, when all  *)
(* have run the list or stand (join, stop, hold, assemble).                *)
THEOREM ScratchIsOnes == Spec => []AssembledAlone
<1>1. DInv /\ BInv => AssembledAlone
  <2> SUFFICES ASSUME DInv, BInv, ~faulted PROVE AssembledAlone
    BY DEF AssembledAlone
  <2>1. Meeting /\ Listed /\ CountsFit /\ GoalInv /\ HeldInv
    BY TypeParts DEF DInv, BInv
  <2>2. ASSUME At(leader, "assemble"), NEW w \in Workers \ {leader} PROVE ~Busy(w)
    <3>1. leader \in Workers
      BY DrainAssumption DEF Workers, leader
    <3>2. PastFirst(leader) /\ StepOf(leader) = "leader" /\ ~PastSecond(leader)
      BY <2>1, <2>2, <3>1 DEF At, PastFirst, PastSecond, LetOut, Meeting, StepInv
    <3>3. completed[w] \in Nat /\ completed[leader] \in Nat /\ completed[w] >= completed[leader]
      BY <2>1, <3>1, <3>2 DEF Meeting, FirstInv, Listed
    <3>4. ~(completed[leader] < completed[w])
      BY <2>1, <2>2, <3>1, <3>2 DEF Meeting, BehindInv, At
    <3>5. completed[w] = completed[leader]
      BY <3>3, <3>4
    <3>6. PastFirst(w) \/ Left(w)
      BY <2>1, <3>1, <3>2, <3>5 DEF Meeting, FirstInv
    <3>7. StepOf(w) = "leader"
      BY <3>2, <3>5 DEF StepOf, Word
    <3>8. pc[w] \notin {"assemble", "execute"}
      BY <2>1, <3>7 DEF Meeting, StepInv
    <3> QED BY <3>6, <3>8 DEF PastFirst, Left, LetOut, AtBarrier, Busy, At
  <2>3. ASSUME machine \in {"joined", "stopped"}, NEW w \in Workers PROVE ~Busy(w)
    <3>1. completed[w] >= issued /\ completed[w] \in Nat /\ issued \in Nat
      BY <2>1, <2>3, DrainAssumption DEF GoalInv, Listed
    <3> QED BY <2>1, <3>1 DEF CountsFit, Busy, Running
  <2>4. ASSUME machine = "gathered", NEW w \in Workers PROVE ~Busy(w)
    BY <2>1, <2>4 DEF HeldInv, StandPlaces, Busy
  <2> QED BY <2>2, <2>3, <2>4 DEF AssembledAlone
<1> QED BY <1>1, AlwaysDInv, AlwaysBInv, PTL
=============================================================================
