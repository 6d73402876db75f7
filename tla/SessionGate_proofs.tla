-------------------------- MODULE SessionGate_proofs --------------------------
(***************************************************************************)
(* What holds of the gate for every set of threads, whatever calls they    *)
(* make: its invariants, and that it keeps the promise of GatePromise,     *)
(* each of its steps being a step of the promise's or changing nothing     *)
(* the promise speaks of.  The run gate_calls shows the same on two frame  *)
(* threads and a client.                                                   *)
(***************************************************************************)
EXTENDS SessionGate, FiniteSetTheorems, TLAPS

Inside == {"taken", "mark", "hold", "drop", "release", "looking"}

(* The mutex's holder is the thread whose place is inside it.              *)
EngineIsInside == \A t \in Threads : engine = t <=> pc[t] \in Inside

(* The owner mark is on exactly from Mark to Unmark.                       *)
OwnerIsMarked == \A t \in Threads : owner = t <=> pc[t] \in {"hold", "drop"}

(* Only a frame call claims the slot or gives it back.                     *)
SlotPlaces == \A t \in Threads : pc[t] \in {"claim", "leave"} => call[t] = "frame"

(* A frame on its way to the gate has seen every waiter that was overtaken *)
(* served, and only a waiter is counted as overtaken.                      *)
NextFrameBehindTheWaiters ==
    \A t \in Threads :
        overtaken[t] > 0 =>
            /\ pc[t] = "queued"
            /\ \A u \in Threads \ {t} :
                  ~(call[u] = "frame" /\ pc[u] \in {"enter", "queued"})

IInv ==
    /\ TypeOK
    /\ EngineIsInside
    /\ OwnerIsMarked
    /\ PendingIsTheWaiters
    /\ ClosedLetsNobodyIn
    /\ SlotPlaces
    /\ FrameSlotIsTheCallers
    /\ NextFrameBehindTheWaiters
    /\ OvertakenAtMostOnce
    /\ NoLostWake

-----------------------------------------------------------------------------
(* The set of counted threads is finite, so its cardinality is a number.   *)
LEMMA CountedIsFinite == IsFiniteSet(Counted)
<1>1. Counted \subseteq Threads
  BY DEF Counted
<1> QED
  BY <1>1, ThreadsAssumption, FS_Subset

(* Nobody is counted when the count is zero.                               *)
LEMMA NobodyCounted ==
  ASSUME PendingIsTheWaiters, pending = 0
  PROVE  \A t \in Threads : pc[t] # "queued"
<1>1. Counted = {}
  BY CountedIsFinite, FS_EmptySet DEF PendingIsTheWaiters
<1> QED
  BY <1>1 DEF Counted

(* The invariant holds in the initial states.                              *)
THEOREM InitInv == Init => IInv
<1> SUFFICES ASSUME Init PROVE IInv
  OBVIOUS
<1>1. Counted = {}
  BY DEF Init, Counted
<1>2. PendingIsTheWaiters
  BY <1>1, FS_EmptySet DEF Init, PendingIsTheWaiters
<1>3. TypeOK
  <2>1. closed \in BOOLEAN /\ woken \in BOOLEAN
    BY DEF Init
  <2>2. overtaken \in [Threads -> 0 .. MaxOvertaken]
    BY BoundAssumption DEF Init
  <2>3. pc \in [Threads -> Places] /\ call \in [Threads -> AllCalls]
    BY DEF Init, Places, AllCalls
  <2>4. answer \in [Threads -> Answers]
    BY DEF Init, Answers
  <2> QED
    BY <2>1, <2>2, <2>3, <2>4 DEF Init, TypeOK
<1> QED
  BY <1>2, <1>3, ThreadsAssumption
     DEF Init, IInv, EngineIsInside, OwnerIsMarked, ClosedLetsNobodyIn, SlotPlaces,
         FrameSlotIsTheCallers, NextFrameBehindTheWaiters, OvertakenAtMostOnce,
         NoLostWake, At, Inside, InsideFrame

-----------------------------------------------------------------------------
(* The count follows the set of counted threads from step to step.         *)
LEMMA CountStays ==
  ASSUME PendingIsTheWaiters, UNCHANGED pending, Counted' = Counted
  PROVE  PendingIsTheWaiters'
BY DEF PendingIsTheWaiters

LEMMA CountGrows ==
  ASSUME PendingIsTheWaiters, NEW t \in Threads, t \notin Counted,
         pending' = pending + 1, Counted' = Counted \union {t}
  PROVE  PendingIsTheWaiters'
BY CountedIsFinite, FS_AddElement DEF PendingIsTheWaiters

LEMMA CountShrinks ==
  ASSUME PendingIsTheWaiters, NEW t \in Threads, t \in Counted,
         pending' = pending - 1, Counted' = Counted \ {t}
  PROVE  PendingIsTheWaiters'
BY CountedIsFinite, FS_RemoveElement DEF PendingIsTheWaiters

LEMMA SomebodyIsCounted ==
  ASSUME PendingIsTheWaiters, NEW t \in Threads, t \in Counted
  PROVE  pending \in Nat /\ pending > 0
<1>1. Cardinality(Counted) \in Nat /\ Cardinality(Counted) # 0
  BY CountedIsFinite, FS_CardinalityType, FS_EmptySet
<1> QED
  BY <1>1 DEF PendingIsTheWaiters

(* Every step keeps the invariant. *)
THEOREM NextInv == IInv /\ [Next]_vars => IInv'
<1> SUFFICES ASSUME IInv, [Next]_vars PROVE IInv'
  OBVIOUS
<1> USE DEF IInv, At, Goto, Answer
<1>1. ASSUME NEW t \in Threads, Claim(t) PROVE IInv'
  <2> USE <1>1 DEF Claim, gate, wake
  <2>1. TypeOK'
    BY ThreadsAssumption DEF TypeOK, Places, Answers, AllCalls
  <2>2. EngineIsInside' /\ OwnerIsMarked'
    BY ThreadsAssumption DEF EngineIsInside, OwnerIsMarked, Inside, TypeOK
  <2>3. PendingIsTheWaiters'
    <3>1. Counted' = Counted
      BY DEF Counted, TypeOK
    <3> QED
      BY <3>1, CountStays
  <2>4. SlotPlaces' /\ FrameSlotIsTheCallers'
    BY ThreadsAssumption DEF SlotPlaces, FrameSlotIsTheCallers, InsideFrame, TypeOK
  <2>5. ClosedLetsNobodyIn' /\ NoLostWake'
    BY DEF ClosedLetsNobodyIn, NoLostWake, EngineIsInside, Inside, TypeOK
  <2>6. NextFrameBehindTheWaiters' /\ OvertakenAtMostOnce'
    BY DEF NextFrameBehindTheWaiters, OvertakenAtMostOnce, TypeOK
  <2> QED
    BY <2>1, <2>2, <2>3, <2>4, <2>5, <2>6
<1>2. ASSUME NEW t \in Threads, ClaimRefused(t) PROVE IInv'
  <2> USE <1>2 DEF ClaimRefused, Return, gate, wake
  <2>1. TypeOK'
    BY ThreadsAssumption DEF TypeOK, Places, Answers, AllCalls
  <2>2. EngineIsInside' /\ OwnerIsMarked'
    BY ThreadsAssumption DEF EngineIsInside, OwnerIsMarked, Inside, TypeOK
  <2>3. PendingIsTheWaiters'
    <3>1. Counted' = Counted
      BY DEF Counted, TypeOK
    <3> QED
      BY <3>1, CountStays
  <2>4. SlotPlaces' /\ FrameSlotIsTheCallers'
    BY ThreadsAssumption DEF SlotPlaces, FrameSlotIsTheCallers, InsideFrame, TypeOK
  <2>5. ClosedLetsNobodyIn' /\ NoLostWake'
    BY DEF ClosedLetsNobodyIn, NoLostWake, EngineIsInside, Inside, TypeOK
  <2>6. NextFrameBehindTheWaiters' /\ OvertakenAtMostOnce'
    BY DEF NextFrameBehindTheWaiters, OvertakenAtMostOnce, TypeOK
  <2> QED
    BY <2>1, <2>2, <2>3, <2>4, <2>5, <2>6
<1>3. ASSUME NEW t \in Threads, Yield(t) PROVE IInv'
  <2> USE <1>3 DEF Yield, gate, wake
  <2>1. TypeOK'
    BY ThreadsAssumption DEF TypeOK, Places, Answers, AllCalls
  <2>2. EngineIsInside' /\ OwnerIsMarked'
    BY ThreadsAssumption DEF EngineIsInside, OwnerIsMarked, Inside, TypeOK
  <2>3. PendingIsTheWaiters'
    <3>1. Counted' = Counted
      BY DEF Counted, TypeOK
    <3> QED
      BY <3>1, CountStays
  <2>4. SlotPlaces' /\ FrameSlotIsTheCallers'
    BY ThreadsAssumption DEF SlotPlaces, FrameSlotIsTheCallers, InsideFrame, TypeOK
  <2>5. ClosedLetsNobodyIn' /\ NoLostWake'
    BY DEF ClosedLetsNobodyIn, NoLostWake, EngineIsInside, Inside, TypeOK
  <2>6. NextFrameBehindTheWaiters' /\ OvertakenAtMostOnce'
    BY NobodyCounted DEF NextFrameBehindTheWaiters, OvertakenAtMostOnce, TypeOK
  <2> QED
    BY <2>1, <2>2, <2>3, <2>4, <2>5, <2>6
<1>4. ASSUME NEW t \in Threads, Count(t) PROVE IInv'
  <2> USE <1>4 DEF Count, gate, wake
  <2>1. TypeOK'
    BY ThreadsAssumption DEF TypeOK, Places, Answers, AllCalls
  <2>2. EngineIsInside' /\ OwnerIsMarked'
    BY ThreadsAssumption DEF EngineIsInside, OwnerIsMarked, Inside, TypeOK
  <2>3. PendingIsTheWaiters'
    <3>1. Counted' = Counted \union {t}
      BY DEF Counted, TypeOK
    <3>2. t \notin Counted
      BY DEF Counted
    <3> QED
      BY <3>1, <3>2, CountGrows
  <2>4. SlotPlaces' /\ FrameSlotIsTheCallers'
    BY ThreadsAssumption DEF SlotPlaces, FrameSlotIsTheCallers, InsideFrame, TypeOK
  <2>5. ClosedLetsNobodyIn' /\ NoLostWake'
    BY DEF ClosedLetsNobodyIn, NoLostWake, EngineIsInside, Inside, TypeOK
  <2>6. NextFrameBehindTheWaiters' /\ OvertakenAtMostOnce'
    BY DEF NextFrameBehindTheWaiters, OvertakenAtMostOnce, TypeOK
  <2> QED
    BY <2>1, <2>2, <2>3, <2>4, <2>5, <2>6
<1>5. ASSUME NEW t \in Threads, Acquire(t) PROVE IInv'
  <2> USE <1>5 DEF Acquire, Overtake, gate, wake
  <2>1. TypeOK'
    <3>1. \A u \in Threads : overtaken'[u] \in 0 .. MaxOvertaken
      BY BoundAssumption DEF TypeOK
    <3> QED
      BY <3>1, ThreadsAssumption DEF TypeOK, Places, Answers, AllCalls
  <2>2. EngineIsInside' /\ OwnerIsMarked'
    BY ThreadsAssumption DEF EngineIsInside, OwnerIsMarked, Inside, TypeOK
  <2>3. PendingIsTheWaiters'
    <3>1. Counted' = Counted
      BY DEF Counted, TypeOK
    <3> QED
      BY <3>1, CountStays
  <2>4. SlotPlaces' /\ FrameSlotIsTheCallers'
    BY ThreadsAssumption DEF SlotPlaces, FrameSlotIsTheCallers, InsideFrame, TypeOK
  <2>5. ClosedLetsNobodyIn' /\ NoLostWake'
    BY DEF ClosedLetsNobodyIn, NoLostWake, EngineIsInside, Inside, TypeOK
  <2>6. NextFrameBehindTheWaiters' /\ OvertakenAtMostOnce'
    <3>1. CASE call[t] # "frame"
      BY <3>1 DEF NextFrameBehindTheWaiters, OvertakenAtMostOnce, TypeOK
    <3>2. CASE call[t] = "frame"
      <4>1. \A u \in Threads \ {t} :
               ~(call[u] = "frame" /\ pc[u] \in {"enter", "queued"})
        BY <3>2 DEF FrameSlotIsTheCallers, InsideFrame
      <4>2. \A u \in Threads \ {t} : overtaken[u] = 0
        BY <3>2 DEF NextFrameBehindTheWaiters, TypeOK
      <4>3. \A u \in Threads : overtaken'[u] \in {0, 1}
        BY <4>2 DEF TypeOK
      <4>4. \A u \in Threads : overtaken'[u] > 0 => u # t /\ pc'[u] = "queued"
        BY <4>2 DEF TypeOK
      <4> QED
        BY <4>1, <4>3, <4>4 DEF NextFrameBehindTheWaiters, OvertakenAtMostOnce, TypeOK
    <3> QED
      BY <3>1, <3>2
  <2> QED
    BY <2>1, <2>2, <2>3, <2>4, <2>5, <2>6
<1>6. ASSUME NEW t \in Threads, Uncount(t) PROVE IInv'
  <2> USE <1>6 DEF Uncount, gate, wake
  <2>1. TypeOK'
    <3>1. pending \in Nat /\ pending > 0
      BY SomebodyIsCounted DEF Counted
    <3> QED
      BY <3>1, ThreadsAssumption DEF TypeOK, Places, Answers, AllCalls
  <2>2. EngineIsInside' /\ OwnerIsMarked'
    BY ThreadsAssumption DEF EngineIsInside, OwnerIsMarked, Inside, TypeOK
  <2>3. PendingIsTheWaiters'
    <3>1. Counted' = Counted \ {t}
      BY DEF Counted, TypeOK
    <3>2. t \in Counted
      BY DEF Counted
    <3> QED
      BY <3>1, <3>2, CountShrinks
  <2>4. SlotPlaces' /\ FrameSlotIsTheCallers'
    BY ThreadsAssumption DEF SlotPlaces, FrameSlotIsTheCallers, InsideFrame, TypeOK
  <2>5. ClosedLetsNobodyIn' /\ NoLostWake'
    BY DEF ClosedLetsNobodyIn, NoLostWake, EngineIsInside, Inside, TypeOK
  <2>6. NextFrameBehindTheWaiters' /\ OvertakenAtMostOnce'
    BY DEF NextFrameBehindTheWaiters, OvertakenAtMostOnce, TypeOK
  <2> QED
    BY <2>1, <2>2, <2>3, <2>4, <2>5, <2>6
<1>7. ASSUME NEW t \in Threads, Mark(t) PROVE IInv'
  <2> USE <1>7 DEF Mark, gate, wake
  <2>1. TypeOK'
    BY ThreadsAssumption DEF TypeOK, Places, Answers, AllCalls
  <2>2. EngineIsInside' /\ OwnerIsMarked'
    BY ThreadsAssumption DEF EngineIsInside, OwnerIsMarked, Inside, TypeOK
  <2>3. PendingIsTheWaiters'
    <3>1. Counted' = Counted
      BY DEF Counted, TypeOK
    <3> QED
      BY <3>1, CountStays
  <2>4. SlotPlaces' /\ FrameSlotIsTheCallers'
    BY ThreadsAssumption DEF SlotPlaces, FrameSlotIsTheCallers, InsideFrame, TypeOK
  <2>5. ClosedLetsNobodyIn' /\ NoLostWake'
    BY DEF ClosedLetsNobodyIn, NoLostWake, EngineIsInside, Inside, TypeOK
  <2>6. NextFrameBehindTheWaiters' /\ OvertakenAtMostOnce'
    BY DEF NextFrameBehindTheWaiters, OvertakenAtMostOnce, TypeOK
  <2> QED
    BY <2>1, <2>2, <2>3, <2>4, <2>5, <2>6
<1>8. ASSUME NEW t \in Threads, Body(t) PROVE IInv'
  <2> USE <1>8 DEF Body, gate, wake
  <2>1. TypeOK'
    BY ThreadsAssumption DEF TypeOK, Places, Answers, AllCalls
  <2>2. EngineIsInside' /\ OwnerIsMarked'
    BY ThreadsAssumption DEF EngineIsInside, OwnerIsMarked, Inside, TypeOK
  <2>3. PendingIsTheWaiters'
    <3>1. Counted' = Counted
      BY DEF Counted, TypeOK
    <3> QED
      BY <3>1, CountStays
  <2>4. SlotPlaces' /\ FrameSlotIsTheCallers'
    BY ThreadsAssumption DEF SlotPlaces, FrameSlotIsTheCallers, InsideFrame, TypeOK
  <2>5. ClosedLetsNobodyIn' /\ NoLostWake'
    BY DEF ClosedLetsNobodyIn, NoLostWake, EngineIsInside, Inside, TypeOK
  <2>6. NextFrameBehindTheWaiters' /\ OvertakenAtMostOnce'
    BY DEF NextFrameBehindTheWaiters, OvertakenAtMostOnce, TypeOK
  <2> QED
    BY <2>1, <2>2, <2>3, <2>4, <2>5, <2>6
<1>9. ASSUME NEW t \in Threads, Unmark(t) PROVE IInv'
  <2> USE <1>9 DEF Unmark, gate, wake
  <2>1. TypeOK'
    BY ThreadsAssumption DEF TypeOK, Places, Answers, AllCalls
  <2>2. EngineIsInside' /\ OwnerIsMarked'
    BY ThreadsAssumption DEF EngineIsInside, OwnerIsMarked, Inside, TypeOK
  <2>3. PendingIsTheWaiters'
    <3>1. Counted' = Counted
      BY DEF Counted, TypeOK
    <3> QED
      BY <3>1, CountStays
  <2>4. SlotPlaces' /\ FrameSlotIsTheCallers'
    BY ThreadsAssumption DEF SlotPlaces, FrameSlotIsTheCallers, InsideFrame, TypeOK
  <2>5. ClosedLetsNobodyIn' /\ NoLostWake'
    BY DEF ClosedLetsNobodyIn, NoLostWake, EngineIsInside, Inside, TypeOK
  <2>6. NextFrameBehindTheWaiters' /\ OvertakenAtMostOnce'
    BY DEF NextFrameBehindTheWaiters, OvertakenAtMostOnce, TypeOK
  <2> QED
    BY <2>1, <2>2, <2>3, <2>4, <2>5, <2>6
<1>10. ASSUME NEW t \in Threads, Release(t) PROVE IInv'
  <2> USE <1>10 DEF Release, AfterGate, gate, wake
  <2>1. TypeOK'
    BY ThreadsAssumption DEF TypeOK, Places, Answers, AllCalls
  <2>2. EngineIsInside' /\ OwnerIsMarked'
    BY ThreadsAssumption DEF EngineIsInside, OwnerIsMarked, Inside, TypeOK
  <2>3. PendingIsTheWaiters'
    <3>1. Counted' = Counted
      BY DEF Counted, TypeOK
    <3> QED
      BY <3>1, CountStays
  <2>4. SlotPlaces' /\ FrameSlotIsTheCallers'
    BY ThreadsAssumption DEF SlotPlaces, FrameSlotIsTheCallers, InsideFrame, TypeOK
  <2>5. ClosedLetsNobodyIn' /\ NoLostWake'
    BY DEF ClosedLetsNobodyIn, NoLostWake, EngineIsInside, Inside, TypeOK
  <2>6. NextFrameBehindTheWaiters' /\ OvertakenAtMostOnce'
    BY DEF NextFrameBehindTheWaiters, OvertakenAtMostOnce, TypeOK
  <2> QED
    BY <2>1, <2>2, <2>3, <2>4, <2>5, <2>6
<1>11. ASSUME NEW t \in Threads, Leave(t) PROVE IInv'
  <2> USE <1>11 DEF Leave, gate, wake
  <2>1. TypeOK'
    BY ThreadsAssumption DEF TypeOK, Places, Answers, AllCalls
  <2>2. EngineIsInside' /\ OwnerIsMarked'
    BY ThreadsAssumption DEF EngineIsInside, OwnerIsMarked, Inside, TypeOK
  <2>3. PendingIsTheWaiters'
    <3>1. Counted' = Counted
      BY DEF Counted, TypeOK
    <3> QED
      BY <3>1, CountStays
  <2>4. SlotPlaces' /\ FrameSlotIsTheCallers'
    BY ThreadsAssumption DEF SlotPlaces, FrameSlotIsTheCallers, InsideFrame, TypeOK
  <2>5. ClosedLetsNobodyIn' /\ NoLostWake'
    BY DEF ClosedLetsNobodyIn, NoLostWake, EngineIsInside, Inside, TypeOK
  <2>6. NextFrameBehindTheWaiters' /\ OvertakenAtMostOnce'
    BY DEF NextFrameBehindTheWaiters, OvertakenAtMostOnce, TypeOK
  <2> QED
    BY <2>1, <2>2, <2>3, <2>4, <2>5, <2>6
<1>12. ASSUME NEW t \in Threads, Tell(t) PROVE IInv'
  <2> USE <1>12 DEF Tell, AfterWake, gate, wake
  <2>1. TypeOK'
    BY ThreadsAssumption DEF TypeOK, Places, Answers, AllCalls
  <2>2. EngineIsInside' /\ OwnerIsMarked'
    BY ThreadsAssumption DEF EngineIsInside, OwnerIsMarked, Inside, TypeOK
  <2>3. PendingIsTheWaiters'
    <3>1. Counted' = Counted
      BY DEF Counted, TypeOK
    <3> QED
      BY <3>1, CountStays
  <2>4. SlotPlaces' /\ FrameSlotIsTheCallers'
    BY ThreadsAssumption DEF SlotPlaces, FrameSlotIsTheCallers, InsideFrame, TypeOK
  <2>5. ClosedLetsNobodyIn' /\ NoLostWake'
    BY DEF ClosedLetsNobodyIn, NoLostWake, EngineIsInside, Inside, TypeOK
  <2>6. NextFrameBehindTheWaiters' /\ OvertakenAtMostOnce'
    BY DEF NextFrameBehindTheWaiters, OvertakenAtMostOnce, TypeOK
  <2> QED
    BY <2>1, <2>2, <2>3, <2>4, <2>5, <2>6
<1>13. ASSUME NEW t \in Threads, WakeOnce(t) PROVE IInv'
  <2> USE <1>13 DEF WakeOnce, WakeUp, AfterWake, gate, wake
  <2>1. TypeOK'
    BY ThreadsAssumption DEF TypeOK, Places, Answers, AllCalls
  <2>2. EngineIsInside' /\ OwnerIsMarked'
    BY ThreadsAssumption DEF EngineIsInside, OwnerIsMarked, Inside, TypeOK
  <2>3. PendingIsTheWaiters'
    <3>1. Counted' = Counted
      BY DEF Counted, TypeOK
    <3> QED
      BY <3>1, CountStays
  <2>4. SlotPlaces' /\ FrameSlotIsTheCallers'
    BY ThreadsAssumption DEF SlotPlaces, FrameSlotIsTheCallers, InsideFrame, TypeOK
  <2>5. ClosedLetsNobodyIn' /\ NoLostWake'
    BY DEF ClosedLetsNobodyIn, NoLostWake, EngineIsInside, Inside, TypeOK
  <2>6. NextFrameBehindTheWaiters' /\ OvertakenAtMostOnce'
    BY DEF NextFrameBehindTheWaiters, OvertakenAtMostOnce, TypeOK
  <2> QED
    BY <2>1, <2>2, <2>3, <2>4, <2>5, <2>6
<1>14. ASSUME NEW t \in Threads, WakeAgain(t) PROVE IInv'
  <2> USE <1>14 DEF WakeAgain, WakeUp, gate, wake
  <2>1. TypeOK'
    BY ThreadsAssumption DEF TypeOK, Places, Answers, AllCalls
  <2>2. EngineIsInside' /\ OwnerIsMarked'
    BY ThreadsAssumption DEF EngineIsInside, OwnerIsMarked, Inside, TypeOK
  <2>3. PendingIsTheWaiters'
    <3>1. Counted' = Counted
      BY DEF Counted, TypeOK
    <3> QED
      BY <3>1, CountStays
  <2>4. SlotPlaces' /\ FrameSlotIsTheCallers'
    BY ThreadsAssumption DEF SlotPlaces, FrameSlotIsTheCallers, InsideFrame, TypeOK
  <2>5. ClosedLetsNobodyIn' /\ NoLostWake'
    BY DEF ClosedLetsNobodyIn, NoLostWake, EngineIsInside, Inside, TypeOK
  <2>6. NextFrameBehindTheWaiters' /\ OvertakenAtMostOnce'
    BY DEF NextFrameBehindTheWaiters, OvertakenAtMostOnce, TypeOK
  <2> QED
    BY <2>1, <2>2, <2>3, <2>4, <2>5, <2>6
<1>15. ASSUME NEW t \in Threads, Announce(t) PROVE IInv'
  <2> USE <1>15 DEF Announce, gate, wake
  <2>1. TypeOK'
    BY ThreadsAssumption DEF TypeOK, Places, Answers, AllCalls
  <2>2. EngineIsInside' /\ OwnerIsMarked'
    BY ThreadsAssumption DEF EngineIsInside, OwnerIsMarked, Inside, TypeOK
  <2>3. PendingIsTheWaiters'
    <3>1. Counted' = Counted
      BY DEF Counted, TypeOK
    <3> QED
      BY <3>1, CountStays
  <2>4. SlotPlaces' /\ FrameSlotIsTheCallers'
    BY ThreadsAssumption DEF SlotPlaces, FrameSlotIsTheCallers, InsideFrame, TypeOK
  <2>5. ClosedLetsNobodyIn' /\ NoLostWake'
    BY DEF ClosedLetsNobodyIn, NoLostWake, EngineIsInside, Inside, TypeOK
  <2>6. NextFrameBehindTheWaiters' /\ OvertakenAtMostOnce'
    BY DEF NextFrameBehindTheWaiters, OvertakenAtMostOnce, TypeOK
  <2> QED
    BY <2>1, <2>2, <2>3, <2>4, <2>5, <2>6
<1>16. ASSUME NEW t \in Threads, Park(t) PROVE IInv'
  <2> USE <1>16 DEF Park, gate, wake
  <2>1. TypeOK'
    BY ThreadsAssumption DEF TypeOK, Places, Answers, AllCalls
  <2>2. EngineIsInside' /\ OwnerIsMarked'
    BY ThreadsAssumption DEF EngineIsInside, OwnerIsMarked, Inside, TypeOK
  <2>3. PendingIsTheWaiters'
    <3>1. Counted' = Counted
      BY DEF Counted, TypeOK
    <3> QED
      BY <3>1, CountStays
  <2>4. SlotPlaces' /\ FrameSlotIsTheCallers'
    BY ThreadsAssumption DEF SlotPlaces, FrameSlotIsTheCallers, InsideFrame, TypeOK
  <2>5. ClosedLetsNobodyIn' /\ NoLostWake'
    BY DEF ClosedLetsNobodyIn, NoLostWake, EngineIsInside, Inside, TypeOK
  <2>6. NextFrameBehindTheWaiters' /\ OvertakenAtMostOnce'
    BY DEF NextFrameBehindTheWaiters, OvertakenAtMostOnce, TypeOK
  <2> QED
    BY <2>1, <2>2, <2>3, <2>4, <2>5, <2>6
<1>17. ASSUME NEW t \in Threads, TakeFlag(t) PROVE IInv'
  <2> USE <1>17 DEF TakeFlag, Return, gate, wake
  <2>1. TypeOK'
    BY ThreadsAssumption DEF TypeOK, Places, Answers, AllCalls
  <2>2. EngineIsInside' /\ OwnerIsMarked'
    BY ThreadsAssumption DEF EngineIsInside, OwnerIsMarked, Inside, TypeOK
  <2>3. PendingIsTheWaiters'
    <3>1. Counted' = Counted
      BY DEF Counted, TypeOK
    <3> QED
      BY <3>1, CountStays
  <2>4. SlotPlaces' /\ FrameSlotIsTheCallers'
    BY ThreadsAssumption DEF SlotPlaces, FrameSlotIsTheCallers, InsideFrame, TypeOK
  <2>5. ClosedLetsNobodyIn' /\ NoLostWake'
    BY DEF ClosedLetsNobodyIn, NoLostWake, EngineIsInside, Inside, TypeOK
  <2>6. NextFrameBehindTheWaiters' /\ OvertakenAtMostOnce'
    BY DEF NextFrameBehindTheWaiters, OvertakenAtMostOnce, TypeOK
  <2> QED
    BY <2>1, <2>2, <2>3, <2>4, <2>5, <2>6
<1>18. ASSUME NEW t \in Threads, Look(t) PROVE IInv'
  <2> USE <1>18 DEF Look, gate, wake
  <2>1. TypeOK'
    BY ThreadsAssumption DEF TypeOK, Places, Answers, AllCalls
  <2>2. EngineIsInside' /\ OwnerIsMarked'
    BY ThreadsAssumption DEF EngineIsInside, OwnerIsMarked, Inside, TypeOK
  <2>3. PendingIsTheWaiters'
    <3>1. Counted' = Counted
      BY DEF Counted, TypeOK
    <3> QED
      BY <3>1, CountStays
  <2>4. SlotPlaces' /\ FrameSlotIsTheCallers'
    BY ThreadsAssumption DEF SlotPlaces, FrameSlotIsTheCallers, InsideFrame, TypeOK
  <2>5. ClosedLetsNobodyIn' /\ NoLostWake'
    BY DEF ClosedLetsNobodyIn, NoLostWake, EngineIsInside, Inside, TypeOK
  <2>6. NextFrameBehindTheWaiters' /\ OvertakenAtMostOnce'
    BY DEF NextFrameBehindTheWaiters, OvertakenAtMostOnce, TypeOK
  <2> QED
    BY <2>1, <2>2, <2>3, <2>4, <2>5, <2>6
<1>19. ASSUME NEW t \in Threads, Looked(t) PROVE IInv'
  <2> USE <1>19 DEF Looked, Return, gate, wake
  <2>1. TypeOK'
    BY ThreadsAssumption DEF TypeOK, Places, Answers, AllCalls
  <2>2. EngineIsInside' /\ OwnerIsMarked'
    BY ThreadsAssumption DEF EngineIsInside, OwnerIsMarked, Inside, TypeOK
  <2>3. PendingIsTheWaiters'
    <3>1. Counted' = Counted
      BY DEF Counted, TypeOK
    <3> QED
      BY <3>1, CountStays
  <2>4. SlotPlaces' /\ FrameSlotIsTheCallers'
    BY ThreadsAssumption DEF SlotPlaces, FrameSlotIsTheCallers, InsideFrame, TypeOK
  <2>5. ClosedLetsNobodyIn' /\ NoLostWake'
    BY DEF ClosedLetsNobodyIn, NoLostWake, EngineIsInside, Inside, TypeOK
  <2>6. NextFrameBehindTheWaiters' /\ OvertakenAtMostOnce'
    BY DEF NextFrameBehindTheWaiters, OvertakenAtMostOnce, TypeOK
  <2> QED
    BY <2>1, <2>2, <2>3, <2>4, <2>5, <2>6
<1>20. ASSUME NEW t \in Threads, TimeOut(t) PROVE IInv'
  <2> USE <1>20 DEF TimeOut, gate, wake
  <2>1. TypeOK'
    BY ThreadsAssumption DEF TypeOK, Places, Answers, AllCalls
  <2>2. EngineIsInside' /\ OwnerIsMarked'
    BY ThreadsAssumption DEF EngineIsInside, OwnerIsMarked, Inside, TypeOK
  <2>3. PendingIsTheWaiters'
    <3>1. Counted' = Counted
      BY DEF Counted, TypeOK
    <3> QED
      BY <3>1, CountStays
  <2>4. SlotPlaces' /\ FrameSlotIsTheCallers'
    BY ThreadsAssumption DEF SlotPlaces, FrameSlotIsTheCallers, InsideFrame, TypeOK
  <2>5. ClosedLetsNobodyIn' /\ NoLostWake'
    BY DEF ClosedLetsNobodyIn, NoLostWake, EngineIsInside, Inside, TypeOK
  <2>6. NextFrameBehindTheWaiters' /\ OvertakenAtMostOnce'
    BY DEF NextFrameBehindTheWaiters, OvertakenAtMostOnce, TypeOK
  <2> QED
    BY <2>1, <2>2, <2>3, <2>4, <2>5, <2>6
<1>21. ASSUME NEW t \in Threads, NEW c \in CallsOf(t), Call(t, c) PROVE IInv'
  <2> USE <1>21 DEF Call, gate, wake
  <2> c \in AllCalls
    BY CallsAssumption DEF CallsOf
  <2>1. TypeOK'
    BY ThreadsAssumption DEF TypeOK, Places, Answers, AllCalls, FirstStep
  <2>2. EngineIsInside' /\ OwnerIsMarked'
    BY ThreadsAssumption DEF EngineIsInside, OwnerIsMarked, Inside, TypeOK, AllCalls, FirstStep
  <2>3. PendingIsTheWaiters'
    <3>1. Counted' = Counted
      BY DEF Counted, TypeOK, AllCalls, FirstStep
    <3> QED
      BY <3>1, CountStays
  <2>4. SlotPlaces' /\ FrameSlotIsTheCallers'
    BY ThreadsAssumption DEF SlotPlaces, FrameSlotIsTheCallers, InsideFrame, TypeOK, AllCalls, FirstStep
  <2>5. ClosedLetsNobodyIn' /\ NoLostWake'
    BY DEF ClosedLetsNobodyIn, NoLostWake, EngineIsInside, Inside, TypeOK, AllCalls, FirstStep
  <2>6. NextFrameBehindTheWaiters' /\ OvertakenAtMostOnce'
    BY DEF NextFrameBehindTheWaiters, OvertakenAtMostOnce, TypeOK, AllCalls, FirstStep
  <2> QED
    BY <2>1, <2>2, <2>3, <2>4, <2>5, <2>6
<1>22. CASE UNCHANGED vars
  BY <1>22, CountStays
     DEF vars, TypeOK, EngineIsInside, OwnerIsMarked, Counted, ClosedLetsNobodyIn, SlotPlaces,
         FrameSlotIsTheCallers, NextFrameBehindTheWaiters, OvertakenAtMostOnce, NoLostWake
<1> QED
  BY <1>1, <1>2, <1>3, <1>4, <1>5, <1>6, <1>7, <1>8, <1>9, <1>10, <1>11, <1>12, <1>13,
     <1>14, <1>15, <1>16, <1>17, <1>18, <1>19, <1>20, <1>21, <1>22 DEF Next, Step

-----------------------------------------------------------------------------
(* The invariant holds always, for any threads and any calls they make.    *)
THEOREM AlwaysInv == Spec => []IInv
BY InitInv, NextInv, PTL DEF Spec

(* Every variable keeps its type.                                          *)
THEOREM TypeCorrect == Spec => []TypeOK
<1>1. IInv => TypeOK
  BY DEF IInv
<1> QED
  BY <1>1, AlwaysInv, PTL

(* The gate is marked with its holder while it is held, and with no thread *)
(* that comes to it: a nested take is refused, never deadlocked, and no    *)
(* other is refused for it.                                                *)
THEOREM GateIsMarked == Spec => []MarkedWhileHeld
<1>1. IInv => MarkedWhileHeld
  BY DEF IInv, MarkedWhileHeld, EngineIsInside, OwnerIsMarked, Inside, At
<1> QED
  BY <1>1, AlwaysInv, PTL

(* Two threads are never inside the gate together.                         *)
THEOREM OneHolder ==
  Spec => [](\A t, u \in Threads : At(t, "hold") /\ At(u, "hold") => t = u)
<1>1. IInv => \A t, u \in Threads : At(t, "hold") /\ At(u, "hold") => t = u
  BY DEF IInv, EngineIsInside, Inside, At
<1> QED
  BY <1>1, AlwaysInv, PTL

(* The count the frame thread yields to is the number of threads waiting.  *)
THEOREM CountIsRight == Spec => []PendingIsTheWaiters
<1>1. IInv => PendingIsTheWaiters
  BY DEF IInv
<1> QED
  BY <1>1, AlwaysInv, PTL

(* Nobody who takes the gate through lock() works on a closed session.     *)
THEOREM ClosedIsFinal == Spec => []ClosedLetsNobodyIn
<1>1. IInv => ClosedLetsNobodyIn
  BY DEF IInv
<1> QED
  BY <1>1, AlwaysInv, PTL

(* The frame slot is its caller's, and is given back on every way out.     *)
THEOREM SlotIsGivenBack == Spec => []FrameSlotIsTheCallers
<1>1. IInv => FrameSlotIsTheCallers
  BY DEF IInv
<1> QED
  BY <1>1, AlwaysInv, PTL

(* At most one frame is let in ahead of a counted waiter.                  *)
THEOREM OneFrameAhead == Spec => []OvertakenAtMostOnce
<1>1. IInv => OvertakenAtMostOnce
  BY DEF IInv
<1> QED
  BY <1>1, AlwaysInv, PTL

(* A parked frame thread has missed no wake.                               *)
THEOREM WakesAreHeard == Spec => []NoLostWake
<1>1. IInv => NoLostWake
  BY DEF IInv
<1> QED
  BY <1>1, AlwaysInv, PTL

-----------------------------------------------------------------------------
(* The promise.                                                            *)

(* Who looks at the engine or waits for a wake is no caller of the gate,   *)
(* and who stands at the gate does neither.                                *)
GatePlaces == {"yield", "enter", "queued", "taken", "mark", "hold", "drop", "release"}

CallersPlaces ==
    \A t \in Threads :
        /\ pc[t] \in {"look", "looking"} => call[t] = "look"
        /\ pc[t] \in {"announce", "check", "parked", "roused"} => call[t] = "wait"
        /\ pc[t] \in GatePlaces => call[t] \notin {"look", "wait"}

(* The thread let in is the one at work under the mutex, or about to be    *)
(* turned away.                                                            *)
Working == {"taken", "mark", "hold"}

LetInIsAtWork ==
    /\ \A t \in Threads : LetInNow = t <=> pc[t] \in Working
    /\ (\A t \in Threads : pc[t] \notin Working) => LetInNow = NoThread

MInv == IInv /\ CallersPlaces /\ LetInIsAtWork

-----------------------------------------------------------------------------
LEMMA InitPlaces == Init => CallersPlaces
BY DEF Init, CallersPlaces, GatePlaces

LEMMA NextPlaces == IInv /\ CallersPlaces /\ [Next]_vars => CallersPlaces'
<1> SUFFICES ASSUME IInv, CallersPlaces, [Next]_vars PROVE CallersPlaces'
  OBVIOUS
<1> TypeOK /\ SlotPlaces
  BY DEF IInv
<1>1. ASSUME NEW t \in Threads, NEW c \in CallsOf(t), Call(t, c)
      PROVE  CallersPlaces'
  <2>1. c \in AllCalls
    BY CallsAssumption DEF CallsOf
  <2>2. call' = [call EXCEPT ![t] = c] /\ pc' = [pc EXCEPT ![t] = FirstStep[c]]
    BY <1>1 DEF Call, Goto
  <2>3. /\ FirstStep[c] \in {"look", "looking"} => c = "look"
        /\ FirstStep[c] \in {"announce", "check", "parked", "roused"} => c = "wait"
        /\ FirstStep[c] \in GatePlaces => c \notin {"look", "wait"}
    BY <2>1 DEF FirstStep, AllCalls, GatePlaces
  <2> QED BY <2>2, <2>3 DEF CallersPlaces, TypeOK
<1>2. ASSUME NEW t \in Threads, Step(t) \/ TimeOut(t) PROVE CallersPlaces'
  <2> USE DEF CallersPlaces, GatePlaces, TypeOK, At, Goto
  <2>1. CASE Claim(t) BY <2>1 DEF Claim, SlotPlaces
  <2>2. CASE ClaimRefused(t) BY <2>2 DEF ClaimRefused, Return
  <2>3. CASE Yield(t) BY <2>3 DEF Yield
  <2>4. CASE Count(t) BY <2>4 DEF Count
  <2>5. CASE Acquire(t) BY <2>5 DEF Acquire
  <2>6. CASE Uncount(t) BY <2>6 DEF Uncount
  <2>7. CASE Mark(t) BY <2>7 DEF Mark
  <2>8. CASE Body(t) BY <2>8 DEF Body
  <2>9. CASE Unmark(t) BY <2>9 DEF Unmark
  <2>10. CASE Release(t) BY <2>10 DEF Release, AfterGate
  <2>11. CASE Leave(t) BY <2>11 DEF Leave
  <2>12. CASE Tell(t) BY <2>12 DEF Tell, AfterWake
  <2>13. CASE WakeOnce(t) BY <2>13 DEF WakeOnce, WakeUp, AfterWake
  <2>14. CASE WakeAgain(t) BY <2>14 DEF WakeAgain, WakeUp
  <2>15. CASE Announce(t) BY <2>15 DEF Announce
  <2>16. CASE Park(t) BY <2>16 DEF Park
  <2>17. CASE TakeFlag(t) BY <2>17 DEF TakeFlag, Return
  <2>18. CASE Look(t) BY <2>18 DEF Look
  <2>19. CASE Looked(t) BY <2>19 DEF Looked, Return
  <2>20. CASE TimeOut(t) BY <2>20 DEF TimeOut
  <2> QED
    BY <1>2, <2>1, <2>2, <2>3, <2>4, <2>5, <2>6, <2>7, <2>8, <2>9, <2>10, <2>11,
       <2>12, <2>13, <2>14, <2>15, <2>16, <2>17, <2>18, <2>19, <2>20 DEF Step
<1>3. CASE UNCHANGED vars
  BY <1>3 DEF vars, CallersPlaces
<1> QED BY <1>1, <1>2, <1>3 DEF Next

-----------------------------------------------------------------------------
LEMMA LetInIs == IInv => LetInIsAtWork
<1> SUFFICES ASSUME IInv PROVE LetInIsAtWork
  OBVIOUS
<1> /\ \A t \in Threads : engine = t <=> pc[t] \in Inside
    /\ Working \subseteq Inside
  BY DEF IInv, EngineIsInside, Working, Inside
<1>1. CASE \E u \in Threads : pc[u] \in Working
  <2>1. PICK u \in Threads : pc[u] \in Working
    BY <1>1
  <2>2. LetInNow = engine /\ engine = u
    BY <2>1 DEF LetInNow, Working
  <2>3. ASSUME NEW t \in Threads, pc[t] \in Working PROVE t = u
    BY <2>2, <2>3
  <2> QED BY <2>1, <2>2, <2>3 DEF LetInIsAtWork
<1>2. CASE ~ \E u \in Threads : pc[u] \in Working
  <2>1. LetInNow = NoThread
    BY <1>2 DEF LetInNow, Working
  <2> QED BY <1>2, <2>1, ThreadsAssumption DEF LetInIsAtWork
<1> QED BY <1>1, <1>2

LEMMA LetInStays ==
  ASSUME LetInIsAtWork, LetInIsAtWork',
         \A u \in Threads : pc[u] \in Working <=> pc'[u] \in Working
  PROVE  LetInNow' = LetInNow
<1>1. CASE \E u \in Threads : pc[u] \in Working
  BY <1>1 DEF LetInIsAtWork
<1>2. CASE ~ \E u \in Threads : pc[u] \in Working
  BY <1>2 DEF LetInIsAtWork
<1> QED BY <1>1, <1>2

(* Who waits, and what was told, follow the places and the answers.        *)
LEMMA PassedStays ==
  ASSUME \A u \in Threads : pc[u] = "queued" <=> pc'[u] = "queued",
         UNCHANGED overtaken
  PROVE  Passed' = Passed
BY DEF Passed

LEMMA ToldStays ==
  ASSUME UNCHANGED <<call, answer>>
  PROVE  Told' = Told
BY DEF Told, GateCallers

LEMMA ToldOne ==
  ASSUME NEW t \in Threads, NEW what,
         \A u \in Threads \ {t} : call'[u] = call[u] /\ answer'[u] = answer[u],
         what = IF call'[t] \notin {"look", "wait"} THEN ToldAs[answer'[t]] ELSE "nothing"
  PROVE  Told' = [Told EXCEPT ![t] = what]
<1>1. \A u \in Threads :
         Told'[u] = IF u = t THEN what ELSE Told[u]
  BY DEF Told, GateCallers
<1>2. Told \in [Threads -> {Told[u] : u \in Threads}] /\ DOMAIN Told = Threads
  BY DEF Told
<1>3. Told' = [u \in Threads |-> Told'[u]]
  BY DEF Told
<1> QED BY <1>1, <1>2, <1>3

-----------------------------------------------------------------------------
LEMMA InitPromise == Init => Promise!Init
<1> SUFFICES ASSUME Init PROVE Promise!Init
  OBVIOUS
<1>1. LetInNow = NoThread
  BY DEF Init, LetInNow
<1>2. Passed = [t \in {} |-> 0]
  BY DEF Init, Passed
<1>3. Told = [t \in Threads |-> "nothing"]
  BY DEF Init, Told, GateCallers, ToldAs
<1> QED BY <1>1, <1>2, <1>3 DEF Init, Promise!Init

(* Each step that a promise speaks of.                                     *)
LEMMA ForgetStep ==
  ASSUME NEW t \in Threads, LetInIsAtWork, LetInIsAtWork',
         pc[t] # "queued", pc[t] \notin Working,
         pc'[t] # "queued", pc'[t] \notin Working,
         \A u \in Threads \ {t} : /\ pc'[u] = pc[u]
                                  /\ call'[u] = call[u]
                                  /\ answer'[u] = answer[u],
         call'[t] \in {"look", "wait"} \/ answer'[t] \in {"none", "busy"},
         UNCHANGED <<in_frame, closed, overtaken>>
  PROVE  Promise!Next
<1>1. LetInNow' = LetInNow
  BY LetInStays
<1>2. Passed' = Passed
  BY PassedStays
<1>3. Told' = [Told EXCEPT ![t] = "nothing"]
  <2>1. "nothing" = IF call'[t] \notin {"look", "wait"} THEN ToldAs[answer'[t]] ELSE "nothing"
    BY DEF ToldAs
  <2> QED BY <2>1, ToldOne
<1>4. t \notin DOMAIN Passed /\ LetInNow # t
  BY DEF Passed, LetInIsAtWork
<1>5. Promise!Forget(t)
  BY <1>1, <1>2, <1>3, <1>4 DEF Promise!Forget, Promise!Waiting
<1> QED BY <1>5 DEF Promise!Next

LEMMA AskStep ==
  ASSUME NEW t \in Threads, MInv, MInv', Count(t)
  PROVE  Promise!Next
<1> USE DEF MInv, IInv, TypeOK, At, Goto
<1> pc' = [pc EXCEPT ![t] = "queued"] /\ pc[t] = "enter" /\ UNCHANGED <<overtaken, call, answer>>
  BY DEF Count
<1>1. LetInNow' = LetInNow
  BY LetInStays DEF Working
<1>2. Told' = Told
  BY ToldStays
<1>3. overtaken[t] = 0
  BY DEF NextFrameBehindTheWaiters
<1>4. t \notin DOMAIN Passed /\ LetInNow # t
  BY DEF Passed, LetInIsAtWork, Working
<1>5. Passed' = [u \in DOMAIN Passed \union {t} |-> IF u = t THEN 0 ELSE Passed[u]]
  <2>1. {u \in Threads : pc'[u] = "queued"} = {u \in Threads : pc[u] = "queued"} \union {t}
    OBVIOUS
  <2> QED BY <1>3, <2>1 DEF Passed
<1>6. Promise!Ask(t)
  BY <1>1, <1>2, <1>4, <1>5 DEF Promise!Ask, Promise!Waiting, Count
<1> QED BY <1>6 DEF Promise!Next

LEMMA LetInStep ==
  ASSUME NEW t \in Threads, MInv, MInv', Acquire(t)
  PROVE  Promise!Next
<1> USE DEF MInv, IInv, TypeOK, At, Goto
<1> /\ pc' = [pc EXCEPT ![t] = "taken"] /\ pc[t] = "queued"
    /\ engine = NoThread
    /\ UNCHANGED <<in_frame, closed, call, answer>>
    /\ overtaken' = Overtake(t)
  BY DEF Acquire, wake
<1>1. LetInNow = NoThread
  BY ThreadsAssumption DEF LetInIsAtWork, EngineIsInside, Inside, Working
<1>2. LetInNow' = t
  BY DEF LetInIsAtWork, Working
<1>3. Told' = Told
  BY ToldStays
<1>4. /\ DOMAIN Passed = {u \in Threads : pc[u] = "queued"}
      /\ \A u \in DOMAIN Passed : Passed[u] = overtaken[u]
  BY DEF Passed
<1>5. /\ Passed' = [u \in DOMAIN Passed \ {t} |-> overtaken'[u]]
      /\ t \in DOMAIN Passed
  <2>1. {u \in Threads : pc'[u] = "queued"} = {u \in Threads : pc[u] = "queued"} \ {t}
    OBVIOUS
  <2> QED BY <1>4, <2>1 DEF Passed
<1>6. in_frame = t <=> call[t] = "frame"
  BY DEF FrameSlotIsTheCallers, InsideFrame
<1>7. CASE call[t] # "frame"
  <2>1. \A u \in DOMAIN Passed \ {t} : overtaken'[u] = Passed[u]
    BY <1>4, <1>7 DEF Overtake
  <2>2. Passed' = [u \in DOMAIN Passed \ {t} |-> Passed[u]]
    BY <1>5, <2>1
  <2>3. Promise!LetIn(t)
    BY <1>1, <1>2, <1>3, <1>5, <1>6, <1>7, <2>2 DEF Promise!LetIn, Promise!Waiting
  <2> QED BY <2>3 DEF Promise!Next
<1>8. CASE call[t] = "frame"
  <2>1. \A u \in Threads \ {t} : overtaken[u] = 0
    BY <1>8 DEF NextFrameBehindTheWaiters
  <2>2. \A u \in DOMAIN Passed \ {t} : Passed[u] = 0 /\ overtaken'[u] = 1
    BY <1>4, <1>8, <2>1, BoundAssumption DEF Overtake
  <2>3. Passed' = [u \in DOMAIN Passed \ {t} |-> 1]
    BY <1>5, <2>2
  <2>4. Promise!LetIn(t)
    BY <1>1, <1>2, <1>3, <1>5, <1>6, <1>8, <2>2, <2>3 DEF Promise!LetIn, Promise!Waiting
  <2> QED BY <2>4 DEF Promise!Next
<1> QED BY <1>7, <1>8

LEMMA TurnAwayStep ==
  ASSUME NEW t \in Threads, MInv, MInv', Mark(t)
  PROVE  [Promise!Next]_(Promise!vars)
<1> USE DEF MInv, IInv, TypeOK, At, Goto, Answer
<1> /\ pc[t] = "mark" /\ UNCHANGED <<in_frame, closed, overtaken, call>>
    /\ pc' = [pc EXCEPT ![t] = IF closed THEN "drop" ELSE "hold"]
  BY DEF Mark, wake, gate
<1>1. Passed' = Passed
  BY PassedStays
<1>2. CASE ~closed
  <2>1. LetInNow' = LetInNow
    BY <1>2, LetInStays DEF Working
  <2>2. Told' = Told
    BY <1>2, ToldStays DEF Mark
  <2> QED BY <1>1, <2>1, <2>2 DEF Promise!vars
<1>3. CASE closed
  <2>1. answer' = [answer EXCEPT ![t] = "no_session"]
    BY <1>3 DEF Mark
  <2>2. call[t] \notin {"look", "wait"}
    BY DEF CallersPlaces, GatePlaces
  <2>3. Told' = [Told EXCEPT ![t] = "refused"]
    <3>1. "refused" = IF call'[t] \notin {"look", "wait"} THEN ToldAs[answer'[t]] ELSE "nothing"
      BY <2>1, <2>2 DEF ToldAs
    <3> QED BY <2>1, <3>1, ToldOne
  <2>4. LetInNow = t /\ (\A u \in Threads \ {t} : pc[u] \notin Working)
    BY DEF LetInIsAtWork, Working
  <2>5. LetInNow' = NoThread
    BY <1>3, <2>4 DEF LetInIsAtWork, Working
  <2>6. Promise!TurnAway(t)
    BY <1>1, <1>3, <2>3, <2>4, <2>5 DEF Promise!TurnAway
  <2> QED BY <2>6 DEF Promise!Next
<1> QED BY <1>2, <1>3

LEMMA WorkStep ==
  ASSUME NEW t \in Threads, MInv, MInv', Body(t)
  PROVE  Promise!Next
<1> USE DEF MInv, IInv, TypeOK, At, Goto, Answer
<1> /\ pc[t] = "hold" /\ UNCHANGED <<in_frame, overtaken, call>>
    /\ pc' = [pc EXCEPT ![t] = "drop"]
    /\ answer' = [answer EXCEPT ![t] = "ok"]
  BY DEF Body, gate
<1>1. Passed' = Passed
  BY PassedStays
<1>2. call[t] \notin {"look", "wait"}
  BY DEF CallersPlaces, GatePlaces
<1>3. Told' = [Told EXCEPT ![t] = "done"]
  <2>1. "done" = IF call'[t] \notin {"look", "wait"} THEN ToldAs[answer'[t]] ELSE "nothing"
    BY <1>2 DEF ToldAs
  <2> QED BY <2>1, ToldOne
<1>4. LetInNow = t /\ (\A u \in Threads \ {t} : pc[u] \notin Working)
  BY DEF LetInIsAtWork, Working
<1>5. LetInNow' = NoThread
  BY <1>4 DEF LetInIsAtWork, Working
<1>6. ~closed /\ closed' \in BOOLEAN
  BY DEF ClosedLetsNobodyIn
<1>7. Promise!Work(t)
  BY <1>1, <1>3, <1>4, <1>5, <1>6 DEF Promise!Work
<1> QED BY <1>7 DEF Promise!Next

(* Every other step changes nothing a promise speaks of.                   *)
LEMMA SilentStep ==
  ASSUME LetInIsAtWork, LetInIsAtWork',
         \A u \in Threads : /\ pc[u] \in Working <=> pc'[u] \in Working
                            /\ pc[u] = "queued" <=> pc'[u] = "queued",
         UNCHANGED <<in_frame, closed, overtaken, call, answer>>
  PROVE  [Promise!Next]_(Promise!vars)
BY LetInStays, PassedStays, ToldStays DEF Promise!vars

-----------------------------------------------------------------------------
(* Every step of the gate is a step its promise allows, or none at all.    *)
LEMMA NextPromise == MInv /\ MInv' /\ [Next]_vars => [Promise!Next]_(Promise!vars)
<1> SUFFICES ASSUME MInv, MInv', [Next]_vars PROVE [Promise!Next]_(Promise!vars)
  OBVIOUS
<1> TypeOK /\ CallersPlaces /\ LetInIsAtWork /\ LetInIsAtWork'
  BY DEF MInv, IInv
<1> USE DEF TypeOK, At, Goto, Answer, gate, wake, Working
<1>1. ASSUME NEW t \in Threads, NEW c \in CallsOf(t), Call(t, c)
      PROVE  [Promise!Next]_(Promise!vars)
  <2>1. c \in AllCalls
    BY CallsAssumption DEF CallsOf
  <2>2. FirstStep[c] # "queued" /\ FirstStep[c] \notin Working
    BY <2>1 DEF FirstStep, AllCalls
  <2> QED BY <1>1, <2>2, ForgetStep DEF Call
<1>2. ASSUME NEW t \in Threads, Step(t) \/ TimeOut(t)
      PROVE  [Promise!Next]_(Promise!vars)
  <2>1. CASE Claim(t)
    <3>1. t \in Threads /\ UNCHANGED <<closed, overtaken, call, answer>>
      BY <2>1 DEF Claim
    <3>2. LetInNow' = LetInNow /\ Passed' = Passed /\ Told' = Told
      BY <2>1, <3>1, LetInStays, PassedStays, ToldStays DEF Claim
    <3>3. Promise!BeginFrame(t)
      BY <2>1, <3>1, <3>2 DEF Claim, Promise!BeginFrame
    <3> QED BY <3>3 DEF Promise!Next
  <2>2. CASE ClaimRefused(t) BY <2>2, ForgetStep DEF ClaimRefused, Return
  <2>3. CASE Yield(t) BY <2>3, SilentStep DEF Yield
  <2>4. CASE Count(t) BY <2>4, AskStep
  <2>5. CASE Acquire(t) BY <2>5, LetInStep
  <2>6. CASE Uncount(t) BY <2>6, SilentStep DEF Uncount
  <2>7. CASE Mark(t) BY <2>7, TurnAwayStep
  <2>8. CASE Body(t) BY <2>8, WorkStep
  <2>9. CASE Unmark(t) BY <2>9, SilentStep DEF Unmark
  <2>10. CASE Release(t) BY <2>10, SilentStep DEF Release, AfterGate
  <2>11. CASE Leave(t)
    <3>1. t \in Threads /\ UNCHANGED <<closed, overtaken, call, answer>>
      BY <2>11 DEF Leave
    <3>2. LetInNow' = LetInNow /\ Passed' = Passed /\ Told' = Told
      BY <2>11, <3>1, LetInStays, PassedStays, ToldStays DEF Leave
    <3>3. in_frame = t
      BY <2>11 DEF Leave, MInv, IInv, SlotPlaces, FrameSlotIsTheCallers, InsideFrame
    <3>4. t \notin DOMAIN Passed /\ LetInNow # t
      BY <2>11 DEF Leave, Passed, LetInIsAtWork
    <3>5. Promise!EndFrame(t)
      BY <2>11, <3>1, <3>2, <3>3, <3>4 DEF Leave, Promise!EndFrame, Promise!Waiting
    <3> QED BY <3>5 DEF Promise!Next
  <2>12. CASE Tell(t) BY <2>12, SilentStep DEF Tell, AfterWake
  <2>13. CASE WakeOnce(t) BY <2>13, SilentStep DEF WakeOnce, WakeUp, AfterWake
  <2>14. CASE WakeAgain(t) BY <2>14, SilentStep DEF WakeAgain, WakeUp
  <2>15. CASE Announce(t) BY <2>15, SilentStep DEF Announce
  <2>16. CASE Park(t) BY <2>16, SilentStep DEF Park
  <2>17. CASE TakeFlag(t)
    <3>1. call[t] = "wait"
      BY <2>17 DEF TakeFlag, CallersPlaces
    <3> QED BY <2>17, <3>1, ForgetStep DEF TakeFlag, Return
  <2>18. CASE Look(t) BY <2>18, SilentStep DEF Look
  <2>19. CASE Looked(t)
    <3>1. call[t] = "look"
      BY <2>19 DEF Looked, CallersPlaces
    <3> QED BY <2>19, <3>1, ForgetStep DEF Looked, Return
  <2>20. CASE TimeOut(t) BY <2>20, SilentStep DEF TimeOut
  <2> QED
    BY <1>2, <2>1, <2>2, <2>3, <2>4, <2>5, <2>6, <2>7, <2>8, <2>9, <2>10, <2>11,
       <2>12, <2>13, <2>14, <2>15, <2>16, <2>17, <2>18, <2>19, <2>20 DEF Step
<1>3. CASE UNCHANGED vars
  BY <1>3, SilentStep DEF vars
<1> QED BY <1>1, <1>2, <1>3 DEF Next

-----------------------------------------------------------------------------
(* Callers are let in alone, never into a closed session, frames one       *)
(* thread at a time and at most once ahead of a waiter (session.rs: lock,  *)
(* frame, change, close), for any threads and any calls.                   *)
THEOREM PromiseIsKept == Spec => KeepsThePromise
<1>1. Init => MInv
  BY InitInv, InitPlaces, LetInIs DEF MInv
<1>2. MInv /\ [Next]_vars => MInv'
  <2>1. IInv /\ [Next]_vars => IInv'
    BY NextInv
  <2>2. IInv /\ CallersPlaces /\ [Next]_vars => CallersPlaces'
    BY NextPlaces
  <2>3. IInv' => LetInIsAtWork'
    BY LetInIs, PTL
  <2> QED BY <2>1, <2>2, <2>3 DEF MInv
<1> QED
  BY <1>1, <1>2, InitPromise, NextPromise, PTL DEF Spec, KeepsThePromise, Promise!Spec
=============================================================================
