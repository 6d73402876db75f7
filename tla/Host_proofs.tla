---------------------------- MODULE Host_proofs ----------------------------
(***************************************************************************)
(* What the host's components that stand alone promise, for every value of *)
(* their constants: run control (module RunControl), the input latch       *)
(* (InputLatch), the battery file (BatteryFile) and the runtime's list of  *)
(* sessions (Sessions).  Each has a part of its own below.                 *)
(***************************************************************************)
EXTENDS RunControl, InputLatch, BatteryFile, Sessions, FiniteSetTheorems,
        SequenceTheorems, WellFoundedInduction, TLAPS

-----------------------------------------------------------------------------

(***************************************************************************)
(* Run control: types, one frame for a frame advance, a resumed frame that *)
(* moves the machine on and a run to a frame that ends at it, for frames   *)
(* of any length, any number of frames and any breakpoints and steps.      *)
(***************************************************************************)
-----------------------------------------------------------------------------
(* Where a frame stops, and what it counts.                                *)

LEMMA PlacesAreNatural == Places \subseteq Nat /\ Length \in Nat \ {0}
BY FramesAssumption DEF FramesAssumption, Places

\* A frame stops at one of the instructions it checks.
LEMMA StopIsChecked ==
    ASSUME TypeOK, Stops # {}
    PROVE  Min(Stops) \in Checked
<1>1. Stops \subseteq Nat /\ Stops \subseteq Checked
  BY PlacesAreNatural DEF Stops, Checked, TypeOK, Places
<1> DEFINE Less == {ss \in Nat \X Nat : ss[1] < ss[2]}
<1>2. IsWellFoundedOn(Less, Nat)
  BY NatLessThanWellFounded, Zenon DEF OpToRel
<1>3. PICK k \in Stops : \A j \in Stops : <<j, k>> \notin Less
  <2> HIDE DEF Less
  <2> QED
    BY <1>1, <1>2, WFMin, Zenon
<1>4. ASSUME NEW j \in Stops PROVE k <= j
  <2>1. j < k => <<j, k>> \in Less
    BY <1>1
  <2>2. <<j, k>> \notin Less
    BY <1>3
  <2> QED
    BY <1>1, <2>1, <2>2
<1>5. Min(Stops) \in Stops
  BY <1>4, Zenon DEF Min
<1> QED
  BY <1>1, <1>5

\* What it checks is ahead of it, within the frame.
LEMMA CheckedIsAhead ==
    ASSUME TypeOK
    PROVE  /\ Checked \subseteq Places
           /\ \A k \in Checked : k >= place
           /\ stopped => \A k \in Checked : k > place
           /\ IsFiniteSet(Checked)
<1>1. place \in Nat /\ Length \in Nat
  BY PlacesAreNatural DEF TypeOK
<1>2. Checked \subseteq Places
  BY <1>1 DEF Checked, Places
<1>3. IsFiniteSet(Places)
  BY PlacesAreNatural, FS_Interval DEF Places
<1>4. /\ \A k \in Checked : k >= place
      /\ stopped => \A k \in Checked : k > place
  BY <1>1 DEF Checked
<1> QED
  BY <1>2, <1>3, <1>4, FS_Subset

LEMMA CountsAreNatural ==
    ASSUME TypeOK, NEW S \in SUBSET Checked
    PROVE  Cardinality(S) \in Nat
BY CheckedIsAhead, FS_Subset, FS_CardinalityType

-----------------------------------------------------------------------------
(* Types.                                                                  *)

LEMMA BoundsHold ==
    /\ 0 \in Places /\ 0 \in 0 .. MaxFrames /\ 0 \in 0 .. MaxSteps
    /\ -1 \in -1 .. MaxFrames
    /\ 0 .. MaxFrames \subseteq -1 .. MaxFrames
    /\ 1 .. MaxSteps \subseteq 0 .. MaxSteps
BY FramesAssumption, PlacesAreNatural DEF FramesAssumption, Places

LEMMA InitRunTypes == RunInit => TypeOK
<1>1. {} \subseteq Places
  OBVIOUS
<1> QED
  BY <1>1, BoundsHold, Zenon DEF RunInit, TypeOK

LEMMA HaltTypes ==
    ASSUME TypeOK, Frame, Halt
    PROVE  TypeOK'
<1>1. place' \in Places
  BY StopIsChecked, CheckedIsAhead DEF Halt
<1>2. Cardinality({j \in Checked : j <= Min(Stops)}) \in Nat
  BY CountsAreNatural
<1>3. steps' \in 0 .. MaxSteps
  BY <1>2, FramesAssumption DEF Halt, Count, TypeOK, FramesAssumption
<1>4. pending' \in BOOLEAN
  BY DEF Halt, Count
<1> QED
  BY <1>1, <1>3, <1>4 DEF Halt, Frame, TypeOK

LEMMA CompleteTypes ==
    ASSUME TypeOK, Frame, Complete
    PROVE  TypeOK'
<1>1. place' \in Places
  BY PlacesAreNatural DEF Complete, Places
<1>2. Cardinality(Checked) \in Nat
  BY CountsAreNatural
<1>3. steps' \in 0 .. MaxSteps
  BY <1>2, FramesAssumption DEF Complete, TypeOK, FramesAssumption
<1>4. total' \in 0 .. MaxFrames
  BY FramesAssumption DEF Complete, Frame, TypeOK, FramesAssumption
<1>5. pending' \in BOOLEAN /\ paused' \in BOOLEAN
  BY DEF Complete
<1>6. until' \in -1 .. MaxFrames /\ hold' \in -1 .. MaxFrames
  BY FramesAssumption DEF Complete, TypeOK, FramesAssumption
<1> QED
  BY <1>1, <1>3, <1>4, <1>5, <1>6 DEF Complete, Frame, TypeOK

LEMMA CallTypes ==
    ASSUME TypeOK, RunNext, ~Frame
    PROVE  TypeOK'
<1> USE BoundsHold DEF TypeOK, run, core, registry
<1>1. CASE Pause
  BY <1>1, Zenon DEF Pause
<1>2. CASE Resume
  BY <1>2, Zenon DEF Resume, LetGo
<1>3. CASE FrameAdvance
  <2>1. total \in -1 .. MaxFrames
    OBVIOUS
  <2> QED
    BY <1>3, <2>1, Zenon DEF FrameAdvance
<1>4. CASE ResetMachine
  BY <1>4, Zenon DEF ResetMachine, MoveTo, LetGo
<1>5. CASE \E n \in 1 .. MaxSteps : Step(n)
  <2> PICK n \in 1 .. MaxSteps : Step(n)
    BY <1>5, Zenon
  <2>1. n \in 0 .. MaxSteps
    OBVIOUS
  <2> QED
    BY <2>1, Zenon DEF Step, LetGo
<1>6. CASE \E k \in Places : RunToAddress(k) \/ RemoveBreak(k)
  <2> PICK k \in Places : RunToAddress(k) \/ RemoveBreak(k)
    BY <1>6, Zenon
  <2>1. breaks \union {k} \subseteq Places /\ breaks \ {k} \subseteq Places
    OBVIOUS
  <2> QED
    BY <2>1, Zenon DEF RunToAddress, RemoveBreak, LetGo
<1>7. CASE \E n \in 0 .. MaxFrames : RunToFrame(n) \/ Load(n) \/ RewindStep(n)
  <2> PICK n \in 0 .. MaxFrames : RunToFrame(n) \/ Load(n) \/ RewindStep(n)
    BY <1>7, Zenon
  <2>1. n \in -1 .. MaxFrames
    OBVIOUS
  <2>2. CASE RunToFrame(n)
    BY <2>1, <2>2, Zenon DEF RunToFrame, HoldsAt, LetGo
  <2>3. CASE Load(n) \/ RewindStep(n)
    BY <2>3, Zenon DEF Load, RewindStep, MoveTo, LetGo
  <2> QED
    BY <2>2, <2>3, Zenon
<1> QED
  BY <1>1, <1>2, <1>3, <1>4, <1>5, <1>6, <1>7, Zenon DEF RunNext

(* Every variable of run control keeps its type (module RunControl).       *)
THEOREM TypeCorrect == RunSpec => []TypeOK
<1>1. TypeOK /\ UNCHANGED run_vars => TypeOK'
  BY DEF TypeOK, run_vars, run, core, registry
<1>2. TypeOK /\ [RunNext]_run_vars => TypeOK'
  BY <1>1, HaltTypes, CompleteTypes, CallTypes DEF Frame
<1> QED
  BY InitRunTypes, <1>2, PTL DEF RunSpec

(* A frame resumed from a halt moves the machine on, inside the frame or   *)
(* past its end: a breakpoint under the halt or a step armed at it never   *)
(* stops it where it stands (advance_frame's "resuming").                  *)
THEOREM ResumedMoves == RunSpec => ResumingMovesOn
<1>1. ASSUME TypeOK, stopped, Frame
      PROVE  place' > place \/ total' > total
  <2>1. CASE Halt
    BY <1>1, <2>1, StopIsChecked, CheckedIsAhead DEF Halt
  <2>2. CASE Complete
    BY <1>1, <2>2 DEF Complete, TypeOK
  <2> QED
    BY <1>1, <2>1, <2>2 DEF Frame
<1>2. TypeOK /\ [RunNext]_run_vars
         => [stopped /\ Frame => place' > place \/ total' > total]_run_vars
  BY <1>1
<1> QED
  BY TypeCorrect, <1>2, PTL DEF RunSpec, ResumingMovesOn

(* A session run to a frame it has not passed never runs beyond it, where  *)
(* the engine cannot halt, and is paused as that frame ends                *)
(* (hold_at_frame).                                                        *)
THEOREM RunStopsAtItsFrame == RunSpec => RunToFrameStops
<1> DEFINE Stopping == Frame /\ ~debug /\ hold >= 0 /\ total < hold =>
                          total' <= hold /\ (total' = hold => paused' /\ hold' = -1)
<1>1. ASSUME TypeOK, Frame, hold >= 0, total < hold
      PROVE  total' <= hold /\ (total' = hold => paused' /\ hold' = -1)
  <2>0. total \in Nat /\ hold \in Int
    BY <1>1 DEF TypeOK
  <2>1. CASE Halt
    BY <1>1, <2>0, <2>1 DEF Halt
  <2>2. CASE Complete
    <3>1. total' = total + 1
      BY <2>2 DEF Complete
    <3>2. ASSUME total' = hold PROVE HoldReached
      BY <1>1, <2>0, <3>1, <3>2 DEF HoldReached
    <3>3. HoldReached => paused' /\ hold' = -1
      BY <2>2 DEF Complete
    <3> QED
      BY <1>1, <2>0, <3>1, <3>2, <3>3
  <2> QED
    BY <1>1, <2>1, <2>2 DEF Frame
<1>2. TypeOK /\ [RunNext]_run_vars => [Stopping]_run_vars
  BY <1>1
<1> QED
  BY TypeCorrect, <1>2, PTL DEF RunSpec, RunToFrameStops

-----------------------------------------------------------------------------
(* A frame advance.                                                        *)

\* What the promise needs of the types.
CountsAreNumbers == total \in Nat /\ advancing \in Int

RunInv == CountsAreNumbers /\ FrameAdvanceHolds

LEMMA InitRunInv == RunInit => RunInv
BY DEF RunInit, RunInv, CountsAreNumbers, FrameAdvanceHolds

\* A frame halts or completes, and uses up the request either way.
LEMMA FrameKeeps == RunInv /\ Frame => RunInv'
<1> SUFFICES ASSUME RunInv, Frame PROVE RunInv'
  OBVIOUS
<1> USE DEF RunInv, CountsAreNumbers, FrameAdvanceHolds
<1>1. ~requested' /\ advancing' = advancing /\ ~Held
  BY DEF Frame
<1>2. CASE Halt
  BY <1>1, <1>2 DEF Halt, Held
<1>3. CASE Complete
  <2>1. total' = total + 1 /\ paused' = (paused \/ HoldReached)
    BY <1>3 DEF Complete
  <2>2. advancing >= 0 => total <= advancing
    BY <1>1 DEF Held
  <2>3. CountsAreNumbers'
    BY <1>1, <2>1
  <2>4. advancing' >= 0 => paused'
    <3>1. advancing >= 0 => paused
      BY DEF FrameAdvanceHolds
    <3> QED
      BY <1>1, <2>1, <3>1, Zenon
  <2>5. advancing' >= 0 => total' <= advancing' + 1
    BY <1>1, <2>1, <2>2
  <2> QED
    BY <1>1, <2>3, <2>4, <2>5
<1> QED
  BY <1>2, <1>3 DEF Frame

\* A call lets the machine go, asks for one frame, or leaves what the
\* promise is about alone.
LEMMA CallKeeps ==
    ASSUME RunInv, RunNext, ~Frame
    PROVE  RunInv'
<1> USE DEF RunInv, CountsAreNumbers, FrameAdvanceHolds, run, core
<1>1. CASE Pause
  BY <1>1 DEF Pause
<1>2. CASE Resume
  BY <1>2 DEF Resume, LetGo
<1>3. CASE FrameAdvance
  BY <1>3 DEF FrameAdvance
<1>4. CASE ResetMachine
  BY <1>4 DEF ResetMachine, MoveTo, LetGo
<1>5. CASE \E n \in 1 .. MaxSteps : Step(n)
  BY <1>5 DEF Step, LetGo
<1>6. CASE \E k \in Places : RunToAddress(k) \/ RemoveBreak(k)
  BY <1>6 DEF RunToAddress, RemoveBreak, LetGo
<1>7. CASE \E n \in 0 .. MaxFrames : RunToFrame(n) \/ Load(n) \/ RewindStep(n)
  BY <1>7 DEF RunToFrame, Load, RewindStep, MoveTo, LetGo
<1> QED
  BY <1>1, <1>2, <1>3, <1>4, <1>5, <1>6, <1>7 DEF RunNext

(* One frame advance is one frame: until another call lets the machine go  *)
(* at most one frame completes and the session is held after it            *)
(* (frame_advance, advance).                                               *)
THEOREM OneFrameAdvanced == RunSpec => []FrameAdvanceHolds
<1>1. RunInv /\ UNCHANGED run_vars => RunInv'
  BY DEF RunInv, CountsAreNumbers, FrameAdvanceHolds, run_vars, run, core, registry
<1>2. RunInv /\ [RunNext]_run_vars => RunInv'
  BY <1>1, FrameKeeps, CallKeeps
<1>3. RunInv => FrameAdvanceHolds
  BY DEF RunInv
<1> QED
  BY InitRunInv, <1>2, <1>3, PTL DEF RunSpec

-----------------------------------------------------------------------------

(***************************************************************************)
(* The input latch: what the machine does not hold as the player does is   *)
(* marked, for any number of ports and buttons.  Buttons change while a    *)
(* copy of them is being given, so the invariant also says that a copy     *)
(* differs from what is held only where a mark has been made since.        *)
(***************************************************************************)


HeldTypes ==
    /\ ports \in Nat /\ ports <= MaxPorts
    /\ held \in [Ports -> SUBSET Buttons]
    /\ axis \in [Ports -> Values]
    /\ present \in [Ports -> BOOLEAN]

MarkTypes ==
    /\ changed \in [Ports -> SUBSET Buttons]
    /\ moved \in [Ports -> BOOLEAN]
    /\ presence_changed \in [Ports -> BOOLEAN]
    /\ resend \in BOOLEAN

Copies == [held : SUBSET Buttons, changed : SUBSET Buttons, axis : Values,
           moved : BOOLEAN, present : BOOLEAN, presence : BOOLEAN]

GivenTypes ==
    /\ machine \in [Ports -> [buttons : SUBSET Buttons, axis : Values, present : BOOLEAN]]
    /\ loaded \in [Ports -> SUBSET (Buttons \cup {"axis"})]
    /\ DOMAIN sending \subseteq Listed
    /\ \A p \in DOMAIN sending : sending[p] \in Copies

\* Since the copy was taken a change is marked.
ChangesSinceMarked ==
    \A p \in DOMAIN sending :
       /\ \A b \in Buttons : (b \in held[p]) # (b \in sending[p].held) => b \in changed[p]
       /\ ~moved[p] => axis[p] = sending[p].axis

\* A port the machine does not have is as a new one is.
OthersAreNew ==
    \A p \in Ports \ Listed :
       /\ held[p] = {} /\ axis[p] = 0 /\ present[p] = TRUE
       /\ presence_changed[p] = FALSE
       /\ machine[p] = Empty

LatchTypes == HeldTypes /\ MarkTypes /\ GivenTypes
LatchInv == LatchTypes /\ ChangesSinceMarked /\ OthersAreNew /\ DifferenceIsMarked

-----------------------------------------------------------------------------
(* Copies and what is due.                                                 *)

LEMMA NothingCopied ==
    ASSUME sending = NoCopies
    PROVE  DOMAIN sending = {} /\ \A p \in Ports : Due(p) = machine[p]
  BY Zenon DEF NoCopies, Due

\* What a send leaves a machine holding of a port is of the machine's kind.
LEMMA DueType ==
    ASSUME LatchTypes, NEW p \in Ports
    PROVE  Due(p) \in [buttons : SUBSET Buttons, axis : Values, present : BOOLEAN]
<1>1. machine[p] \in [buttons : SUBSET Buttons, axis : Values, present : BOOLEAN]
  BY DEF LatchTypes, GivenTypes
<1>2. CASE p \in DOMAIN sending
  <2>1. sending[p] \in Copies
    BY <1>2 DEF LatchTypes, GivenTypes
  <2> QED BY <1>1, <1>2, <2>1 DEF Due, Told, Copies
<1>3. CASE p \notin DOMAIN sending
  BY <1>1, <1>3 DEF Due
<1> QED BY <1>2, <1>3

-----------------------------------------------------------------------------
(* Initially, and after each action.                                       *)

LEMMA InitLatchInv == LatchInit => LatchInv
<1> SUFFICES ASSUME LatchInit PROVE LatchInv OBVIOUS
<1> USE DEF LatchInit
<1>1. DOMAIN sending = {} /\ \A p \in Ports : Due(p) = machine[p]
  BY NothingCopied
<1>2. LatchTypes
  <2>1. HeldTypes /\ MarkTypes
    BY LatchAssumption DEF HeldTypes, MarkTypes
  <2>2. Empty \in [buttons : SUBSET Buttons, axis : Values, present : BOOLEAN]
    BY LatchAssumption DEF Empty
  <2>3. GivenTypes
    BY <1>1, <2>2 DEF GivenTypes
  <2> QED BY <2>1, <2>3 DEF LatchTypes
<1>3. ChangesSinceMarked /\ OthersAreNew
  BY <1>1 DEF ChangesSinceMarked, OthersAreNew
<1>4. Listed \subseteq Ports
  BY LatchAssumption DEF Listed, Ports
<1>5. DifferenceIsMarked
  <2>1. Empty.buttons = {} /\ Empty.axis = 0 /\ Empty.present = TRUE
    BY DEF Empty
  <2>2. \A q \in Ports : /\ Due(q) = Empty /\ held[q] = {} /\ axis[q] = 0
                        /\ present[q] = TRUE /\ presence_changed[q] = FALSE
    BY <1>1
  <2> QED BY <1>4, <2>1, <2>2, Zenon DEF DifferenceIsMarked
<1> QED BY <1>2, <1>3, <1>5 DEF LatchInv

LEMMA ListedArePorts ==
    ASSUME LatchTypes PROVE Listed \subseteq Ports
  BY LatchAssumption DEF LatchTypes, HeldTypes, Listed, Ports

LEMMA HoldKeeps ==
    ASSUME LatchInv, NEW p \in Ports, NEW mask \in SUBSET Buttons, NEW ch \in SUBSET Buttons,
           Hold(p, mask, ch)
    PROVE  LatchInv'
<1> USE DEF Hold
<1>1. Listed' = Listed /\ \A q \in Ports : Due(q)' = Due(q)
  BY DEF Listed, Due
<1>2. LatchTypes'
  BY <1>1 DEF LatchInv, LatchTypes, HeldTypes, MarkTypes, GivenTypes
<1>3. /\ held \in [Ports -> SUBSET Buttons] /\ changed \in [Ports -> SUBSET Buttons]
      /\ Listed \subseteq Ports /\ DOMAIN sending \subseteq Listed
  BY ListedArePorts DEF LatchInv, LatchTypes, HeldTypes, MarkTypes, GivenTypes
<1>4. \A q \in Ports : changed[q] \subseteq changed'[q]
  BY <1>3
<1>5. ASSUME NEW q \in Ports, NEW b \in Buttons, b \notin changed'[q]
      PROVE  (b \in held'[q]) = (b \in held[q])
  <2>1. CASE q = p
    <3>1. held'[p] = (held[p] \ ch) \cup (mask \cap ch) /\ changed'[p] = changed[p] \cup ch
      BY <1>3
    <3> QED BY <1>5, <2>1, <3>1
  <2>2. CASE q # p
    BY <1>3, <2>2
  <2> QED BY <2>1, <2>2
<1>6. ChangesSinceMarked'
  <2>1. ASSUME NEW q \in DOMAIN sending, NEW b \in Buttons,
               (b \in held'[q]) # (b \in sending[q].held), b \notin changed'[q]
        PROVE  FALSE
    <3>1. q \in Ports
      BY <1>3
    <3>2. (b \in held[q]) # (b \in sending[q].held)
      BY <1>5, <2>1, <3>1
    <3>3. b \in changed[q]
      BY <3>2, Zenon DEF LatchInv, ChangesSinceMarked
    <3> QED BY <1>4, <2>1, <3>1, <3>3
  <2>2. \A q \in DOMAIN sending : ~moved[q] => axis[q] = sending[q].axis
    BY Zenon DEF LatchInv, ChangesSinceMarked
  <2> QED BY <2>1, <2>2, Zenon DEF ChangesSinceMarked
<1>7. OthersAreNew'
  BY <1>1, <1>3 DEF LatchInv, OthersAreNew
<1>8. DifferenceIsMarked'
  <2>1. ASSUME NEW q \in Listed, NEW b \in Buttons,
               (b \in held'[q]) # (b \in Due(q).buttons), b \notin changed'[q] \cup loaded[q]
        PROVE  FALSE
    <3>1. q \in Ports
      BY <1>3
    <3>2. (b \in held[q]) # (b \in Due(q).buttons)
      BY <1>5, <2>1, <3>1
    <3>3. b \in changed[q] \cup loaded[q]
      BY <3>2, Zenon DEF LatchInv, DifferenceIsMarked
    <3> QED BY <1>4, <2>1, <3>1, <3>3
  <2>2. \A q \in Listed : axis[q] # Due(q).axis => moved[q] \/ "axis" \in loaded[q]
    BY Zenon DEF LatchInv, DifferenceIsMarked
  <2>3. \A q \in Listed : ~resend => (presence_changed[q] <=> present[q] # Due(q).present)
    BY Zenon DEF LatchInv, DifferenceIsMarked
  <2> QED BY <1>1, <1>3, <2>1, <2>2, <2>3, Zenon DEF DifferenceIsMarked
<1> QED BY <1>2, <1>6, <1>7, <1>8 DEF LatchInv

LEMMA ConnectKeeps ==
    ASSUME LatchInv, NEW p \in Ports, NEW connected \in BOOLEAN, Connect(p, connected)
    PROVE  LatchInv'
<1> USE DEF Connect
<1>1. Listed' = Listed /\ \A q \in Ports : Due(q)' = Due(q)
  BY DEF Listed, Due
<1>2. LatchTypes'
  BY <1>1 DEF LatchInv, LatchTypes, HeldTypes, MarkTypes, GivenTypes
<1>3. /\ present \in [Ports -> BOOLEAN] /\ presence_changed \in [Ports -> BOOLEAN]
      /\ Listed \subseteq Ports
  BY ListedArePorts DEF LatchInv, LatchTypes, HeldTypes, MarkTypes
<1>4. ChangesSinceMarked'
  BY DEF LatchInv, ChangesSinceMarked
<1>5. OthersAreNew'
  BY <1>1, <1>3 DEF LatchInv, OthersAreNew
<1>6. ASSUME NEW q \in Listed, ~resend
      PROVE  presence_changed'[q] <=> present'[q] # Due(q).present
  <2>1. /\ presence_changed[q] <=> present[q] # Due(q).present
        /\ Due(q).present \in BOOLEAN
    BY <1>3, <1>6, DueType DEF LatchInv, DifferenceIsMarked
  <2>2. CASE q = p
    <3>1. presence_changed'[p] = ~presence_changed[p] /\ present'[p] = connected
      BY <1>3
    <3> QED BY <1>3, <2>1, <2>2, <3>1, Zenon
  <2>3. CASE q # p
    BY <1>3, <2>1, <2>3
  <2> QED BY <2>2, <2>3
<1>7. DifferenceIsMarked'
  BY <1>1, <1>3, <1>6, Zenon DEF LatchInv, DifferenceIsMarked
<1> QED BY <1>2, <1>4, <1>5, <1>7 DEF LatchInv

LEMMA MoveAxisKeeps ==
    ASSUME LatchInv, NEW p \in Ports, NEW value \in Values, MoveAxis(p, value)
    PROVE  LatchInv'
<1> USE DEF MoveAxis
<1>1. Listed' = Listed /\ \A q \in Ports : Due(q)' = Due(q)
  BY DEF Listed, Due
<1>2. LatchTypes'
  BY <1>1 DEF LatchInv, LatchTypes, HeldTypes, MarkTypes, GivenTypes
<1>3. /\ axis \in [Ports -> Values] /\ moved \in [Ports -> BOOLEAN]
      /\ Listed \subseteq Ports /\ DOMAIN sending \subseteq Listed
  BY ListedArePorts DEF LatchInv, LatchTypes, HeldTypes, MarkTypes, GivenTypes
<1>4. \A q \in Ports : moved'[q] = TRUE \/ (axis'[q] = axis[q] /\ moved'[q] = moved[q])
  BY <1>3
<1>5. ChangesSinceMarked'
  BY <1>3, <1>4, Zenon DEF LatchInv, ChangesSinceMarked
<1>6. OthersAreNew'
  BY <1>1, <1>3 DEF LatchInv, OthersAreNew
<1>7. DifferenceIsMarked'
  BY <1>1, <1>3, <1>4, Zenon DEF LatchInv, DifferenceIsMarked
<1> QED BY <1>2, <1>5, <1>6, <1>7 DEF LatchInv

-----------------------------------------------------------------------------
(* A send.                                                                 *)

LEMMA SendCopyKeeps == ASSUME LatchInv, SendCopy PROVE LatchInv'
<1> USE DEF SendCopy, NothingMarked, player
<1>1. LatchTypes /\ Listed \subseteq Ports /\ \A q \in Ports : Due(q) = machine[q]
  BY ListedArePorts, NothingCopied DEF LatchInv
<1>2. ASSUME NEW q \in Listed PROVE Copy(q) \in Copies
  BY <1>1 DEF LatchTypes, HeldTypes, MarkTypes, Copy, Copies
<1>3. Listed' = Listed /\ DOMAIN sending' = Listed
  BY DEF Listed
<1>4. \A q \in Listed : sending'[q] = Copy(q) /\ Due(q)' = Told(machine[q], Copy(q))
  BY <1>3 DEF Due, Told
<1>5. LatchTypes'
  BY <1>1, <1>2, <1>3, <1>4 DEF LatchTypes, HeldTypes, MarkTypes, GivenTypes
<1>6. ChangesSinceMarked'
  BY <1>3, <1>4 DEF ChangesSinceMarked, Copy
<1>7. OthersAreNew'
  BY <1>1, <1>3 DEF LatchInv, OthersAreNew
<1>8. DifferenceIsMarked'
  <2>1. ASSUME NEW q \in Listed, NEW b \in Buttons,
               (b \in held[q]) # (b \in Due(q)'.buttons), b \notin loaded[q]
        PROVE  FALSE
    <3>1. Due(q)'.buttons = (machine[q].buttons \ changed[q]) \cup (held[q] \cap changed[q])
      BY <1>4 DEF Told, Copy
    <3>2. (b \in held[q]) # (b \in machine[q].buttons) /\ b \notin changed[q]
      BY <2>1, <3>1
    <3>3. b \in changed[q] \cup loaded[q]
      <4>1. Due(q) = machine[q]
        BY <1>1
      <4> QED BY <3>2, <4>1, Zenon DEF LatchInv, DifferenceIsMarked
    <3> QED BY <2>1, <3>2, <3>3
  <2>2. ASSUME NEW q \in Listed
        PROVE  axis[q] # Due(q)'.axis => "axis" \in loaded[q]
    <3>1. Due(q)'.axis = IF moved[q] THEN axis[q] ELSE machine[q].axis
      BY <1>4 DEF Told, Copy
    <3>2. axis[q] # machine[q].axis => moved[q] \/ "axis" \in loaded[q]
      BY <1>1, Zenon DEF LatchInv, DifferenceIsMarked
    <3> QED BY <3>1, <3>2, Zenon
  <2>3. ASSUME NEW q \in Listed
        PROVE  present[q] = Due(q)'.present
    <3>a. Copy(q).presence <=> resend \/ presence_changed[q]
      BY Zenon DEF Copy
    <3>b. Due(q)'.present = IF Copy(q).presence THEN Copy(q).present ELSE machine[q].present
      BY <1>4 DEF Told
    <3>c. Copy(q).present = present[q]
      BY DEF Copy
    <3>1. Due(q)'.present = IF resend \/ presence_changed[q] THEN present[q] ELSE machine[q].present
      BY <3>a, <3>b, <3>c, Zenon
    <3>2. ~resend /\ ~presence_changed[q] => present[q] = machine[q].present
      BY <1>1, Zenon DEF LatchInv, DifferenceIsMarked
    <3> QED BY <3>1, <3>2, Zenon
  <2>4. \A q \in Listed : /\ changed'[q] = {} /\ moved'[q] = FALSE
                          /\ presence_changed'[q] = FALSE /\ held'[q] = held[q]
                          /\ axis'[q] = axis[q] /\ present'[q] = present[q]
                          /\ loaded'[q] = loaded[q]
    BY <1>1
  <2> QED BY <1>3, <2>1, <2>2, <2>3, <2>4 DEF DifferenceIsMarked
<1> QED BY <1>5, <1>6, <1>7, <1>8 DEF LatchInv

LEMMA SendGiveKeeps == ASSUME LatchInv, SendGive PROVE LatchInv'
<1> USE DEF SendGive, player, marks
<1>1. LatchTypes /\ Listed \subseteq Ports /\ Listed' = Listed
  BY ListedArePorts DEF LatchInv, Listed
<1>2. DOMAIN sending' = {} /\ \A q \in Ports : Due(q)' = Due(q)
  <2>1. DOMAIN sending' = {}
    BY DEF NoCopies
  <2>2. \A q \in Ports : Due(q)' = machine'[q]
    BY <2>1, Zenon DEF Due
  <2>3. \A q \in Ports : machine'[q] = Due(q)
    OBVIOUS
  <2> QED BY <2>1, <2>2, <2>3
<1>3. GivenTypes'
  <2>1. machine' \in [Ports -> [buttons : SUBSET Buttons, axis : Values, present : BOOLEAN]]
    BY <1>1, DueType
  <2>2. loaded' \in [Ports -> SUBSET (Buttons \cup {"axis"})]
    BY <1>1 DEF LatchTypes, GivenTypes
  <2> QED BY <1>2, <2>1, <2>2 DEF GivenTypes
<1>4. LatchTypes'
  BY <1>1, <1>3 DEF LatchTypes, HeldTypes, MarkTypes
<1>5. ChangesSinceMarked'
  BY <1>2 DEF ChangesSinceMarked
<1>6. OthersAreNew'
  <2>1. ASSUME NEW q \in Ports \ Listed PROVE machine'[q] = machine[q]
    BY <1>1 DEF Due, LatchTypes, GivenTypes
  <2> QED BY <1>1, <2>1 DEF LatchInv, OthersAreNew
<1>7. DifferenceIsMarked'
  <2>1. ASSUME NEW q \in Listed, NEW b \in Buttons,
               (b \in held[q]) # (b \in Due(q).buttons), b \notin changed[q]
        PROVE  b \in loaded'[q]
    <3>1. b \in loaded[q]
      <4>1. b \in changed[q] \cup loaded[q]
        BY <2>1, Zenon DEF LatchInv, DifferenceIsMarked
      <4> QED BY <2>1, <4>1
    <3>2. b \notin Given(q)
      <4>1. CASE q \in DOMAIN sending
        <5>1. sending[q] \in Copies
          BY <1>1, <4>1 DEF LatchTypes, GivenTypes
        <5>2. (b \in held[q]) = (b \in sending[q].held)
          BY <2>1, <4>1 DEF LatchInv, ChangesSinceMarked
        <5>3. Due(q).buttons = (machine[q].buttons \ sending[q].changed)
                               \cup (sending[q].held \cap sending[q].changed)
          BY <4>1 DEF Due, Told
        <5>4. b \notin sending[q].changed
          BY <2>1, <5>2, <5>3
        <5>5. b # "axis"
          BY LatchAssumption
        <5> QED BY <4>1, <5>4, <5>5 DEF Given
      <4>2. CASE q \notin DOMAIN sending
        BY <4>2 DEF Given
      <4> QED BY <4>1, <4>2
    <3> QED BY <1>1, <3>1, <3>2
  <2>2. ASSUME NEW q \in Listed, axis[q] # Due(q).axis, ~moved[q]
        PROVE  "axis" \in loaded'[q]
    <3>1. "axis" \in loaded[q]
      BY <2>2, Zenon DEF LatchInv, DifferenceIsMarked
    <3>2. "axis" \notin Given(q)
      <4>1. CASE q \in DOMAIN sending
        <5>1. sending[q] \in Copies
          BY <1>1, <4>1 DEF LatchTypes, GivenTypes
        <5>2. axis[q] = sending[q].axis
          BY <2>2, <4>1 DEF LatchInv, ChangesSinceMarked
        <5>3. ~sending[q].moved
          BY <2>2, <4>1, <5>2 DEF Due, Told
        <5>4. "axis" \notin sending[q].changed
          BY <5>1, LatchAssumption DEF Copies
        <5> QED BY <4>1, <5>3, <5>4 DEF Given
      <4>2. CASE q \notin DOMAIN sending
        BY <4>2 DEF Given
      <4> QED BY <4>1, <4>2
    <3> QED BY <1>1, <3>1, <3>2
  <2>3. \A q \in Listed : ~resend => (presence_changed[q] <=> present[q] # Due(q).present)
    BY Zenon DEF LatchInv, DifferenceIsMarked
  <2> QED BY <1>1, <1>2, <2>1, <2>2, <2>3 DEF DifferenceIsMarked
<1> QED BY <1>4, <1>5, <1>6, <1>7 DEF LatchInv

-----------------------------------------------------------------------------
(* The machine's shape, a state, and another machine.                      *)

LEMMA GrowKeeps == ASSUME LatchInv, Grow PROVE LatchInv'
<1> USE DEF Grow, player, marks
<1>1. LatchTypes /\ Listed \subseteq Ports /\ ports \in Nat
  BY ListedArePorts DEF LatchInv, LatchTypes, HeldTypes
<1>2. Listed' = Listed \cup {ports} /\ ports \in Ports \ Listed /\ Listed' \subseteq Ports
  BY <1>1, LatchAssumption DEF Listed, Ports
<1>3. \A q \in Ports : Due(q)' = Due(q) /\ Due(q) = machine[q]
  BY NothingCopied DEF Due
<1>4. LatchTypes'
  BY <1>1, <1>2, LatchAssumption DEF LatchTypes, HeldTypes, MarkTypes, GivenTypes
<1>5. ChangesSinceMarked'
  BY NothingCopied DEF ChangesSinceMarked
<1>6. OthersAreNew'
  BY <1>2 DEF LatchInv, OthersAreNew
<1>7. DifferenceIsMarked'
  <2> DEFINE Marked(q) ==
        /\ \A b \in Buttons : (b \in held[q]) # (b \in Due(q)'.buttons)
                              => b \in changed[q] \cup loaded[q]
        /\ axis[q] # Due(q)'.axis => moved[q] \/ "axis" \in loaded[q]
        /\ ~resend => (presence_changed[q] <=> present[q] # Due(q)'.present)
  <2>1. ASSUME NEW q \in Listed PROVE Marked(q)
    <3>1. Due(q)' = Due(q)
      BY <1>1, <1>3
    <3> QED BY <3>1, Zenon DEF LatchInv, DifferenceIsMarked
  <2>2. ASSUME NEW q, q = ports PROVE Marked(q)
    <3>1. Empty.buttons = {} /\ Empty.axis = 0 /\ Empty.present = TRUE
      BY DEF Empty
    <3>2. /\ held[q] = {} /\ axis[q] = 0 /\ present[q] = TRUE
          /\ presence_changed[q] = FALSE /\ machine[q] = Empty
      BY <1>2, <2>2 DEF LatchInv, OthersAreNew
    <3>3. Due(q)' = Empty
      BY <1>2, <1>3, <2>2, <3>2
    <3> QED BY <3>1, <3>2, <3>3, Zenon
  <2>3. ASSUME NEW q \in Listed' PROVE Marked(q)
    BY <1>2, <2>1, <2>2
  <2>4. /\ held' = held /\ axis' = axis /\ present' = present /\ changed' = changed
        /\ moved' = moved /\ presence_changed' = presence_changed
        /\ resend' = resend /\ loaded' = loaded
    OBVIOUS
  <2> HIDE DEF Grow
  <2> QED BY <2>3, <2>4 DEF DifferenceIsMarked
<1> QED BY <1>4, <1>5, <1>6, <1>7 DEF LatchInv

LEMMA LoadStateKeeps == ASSUME LatchInv, LoadState PROVE LatchInv'
<1> USE DEF LoadState, player
<1>1. LatchTypes /\ Listed \subseteq Ports /\ Listed' = Listed /\ DOMAIN sending = {}
  BY ListedArePorts, NothingCopied DEF LatchInv, Listed
<1> DEFINE State == [buttons : SUBSET Buttons, axis : Values, present : BOOLEAN]
<1>2. PICK m \in [Listed -> State] :
         machine' = [q \in Ports |-> IF q \in Listed THEN m[q] ELSE Empty]
  OBVIOUS
<1>3. Empty \in State
  BY LatchAssumption DEF Empty
<1> HIDE DEF State
<1>4. machine' \in [Ports -> State]
  BY <1>2, <1>3
<1>5. LatchTypes'
  BY <1>1, <1>4 DEF LatchTypes, HeldTypes, MarkTypes, GivenTypes, State
<1>6. ChangesSinceMarked'
  BY <1>1 DEF ChangesSinceMarked
<1>7. OthersAreNew'
  BY <1>1, <1>2 DEF LatchInv, OthersAreNew
<1>8. DifferenceIsMarked'
  BY <1>1 DEF DifferenceIsMarked
<1> QED BY <1>5, <1>6, <1>7, <1>8 DEF LatchInv

LEMMA ResetKeeps == ASSUME LatchInv, Reset PROVE LatchInv'
<1> USE DEF Reset, Fresh
<1>1. DOMAIN sending' = {} /\ Listed' \subseteq Ports
  BY NothingCopied, LatchAssumption DEF Listed, Ports
<1>2. \A q \in Ports : Due(q)' = Empty
  BY <1>1 DEF Due
<1>3. Empty \in [buttons : SUBSET Buttons, axis : Values, present : BOOLEAN]
  BY LatchAssumption DEF Empty
<1>4. LatchTypes'
  BY <1>1, <1>3, LatchAssumption DEF LatchTypes, HeldTypes, MarkTypes, GivenTypes
<1>5. ChangesSinceMarked' /\ OthersAreNew'
  BY <1>1 DEF ChangesSinceMarked, OthersAreNew
<1>6. DifferenceIsMarked'
  <2>1. Empty.buttons = {} /\ Empty.axis = 0 /\ Empty.present = TRUE
    BY DEF Empty
  <2>2. \A q \in Ports : /\ held'[q] = {} /\ axis'[q] = 0
                        /\ present'[q] = TRUE /\ presence_changed'[q] = FALSE
    OBVIOUS
  <2> QED BY <1>1, <1>2, <2>1, <2>2, Zenon DEF DifferenceIsMarked
<1> QED BY <1>4, <1>5, <1>6 DEF LatchInv

-----------------------------------------------------------------------------
\* What the machine does not hold as the player does is marked for the next
\* frame (latch.rs: send), for any ports, buttons and values, and whatever is
\* taken while a copy is being given.
THEOREM DifferenceStaysMarked == LatchSpec => []DifferenceIsMarked
<1>1. LatchInv /\ [LatchNext]_latch_vars => LatchInv'
  <2>1. LatchInv /\ LatchNext => LatchInv'
    BY HoldKeeps, ConnectKeeps, MoveAxisKeeps, SendCopyKeeps, SendGiveKeeps,
       GrowKeeps, LoadStateKeeps, ResetKeeps DEF LatchNext
  <2>2. LatchInv /\ UNCHANGED latch_vars => LatchInv'
    <3> SUFFICES ASSUME LatchInv, UNCHANGED latch_vars PROVE LatchInv'
      OBVIOUS
    <3>1. UNCHANGED <<ports, held, axis, present, changed, moved, presence_changed, resend,
                      sending, machine, loaded>>
      BY DEF latch_vars, player, marks
    <3>2. LatchTypes' /\ ChangesSinceMarked' /\ OthersAreNew'
      BY <3>1 DEF LatchInv, LatchTypes, HeldTypes, MarkTypes, GivenTypes, Listed,
                  ChangesSinceMarked, OthersAreNew
    <3>3. Listed' = Listed /\ \A q : Due(q)' = Due(q)
      BY <3>1, Zenon DEF Listed, Due
    <3>4. DifferenceIsMarked'
      BY <3>1, <3>3, Zenon DEF LatchInv, DifferenceIsMarked
    <3> QED BY <3>2, <3>4 DEF LatchInv
  <2> QED BY <2>1, <2>2
<1>2. LatchInv => DifferenceIsMarked
  BY DEF LatchInv
<1> QED BY InitLatchInv, <1>1, <1>2, PTL DEF LatchSpec

-----------------------------------------------------------------------------

(***************************************************************************)
(* The battery file: a save is found whole, and no older one takes its     *)
(* place, for any number of saves, files and readers.  The invariant       *)
(* follows a save through its three places: the file named, the temporary  *)
(* file with the chunks still to come, and what readers hold of a file     *)
(* that has lost its name.                                                 *)
(***************************************************************************)


Saves == 1 .. saves

Writes == [save : Nat, left : Seq(Nat), at : Nat, then : {"playing", "settled"}]
Readings == [file : Nat, at : Nat, got : Seq(Nat)]

BatteryTypes ==
    /\ data \in Seq(Seq(Nat))
    /\ live \in 0 .. Len(data) /\ temp \in 0 .. Len(data)
    /\ earlier \in Nat /\ saves \in Nat /\ battery \in Nat /\ unsaved \in BOOLEAN
    /\ pc \in {"down", "settling", "naming", "writing", "playing"}
    /\ writes \in Writes
    /\ reader \in [Readers -> Readings]

\* The file named is one save, and the whole of it.
LiveIsWhole ==
    live # 0 => /\ live # temp
                /\ \E s \in Saves : data[live] = Contents(s)

\* What a reader has open is one save, of which it has read the first chunks.
ReadersReadOne ==
    \A r \in Readers : reader[r].file # 0 =>
       /\ reader[r].file \in 1 .. Len(data) /\ reader[r].file # temp
       /\ \E s \in Saves :
             /\ data[reader[r].file] = Contents(s)
             /\ reader[r].got \in Seq({s})
             /\ Len(reader[r].got) = reader[r].at
             /\ reader[r].at <= Len(Contents(s))

\* What the machine is to be told once the save being written is.
WriteIsTheirs ==
    pc \in {"naming", "writing"} =>
       /\ writes.save \in Saves
       /\ writes.then = "playing" => writes.save = battery /\ unsaved
       /\ writes.then = "settled" =>
             live = 0 /\ writes.save = earlier /\ battery = earlier /\ ~unsaved

\* A write has its save's chunks before it, and behind it in the temporary file.
WriteIsUnderWay ==
    pc \in {"naming", "writing"} =>
       /\ writes.left \in Seq({writes.save})
       /\ writes.at + Len(writes.left) = Len(Contents(writes.save))
       /\ pc = "naming" => writes.at = 0
       /\ pc = "writing" => /\ temp # 0
                            /\ data[temp] \in Seq({writes.save})
                            /\ Len(data[temp]) = writes.at

\* The machine's save is the disk's or a later one.
DiskIsBehind ==
    /\ earlier <= saves /\ battery <= saves
    /\ unsaved => battery # 0
    /\ pc # "down" => OnDisk <= battery
    /\ pc = "settling" \/ (pc = "playing" /\ ~unsaved) => OnDisk = battery
    /\ pc = "settling" => ~unsaved

BatteryInv ==
    /\ BatteryTypes /\ LiveIsWhole /\ ReadersReadOne
    /\ WriteIsTheirs /\ WriteIsUnderWay /\ DiskIsBehind

-----------------------------------------------------------------------------
(* A save's chunks.                                                        *)

LEMMA ContentsAreTheSave ==
    ASSUME NEW s \in Nat, s # 0
    PROVE  /\ Contents(s) \in Seq({s}) /\ Contents(s) \in Seq(Nat)
           /\ Len(Contents(s)) \in {1, 2}
           /\ Contents(s)[1] = s
<1>1. Contents(s) = <<s, s>> \/ Contents(s) = <<s>>
  BY DEF Contents
<1>2. CASE Contents(s) = <<s, s>>
  BY <1>2
<1>3. CASE Contents(s) = <<s>>
  BY <1>3
<1> QED BY <1>1, <1>2, <1>3

\* All of a save's chunks are the save.
LEMMA AllChunksAreTheSave ==
    ASSUME NEW s \in Nat, s # 0, NEW q \in Seq({s}), Len(q) = Len(Contents(s))
    PROVE  q = Contents(s)
<1>1. Contents(s) \in Seq({s})
  BY ContentsAreTheSave
<1>2. \A i \in 1 .. Len(q) : q[i] = Contents(s)[i]
  <2> SUFFICES ASSUME NEW i \in 1 .. Len(q) PROVE q[i] = Contents(s)[i]
    OBVIOUS
  <2>1. q[i] \in {s} /\ Contents(s)[i] \in {s}
    BY <1>1, ElementOfSeq
  <2> QED BY <2>1
<1> QED BY <1>1, <1>2, SeqEqual

\* The disk has no save the machine did not come to.
LEMMA DiskIsASave ==
    ASSUME BatteryInv
    PROVE  /\ OnDisk \in 0 .. saves
           /\ live # 0 => OnDisk \in Saves /\ data[live] = Contents(OnDisk)
<1>1. CASE live = 0
  BY <1>1 DEF BatteryInv, BatteryTypes, DiskIsBehind, OnDisk
<1>2. CASE live # 0
  <2>1. PICK s \in Saves : data[live] = Contents(s)
    BY <1>2 DEF BatteryInv, LiveIsWhole
  <2>2. s \in Nat /\ s # 0
    BY DEF Saves, BatteryInv, BatteryTypes
  <2>3. OnDisk = s
    BY <1>2, <2>1, <2>2, ContentsAreTheSave DEF OnDisk
  <2> QED BY <1>2, <2>1, <2>3 DEF Saves, BatteryInv, BatteryTypes
<1> QED BY <1>1, <1>2

-----------------------------------------------------------------------------
(* What an action that leaves the names and the readers alone keeps.       *)

\* Files other than the temporary one stay as they are.
OthersStay ==
    /\ Len(data) <= Len(data')
    /\ \A f \in 1 .. Len(data) : f # temp => data'[f] = data[f] /\ f # temp'
    /\ saves <= saves'

LEMMA LiveStays ==
    ASSUME BatteryInv, OthersStay, live' = live, saves' \in Nat
    PROVE  LiveIsWhole' /\ (live # 0 => data'[live] = data[live])
<1>1. Saves \subseteq Saves'
  BY DEF Saves, BatteryInv, BatteryTypes, OthersStay
<1>2. live # 0 => live \in 1 .. Len(data) /\ live # temp
  BY DEF BatteryInv, BatteryTypes, LiveIsWhole
<1>3. live # 0 => data'[live] = data[live] /\ live # temp'
  BY <1>2 DEF OthersStay
<1> QED BY <1>1, <1>2, <1>3 DEF BatteryInv, LiveIsWhole

LEMMA ReadersStay ==
    ASSUME BatteryInv, OthersStay, reader' = reader, saves' \in Nat, Len(data') \in Nat
    PROVE  ReadersReadOne'
<1>1. Saves \subseteq Saves'
  BY DEF Saves, BatteryInv, BatteryTypes, OthersStay
<1> SUFFICES ASSUME NEW r \in Readers, reader[r].file # 0
             PROVE  /\ reader[r].file \in 1 .. Len(data') /\ reader[r].file # temp'
                    /\ \E s \in Saves' :
                          /\ data'[reader[r].file] = Contents(s)
                          /\ reader[r].got \in Seq({s})
                          /\ Len(reader[r].got) = reader[r].at
                          /\ reader[r].at <= Len(Contents(s))
  BY DEF ReadersReadOne
<1>2. reader[r].file \in 1 .. Len(data) /\ reader[r].file # temp
  BY DEF BatteryInv, ReadersReadOne
<1>3. data'[reader[r].file] = data[reader[r].file] /\ reader[r].file # temp'
  BY <1>2 DEF OthersStay
<1>4. reader[r].file \in 1 .. Len(data')
  BY <1>2 DEF OthersStay, BatteryInv, BatteryTypes
<1> QED BY <1>1, <1>3, <1>4 DEF BatteryInv, ReadersReadOne

\* An action that touches no file.
LEMMA NothingTouched ==
    ASSUME BatteryInv, UNCHANGED <<data, temp>>, saves' \in Nat, saves <= saves'
    PROVE  OthersStay
  BY DEF OthersStay, BatteryInv, BatteryTypes

-----------------------------------------------------------------------------
(* The whole-file write.                                                   *)

LEMMA RestTypes == Idle \in Writes /\ Resting \in Readings
  BY DEF Idle, Resting, Writes, Readings

LEMMA InitBatteryInv == BatteryInit => BatteryInv
<1> SUFFICES ASSUME BatteryInit PROVE BatteryInv OBVIOUS
<1> USE DEF BatteryInit
<1>1. earlier \in {0, 1} /\ data \in Seq(Seq(Nat)) /\ Len(data) = 0
  OBVIOUS
<1>2. BatteryTypes
  <2>1. writes \in Writes /\ reader \in [Readers -> Readings]
    BY RestTypes
  <2>2. /\ live = 0 /\ temp = 0 /\ earlier \in Nat /\ saves = earlier /\ battery = 0
        /\ pc = "down"
    BY <1>1
  <2>3. unsaved \in BOOLEAN
    BY Zenon
  <2> HIDE DEF BatteryInit
  <2> QED BY <1>1, <2>1, <2>2, <2>3 DEF BatteryTypes
<1>3. LiveIsWhole /\ WriteIsTheirs /\ WriteIsUnderWay
  BY DEF LiveIsWhole, WriteIsTheirs, WriteIsUnderWay
<1>4. ReadersReadOne
  BY DEF ReadersReadOne, Resting
<1>5. DiskIsBehind
  BY <1>1 DEF DiskIsBehind
<1> QED BY <1>2, <1>3, <1>4, <1>5 DEF BatteryInv

LEMMA CreateKeeps == ASSUME BatteryInv, Create PROVE BatteryInv' /\ OnDisk' = OnDisk
<1>1. /\ data \in Seq(Seq(Nat)) /\ temp \in 0 .. Len(data) /\ Len(data) \in Nat
      /\ saves \in Nat /\ <<>> \in Seq(Nat)
  BY DEF BatteryInv, BatteryTypes
<1>2. UNCHANGED <<live, earlier, battery, saves, unsaved, writes, reader>>
  BY DEF Create
<1>3. /\ data' \in Seq(Seq(Nat)) /\ temp' \in 1 .. Len(data') /\ data'[temp'] = <<>>
      /\ OthersStay
  <2>1. CASE temp # 0
    <3>1. data' = [data EXCEPT ![temp] = <<>>] /\ temp' = temp /\ temp \in 1 .. Len(data)
      BY <1>1, <2>1 DEF Create
    <3>2. data' \in Seq(Seq(Nat)) /\ Len(data') = Len(data) /\ data'[temp] = <<>>
      BY <1>1, <3>1
    <3>3. \A f \in 1 .. Len(data) : f # temp => data'[f] = data[f]
      BY <1>1, <3>1
    <3> QED BY <1>1, <1>2, <3>1, <3>2, <3>3 DEF OthersStay
  <2>2. CASE temp = 0
    <3>1. data' = Append(data, <<>>) /\ temp' = Len(data) + 1
      BY <2>2 DEF Create
    <3>2. data' \in Seq(Seq(Nat)) /\ Len(data') = Len(data) + 1
      BY <1>1, <3>1
    <3>3. data'[Len(data) + 1] = <<>> /\ \A f \in 1 .. Len(data) : data'[f] = data[f]
      BY <1>1, <3>1
    <3> QED BY <1>1, <1>2, <3>1, <3>2, <3>3 DEF OthersStay
  <2> QED BY <2>1, <2>2
<1>4. BatteryTypes'
  <2>1. live \in 0 .. Len(data')
    BY <1>1, <1>3 DEF OthersStay, BatteryInv, BatteryTypes
  <2>2. pc' = "writing" /\ temp' \in 0 .. Len(data')
    BY <1>3 DEF Create
  <2> QED BY <1>2, <1>3, <2>1, <2>2 DEF BatteryInv, BatteryTypes
<1>5. LiveIsWhole' /\ ReadersReadOne' /\ (live # 0 => data'[live] = data[live])
  BY <1>1, <1>2, <1>3, <1>4, LiveStays, ReadersStay DEF BatteryTypes
<1>6. OnDisk' = OnDisk
  BY <1>2, <1>5 DEF OnDisk
<1>7. WriteIsTheirs'
  <2>1. pc = "naming" /\ pc' = "writing"
    BY DEF Create
  <2> QED BY <1>2, <2>1, Zenon DEF BatteryInv, WriteIsTheirs, Saves
<1>8. WriteIsUnderWay'
  <2>1. <<>> \in Seq({writes.save}) /\ Len(<<>>) = 0 /\ temp' # 0
    BY <1>3
  <2>2. pc = "naming" /\ pc' = "writing" /\ writes.at = 0
    BY DEF Create
  <2> QED BY <1>2, <1>3, <2>1, <2>2, Zenon DEF BatteryInv, WriteIsUnderWay
<1>9. DiskIsBehind'
  <2>1. pc = "naming" /\ pc' = "writing"
    BY DEF Create
  <2> QED BY <1>2, <1>6, <2>1, Zenon DEF BatteryInv, DiskIsBehind
<1> QED BY <1>4, <1>5, <1>6, <1>7, <1>8, <1>9 DEF BatteryInv

LEMMA WriteChunkKeeps == ASSUME BatteryInv, WriteChunk PROVE BatteryInv' /\ OnDisk' = OnDisk
<1> DEFINE at == writes.at + 1
           file == data[temp]
           s == writes.save
           e(i) == IF i = at THEN Head(writes.left) ELSE file[i]
           longer == [i \in 1 .. at |-> e(i)]
<1>1. /\ temp \in 1 .. Len(data) /\ file \in Seq({s}) /\ Len(file) = writes.at
      /\ writes.left \in Seq({s}) /\ writes.left # <<>> /\ s \in Nat /\ writes.at \in Nat
      /\ writes.at + Len(writes.left) = Len(Contents(s)) /\ s # 0
  <2>1. pc = "writing" /\ writes.left # <<>>
    BY DEF WriteChunk
  <2>2. s \in Saves /\ temp # 0 /\ file \in Seq({s}) /\ Len(file) = writes.at
        /\ writes.left \in Seq({s}) /\ writes.at + Len(writes.left) = Len(Contents(s))
    BY <2>1 DEF BatteryInv, WriteIsTheirs, WriteIsUnderWay
  <2>3. writes \in Writes /\ temp \in 0 .. Len(data) /\ Len(data) \in Nat /\ saves \in Nat
    BY DEF BatteryInv, BatteryTypes
  <2> QED BY <2>1, <2>2, <2>3 DEF Writes, Saves
<1>2. Head(writes.left) \in {s} /\ Tail(writes.left) \in Seq({s})
      /\ Len(Tail(writes.left)) = Len(writes.left) - 1
  BY <1>1
<1>3. longer \in Seq({s}) /\ Len(longer) = at
  <2>1. at \in Nat /\ \A i \in 1 .. at : e(i) \in {s}
    <3>1. \A i \in 1 .. at : i # at => i \in 1 .. Len(file)
      BY <1>1
    <3>2. \A i \in 1 .. Len(file) : file[i] \in {s}
      BY <1>1, ElementOfSeq
    <3> QED BY <1>1, <1>2, <3>1, <3>2
  <2> HIDE DEF e, at
  <2> QED BY <2>1
<1>4. /\ data' = [data EXCEPT ![temp] = longer]
      /\ writes' = [save |-> s, left |-> Tail(writes.left), at |-> at, then |-> writes.then]
      /\ UNCHANGED <<live, temp, earlier, battery, saves, unsaved, pc, reader>>
  <2>1. (IF Len(file) < at THEN at ELSE Len(file)) = at
    BY <1>1
  <2> QED BY <2>1 DEF WriteChunk
<1> HIDE DEF longer
<1>5. data \in Seq(Seq(Nat)) /\ Len(data) \in Nat /\ saves \in Nat
  BY DEF BatteryInv, BatteryTypes
<1>6. longer \in Seq(Nat) /\ Tail(writes.left) \in Seq(Nat)
  BY <1>1, <1>2, <1>3
<1>7. data' \in Seq(Seq(Nat)) /\ data'[temp] = longer /\ Len(data') = Len(data)
  BY <1>1, <1>4, <1>5, <1>6
<1>8. OthersStay
  BY <1>1, <1>4, <1>5, <1>7 DEF OthersStay
<1>9. BatteryTypes'
  <2>1. writes' \in Writes
    <3>1. writes \in Writes
      BY DEF BatteryInv, BatteryTypes
    <3> QED BY <1>1, <1>4, <1>6, <3>1 DEF Writes
  <2> QED BY <1>4, <1>7, <2>1 DEF BatteryInv, BatteryTypes
<1>10. LiveIsWhole' /\ ReadersReadOne' /\ (live # 0 => data'[live] = data[live])
  BY <1>4, <1>5, <1>7, <1>8, LiveStays, ReadersStay
<1>11. OnDisk' = OnDisk
  BY <1>4, <1>10 DEF OnDisk
<1>12. /\ writes'.save = s /\ writes'.then = writes.then
       /\ writes'.left = Tail(writes.left) /\ writes'.at = at
  BY <1>4
<1>13. WriteIsTheirs'
  BY <1>4, <1>12, Zenon DEF BatteryInv, WriteIsTheirs, Saves
<1>14. WriteIsUnderWay'
  <2>1. at + Len(Tail(writes.left)) = Len(Contents(s))
    <3> DEFINE n == Len(writes.left)
    <3>1. n \in Nat /\ Len(Tail(writes.left)) = n - 1 /\ writes.at + n = Len(Contents(s))
      BY <1>1, <1>2
    <3> HIDE DEF n
    <3> QED BY <1>1, <3>1
  <2>2. pc' = "writing" /\ temp' # 0
    BY <1>1, <1>4 DEF WriteChunk
  <2>3. WriteIsUnderWay' = (/\ Tail(writes.left) \in Seq({s})
                            /\ at + Len(Tail(writes.left)) = Len(Contents(s))
                            /\ data'[temp] \in Seq({s})
                            /\ Len(data'[temp]) = at)
    BY <1>4, <1>12, <2>2 DEF WriteIsUnderWay
  <2> QED BY <1>2, <1>3, <1>7, <2>1, <2>3
<1>15. DiskIsBehind'
  BY <1>4, <1>11, Zenon DEF BatteryInv, DiskIsBehind
<1> QED BY <1>9, <1>10, <1>11, <1>13, <1>14, <1>15 DEF BatteryInv

\* The file written is named: the disk's save is now the one written.
LEMMA RenameKeeps == ASSUME BatteryInv, Rename PROVE BatteryInv' /\ OnDisk' >= OnDisk
<1> DEFINE s == writes.save
<1>1. /\ pc = "writing" /\ writes.left = <<>> /\ live' = temp /\ temp' = 0
      /\ pc' = "playing" /\ writes' = Idle
      /\ UNCHANGED <<data, earlier, battery, saves, reader>>
  BY DEF Rename
<1>2. /\ s \in Saves /\ temp # 0
      /\ data[temp] \in Seq({s}) /\ Len(data[temp]) = writes.at
      /\ writes.at + Len(writes.left) = Len(Contents(s))
  BY <1>1 DEF BatteryInv, WriteIsTheirs, WriteIsUnderWay
<1>3. /\ data \in Seq(Seq(Nat)) /\ Len(data) \in Nat /\ temp \in 0 .. Len(data)
      /\ saves \in Nat /\ earlier \in Nat /\ battery \in Nat /\ unsaved \in BOOLEAN
      /\ writes \in Writes
  BY DEF BatteryInv, BatteryTypes
<1>4. s \in Nat /\ s # 0 /\ writes.at \in Nat /\ writes.then \in {"playing", "settled"}
  BY <1>2, <1>3 DEF Saves, Writes
<1>5. data[temp] = Contents(s)
  <2>1. Len(data[temp]) = Len(Contents(s))
    BY <1>1, <1>2, <1>4
  <2> QED BY <1>2, <1>4, <2>1, AllChunksAreTheSave
<1>6. OnDisk' = s
  BY <1>1, <1>2, <1>4, <1>5, ContentsAreTheSave DEF OnDisk
<1>7. /\ writes.then = "playing" => s = battery /\ unsaved /\ unsaved' = FALSE
      /\ writes.then = "settled" => live = 0 /\ s = earlier /\ battery = earlier
                                    /\ ~unsaved /\ unsaved' = unsaved
  BY <1>1, Zenon DEF Rename, BatteryInv, WriteIsTheirs
<1>8. unsaved' = FALSE /\ s = battery
  BY <1>3, <1>4, <1>7
<1>9. BatteryTypes'
  <2>1. live' \in 0 .. Len(data) /\ temp' \in 0 .. Len(data)
    BY <1>1, <1>3
  <2>3. unsaved' \in BOOLEAN
    BY <1>8, Zenon
  <2>2. writes' \in Writes /\ reader' \in [Readers -> Readings]
    BY <1>1, RestTypes DEF BatteryInv, BatteryTypes
  <2> QED BY <1>1, <1>3, <2>1, <2>2, <2>3 DEF BatteryTypes
<1>10. LiveIsWhole'
  BY <1>1, <1>2, <1>5 DEF LiveIsWhole, Saves
<1>11. ReadersReadOne'
  <2>1. \A r \in Readers : reader[r].file # 0 => reader[r].file \in 1 .. Len(data)
    BY DEF BatteryInv, ReadersReadOne
  <2>2. Saves' = Saves
    BY <1>1 DEF Saves
  <2>3. \A r \in Readers : reader[r].file # 0 => reader[r].file # temp'
    BY <1>1
  <2> QED BY <1>1, <2>1, <2>2, <2>3, Zenon DEF BatteryInv, ReadersReadOne
<1>12. WriteIsTheirs' /\ WriteIsUnderWay'
  BY <1>1 DEF WriteIsTheirs, WriteIsUnderWay
<1>13. earlier <= saves /\ battery <= saves /\ (pc # "down" => OnDisk <= battery)
  BY DEF BatteryInv, DiskIsBehind
<1>14. DiskIsBehind'
  BY <1>1, <1>3, <1>6, <1>8, <1>13 DEF DiskIsBehind
<1>15. OnDisk' >= OnDisk
  BY <1>1, <1>3, <1>6, <1>8, <1>13, DiskIsASave
<1> QED BY <1>9, <1>10, <1>11, <1>12, <1>14, <1>15 DEF BatteryInv

-----------------------------------------------------------------------------
(* The program that plays, and the readers: no file is touched.            *)

LEMMA FilesAlone ==
    ASSUME BatteryInv, UNCHANGED <<live, temp, data, reader, earlier>>, saves' \in Nat, saves <= saves'
    PROVE  LiveIsWhole' /\ ReadersReadOne' /\ OnDisk' = OnDisk
<1>1. OthersStay
  BY NothingTouched
<1>2. Len(data') \in Nat
  BY DEF BatteryInv, BatteryTypes
<1> QED BY <1>1, <1>2, LiveStays, ReadersStay DEF OnDisk

LEMMA FailKeeps == ASSUME BatteryInv, Fail PROVE BatteryInv' /\ OnDisk' = OnDisk
<1>1. /\ pc \in {"naming", "writing"} /\ pc' = "playing" /\ writes' = Idle
      /\ UNCHANGED <<live, temp, data, earlier, battery, saves, unsaved, reader>>
  BY DEF Fail
<1>2. BatteryTypes'
  BY <1>1, RestTypes DEF BatteryInv, BatteryTypes
<1>3. LiveIsWhole' /\ ReadersReadOne' /\ OnDisk' = OnDisk
  <2>1. saves' \in Nat /\ saves <= saves'
    BY <1>1 DEF BatteryInv, BatteryTypes
  <2> QED BY <1>1, <2>1, FilesAlone
<1>4. WriteIsTheirs' /\ WriteIsUnderWay'
  BY <1>1 DEF WriteIsTheirs, WriteIsUnderWay
\* A write that failed was of the machine's, still unsaved, or of the earlier
\* place's, where the machine found it.
<1>5. unsaved \/ OnDisk = battery
  <2>1. writes.then \in {"playing", "settled"}
    BY DEF BatteryInv, BatteryTypes, Writes
  <2>2. writes.then = "playing" => unsaved
    BY <1>1, Zenon DEF BatteryInv, WriteIsTheirs
  <2>3. writes.then = "settled" => live = 0 /\ battery = earlier
    BY <1>1, Zenon DEF BatteryInv, WriteIsTheirs
  <2> QED BY <2>1, <2>2, <2>3 DEF OnDisk
<1>6. DiskIsBehind'
  <2>1. pc' = "playing" /\ pc # "down"
    BY <1>1
  <2> QED BY <1>1, <1>3, <1>5, <2>1, Zenon DEF BatteryInv, DiskIsBehind
<1> QED BY <1>2, <1>3, <1>4, <1>6 DEF BatteryInv

LEMMA OpenKeeps == ASSUME BatteryInv, Open PROVE BatteryInv' /\ OnDisk' = OnDisk
<1>1. /\ battery' = OnDisk /\ unsaved' = FALSE /\ pc' = "settling"
      /\ UNCHANGED <<live, temp, data, earlier, saves, writes, reader>>
  BY DEF Open
<1>2. saves \in Nat /\ OnDisk \in 0 .. saves /\ earlier <= saves
  BY DiskIsASave DEF BatteryInv, BatteryTypes, DiskIsBehind
<1>3. LiveIsWhole' /\ ReadersReadOne' /\ OnDisk' = OnDisk
  BY <1>1, <1>2, FilesAlone
<1>4. BatteryTypes'
  <2>1. unsaved' \in BOOLEAN
    BY <1>1, Zenon
  <2>2. battery' \in Nat /\ saves' \in Nat
    BY <1>1, <1>2
  <2> QED BY <1>1, <2>1, <2>2 DEF BatteryInv, BatteryTypes
<1>5. WriteIsTheirs' /\ WriteIsUnderWay' /\ DiskIsBehind'
  BY <1>1, <1>2, <1>3 DEF WriteIsTheirs, WriteIsUnderWay, DiskIsBehind
<1> QED BY <1>3, <1>4, <1>5 DEF BatteryInv

\* A write begun, of a save the machine has, leaves the files as they are.
LEMMA BeginKeeps ==
    ASSUME BatteryInv, NEW s \in Saves, NEW then \in {"playing", "settled"},
           pc \in {"settling", "playing"}, pc' = "naming", Begin(s, then),
           UNCHANGED <<live, temp, data, earlier, battery, saves, unsaved, reader>>,
           then = "playing" => s = battery /\ unsaved,
           then = "settled" => live = 0 /\ s = earlier /\ battery = earlier /\ ~unsaved
    PROVE  BatteryInv' /\ OnDisk' = OnDisk
<1>1. writes' = [save |-> s, left |-> Contents(s), at |-> 0, then |-> then]
  BY DEF Begin
<1>a. s \in Nat /\ s # 0 /\ saves \in Nat
  BY DEF Saves, BatteryInv, BatteryTypes
<1>b. Contents(s) \in Seq({s}) /\ Contents(s) \in Seq(Nat)
  BY <1>a, ContentsAreTheSave
<1>2. /\ s \in Nat /\ s # 0 /\ saves \in Nat
      /\ Contents(s) \in Seq({s}) /\ Contents(s) \in Seq(Nat)
  BY <1>a, <1>b
<1>3. BatteryTypes'
  <2>1. writes' \in Writes
    BY <1>1, <1>2 DEF Writes
  <2> QED BY <2>1 DEF BatteryInv, BatteryTypes
<1>4. LiveIsWhole' /\ ReadersReadOne' /\ OnDisk' = OnDisk
  BY <1>2, FilesAlone
<1>5. writes'.save = s /\ writes'.left = Contents(s) /\ writes'.at = 0 /\ writes'.then = then
  BY <1>1
<1>6. WriteIsTheirs'
  BY <1>5, Zenon DEF WriteIsTheirs, Saves
<1>7. WriteIsUnderWay'
  BY <1>2, <1>5 DEF WriteIsUnderWay
<1>8. DiskIsBehind'
  <2>1. pc # "down" /\ pc' # "down" /\ pc' # "settling" /\ pc' # "playing"
    OBVIOUS
  <2> QED BY <1>4, <2>1, Zenon DEF BatteryInv, DiskIsBehind
<1> QED BY <1>3, <1>4, <1>6, <1>7, <1>8 DEF BatteryInv

LEMMA SettleKeeps == ASSUME BatteryInv, Settle PROVE BatteryInv' /\ OnDisk' = OnDisk
<1>1. /\ pc = "settling" /\ saves \in Nat /\ earlier \in Nat
      /\ UNCHANGED <<live, temp, data, earlier, battery, saves, unsaved, reader>>
  BY DEF Settle, BatteryInv, BatteryTypes
<1>2. OnDisk = battery /\ ~unsaved /\ earlier <= saves
  BY <1>1, Zenon DEF BatteryInv, DiskIsBehind
<1>3. CASE live = 0 /\ earlier # 0
  <2>1. earlier \in Saves /\ battery = earlier
    BY <1>1, <1>2, <1>3 DEF Saves, OnDisk
  <2>2. pc' = "naming" /\ Begin(earlier, "settled")
    BY <1>3 DEF Settle
  <2> QED BY <1>1, <1>2, <1>3, <2>1, <2>2, BeginKeeps
<1>4. CASE ~(live = 0 /\ earlier # 0)
  <2>1. pc' = "playing" /\ writes' = writes
    BY <1>4 DEF Settle
  <2>2. BatteryTypes'
    BY <1>1, <2>1 DEF BatteryInv, BatteryTypes
  <2>3. LiveIsWhole' /\ ReadersReadOne' /\ OnDisk' = OnDisk
    BY <1>1, FilesAlone
  <2>4. WriteIsTheirs' /\ WriteIsUnderWay'
    BY <2>1 DEF WriteIsTheirs, WriteIsUnderWay
  <2>5. DiskIsBehind'
    <3>1. pc' # "settling" /\ pc # "down"
      BY <1>1, <2>1
    <3> QED BY <1>1, <1>2, <2>3, <3>1, Zenon DEF BatteryInv, DiskIsBehind
  <2> QED BY <2>2, <2>3, <2>4, <2>5 DEF BatteryInv
<1> QED BY <1>3, <1>4

LEMMA PlayKeeps == ASSUME BatteryInv, Play PROVE BatteryInv' /\ OnDisk' = OnDisk
<1>1. /\ pc = "playing" /\ pc' = "playing"
      /\ saves' = saves + 1 /\ battery' = saves + 1 /\ unsaved' = TRUE
      /\ UNCHANGED <<live, temp, data, earlier, writes, reader>>
  BY DEF Play
<1>2. saves \in Nat /\ earlier \in Nat /\ OnDisk \in 0 .. saves /\ earlier <= saves
  BY DiskIsASave DEF BatteryInv, BatteryTypes, DiskIsBehind
<1>3. LiveIsWhole' /\ ReadersReadOne' /\ OnDisk' = OnDisk
  BY <1>1, <1>2, FilesAlone
<1>4. BatteryTypes'
  <2>1. unsaved' \in BOOLEAN
    BY <1>1, Zenon
  <2>2. battery' \in Nat /\ saves' \in Nat
    BY <1>1, <1>2
  <2> QED BY <1>1, <2>1, <2>2 DEF BatteryInv, BatteryTypes
<1>5. WriteIsTheirs' /\ WriteIsUnderWay' /\ DiskIsBehind'
  BY <1>1, <1>2, <1>3 DEF WriteIsTheirs, WriteIsUnderWay, DiskIsBehind
<1> QED BY <1>3, <1>4, <1>5 DEF BatteryInv

LEMMA SaveSramKeeps == ASSUME BatteryInv, SaveSram PROVE BatteryInv' /\ OnDisk' = OnDisk
<1>1. /\ pc = "playing" /\ unsaved /\ pc' = "naming" /\ Begin(battery, "playing")
      /\ UNCHANGED <<live, temp, data, earlier, battery, saves, unsaved, reader>>
  BY DEF SaveSram
<1>2. battery # 0 /\ battery <= saves
  BY <1>1, Zenon DEF BatteryInv, DiskIsBehind
<1>3. battery \in Saves
  BY <1>2 DEF BatteryInv, BatteryTypes, Saves
<1> QED BY <1>1, <1>3, BeginKeeps

LEMMA DownKeeps == ASSUME BatteryInv, Down PROVE BatteryInv' /\ OnDisk' = OnDisk
<1>1. /\ pc' = "down" /\ writes' = Idle /\ battery' = 0 /\ unsaved' = FALSE
      /\ UNCHANGED <<live, temp, data, earlier, saves, reader>>
  BY DEF Down
<1>2. saves \in Nat /\ earlier <= saves
  BY DEF BatteryInv, BatteryTypes, DiskIsBehind
<1>3. LiveIsWhole' /\ ReadersReadOne' /\ OnDisk' = OnDisk
  BY <1>1, <1>2, FilesAlone
<1>4. BatteryTypes'
  BY <1>1, RestTypes DEF BatteryInv, BatteryTypes
<1>5. WriteIsTheirs' /\ WriteIsUnderWay' /\ DiskIsBehind'
  BY <1>1, <1>2 DEF WriteIsTheirs, WriteIsUnderWay, DiskIsBehind
<1> QED BY <1>3, <1>4, <1>5 DEF BatteryInv

-----------------------------------------------------------------------------
(* The readers.                                                            *)

LEMMA ReaderKeeps ==
    ASSUME BatteryInv, NEW r \in Readers, OpenToRead(r) \/ ReadChunk(r) \/ CloseRead(r)
    PROVE  BatteryInv' /\ OnDisk' = OnDisk
<1>1. UNCHANGED <<live, temp, data, earlier, battery, saves, unsaved, pc, writes>>
  BY DEF OpenToRead, ReadChunk, CloseRead
<1>2. OnDisk' = OnDisk /\ Saves' = Saves
  BY <1>1 DEF OnDisk, Saves
<1>3. LiveIsWhole' /\ WriteIsTheirs' /\ WriteIsUnderWay' /\ DiskIsBehind'
  BY <1>1, <1>2, Zenon DEF BatteryInv, LiveIsWhole, WriteIsTheirs, WriteIsUnderWay, DiskIsBehind
<1> DEFINE One(x) ==
      x.file # 0 =>
         /\ x.file \in 1 .. Len(data) /\ x.file # temp
         /\ \E s \in Saves : /\ data[x.file] = Contents(s)
                             /\ x.got \in Seq({s}) /\ Len(x.got) = x.at
                             /\ x.at <= Len(Contents(s))
<1>4. reader \in [Readers -> Readings] /\ \A q \in Readers : One(reader[q])
  BY DEF BatteryInv, BatteryTypes, ReadersReadOne
<1>5. ASSUME NEW x \in Readings, One(x), reader' = [reader EXCEPT ![r] = x]
      PROVE  BatteryInv'
  <2>1. reader' \in [Readers -> Readings]
    BY <1>4, <1>5
  <2>2. BatteryTypes'
    BY <1>1, <2>1 DEF BatteryInv, BatteryTypes
  <2>3. \A q \in Readers : reader'[q] = x \/ reader'[q] = reader[q]
    BY <1>4, <1>5
  <2> HIDE DEF One
  <2>4. \A q \in Readers : One(reader'[q])
    <3> SUFFICES ASSUME NEW q \in Readers PROVE One(reader'[q])
      OBVIOUS
    <3>1. CASE reader'[q] = x
      BY <1>5, <3>1
    <3>2. CASE reader'[q] = reader[q]
      BY <1>4, <3>2
    <3> QED BY <2>3, <3>1, <3>2
  <2>5. ReadersReadOne'
    BY <1>1, <1>2, <2>4, Zenon DEF One, ReadersReadOne
  <2> QED BY <1>3, <2>2, <2>5 DEF BatteryInv
<1>6. CASE OpenToRead(r)
  <2> DEFINE x == [file |-> live, at |-> 0, got |-> <<>>]
  <2>1. live # 0 /\ reader' = [reader EXCEPT ![r] = x]
    BY <1>6 DEF OpenToRead
  <2>2. live \in 1 .. Len(data) /\ live # temp /\ x \in Readings
    BY <2>1 DEF BatteryInv, BatteryTypes, LiveIsWhole, Readings
  <2>3. PICK s \in Saves : data[live] = Contents(s)
    BY <2>1 DEF BatteryInv, LiveIsWhole
  <2>4. s \in Nat /\ s # 0
    BY DEF Saves, BatteryInv, BatteryTypes
  <2>5. One(x)
    BY <2>2, <2>3, <2>4, ContentsAreTheSave
  <2> QED BY <1>2, <1>5, <2>1, <2>2, <2>5
<1>7. CASE ReadChunk(r)
  <2> DEFINE old == reader[r]
             chunk == data[old.file][old.at + 1]
             x == [file |-> old.file, at |-> old.at + 1, got |-> Append(old.got, chunk)]
  <2>1. old.file # 0 /\ ~(old.at >= Len(data[old.file])) /\ reader' = [reader EXCEPT ![r] = x]
    BY <1>7 DEF ReadChunk, AtEnd
  <2>2. old.file \in 1 .. Len(data) /\ old.file # temp
    BY <1>4, <2>1
  <2>3. PICK s \in Saves : /\ data[old.file] = Contents(s)
                           /\ old.got \in Seq({s}) /\ Len(old.got) = old.at
                           /\ old.at <= Len(Contents(s))
    BY <1>4, <2>1
  <2>4. /\ s \in Nat /\ s # 0 /\ Contents(s) \in Seq({s}) /\ old.file \in Nat
        /\ old.at \in Nat /\ old.got \in Seq(Nat) /\ Len(Contents(s)) \in Nat
    BY <1>4, ContentsAreTheSave DEF Saves, BatteryInv, BatteryTypes, Readings
  <2>5. old.at + 1 \in 1 .. Len(Contents(s))
    BY <2>1, <2>3, <2>4
  <2>6. chunk = s
    BY <2>3, <2>4, <2>5, ElementOfSeq
  <2>7. /\ Append(old.got, chunk) \in Seq({s}) /\ Append(old.got, chunk) \in Seq(Nat)
        /\ Len(Append(old.got, chunk)) = old.at + 1
    BY <2>3, <2>4, <2>6
  <2> HIDE DEF chunk, old
  <2>8. x \in Readings
    BY <2>4, <2>7 DEF Readings
  <2>9. One(x)
    <3>1. x.file = old.file /\ x.at = old.at + 1 /\ x.got = Append(old.got, chunk)
      OBVIOUS
    <3>2. old.at + 1 <= Len(Contents(s))
      BY <2>5
    <3> QED BY <2>2, <2>3, <2>7, <3>1, <3>2, Zenon DEF One
  <2> QED BY <1>2, <1>5, <2>1, <2>8, <2>9
<1>8. CASE CloseRead(r)
  <2>1. reader' = [reader EXCEPT ![r] = Resting] /\ Resting.file = 0
    BY <1>8 DEF CloseRead, Resting
  <2>2. One(Resting) /\ Resting \in Readings
    BY <2>1, RestTypes
  <2> QED BY <1>2, <1>5, <2>1, <2>2
<1> QED BY <1>6, <1>7, <1>8

-----------------------------------------------------------------------------
(* The theorems.                                                           *)

LEMMA NextKeeps == ASSUME BatteryInv, BatteryNext PROVE BatteryInv' /\ OnDisk' >= OnDisk
<1>1. OnDisk \in Nat
  BY DiskIsASave DEF BatteryInv, BatteryTypes
<1>2. CASE Rename
  BY <1>2, RenameKeeps
<1>3. CASE ~Rename
  <2>1. BatteryInv' /\ OnDisk' = OnDisk
    BY <1>3, CreateKeeps, WriteChunkKeeps, FailKeeps, OpenKeeps, SettleKeeps, PlayKeeps,
       SaveSramKeeps, DownKeeps, ReaderKeeps DEF BatteryNext
  <2> QED BY <1>1, <2>1
<1> QED BY <1>2, <1>3

LEMMA StutterKeeps == ASSUME BatteryInv, UNCHANGED battery_vars PROVE BatteryInv' /\ OnDisk' = OnDisk
<1>1. UNCHANGED <<live, temp, data, earlier, battery, saves, unsaved, pc, writes, reader>>
  BY DEF battery_vars
<1>2. OnDisk' = OnDisk /\ Saves' = Saves
  BY <1>1 DEF OnDisk, Saves
<1>3. BatteryTypes'
  BY <1>1 DEF BatteryInv, BatteryTypes
<1> QED BY <1>1, <1>2, <1>3, Zenon
        DEF BatteryInv, LiveIsWhole, ReadersReadOne, WriteIsTheirs, WriteIsUnderWay, DiskIsBehind

\* The invariant holds in every reachable state.
THEOREM AlwaysBatteryInv == BatterySpec => []BatteryInv
<1>1. BatteryInv /\ [BatteryNext]_battery_vars => BatteryInv'
  BY NextKeeps, StutterKeeps
<1> QED BY InitBatteryInv, <1>1, PTL DEF BatterySpec

\* Who has read the file to its end has read the whole of one save
\* (atomic.rs: write, try_read), for any number of saves, files and readers.
THEOREM ReadWhole == BatterySpec => []WholeSaves
<1>1. BatteryInv => WholeSaves
  <2> SUFFICES ASSUME BatteryInv PROVE WholeSaves
    OBVIOUS
  <2>1. live # 0 => data[live] = Contents(data[live][1])
    <3> SUFFICES ASSUME live # 0 PROVE data[live] = Contents(data[live][1])
      OBVIOUS
    <3>1. PICK s \in Saves : data[live] = Contents(s)
      BY DEF BatteryInv, LiveIsWhole
    <3>2. s \in Nat /\ s # 0
      BY DEF Saves, BatteryInv, BatteryTypes
    <3> QED BY <3>1, <3>2, ContentsAreTheSave
  <2>2. ASSUME NEW r \in Readers, reader[r].file # 0, AtEnd(r), reader[r].got # <<>>
        PROVE  reader[r].got = Contents(reader[r].got[1])
    <3> DEFINE got == reader[r].got
    <3>1. PICK s \in Saves : /\ data[reader[r].file] = Contents(s)
                             /\ got \in Seq({s}) /\ Len(got) = reader[r].at
                             /\ reader[r].at <= Len(Contents(s))
      BY <2>2 DEF BatteryInv, ReadersReadOne
    <3>2. s \in Nat /\ s # 0 /\ reader[r].at \in Nat
      BY DEF Saves, BatteryInv, BatteryTypes, Readings
    <3>3. Len(Contents(s)) \in {1, 2} /\ Contents(s)[1] = s
      BY <3>2, ContentsAreTheSave
    <3>4. Len(got) = Len(Contents(s))
      BY <2>2, <3>1, <3>2, <3>3 DEF AtEnd
    <3>5. got = Contents(s)
      BY <3>1, <3>2, <3>4, AllChunksAreTheSave
    <3> QED BY <3>3, <3>5
  <2> QED BY <2>1, <2>2 DEF WholeSaves
<1> QED BY <1>1, AlwaysBatteryInv, PTL

\* A machine whose battery is called saved would find it again, whatever
\* failed on the way (engine.rs: save_sram).
THEOREM FoundAgain == BatterySpec => []SavedIsFound
<1>1. BatteryInv => SavedIsFound
  BY Zenon DEF BatteryInv, DiskIsBehind, SavedIsFound
<1> QED BY <1>1, AlwaysBatteryInv, PTL

\* No save takes the place of a later one (battery.rs: settle), for any number
\* of saves, kills and failures.
THEOREM NoneGoesBack == BatterySpec => NothingGoesBack
<1>1. BatteryInv /\ [BatteryNext]_battery_vars => [OnDisk' >= OnDisk]_battery_vars
  BY NextKeeps
<1> QED BY <1>1, AlwaysBatteryInv, PTL DEF BatterySpec, NothingGoesBack

-----------------------------------------------------------------------------
(***************************************************************************)
(* The runtime's sessions: the list, its current session and the closes on *)
(* their way agree, and a session's end is told of once, for any threads   *)
(* and any number of sessions.  The invariant follows an id from the open  *)
(* that takes it, known to that thread alone, to the list, to the one      *)
(* close that is not refused, and to the event that tells of its end.      *)
(***************************************************************************)

\* The stages of a call with a session found in the list.
WithSession == {"closing", "changing"}
\* A close that has got through the gate, on its way to its event.
Leaving(t) == stage[t] \in {"removing", "closed"}

\* Ids are given out once, and none from the next on is in use.
IdsBelowNext ==
    /\ \A id \in list : id < next
    /\ \A id \in closed : id < next
    /\ \A t \in Threads : session[t] < next

\* The id of a session being added is its thread's alone.
AddedAlone ==
    \A t \in Threads : AtStage(t, "adding") =>
        /\ session[t] # 0 /\ session[t] \notin list /\ session[t] \notin closed
        /\ \A u \in Threads \ {t} : session[u] # session[t]

\* What was found was listed, and leaves the list only by a close.
FoundIsKnown ==
    \A t \in Threads : stage[t] \in WithSession =>
        session[t] \in list \/ session[t] \in closed

\* One close of a session gets through its gate, and takes it off the list.
ClosesApart ==
    /\ \A t \in Threads : Leaving(t) =>
          /\ session[t] \in closed
          /\ session[t] \in list <=> AtStage(t, "removing")
          /\ \A u \in Threads \ {t} : Leaving(u) => session[u] # session[t]
    /\ \A id \in list \intersect closed :
          \E t \in Threads : AtStage(t, "removing") /\ session[t] = id

\* An end told of is that of a session closed and gone, and told once.
EndsTold ==
    \A i \in DOMAIN said : said[i].op = "closed" =>
        /\ said[i].session \in closed /\ said[i].session \notin list
        /\ \A t \in Threads : Leaving(t) => session[t] # said[i].session
        /\ \A j \in DOMAIN said :
              said[j].op = "closed" /\ said[j].session = said[i].session => i = j

ListInv == /\ SessionTypes /\ CurrentIsListed /\ IdsBelowNext /\ AddedAlone
           /\ FoundIsKnown /\ ClosesApart /\ EndsTold

LEMMA SessionBounds ==
    /\ MaxSessions \in Nat /\ MaxChanges \in Nat
    /\ SessionIds \subseteq Nat /\ 0 \notin SessionIds
BY BoundsAssumption DEF BoundsAssumption, SessionIds

\* A set of ids has a latest one.
LEMMA LatestId ==
    ASSUME NEW S \in SUBSET SessionIds, S # {}
    PROVE  Max(S) \in S
<1> DEFINE Later == {MaxSessions - id : id \in S}
<1> DEFINE Less == {ss \in Nat \X Nat : ss[1] < ss[2]}
<1>1. Later \subseteq Nat /\ Later # {}
  <2>1. PICK s \in S : MaxSessions - s \in Later
    OBVIOUS
  <2>2. \A id \in S : id \in Nat /\ id <= MaxSessions /\ MaxSessions \in Nat
    BY SessionBounds DEF SessionIds
  <2>3. \A id \in S : MaxSessions - id \in Nat
    BY <2>2
  <2> QED
    BY <2>1, <2>3
<1>2. IsWellFoundedOn(Less, Nat)
  BY NatLessThanWellFounded, Zenon DEF OpToRel
<1>3. PICK k \in Later : \A j \in Later : <<j, k>> \notin Less
  <2> HIDE DEF Less, Later
  <2> QED
    BY <1>1, <1>2, WFMin, Zenon
<1>4. PICK id \in S : k = MaxSessions - id
  OBVIOUS
<1>5. ASSUME NEW other \in S PROVE id >= other
  <2>1. MaxSessions - other \in Later
    OBVIOUS
  <2>2. MaxSessions - other \in Nat /\ k \in Nat
    BY <1>1, <2>1
  <2>3. ~(MaxSessions - other < k)
    BY <1>3, <2>1, <2>2
  <2>4. id \in Nat /\ other \in Nat /\ MaxSessions \in Nat
    BY SessionBounds
  <2> QED
    BY <1>4, <2>2, <2>3, <2>4
<1> QED
  BY <1>5, Zenon DEF Max

LEMMA InitListInv == SessionsInit => ListInv
<1> SUFFICES ASSUME SessionsInit PROVE ListInv
  OBVIOUS
<1>1. SessionTypes
  <2>1. said \in Seq([op : {"opened", "closed", "disc"}, session : SessionIds \union {0}])
    BY Zenon, EmptySeq DEF SessionsInit
  <2>2. next \in 1 .. MaxSessions + 1 /\ changes \in 0 .. MaxChanges
    BY SessionBounds DEF SessionsInit
  <2> QED
    BY <2>1, <2>2 DEF SessionsInit, SessionTypes
<1>2. CurrentIsListed /\ IdsBelowNext /\ EndsTold
  BY DEF SessionsInit, CurrentIsListed, IdsBelowNext, EndsTold
<1>3. AddedAlone /\ FoundIsKnown /\ ClosesApart
  BY DEF SessionsInit, AddedAlone, FoundIsKnown, ClosesApart, Leaving, AtStage, WithSession
<1> QED
  BY <1>1, <1>2, <1>3 DEF ListInv

\* A step of one thread that neither adds, takes off nor closes, and tells of
\* no end, keeps the invariant.
LEMMA ThreadMoves ==
    ASSUME ListInv, SessionTypes', NEW t \in Threads,
           UNCHANGED <<listing, closed>>,
           \A u \in Threads \ {t} : stage'[u] = stage[u] /\ session'[u] = session[u],
           ~Leaving(t),
           stage'[t] \in {"idle", "closing", "changing", "changed", "naming"},
           session'[t] \in list \union {0}
              \/ (session'[t] = session[t] /\ ~AtStage(t, "adding")),
           stage'[t] \in WithSession =>
              session'[t] \in list \/ session'[t] \in closed,
           \A i \in DOMAIN said' : said'[i].op = "closed" =>
              i \in DOMAIN said /\ said'[i] = said[i]
    PROVE  ListInv'
<1>1. /\ SessionTypes /\ CurrentIsListed /\ IdsBelowNext /\ AddedAlone
      /\ FoundIsKnown /\ ClosesApart /\ EndsTold
  BY DEF ListInv
<1>2. list' = list /\ next' = next /\ current' = current /\ closed' = closed
  BY DEF listing
<1>3. CurrentIsListed'
  BY <1>1, <1>2 DEF CurrentIsListed, IsOpen
<1>4. IdsBelowNext'
  <2>1. 0 < next /\ next \in Nat
    BY <1>1, SessionBounds DEF SessionTypes
  <2> QED
    BY <1>1, <1>2, <2>1 DEF IdsBelowNext
<1>5. AddedAlone'
  BY <1>1, <1>2 DEF AddedAlone, AtStage
<1>6. FoundIsKnown'
  BY <1>1, <1>2 DEF FoundIsKnown
<1>7. \A u \in Threads : Leaving(u)' <=> Leaving(u)
  BY DEF Leaving
<1>8. \A u \in Threads : AtStage(u, "removing")' <=> AtStage(u, "removing")
  BY DEF Leaving, AtStage
<1>9. \A u \in Threads : Leaving(u) => u # t /\ session'[u] = session[u]
  OBVIOUS
<1>10. ClosesApart'
  <2>1. ASSUME NEW u \in Threads, Leaving(u)'
        PROVE  /\ session'[u] \in closed
               /\ session'[u] \in list <=> AtStage(u, "removing")
               /\ \A v \in Threads \ {u} : Leaving(v)' => session'[v] # session'[u]
    BY <1>1, <1>7, <1>9, <2>1 DEF ClosesApart
  <2>2. \A id \in list \intersect closed :
          \E u \in Threads : AtStage(u, "removing") /\ session[u] = id
    BY <1>1 DEF ClosesApart
  <2>3. \A u \in Threads : AtStage(u, "removing") => Leaving(u)
    BY DEF Leaving, AtStage
  <2>4. \A id \in list \intersect closed :
          \E u \in Threads : AtStage(u, "removing")' /\ session'[u] = id
    BY <1>8, <1>9, <2>2, <2>3
  <2> QED
    BY <1>2, <1>8, <2>1, <2>4 DEF ClosesApart
<1>11. EndsTold'
  BY <1>1, <1>2, <1>7, <1>9 DEF EndsTold
<1> QED
  BY <1>3, <1>4, <1>5, <1>6, <1>10, <1>11 DEF ListInv

\* An event that is not of an end.
LEMMA SaidMore ==
    ASSUME SessionTypes, NEW op \in {"opened", "closed", "disc"},
           NEW id \in SessionIds \union {0}, Say(op, id)
    PROVE  /\ said' \in Seq([op : {"opened", "closed", "disc"},
                             session : SessionIds \union {0}])
           /\ Len(said) \in Nat /\ DOMAIN said = 1 .. Len(said)
           /\ DOMAIN said' = 1 .. Len(said) + 1
           /\ \A i \in 1 .. Len(said) : said'[i] = said[i]
           /\ said'[Len(said) + 1] = [op |-> op, session |-> id]
           /\ op # "closed" =>
                 \A i \in DOMAIN said' : said'[i].op = "closed" =>
                    i \in DOMAIN said /\ said'[i] = said[i]
<1> DEFINE Lines == [op : {"opened", "closed", "disc"}, session : SessionIds \union {0}]
<1>1. said \in Seq(Lines) /\ [op |-> op, session |-> id] \in Lines
  BY DEF SessionTypes
<1>2. said' = Append(said, [op |-> op, session |-> id])
  BY DEF Say
<1>a. PICK line : line = [op |-> op, session |-> id]
  OBVIOUS
<1>3. /\ said' \in Seq(Lines)
      /\ Len(said) \in Nat /\ DOMAIN said = 1 .. Len(said)
      /\ DOMAIN said' = 1 .. Len(said) + 1
      /\ \A i \in 1 .. Len(said) : said'[i] = said[i]
      /\ said'[Len(said) + 1] = line
  <2> HIDE DEF Lines
  <2> QED
    BY <1>1, <1>2, <1>a
<1>4. op # "closed" => \A i \in DOMAIN said' : said'[i].op = "closed" =>
         i \in DOMAIN said /\ said'[i] = said[i]
  <2> SUFFICES ASSUME op # "closed", NEW i \in DOMAIN said', said'[i].op = "closed"
               PROVE  i \in DOMAIN said /\ said'[i] = said[i]
    OBVIOUS
  <2>1. line.op = op
    BY <1>a
  <2>2. i # Len(said) + 1
    BY <1>3, <2>1
  <2> HIDE DEF Lines
  <2> QED
    BY <1>3, <2>2
<1> QED
  BY <1>3, <1>4, <1>a

\* A call that comes back.
LEMMA ReturnTypes ==
    ASSUME SessionTypes, NEW t \in Threads, Return(t)
    PROVE  /\ stage' \in [Threads -> {"idle", "adding", "opened", "closing", "changing",
                                      "removing", "closed", "changed", "naming"}]
           /\ asked' \in [Threads -> SessionIds \union {0}]
           /\ session' \in [Threads -> SessionIds \union {0}]
           /\ named' \in [Threads -> SessionIds \union {0}]
           /\ stage'[t] = "idle" /\ session'[t] = 0
           /\ \A u \in Threads \ {t} : stage'[u] = stage[u] /\ session'[u] = session[u]
BY DEF SessionTypes, Return, GotoStage

\* A found session is one listed.
LEMMA FoundIsListed ==
    ASSUME SessionTypes, NEW id, Get(id) # 0
    PROVE  Get(id) \in list /\ Get(id) \in SessionIds
BY DEF SessionTypes, Get, IsOpen

LEMMA NextIdKeeps ==
    ASSUME ListInv, NEW t \in Threads, NextId(t)
    PROVE  ListInv'
<1>1. /\ SessionTypes /\ CurrentIsListed /\ IdsBelowNext /\ AddedAlone
      /\ FoundIsKnown /\ ClosesApart /\ EndsTold
  BY DEF ListInv
<1>2. /\ next' = next + 1 /\ next \in Nat /\ next \in SessionIds /\ next # 0
      /\ UNCHANGED <<list, current, closed, said>>
  BY <1>1, SessionBounds DEF NextId, SessionTypes, SessionIds
<1>3. /\ stage[t] = "idle" /\ stage'[t] = "adding" /\ session'[t] = next
      /\ \A u \in Threads \ {t} : stage'[u] = stage[u] /\ session'[u] = session[u]
  BY <1>1 DEF NextId, SessionTypes, GotoStage, AtStage
<1>4. SessionTypes'
  <2>1. next' \in 1 .. MaxSessions + 1
    BY <1>1, SessionBounds DEF NextId, SessionTypes
  <2> QED
    BY <1>1, <1>2, <2>1 DEF NextId, SessionTypes, GotoStage
<1>5. IdsBelowNext'
  <2>1. list \subseteq Nat /\ closed \subseteq Nat /\ \A u \in Threads : session[u] \in Nat
    <3>1. SessionIds \union {0} \subseteq Nat
      BY SessionBounds
    <3> QED
      BY <1>1, <3>1 DEF SessionTypes
  <2>2. \A id \in list \union closed : id < next + 1
    BY <1>1, <1>2, <2>1 DEF IdsBelowNext
  <2>3. \A u \in Threads : session'[u] < next + 1
    BY <1>1, <1>2, <1>3, <2>1 DEF IdsBelowNext
  <2> QED
    BY <1>2, <2>2, <2>3 DEF IdsBelowNext
<1>6. /\ next \notin list /\ next \notin closed
      /\ \A u \in Threads : session[u] # next
  BY <1>1, <1>2 DEF IdsBelowNext
<1>7. AddedAlone'
  <2>1. ASSUME NEW u \in Threads, stage'[u] = "adding"
        PROVE  /\ session'[u] # 0 /\ session'[u] \notin list /\ session'[u] \notin closed
               /\ \A v \in Threads \ {u} : session'[v] # session'[u]
    <3>1. CASE u = t
      BY <1>2, <1>3, <1>6, <3>1
    <3>2. CASE u # t
      BY <1>1, <1>3, <1>6, <2>1, <3>2 DEF AddedAlone, AtStage
    <3> QED
      BY <3>1, <3>2
  <2> QED
    BY <1>2, <2>1 DEF AddedAlone, AtStage
<1>8. FoundIsKnown'
  BY <1>1, <1>2, <1>3 DEF FoundIsKnown, WithSession
<1>9. \A u \in Threads : /\ Leaving(u)' <=> Leaving(u)
                         /\ AtStage(u, "removing")' <=> AtStage(u, "removing")
                         /\ Leaving(u) => session'[u] = session[u]
                         /\ AtStage(u, "removing") => session'[u] = session[u]
  BY <1>3 DEF Leaving, AtStage
<1>10. ClosesApart'
  BY <1>1, <1>2, <1>9 DEF ClosesApart
<1>11. EndsTold'
  BY <1>1, <1>2, <1>9 DEF EndsTold
<1>12. CurrentIsListed'
  BY <1>1, <1>2 DEF CurrentIsListed, IsOpen
<1> QED
  BY <1>4, <1>5, <1>7, <1>8, <1>10, <1>11, <1>12 DEF ListInv

LEMMA AddKeeps ==
    ASSUME ListInv, NEW t \in Threads, Add(t)
    PROVE  ListInv'
<1>1. /\ SessionTypes /\ CurrentIsListed /\ IdsBelowNext /\ AddedAlone
      /\ FoundIsKnown /\ ClosesApart /\ EndsTold
  BY DEF ListInv
<1>2. /\ list' = list \union {session[t]} /\ current' = session[t]
      /\ UNCHANGED <<next, closed, said, asked, session, named, changes, freed>>
  BY DEF Add
<1>3. /\ stage[t] = "adding" /\ stage'[t] = "opened"
      /\ \A u \in Threads \ {t} : stage'[u] = stage[u]
  BY <1>1 DEF Add, SessionTypes, GotoStage, AtStage
<1>4. /\ session[t] # 0 /\ session[t] \notin list /\ session[t] \notin closed
      /\ \A u \in Threads \ {t} : session[u] # session[t]
      /\ session[t] \in SessionIds
  BY <1>1, <1>3 DEF AddedAlone, AtStage, SessionTypes
<1>5. SessionTypes'
  BY <1>1, <1>2, <1>4 DEF Add, SessionTypes, GotoStage
<1>6. IdsBelowNext' /\ CurrentIsListed'
  BY <1>1, <1>2 DEF IdsBelowNext, CurrentIsListed, IsOpen
<1>7. AddedAlone'
  BY <1>1, <1>2, <1>3, <1>4 DEF AddedAlone, AtStage
<1>8. FoundIsKnown'
  BY <1>1, <1>2, <1>3 DEF FoundIsKnown, WithSession
<1>9. \A u \in Threads : /\ Leaving(u)' <=> Leaving(u)
                         /\ AtStage(u, "removing")' <=> AtStage(u, "removing")
  BY <1>3 DEF Leaving, AtStage
<1>10. ClosesApart'
  <2>1. ASSUME NEW u \in Threads, Leaving(u)
        PROVE  session[u] \in list' <=> AtStage(u, "removing")
    BY <1>1, <1>2, <1>4, <2>1 DEF ClosesApart
  <2>2. list' \intersect closed = list \intersect closed
    BY <1>2, <1>4
  <2> QED
    BY <1>1, <1>2, <1>9, <2>1, <2>2 DEF ClosesApart
<1>11. EndsTold'
  <2>1. \A i \in DOMAIN said : said[i].op = "closed" => said[i].session \notin list'
    BY <1>1, <1>2, <1>4 DEF EndsTold
  <2> QED
    BY <1>1, <1>2, <1>9, <2>1 DEF EndsTold
<1> QED
  BY <1>5, <1>6, <1>7, <1>8, <1>10, <1>11 DEF ListInv

LEMMA CloseUnderGateKeeps ==
    ASSUME ListInv, NEW t \in Threads, CloseUnderGate(t)
    PROVE  ListInv'
<1>1. /\ SessionTypes /\ CurrentIsListed /\ IdsBelowNext /\ AddedAlone
      /\ FoundIsKnown /\ ClosesApart /\ EndsTold
  BY DEF ListInv
<1>2. /\ closed' = closed \union {session[t]} /\ session[t] \notin closed
      /\ UNCHANGED <<list, next, current, said, asked, session, named, changes, freed>>
  BY DEF CloseUnderGate, listing
<1>3. /\ stage[t] = "closing" /\ stage'[t] = "removing"
      /\ \A u \in Threads \ {t} : stage'[u] = stage[u]
  BY <1>1 DEF CloseUnderGate, SessionTypes, GotoStage, AtStage
<1>4. session[t] \in list /\ session[t] \in SessionIds
  BY <1>1, <1>2, <1>3 DEF FoundIsKnown, WithSession, SessionTypes
<1>5. SessionTypes'
  BY <1>1, <1>2, <1>4 DEF CloseUnderGate, SessionTypes, GotoStage
<1>6. IdsBelowNext' /\ CurrentIsListed'
  BY <1>1, <1>2, <1>4 DEF IdsBelowNext, CurrentIsListed, IsOpen
<1>7. AddedAlone'
  BY <1>1, <1>2, <1>3, <1>4 DEF AddedAlone, AtStage
<1>8. FoundIsKnown'
  BY <1>1, <1>2, <1>3 DEF FoundIsKnown, WithSession
<1>9. /\ \A u \in Threads \ {t} : /\ Leaving(u)' <=> Leaving(u)
                                  /\ AtStage(u, "removing")' <=> AtStage(u, "removing")
      /\ ~Leaving(t) /\ ~AtStage(t, "removing")
      /\ Leaving(t)' /\ AtStage(t, "removing")'
  BY <1>3 DEF Leaving, AtStage
<1>10. ClosesApart'
  <2>1. \A u \in Threads : Leaving(u) => session[u] # session[t]
    BY <1>1, <1>2 DEF ClosesApart
  <2>2. ASSUME NEW u \in Threads, Leaving(u)'
        PROVE  /\ session[u] \in closed'
               /\ session[u] \in list <=> AtStage(u, "removing")'
               /\ \A v \in Threads \ {u} : Leaving(v)' => session[v] # session[u]
    <3>1. CASE u = t
      BY <1>2, <1>4, <1>9, <2>1, <3>1
    <3>2. CASE u # t
      BY <1>1, <1>2, <1>9, <2>1, <2>2, <3>2 DEF ClosesApart
    <3> QED
      BY <3>1, <3>2
  <2>3. ASSUME NEW id \in list \intersect closed'
        PROVE  \E u \in Threads : AtStage(u, "removing")' /\ session[u] = id
    <3>1. CASE id = session[t]
      BY <1>9, <3>1
    <3>2. CASE id # session[t]
      BY <1>1, <1>2, <1>9, <2>3, <3>2 DEF ClosesApart
    <3> QED
      BY <3>1, <3>2
  <2> QED
    BY <1>2, <2>2, <2>3 DEF ClosesApart
<1>11. EndsTold'
  BY <1>1, <1>2, <1>9 DEF EndsTold
<1> QED
  BY <1>5, <1>6, <1>7, <1>8, <1>10, <1>11 DEF ListInv

LEMMA TakeOutKeeps ==
    ASSUME ListInv, NEW t \in Threads, TakeOut(t)
    PROVE  ListInv'
<1>1. /\ SessionTypes /\ CurrentIsListed /\ IdsBelowNext /\ AddedAlone
      /\ FoundIsKnown /\ ClosesApart /\ EndsTold
  BY DEF ListInv
<1>2. /\ list' = list \ {session[t]} /\ current' = CurrentWithout(session[t])
      /\ UNCHANGED <<next, closed, said, asked, session, named, changes, freed>>
  BY DEF TakeOut
<1>3. /\ stage[t] = "removing" /\ stage'[t] = "closed"
      /\ \A u \in Threads \ {t} : stage'[u] = stage[u]
  BY <1>1 DEF TakeOut, SessionTypes, GotoStage, AtStage
<1>4. Leaving(t) /\ AtStage(t, "removing")
  BY <1>3 DEF Leaving, AtStage
<1>5. session[t] \in closed /\ session[t] \in list
  BY <1>1, <1>4 DEF ClosesApart
<1>6. CurrentIsListed' /\ current' \in SessionIds \union {0}
  <2>1. CASE current # session[t]
    BY <1>1, <1>2, <1>5, <2>1 DEF CurrentIsListed, IsOpen, CurrentWithout, SessionTypes
  <2>2. CASE current = session[t] /\ list' = {}
    BY <1>2, <2>2 DEF CurrentIsListed, CurrentWithout
  <2>3. CASE current = session[t] /\ list' # {}
    <3>1. Max(list') \in list' /\ list' \subseteq SessionIds
      BY <1>1, <1>2, <2>3, LatestId DEF SessionTypes
    <3>2. current' = Max(list')
      BY <1>2, <2>3 DEF CurrentWithout
    <3> QED
      BY <2>3, <3>1, <3>2 DEF CurrentIsListed, IsOpen
  <2> QED
    BY <2>1, <2>2, <2>3
<1>7. SessionTypes'
  BY <1>1, <1>2, <1>6 DEF TakeOut, SessionTypes, GotoStage
<1>8. IdsBelowNext'
  BY <1>1, <1>2 DEF IdsBelowNext
<1>9. AddedAlone'
  BY <1>1, <1>2, <1>3 DEF AddedAlone, AtStage
<1>10. FoundIsKnown'
  <2>1. \A u \in Threads : stage'[u] \in WithSession =>
           session[u] \in list' \/ session[u] \in closed
    BY <1>1, <1>2, <1>3, <1>5 DEF FoundIsKnown, WithSession
  <2> QED
    BY <1>2, <2>1 DEF FoundIsKnown
<1>11. /\ \A u \in Threads : Leaving(u)' <=> Leaving(u)
       /\ \A u \in Threads \ {t} : AtStage(u, "removing")' <=> AtStage(u, "removing")
       /\ ~AtStage(t, "removing")'
  BY <1>3 DEF Leaving, AtStage
<1>12. ClosesApart'
  <2>1. \A u \in Threads \ {t} : Leaving(u) => session[u] # session[t]
    BY <1>1, <1>4 DEF ClosesApart
  <2>2. ASSUME NEW u \in Threads, Leaving(u)
        PROVE  session[u] \in list' <=> AtStage(u, "removing")'
    <3>1. CASE u = t
      BY <1>2, <1>11, <3>1
    <3>2. CASE u # t
      BY <1>1, <1>2, <1>11, <2>1, <2>2, <3>2 DEF ClosesApart
    <3> QED
      BY <3>1, <3>2
  <2>3. ASSUME NEW id \in list' \intersect closed
        PROVE  \E u \in Threads : AtStage(u, "removing")' /\ session[u] = id
    <3>1. PICK u \in Threads : AtStage(u, "removing") /\ session[u] = id
      BY <1>1, <1>2, <2>3 DEF ClosesApart
    <3>2. u # t
      BY <1>2, <2>3, <3>1
    <3> QED
      BY <1>11, <3>1, <3>2
  <2> QED
    BY <1>1, <1>2, <1>11, <2>2, <2>3 DEF ClosesApart
<1>13. EndsTold'
  BY <1>1, <1>2, <1>11 DEF EndsTold
<1> QED
  BY <1>6, <1>7, <1>8, <1>9, <1>10, <1>12, <1>13 DEF ListInv

LEMMA SayClosedKeeps ==
    ASSUME ListInv, NEW t \in Threads, SayClosed(t)
    PROVE  ListInv'
<1>1. /\ SessionTypes /\ CurrentIsListed /\ IdsBelowNext /\ AddedAlone
      /\ FoundIsKnown /\ ClosesApart /\ EndsTold
  BY DEF ListInv
<1>2. /\ UNCHANGED <<list, next, current, closed, changes, freed>>
      /\ Say("closed", session[t]) /\ Return(t) /\ stage[t] = "closed"
  BY DEF SayClosed, listing, AtStage
<1>3. /\ stage'[t] = "idle" /\ session'[t] = 0
      /\ \A u \in Threads \ {t} : stage'[u] = stage[u] /\ session'[u] = session[u]
  BY <1>1, <1>2, ReturnTypes
<1>4. Leaving(t) /\ session[t] \in closed /\ session[t] \notin list
  BY <1>1, <1>2 DEF Leaving, ClosesApart, AtStage
<1>5. session[t] \in SessionIds \union {0}
  BY <1>1 DEF SessionTypes
<1>6. /\ said' \in Seq([op : {"opened", "closed", "disc"}, session : SessionIds \union {0}])
      /\ Len(said) \in Nat /\ DOMAIN said = 1 .. Len(said)
      /\ DOMAIN said' = 1 .. Len(said) + 1
      /\ \A i \in 1 .. Len(said) : said'[i] = said[i]
      /\ said'[Len(said) + 1].session = session[t]
  <2>1. said'[Len(said) + 1] = [op |-> "closed", session |-> session[t]]
    BY <1>1, <1>2, <1>5, SaidMore, Zenon
  <2>2. said'[Len(said) + 1].session = session[t]
    BY <2>1
  <2> QED
    BY <1>1, <1>2, <1>5, <2>2, SaidMore, Zenon
<1>7. SessionTypes'
  BY <1>1, <1>2, <1>6, ReturnTypes DEF SessionTypes
<1>8. CurrentIsListed'
  BY <1>1, <1>2 DEF CurrentIsListed, IsOpen
<1>9. IdsBelowNext'
  <2>1. 0 < next /\ next \in Nat
    BY <1>1, SessionBounds DEF SessionTypes
  <2> QED
    BY <1>1, <1>2, <1>3, <2>1 DEF IdsBelowNext
<1>10. AddedAlone'
  BY <1>1, <1>2, <1>3 DEF AddedAlone, AtStage
<1>11. FoundIsKnown'
  BY <1>1, <1>2, <1>3 DEF FoundIsKnown, WithSession
<1>12. /\ \A u \in Threads \ {t} : /\ Leaving(u)' <=> Leaving(u)
                                   /\ AtStage(u, "removing")' <=> AtStage(u, "removing")
       /\ ~Leaving(t)' /\ ~AtStage(t, "removing")' /\ ~AtStage(t, "removing")
  BY <1>2, <1>3 DEF Leaving, AtStage
<1>13. ClosesApart'
  <2>1. ASSUME NEW id \in list \intersect closed
        PROVE  \E u \in Threads : AtStage(u, "removing")' /\ session'[u] = id
    <3>1. PICK u \in Threads : AtStage(u, "removing") /\ session[u] = id
      BY <1>1, <2>1 DEF ClosesApart
    <3> QED
      BY <1>3, <1>12, <3>1
  <2> QED
    BY <1>1, <1>2, <1>3, <1>12, <2>1 DEF ClosesApart
<1>14. EndsTold'
  <2>1. \A u \in Threads \ {t} : Leaving(u) => session[u] # session[t]
    BY <1>1, <1>4 DEF ClosesApart
  <2>2. \A i \in 1 .. Len(said) : said[i].op = "closed" => said[i].session # session[t]
    BY <1>1, <1>4, <1>6 DEF EndsTold
  <2>3. ASSUME NEW i \in 1 .. Len(said) + 1, said'[i].op = "closed"
        PROVE  /\ said'[i].session \in closed /\ said'[i].session \notin list
               /\ \A u \in Threads : Leaving(u)' => session'[u] # said'[i].session
               /\ \A j \in 1 .. Len(said) + 1 :
                     said'[j].op = "closed" /\ said'[j].session = said'[i].session => i = j
    <3>1. CASE i = Len(said) + 1
      <4>1. \A j \in 1 .. Len(said) :
               ~(said'[j].op = "closed" /\ said'[j].session = said'[i].session)
        BY <1>6, <2>2, <3>1
      <4>2. \A j \in 1 .. Len(said) + 1 : j \in 1 .. Len(said) \/ j = i
        BY <1>6, <3>1
      <4> QED
        BY <1>3, <1>4, <1>6, <1>12, <2>1, <3>1, <4>1, <4>2
    <3>2. CASE i # Len(said) + 1
      <4>1. i \in 1 .. Len(said) /\ said'[i] = said[i]
        BY <1>6, <3>2
      <4>2. /\ said[i].session \in closed /\ said[i].session \notin list
            /\ \A u \in Threads : Leaving(u) => session[u] # said[i].session
            /\ \A j \in 1 .. Len(said) :
                  said[j].op = "closed" /\ said[j].session = said[i].session => i = j
        BY <1>1, <1>6, <2>3, <4>1 DEF EndsTold
      <4>3. said'[Len(said) + 1].session # said[i].session
        BY <1>6, <2>2, <2>3, <4>1
      <4>4. \A j \in 1 .. Len(said) + 1 : j \in 1 .. Len(said) \/ j = Len(said) + 1
        BY <1>6
      <4> QED
        BY <1>3, <1>6, <1>12, <4>1, <4>2, <4>3, <4>4
    <3> QED
      BY <3>1, <3>2
  <2> QED
    BY <1>2, <1>6, <2>3 DEF EndsTold
<1> QED
  BY <1>7, <1>8, <1>9, <1>10, <1>11, <1>13, <1>14 DEF ListInv

LEMMA FreeKeeps ==
    ASSUME ListInv, FreeRuntime
    PROVE  ListInv'
<1>1. /\ SessionTypes /\ CurrentIsListed /\ IdsBelowNext /\ AddedAlone
      /\ FoundIsKnown /\ ClosesApart /\ EndsTold
  BY DEF ListInv
<1>2. /\ closed' = closed \union list /\ list' = {} /\ current' = 0 /\ freed' = TRUE
      /\ UNCHANGED <<next, stage, asked, session, named, changes>>
      /\ \A t \in Threads : stage[t] = "idle"
  BY DEF FreeRuntime, AtStage
<1>3. PICK order \in [1 .. Cardinality(list) -> list] :
         /\ \A i, j \in DOMAIN order : i < j => order[i] < order[j]
         /\ said' = said \o [i \in DOMAIN order |-> [op |-> "closed", session |-> order[i]]]
  BY DEF FreeRuntime
<1>4. PICK n \in Nat : n = Cardinality(list)
  <2>1. IsFiniteSet(SessionIds)
    BY SessionBounds, FS_Interval DEF SessionIds
  <2>2. IsFiniteSet(list)
    BY <1>1, <2>1, FS_Subset DEF SessionTypes
  <2> QED
    BY <2>2, FS_CardinalityType
<1>5. PICK m \in Nat : m = Len(said) /\ DOMAIN said = 1 .. m
  BY <1>1 DEF SessionTypes
<1>6. PICK told : told = [i \in 1 .. n |-> [op |-> "closed", session |-> order[i]]]
  OBVIOUS
<1> DEFINE Lines == [op : {"opened", "closed", "disc"}, session : SessionIds \union {0}]
<1>7. told \in Seq(Lines) /\ Len(told) = n /\ said \in Seq(Lines) /\ said' = said \o told
  <2>1. \A i \in 1 .. n : [op |-> "closed", session |-> order[i]] \in Lines
    BY <1>1, <1>4 DEF SessionTypes
  <2>2. DOMAIN order = 1 .. n
    BY <1>4
  <2>3. told \in [1 .. n -> Lines]
    BY <1>6, <2>1
  <2>4. told \in Seq(Lines) /\ Len(told) = n
    <3> HIDE DEF Lines
    <3> QED
      BY <2>3
  <2> QED
    BY <1>1, <1>3, <1>6, <2>2, <2>4 DEF SessionTypes
<1>8. /\ said' \in Seq(Lines) /\ DOMAIN said' = 1 .. m + n
      /\ \A i \in 1 .. m : said'[i] = said[i]
      /\ \A i \in m + 1 .. m + n : i - m \in 1 .. n /\ said'[i] = told[i - m]
  <2> HIDE DEF Lines
  <2> QED
    BY <1>5, <1>7
<1>9. \A i \in 1 .. n : order[i] \in list /\ told[i].session = order[i]
  BY <1>4, <1>6
<1>10. \A i, j \in 1 .. n : order[i] = order[j] => i = j
  <2>1. \A i \in 1 .. n : order[i] \in Nat
    BY <1>1, <1>9, SessionBounds DEF SessionTypes
  <2>2. \A i, j \in 1 .. n : i < j => order[i] < order[j]
    BY <1>3, <1>4
  <2> QED
    BY <2>1, <2>2
<1>11. SessionTypes'
  BY <1>1, <1>2, <1>8 DEF SessionTypes
<1>12. CurrentIsListed' /\ IdsBelowNext'
  BY <1>1, <1>2 DEF CurrentIsListed, IdsBelowNext
<1>13. AddedAlone' /\ FoundIsKnown' /\ ClosesApart'
  BY <1>2 DEF AddedAlone, FoundIsKnown, ClosesApart, Leaving, AtStage, WithSession
<1>14. EndsTold'
  <2>1. \A i \in 1 .. m : said[i].op = "closed" =>
           /\ said[i].session \in closed /\ said[i].session \notin list
           /\ \A j \in 1 .. m :
                 said[j].op = "closed" /\ said[j].session = said[i].session => i = j
    BY <1>1, <1>5 DEF EndsTold
  <2>2. \A i \in m + 1 .. m + n : said'[i].session = order[i - m] /\ i - m \in 1 .. n
    BY <1>8, <1>9
  <2>3. ASSUME NEW i \in 1 .. m + n, said'[i].op = "closed"
        PROVE  said'[i].session \in closed'
    <3>1. CASE i \in 1 .. m
      BY <1>2, <1>8, <2>1, <2>3, <3>1
    <3>2. CASE i \in m + 1 .. m + n
      BY <1>2, <1>9, <2>2, <3>2
    <3> QED
      BY <1>4, <1>5, <3>1, <3>2
  <2>4. ASSUME NEW i \in 1 .. m + n, NEW j \in 1 .. m + n,
               said'[i].op = "closed", said'[j].op = "closed",
               said'[i].session = said'[j].session
        PROVE  i = j
    <3>1. CASE i \in 1 .. m /\ j \in 1 .. m
      BY <1>8, <2>1, <2>4, <3>1
    <3>2. CASE i \in m + 1 .. m + n /\ j \in m + 1 .. m + n
      <4>1. i - m = j - m
        BY <1>10, <2>2, <2>4, <3>2
      <4> QED
        BY <1>5, <3>2, <4>1
    <3>3. CASE i \in 1 .. m /\ j \in m + 1 .. m + n
      BY <1>8, <1>9, <2>1, <2>2, <2>4, <3>3
    <3>4. CASE j \in 1 .. m /\ i \in m + 1 .. m + n
      BY <1>8, <1>9, <2>1, <2>2, <2>4, <3>4
    <3> QED
      BY <1>4, <1>5, <3>1, <3>2, <3>3, <3>4
  <2>5. \A t \in Threads : ~Leaving(t)'
    BY <1>2 DEF Leaving
  <2> QED
    BY <1>2, <1>8, <2>3, <2>4, <2>5 DEF EndsTold
<1> QED
  BY <1>11, <1>12, <1>13, <1>14 DEF ListInv

LEMMA FindKeeps ==
    ASSUME ListInv, NEW t \in Threads, NEW id \in SessionIds \union {0},
           NEW then \in WithSession, Find(t, id, then)
    PROVE  ListInv'
<1>1. SessionTypes
  BY DEF ListInv
<1>2. /\ stage[t] = "idle" /\ stage'[t] = then /\ session'[t] = Get(id)
      /\ \A u \in Threads \ {t} : stage'[u] = stage[u] /\ session'[u] = session[u]
      /\ UNCHANGED <<listing, closed, said>>
  BY <1>1 DEF Find, SessionTypes, GotoStage, AtStage
<1>3. Get(id) \in list /\ Get(id) \in SessionIds
  BY <1>1, FoundIsListed DEF Find
<1>4. SessionTypes'
  BY <1>1, <1>3 DEF Find, SessionTypes, GotoStage, WithSession, listing
<1>5. ~Leaving(t)
  BY <1>2 DEF Leaving
<1>6. then \in {"idle", "closing", "changing", "changed", "naming"}
  BY DEF WithSession
<1> QED
  BY <1>2, <1>3, <1>4, <1>5, <1>6, ThreadMoves

LEMMA ChangeRefusedKeeps ==
    ASSUME ListInv, NEW t \in Threads, ChangeRefused(t)
    PROVE  ListInv'
<1>1. SessionTypes
  BY DEF ListInv
<1>2. /\ Return(t) /\ UNCHANGED <<listing, closed, said, changes, freed>>
      /\ stage[t] \in {"closing", "changing"}
  BY DEF ChangeRefused
<1>3. /\ stage'[t] = "idle" /\ session'[t] = 0
      /\ \A u \in Threads \ {t} : stage'[u] = stage[u] /\ session'[u] = session[u]
  BY <1>1, <1>2, ReturnTypes
<1>4. SessionTypes'
  BY <1>1, <1>2, ReturnTypes DEF SessionTypes, listing
<1>5. ~Leaving(t)
  BY <1>2 DEF Leaving
<1> QED
  BY <1>2, <1>3, <1>4, <1>5, ThreadMoves DEF WithSession

LEMMA ChangeDiscKeeps ==
    ASSUME ListInv, NEW t \in Threads, ChangeDisc(t) \/ NameSession(t)
    PROVE  ListInv'
<1>1. SessionTypes
  BY DEF ListInv
<1>2. /\ stage[t] \in {"changing", "changed"} /\ stage'[t] \in {"changed", "naming"}
      /\ \A u \in Threads \ {t} : stage'[u] = stage[u]
      /\ UNCHANGED <<listing, closed, said, asked, session, freed>>
  BY <1>1 DEF ChangeDisc, NameSession, SessionTypes, GotoStage, AtStage
<1>3. SessionTypes'
  <2>1. CASE ChangeDisc(t)
    BY <1>1, <2>1, SessionBounds DEF ChangeDisc, SessionTypes, GotoStage, listing
  <2>2. CASE NameSession(t)
    <3>1. Get(asked[t]) # 0 => Get(asked[t]) \in SessionIds
      BY <1>1, FoundIsListed
    <3>2. IF Get(asked[t]) # 0 THEN Get(asked[t]) \in SessionIds
                               ELSE asked[t] \in SessionIds \union {0}
      BY <1>1, <3>1 DEF SessionTypes
    <3> HIDE DEF Get
    <3> QED
      BY <1>1, <2>2, <3>2 DEF NameSession, SessionTypes, GotoStage, listing
  <2> QED
    BY <2>1, <2>2
<1>4. ~Leaving(t) /\ ~AtStage(t, "adding")
  BY <1>2 DEF Leaving, AtStage
<1> QED
  BY <1>2, <1>3, <1>4, ThreadMoves DEF WithSession

\* An open, or a change of disc, told of.
LEMMA SayKeeps ==
    ASSUME ListInv, NEW t \in Threads, SayOpened(t) \/ SayDisc(t)
    PROVE  ListInv'
<1>1. SessionTypes
  BY DEF ListInv
<1>2. PICK op \in {"opened", "disc"}, id \in SessionIds \union {0} : Say(op, id)
  BY <1>1 DEF SayOpened, SayDisc, SessionTypes
<1>3. /\ Return(t) /\ UNCHANGED <<listing, closed, changes, freed>>
      /\ stage[t] \in {"opened", "naming"}
  BY DEF SayOpened, SayDisc, AtStage
<1>4. /\ stage'[t] = "idle" /\ session'[t] = 0
      /\ \A u \in Threads \ {t} : stage'[u] = stage[u] /\ session'[u] = session[u]
  BY <1>1, <1>3, ReturnTypes
<1>5. /\ said' \in Seq([op : {"opened", "closed", "disc"}, session : SessionIds \union {0}])
      /\ \A i \in DOMAIN said' : said'[i].op = "closed" =>
            i \in DOMAIN said /\ said'[i] = said[i]
  <2>1. op \in {"opened", "closed", "disc"} /\ op # "closed"
    OBVIOUS
  <2> QED
    BY <1>1, <1>2, <2>1, SaidMore, Zenon
<1>6. SessionTypes'
  BY <1>1, <1>3, <1>5, ReturnTypes DEF SessionTypes, listing
<1>7. ~Leaving(t)
  BY <1>3 DEF Leaving
<1> QED
  BY <1>3, <1>4, <1>5, <1>6, <1>7, ThreadMoves DEF WithSession

LEMMA SessionsNextKeeps == ASSUME ListInv, SessionsNext PROVE ListInv'
<1>1. CASE FreeRuntime
  BY <1>1, FreeKeeps
<1>2. ASSUME NEW t \in Threads, SessionStep(t) PROVE ListInv'
  <2>1. CASE \E id \in SessionIds \union {0} :
                Find(t, id, "closing") \/ Find(t, id, "changing")
    BY <2>1, FindKeeps DEF WithSession
  <2> QED
    BY <1>2, <2>1, NextIdKeeps, AddKeeps, SayKeeps, ChangeRefusedKeeps,
       CloseUnderGateKeeps, TakeOutKeeps, SayClosedKeeps, ChangeDiscKeeps
       DEF SessionStep
<1> QED
  BY <1>1, <1>2 DEF SessionsNext

LEMMA SessionsRest == ASSUME ListInv, UNCHANGED sessions_vars PROVE ListInv'
<1>1. UNCHANGED <<list, next, current, closed, said, stage, asked, session, named,
                  changes, freed>>
  BY DEF sessions_vars
<1>2. SessionTypes' /\ CurrentIsListed' /\ IdsBelowNext' /\ AddedAlone'
  BY <1>1, Zenon DEF ListInv, SessionTypes, CurrentIsListed, IsOpen, IdsBelowNext,
                     AddedAlone, AtStage
<1>3. FoundIsKnown' /\ ClosesApart' /\ EndsTold'
  BY <1>1, Zenon DEF ListInv, FoundIsKnown, ClosesApart, Leaving, AtStage, EndsTold
<1> QED
  BY <1>2, <1>3 DEF ListInv

(* The invariant of the sessions holds in every reachable state.           *)
THEOREM AlwaysListInv == SessionsSpec => []ListInv
<1>1. ListInv /\ [SessionsNext]_sessions_vars => ListInv'
  BY SessionsNextKeeps, SessionsRest
<1> QED
  BY <1>1, InitListInv, PTL DEF SessionsSpec

(* The list, its current session and the closes on their way agree, for    *)
(* any threads and any number of sessions: session 0 names one listed      *)
(* whenever there is one, and of two closes of a session one is refused.   *)
THEOREM ListAgrees == SessionsSpec => []ListHoldsTogether
<1>1. ListInv => ListHoldsTogether
  <2> SUFFICES ASSUME ListInv PROVE ListHoldsTogether
    OBVIOUS
  <2>1. SessionTypes /\ CurrentIsListed /\ ClosesApart
    BY DEF ListInv
  <2>2. ASSUME NEW id \in SessionIds, IsOpen(id), id \in closed
        PROVE  Cardinality({t \in Threads : AtStage(t, "removing") /\ session[t] = id}) = 1
    <3>1. PICK t \in Threads : AtStage(t, "removing") /\ session[t] = id
      BY <2>1, <2>2 DEF ClosesApart, IsOpen
    <3>2. \A u \in Threads : AtStage(u, "removing") => Leaving(u)
      BY DEF AtStage, Leaving
    <3>3. \A u \in Threads : AtStage(u, "removing") /\ session[u] = id => u = t
      BY <2>1, <3>1, <3>2 DEF ClosesApart
    <3>4. {u \in Threads : AtStage(u, "removing") /\ session[u] = id} = {t}
      BY <3>1, <3>3
    <3> QED
      BY <3>4, FS_Singleton
  <2>3. ASSUME NEW id \in SessionIds, id \notin closed, NEW t \in Threads,
               AtStage(t, "removing"), session[t] = id
        PROVE  FALSE
    <3>1. Leaving(t)
      BY <2>3 DEF AtStage, Leaving
    <3> QED
      BY <2>1, <2>3, <3>1 DEF ClosesApart
  <2> QED
    BY <2>1, <2>2, <2>3 DEF ListHoldsTogether, ClosedIsLeaving
<1> QED
  BY <1>1, AlwaysListInv, PTL

(* A session's end is told of at most once, and only when it is closed and *)
(* off the list, for any threads and any number of sessions.               *)
THEOREM EndIsToldOnce == SessionsSpec => []EndToldOnce
<1>1. ListInv => EndToldOnce
  <2> SUFFICES ASSUME ListInv, NEW id \in SessionIds
               PROVE  LET ends == {i \in DOMAIN said :
                                      said[i] = [op |-> "closed", session |-> id]}
                      IN  /\ Cardinality(ends) <= 1
                          /\ ends # {} => id \in closed /\ ~IsOpen(id)
    BY DEF EndToldOnce
  <2> DEFINE ends == {i \in DOMAIN said : said[i] = [op |-> "closed", session |-> id]}
  <2>1. \A i \in ends : i \in DOMAIN said /\ said[i].op = "closed" /\ said[i].session = id
    OBVIOUS
  <2>2. EndsTold
    BY DEF ListInv
  <2>3. \A i, j \in ends : i = j
    BY <2>1, <2>2 DEF EndsTold
  <2>4. ends # {} => id \in closed /\ ~IsOpen(id)
    BY <2>1, <2>2 DEF EndsTold, IsOpen
  <2>5. Cardinality(ends) <= 1
    <3> HIDE DEF ends
    <3>1. CASE ends = {}
      BY <3>1, FS_EmptySet
    <3>2. CASE ends # {}
      <4>1. PICK i : ends = {i}
        BY <2>3, <3>2
      <4> QED
        BY <4>1, FS_Singleton
    <3> QED
      BY <3>1, <3>2
  <2> QED
    BY <2>4, <2>5
<1> QED
  BY <1>1, AlwaysListInv, PTL
=============================================================================
