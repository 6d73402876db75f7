----------------------------- MODULE RunControl -----------------------------
(***************************************************************************)
(* Run control of one session: the flags its frame thread and run control  *)
(* share (Platform/crystal/src/session.rs, Run), the halt the engine keeps *)
(* (engine.rs, halted) and the steps, run-tos and breakpoints armed in the *)
(* debugger of its one processor (crystal-debug).                          *)
(*                                                                         *)
(* Every action is a call made under the session's gate, so calls take     *)
(* turns (module SessionGate).  A frame is Length instructions, named by   *)
(* their place in it; 0 is the boundary between frames.  Steps over and    *)
(* out, runs to an interrupt or a scanline and the other kinds of break    *)
(* end a frame as a step or a breakpoint does and are left out, with the   *)
(* errors of a core whose frame fails.                                     *)
(***************************************************************************)
EXTENDS Integers, FiniteSets, FiniteSetsExt

CONSTANTS
    Length,     \* instructions in a frame
    MaxFrames,  \* frames the machine completes at most
    MaxSteps,   \* the longest step asked for
    Debugs      \* may the core claim DEBUG, or not: a set of Booleans

ASSUME FramesAssumption ==
    /\ Length \in Nat \ {0} /\ MaxFrames \in Nat /\ MaxSteps \in Nat \ {0}
    /\ Debugs \subseteq BOOLEAN /\ Debugs # {}

VARIABLES
    paused, halted, requested,  \* Run's flags
    hold,      \* the frame the session holds at, -1 for none
    stopped,   \* the engine has a halt to resume from
    place,     \* the machine's next instruction
    total,     \* frames it has completed
    breaks,    \* the places with a breakpoint
    steps,     \* instructions left of a step, 0 for none armed
    until,     \* the frame the registry runs to, -1 for none
    pending,   \* the registry's break for a frame reached
    debug,     \* the core claims DEBUG
    advancing  \* the frames completed when a frame advance was asked, -1
               \* once another call has let the machine go or moved it

run == <<paused, halted, requested, hold>>
core == <<stopped, place, total>>
registry == <<breaks, steps, until, pending>>
run_vars == <<run, core, registry, debug, advancing>>

Places == 0 .. Length - 1

RunInit ==
    /\ paused = FALSE /\ halted = FALSE /\ requested = FALSE
    /\ hold = -1
    /\ stopped = FALSE
    /\ place = 0
    /\ total = 0
    /\ breaks = {}
    /\ steps = 0
    /\ until = -1
    /\ pending = FALSE
    /\ debug \in Debugs
    /\ advancing = -1

-----------------------------------------------------------------------------
(* A frame of the machine.                                                 *)

\* armed(): whether the frame runs through the debugger.
Armed == debug /\ (breaks # {} \/ steps > 0 \/ until >= 0 \/ pending)

\* A faulty Checked: a frame resumed checks the instruction it halted at.
CheckedAgain == IF stopped \/ Armed THEN place .. Length - 1 ELSE {}

\* The instructions a frame would check: all that are left, but for the one
\* it halted at; none in a frame run plain.
Checked ==
    IF stopped THEN place + 1 .. Length - 1
    ELSE IF Armed THEN place .. Length - 1
    ELSE {}

\* should_break() at a place: the step's last instruction, a break pending
\* at the first, a breakpoint.
Breaks(k) ==
    LET nth == Cardinality({j \in Checked : j <= k})
    IN  \/ steps > 0 /\ nth = steps
        \/ pending /\ nth = 1
        \/ k \in breaks

Stops == {k \in Checked : Breaks(k)}

\* What is left of a step, and of a pending break, once n were checked.  A
\* step that ends at the first instruction leaves the break pending.
Count(n) ==
    /\ steps' = IF steps > n THEN steps - n ELSE 0
    /\ pending' = (pending /\ (n = 0 \/ steps = 1))

\* advance() up to a halt: the frame left open.
Halt ==
    /\ Stops # {}
    /\ place' = Min(Stops)
    /\ Count(Cardinality({j \in Checked : j <= Min(Stops)}))
    /\ stopped' = TRUE
    /\ halted' = TRUE
    /\ UNCHANGED <<paused, hold, total, breaks, until>>

\* note_frame(): a frame the registry runs to is reached.
Noted == until >= 0 /\ total + 1 >= until

\* A faulty HoldReached: one frame late.
HoldReachedLate == hold >= 0 /\ total + 1 > hold
HoldReached == hold >= 0 /\ total + 1 >= hold

\* advance() to the frame's end, and the frame-end order.
Complete ==
    /\ Stops = {}
    /\ place' = 0
    /\ total' = total + 1
    /\ steps' = IF steps > Cardinality(Checked) THEN steps - Cardinality(Checked) ELSE 0
    /\ pending' = ((pending /\ Checked = {}) \/ Noted)
    /\ until' = IF Noted THEN -1 ELSE until
    /\ stopped' = FALSE
    /\ halted' = FALSE
    /\ hold' = IF HoldReached THEN -1 ELSE hold
    /\ paused' = (paused \/ HoldReached)
    /\ UNCHANGED breaks

Held == (paused \/ halted) /\ ~requested

\* frame(): nothing while held.
Frame ==
    /\ ~Held
    /\ total < MaxFrames
    /\ requested' = FALSE
    /\ Halt \/ Complete
    /\ UNCHANGED <<debug, advancing>>

-----------------------------------------------------------------------------
(* run_control(op).                                                        *)

LetGo == advancing' = -1

Pause ==
    /\ paused' = TRUE
    /\ UNCHANGED <<halted, requested, hold, core, registry, debug, advancing>>

Resume ==
    /\ paused' = FALSE
    /\ halted' = FALSE
    /\ LetGo
    /\ UNCHANGED <<requested, hold, core, registry, debug>>

Step(n) ==
    /\ steps' = n
    /\ requested' = TRUE
    /\ LetGo
    /\ UNCHANGED <<paused, halted, hold, core, breaks, until, pending, debug>>

RunToAddress(k) ==
    /\ breaks' = breaks \union {k}
    /\ paused' = FALSE
    /\ requested' = TRUE
    /\ LetGo
    /\ UNCHANGED <<halted, hold, core, steps, until, pending, debug>>

\* The registry's run to a frame; where nothing can halt, a hold as well.
HoldsAt(n) == IF debug THEN hold ELSE n

RunToFrame(n) ==
    /\ until' = n
    /\ hold' = HoldsAt(n)
    /\ paused' = FALSE
    /\ requested' = TRUE
    /\ LetGo
    /\ UNCHANGED <<halted, core, breaks, steps, pending, debug>>

\* A breakpoint removed.
RemoveBreak(k) ==
    /\ k \in breaks
    /\ breaks' = breaks \ {k}
    /\ UNCHANGED <<run, core, steps, until, pending, debug, advancing>>

\* A faulty FrameAdvance: the frame is asked for and the pause left out.
FrameAdvanceUnpaused ==
    /\ requested' = TRUE
    /\ advancing' = total
    /\ UNCHANGED <<paused, halted, hold, core, registry, debug>>

FrameAdvance ==
    /\ paused' = TRUE
    /\ requested' = TRUE
    /\ advancing' = total
    /\ UNCHANGED <<halted, hold, core, registry, debug>>

-----------------------------------------------------------------------------
(* The changes that move the machine.  A state is loaded at a boundary.    *)

MoveTo(n) ==
    /\ place' = 0
    /\ total' = n
    /\ LetGo

\* reset(): the engine's halt is left as it was, and the frames counted may
\* start again.
ResetMachine ==
    /\ MoveTo(0) \/ MoveTo(total)
    /\ halted' = FALSE
    /\ UNCHANGED <<paused, requested, hold, stopped, registry, debug>>

\* load_state(), and rewind_to() a moment.
Load(n) ==
    /\ MoveTo(n)
    /\ stopped' = FALSE
    /\ halted' = FALSE
    /\ UNCHANGED <<paused, requested, hold, registry, debug>>

\* rewind_step(): the session's own flag is left as it was.
RewindStep(n) ==
    /\ n <= total
    /\ MoveTo(n)
    /\ stopped' = FALSE
    /\ UNCHANGED <<run, registry, debug>>

RunNext ==
    \/ Frame
    \/ Pause \/ Resume \/ FrameAdvance \/ ResetMachine
    \/ \E n \in 1 .. MaxSteps : Step(n)
    \/ \E k \in Places : RunToAddress(k) \/ RemoveBreak(k)
    \/ \E n \in 0 .. MaxFrames : RunToFrame(n) \/ Load(n) \/ RewindStep(n)

RunSpec == RunInit /\ [][RunNext]_run_vars

-----------------------------------------------------------------------------
(* Every variable keeps its type.                                          *)
TypeOK ==
    /\ paused \in BOOLEAN /\ halted \in BOOLEAN /\ requested \in BOOLEAN
    /\ hold \in -1 .. MaxFrames
    /\ stopped \in BOOLEAN
    /\ place \in Places
    /\ total \in 0 .. MaxFrames
    /\ breaks \subseteq Places
    /\ steps \in 0 .. MaxSteps
    /\ until \in -1 .. MaxFrames
    /\ pending \in BOOLEAN
    /\ debug \in Debugs
    /\ advancing \in -1 .. MaxFrames

(* One frame advance is one frame: until another call lets the machine go, *)
(* at most one frame completes and the session is held after it, however   *)
(* many frame calls and pauses follow, whether it was halted or running    *)
(* when it was asked and whatever breakpoints the frame meets.             *)
FrameAdvanceHolds ==
    advancing >= 0 =>
        /\ paused
        /\ total <= advancing + 1
        /\ total = advancing + 1 => ~requested

(* A frame resumed from a halt always moves the machine on: a breakpoint   *)
(* under the halt, or a step armed at it, never halts the machine where it *)
(* stands (advance_frame's "resuming").                                    *)
ResumingMovesOn ==
    [][stopped /\ Frame => place' > place \/ total' > total]_run_vars

(* A session run to a frame it has not passed never runs beyond it, on an  *)
(* engine that cannot halt: it is paused as that frame ends, whatever was  *)
(* loaded or rewound on the way (hold_at_frame).                           *)
RunToFrameStops ==
    [][Frame /\ ~debug /\ hold >= 0 /\ total < hold =>
          total' <= hold /\ (total' = hold => paused' /\ hold' = -1)]_run_vars

-----------------------------------------------------------------------------
(* emusen_crystal.h says that the frame's "halted" is "a breakpoint or a   *)
(* step stopped the session inside a frame": there is then a halt to       *)
(* resume from.                                                            *)
HaltedIsInsideAFrame == halted => stopped
=============================================================================
