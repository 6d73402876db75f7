---------------------------- MODULE RewindHistory ----------------------------
(***************************************************************************)
(* What the rewind history of a session promises, with every snapshot kept *)
(* whole and no thread, budget or mailbox in sight: a state is held for    *)
(* some of the frames gone by, and the machine can be put back in any.     *)
(***************************************************************************)
EXTENDS Naturals, Functions

CONSTANT States   \* the states the machine can be in

VARIABLES
    present,   \* the machine's state
    held       \* the state held for each frame that has one

vars == <<present, held>>

\* h without its oldest frames, however many.
Trimmed(h) ==
    {Restrict(h, {f \in DOMAIN h : f >= oldest}) :
        oldest \in DOMAIN h \union {0}} \union {<<>>}

With(h, f, s) == [g \in DOMAIN h \union {f} |-> IF g = f THEN s ELSE h[g]]

Init ==
    /\ present \in States
    /\ held = <<>>

Newer(f) == \A g \in DOMAIN held : f > g

\* The machine moves on, or another state is loaded into it.
Move ==
    /\ present' \in States
    /\ held' \in Trimmed(held)

\* It moves on, and where it came to is held for a frame after all others.
MoveAndHold ==
    /\ present' \in States
    /\ \E f \in DOMAIN held' :
        /\ Newer(f)
        /\ \E h \in Trimmed(held) : held' = With(h, f, present')

\* Where it is gets held for such a frame; then a state may be loaded.
HoldAndMove ==
    /\ present' \in States
    /\ \E f \in DOMAIN held' :
        /\ Newer(f)
        /\ \E h \in Trimmed(held) : held' = With(h, f, present)

\* Back to the state held for f, all later ones forgotten; the machine may
\* refuse the state and stay as it is.
GoBack(f) ==
    /\ f \in DOMAIN held
    /\ present' \in {held[f], present}
    /\ held' \in Trimmed(Restrict(held, {g \in DOMAIN held : g <= f}))

Next ==
    \/ Move
    \/ MoveAndHold
    \/ HoldAndMove
    \/ \E f \in DOMAIN held : GoBack(f)

Spec == Init /\ [][Next]_vars
=============================================================================
