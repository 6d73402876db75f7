----------------------------- MODULE GatePromise -----------------------------
(***************************************************************************)
(* What a session's gate promises its callers (EmuSen_Backend.md 14.3 and  *)
(* 29.4), with none of the means: no mutex, count, mark or slot.           *)
(*                                                                         *)
(* A thread asks, is let in alone, and works or is turned away; it is      *)
(* turned away exactly when the session was shut before its turn.  One     *)
(* thread at a time asks for a frame.  A frame is let in ahead of a thread *)
(* that asked before it at most once in that thread's wait.                *)
(***************************************************************************)
EXTENDS Naturals

CONSTANTS Threads, NoThread

VARIABLES
    inside,   \* the thread let in, its work not done yet
    framing,  \* the thread whose turn is for a frame
    shut,     \* the session is closed
    passed,   \* for each thread that waits: the frames let in ahead of it
    told      \* what each thread was told at its last turn

vars == <<inside, framing, shut, passed, told>>

Waiting == DOMAIN passed

Init ==
    /\ inside = NoThread
    /\ framing = NoThread
    /\ shut = FALSE
    /\ passed = [t \in {} |-> 0]
    /\ told = [t \in Threads |-> "nothing"]

Forget(t) ==
    /\ t \notin Waiting \union {inside}
    /\ told' = [told EXCEPT ![t] = "nothing"]
    /\ UNCHANGED <<inside, framing, shut, passed>>

BeginFrame(t) ==
    /\ framing = NoThread
    /\ framing' = t
    /\ UNCHANGED <<inside, shut, passed, told>>

EndFrame(t) ==
    /\ framing = t
    /\ t \notin Waiting \union {inside}
    /\ framing' = NoThread
    /\ UNCHANGED <<inside, shut, passed, told>>

Ask(t) ==
    /\ t \notin Waiting \union {inside}
    /\ passed' = [u \in Waiting \union {t} |-> IF u = t THEN 0 ELSE passed[u]]
    /\ UNCHANGED <<inside, framing, shut, told>>

LetIn(t) ==
    /\ inside = NoThread
    /\ t \in Waiting
    /\ inside' = t
    /\ \/ /\ framing # t
          /\ passed' = [u \in Waiting \ {t} |-> passed[u]]
       \/ /\ framing = t
          /\ \A u \in Waiting \ {t} : passed[u] = 0
          /\ passed' = [u \in Waiting \ {t} |-> 1]
    /\ UNCHANGED <<framing, shut, told>>

Work(t) ==
    /\ inside = t
    /\ ~shut
    /\ shut' \in BOOLEAN
    /\ told' = [told EXCEPT ![t] = "done"]
    /\ inside' = NoThread
    /\ UNCHANGED <<framing, passed>>

TurnAway(t) ==
    /\ inside = t
    /\ shut
    /\ told' = [told EXCEPT ![t] = "refused"]
    /\ inside' = NoThread
    /\ UNCHANGED <<framing, shut, passed>>

Next ==
    \E t \in Threads :
        \/ Forget(t) \/ BeginFrame(t) \/ EndFrame(t)
        \/ Ask(t) \/ LetIn(t) \/ Work(t) \/ TurnAway(t)

Spec == Init /\ [][Next]_vars
=============================================================================
