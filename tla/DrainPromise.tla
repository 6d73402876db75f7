---------------------------- MODULE DrainPromise ----------------------------
(***************************************************************************)
(* What the threaded display list promises the machine's thread, without   *)
(* its barriers, flags and parks: words are published in order and each    *)
(* worker runs every one of them in order; no word is published over one   *)
(* that some worker has not run; and while the list is held all workers    *)
(* are at one word, none of them runs, and the words not run yet fit a     *)
(* snapshot.                                                               *)
(***************************************************************************)
EXTENDS Integers

CONSTANTS Workers, Ring, SnapshotWords, Far

VARIABLES
    issued,     \* the words published
    run,        \* the words each worker has run; Far for one that fell
    held        \* the word the list is held at, -1 while it is not

promise == <<issued, run, held>>

Init ==
    /\ issued = 0
    /\ run = [w \in Workers |-> 0]
    /\ held = -1

Publish ==
    /\ held = -1
    /\ \A w \in Workers : issued - run[w] < Ring
    /\ issued' = issued + 1
    /\ UNCHANGED <<run, held>>

Run(w) ==
    /\ held = -1
    /\ run[w] < issued
    /\ run' = [run EXCEPT ![w] = @ + 1]
    /\ UNCHANGED <<issued, held>>

Fall(w) ==
    /\ run' = [run EXCEPT ![w] = Far]
    /\ UNCHANGED <<issued, held>>

Hold ==
    /\ held = -1
    /\ \E at \in issued - SnapshotWords .. issued :
           /\ \A w \in Workers : run[w] = at
           /\ held' = at
    /\ UNCHANGED <<issued, run>>

LetGo ==
    /\ held # -1
    /\ held' = -1
    /\ UNCHANGED <<issued, run>>

Next ==
    \/ Publish \/ Hold \/ LetGo
    \/ \E w \in Workers : Run(w) \/ Fall(w)

Spec == Init /\ [][Next]_promise
=============================================================================
