-------------------------------- MODULE MCHost --------------------------------
(***************************************************************************)
(* The components of the host that share no state with one another, side   *)
(* by side: a session's run control, the battery file, the input latch,    *)
(* the lock on a save's medium, the runtime's list of sessions and its     *)
(* events.  One of them runs, chosen at first, so that what is explored is *)
(* the sum of their states and not the product.                            *)
(***************************************************************************)
EXTENDS RunControl, BatteryFile, InputLatch, MediumLock, Sessions, Events, TLC

VARIABLE part  \* the component that runs

HostInit ==
    /\ part \in {"run", "battery", "latch", "lock", "sessions", "events"}
    /\ RunInit /\ BatteryInit /\ LatchInit /\ LockInit /\ SessionsInit /\ EventsInit
    /\ part # "battery" => earlier = 0
    /\ part # "run" => debug = (TRUE \in Debugs)

HostNext ==
    \/ /\ part = "run" /\ RunNext
       /\ UNCHANGED <<part, battery_vars, latch_vars, lock_vars, sessions_vars, events_vars>>
    \/ /\ part = "battery" /\ BatteryNext
       /\ UNCHANGED <<part, run_vars, latch_vars, lock_vars, sessions_vars, events_vars>>
    \/ /\ part = "latch" /\ LatchNext
       /\ UNCHANGED <<part, run_vars, battery_vars, lock_vars, sessions_vars, events_vars>>
    \/ /\ part = "lock" /\ LockNext
       /\ UNCHANGED <<part, run_vars, battery_vars, latch_vars, sessions_vars, events_vars>>
    \/ /\ part = "sessions" /\ SessionsNext
       /\ UNCHANGED <<part, run_vars, battery_vars, latch_vars, lock_vars, events_vars>>
    \/ /\ part = "events" /\ EventsNext
       /\ UNCHANGED <<part, run_vars, battery_vars, latch_vars, lock_vars, sessions_vars>>

host_vars == <<part, run_vars, battery_vars, latch_vars, lock_vars, sessions_vars, events_vars>>

HostSpec == HostInit /\ [][HostNext]_host_vars

TwoTopics == {[session |-> 1, kind |-> "run"], [session |-> 2, kind |-> "state"]}

\* Everything; one kind of one session's.
TwoFilters == {[session |-> 0, kinds |-> {}], [session |-> 2, kinds |-> {"state"}]}

\* No definition names a program, a thread or a subscription; the threads that
\* raise events are those that open and close sessions.
HostSymmetry ==
    Permutations(Programs) \union Permutations(Threads) \union Permutations(Subs)
===============================================================================
