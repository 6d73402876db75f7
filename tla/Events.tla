------------------------------- MODULE Events -------------------------------
(***************************************************************************)
(* The runtime's events (Platform/crystal/src/events.rs): threads raise    *)
(* them, each subscription has a bounded queue of those it wants, and its  *)
(* client waits on the queue and drains it.                                *)
(*                                                                         *)
(* The list of subscriptions has a lock and so has each queue.  A raise    *)
(* looks whether anybody wants the event under one hold of the list's lock *)
(* and hands it out under another, adding to one queue after the other.    *)
(* What a client does to its own queue is one step, its lock being held    *)
(* from end to end.                                                        *)
(*                                                                         *)
(* A subscription is used by one client thread, as the C# client uses it.  *)
(***************************************************************************)
EXTENDS Naturals, Sequences, FiniteSets, SequencesExt

CONSTANTS
    Raisers,    \* the threads that raise events
    Subs,       \* the subscriptions there may be; an ended one is not reused
    Topics,     \* the events' sessions and kinds: records [session, kind]
    Filters,    \* what a client may subscribe to: records [session, kinds]
    Unheld,     \* the list's lock is free
    Capacity,   \* events a queue holds
    MaxEvents   \* where a run stops raising

ASSUME FiltersAssumption ==
    /\ Topics # {} /\ \A t \in Topics : t.session \in Nat \ {0}
    /\ Filters # {} /\ \A f \in Filters : f.session \in Nat

ASSUME CapacityAssumption == Capacity \in Nat \ {0} /\ MaxEvents \in Nat

ASSUME ThreadsAssumption == Unheld \notin Raisers

VARIABLES
    listed,      \* the subscriptions listed, in the order they came
    lock,      \* the raiser inside the list's lock
    raiser,    \* where each raiser stands, its topic, its event, who is left
    queue,     \* each subscription's waiting events
    dropped,   \* how many its queue let go since the last drain
    filter,    \* what it wants
    alive,      \* its handle is good
    client,    \* where its client thread stands
    count,     \* events made so far
    added,     \* every event put in its queue (history)
    taken,     \* every event its client drained (history)
    told,      \* how many drops its client was told of (history)
    sized,     \* how many had been added when its client asked the length
    due        \* who wanted a raiser's event when it was made (history)

queues == <<queue, dropped, filter, alive>>
history == <<added, taken, told, sized>>
events_vars == <<listed, lock, raiser, queue, dropped, filter, alive, client, count,
          added, taken, told, sized, due>>

Quiet == [at |-> "idle", topic |-> CHOOSE t \in Topics : TRUE, event |-> 0, left |-> <<>>]

EventsInit ==
    /\ listed = <<>>
    /\ lock = Unheld
    /\ raiser = [r \in Raisers |-> Quiet]
    /\ queue = [s \in Subs |-> <<>>]
    /\ dropped = [s \in Subs |-> 0]
    /\ filter = [s \in Subs |-> CHOOSE f \in Filters : TRUE]
    /\ alive = [s \in Subs |-> FALSE]
    /\ client = [s \in Subs |-> "none"]
    /\ count = 0
    /\ added = [s \in Subs |-> <<>>]
    /\ taken = [s \in Subs |-> <<>>]
    /\ told = [s \in Subs |-> 0]
    /\ sized = [s \in Subs |-> 0]
    /\ due = [r \in Raisers |-> {}]

-----------------------------------------------------------------------------
\* Session 0 is every session's events and no kinds is every kind.
Wants(s, t) ==
    /\ filter[s].session \in {0, t.session}
    /\ filter[s].kinds = {} \/ t.kind \in filter[s].kinds

Wanting(t) == {s \in ToSet(listed) : Wants(s, t)}

IsListed(s) == s \in ToSet(listed)

-----------------------------------------------------------------------------
(* Raisers.                                                                *)

\* The event is made if it is wanted now; who gets it is settled later.
Raise(r, t) ==
    /\ raiser[r].at = "idle"
    /\ lock = Unheld
    /\ Wanting(t) # {}
    /\ count < MaxEvents
    /\ count' = count + 1
    /\ raiser' = [raiser EXCEPT ![r] = [@ EXCEPT !.at = "made", !.topic = t, !.event = count']]
    /\ due' = [due EXCEPT ![r] = Wanting(t)]
    /\ UNCHANGED <<listed, lock, queues, client, history>>

\* A faulty HandOut: the list is walked without its lock.
HandOutUnlocked(r) ==
    /\ raiser[r].at = "made"
    /\ raiser' = [raiser EXCEPT ![r].at = "adding", ![r].left = listed]
    /\ UNCHANGED <<listed, lock, queues, client, count, history, due>>

HandOut(r) ==
    /\ raiser[r].at = "made"
    /\ lock = Unheld
    /\ lock' = r
    /\ raiser' = [raiser EXCEPT ![r].at = "adding", ![r].left = listed]
    /\ UNCHANGED <<listed, queues, client, count, history, due>>

Full(s) == Len(queue[s]) = Capacity

\* A faulty Add: a full queue drops its newest event to make room.
AddOverTheNewest(s, e) ==
    /\ queue' = [queue EXCEPT ![s] = IF Full(s) THEN Append(Front(@), e) ELSE Append(@, e)]
    /\ dropped' = [dropped EXCEPT ![s] = IF Full(s) THEN @ + 1 ELSE @]
    /\ added' = [added EXCEPT ![s] = Append(@, e)]
    /\ client' = [client EXCEPT ![s] = IF @ = "parked" THEN "roused" ELSE @]

\* A faulty Add: a full queue takes no more.
AddUnlessFull(s, e) ==
    IF Full(s)
    THEN /\ dropped' = [dropped EXCEPT ![s] = @ + 1]
         /\ UNCHANGED <<queue, added, client>>
    ELSE /\ queue' = [queue EXCEPT ![s] = Append(@, e)]
         /\ added' = [added EXCEPT ![s] = Append(@, e)]
         /\ client' = [client EXCEPT ![s] = IF @ = "parked" THEN "roused" ELSE @]
         /\ UNCHANGED dropped

\* A faulty Add: the client is not notified.
AddUnheard(s, e) ==
    /\ queue' = [queue EXCEPT ![s] = IF Full(s) THEN Append(Tail(@), e) ELSE Append(@, e)]
    /\ dropped' = [dropped EXCEPT ![s] = IF Full(s) THEN @ + 1 ELSE @]
    /\ added' = [added EXCEPT ![s] = Append(@, e)]
    /\ UNCHANGED client

\* Into a full queue at the cost of its oldest; the client is notified.
AddTo(s, e) ==
    /\ queue' = [queue EXCEPT ![s] = IF Full(s) THEN Append(Tail(@), e) ELSE Append(@, e)]
    /\ dropped' = [dropped EXCEPT ![s] = IF Full(s) THEN @ + 1 ELSE @]
    /\ added' = [added EXCEPT ![s] = Append(@, e)]
    /\ client' = [client EXCEPT ![s] = IF @ = "parked" THEN "roused" ELSE @]

\* The next subscription listed gets the event if it wants it.
AddNext(r) ==
    LET s == Head(raiser[r].left)
    IN  /\ raiser[r].at = "adding"
        /\ raiser[r].left # <<>>
        /\ raiser' = [raiser EXCEPT ![r].left = Tail(@)]
        /\ \/ Wants(s, raiser[r].topic) /\ AddTo(s, raiser[r].event)
           \/ ~Wants(s, raiser[r].topic) /\ UNCHANGED <<queue, dropped, added, client>>
        /\ UNCHANGED <<listed, lock, filter, alive, count, taken, told, sized, due>>

Raised(r) ==
    /\ raiser[r].at = "adding"
    /\ raiser[r].left = <<>>
    /\ lock' = Unheld
    /\ raiser' = [raiser EXCEPT ![r] = Quiet]
    /\ due' = [due EXCEPT ![r] = {}]
    /\ UNCHANGED <<listed, queues, client, count, history>>

-----------------------------------------------------------------------------
(* Clients.                                                                *)

Subscribe(s, f) ==
    /\ client[s] = "none"
    /\ lock = Unheld
    /\ filter' = [filter EXCEPT ![s] = f]
    /\ alive' = [alive EXCEPT ![s] = TRUE]
    /\ listed' = Append(listed, s)
    /\ client' = [client EXCEPT ![s] = "idle"]
    /\ UNCHANGED <<lock, raiser, queue, dropped, count, history, due>>

Waiting(s) == queue[s] # <<>> \/ dropped[s] > 0

Wait(s) ==
    /\ client[s] = "idle"
    /\ alive[s]
    /\ ~Waiting(s)
    /\ client' = [client EXCEPT ![s] = "parked"]
    /\ UNCHANGED <<listed, lock, raiser, queues, count, history, due>>

\* The timeout, or a wake of the condition variable nobody asked for.
TimeOut(s) ==
    /\ client[s] = "parked"
    /\ client' = [client EXCEPT ![s] = "roused"]
    /\ UNCHANGED <<listed, lock, raiser, queues, count, history, due>>

WaitEnds(s) ==
    /\ client[s] = "roused"
    /\ client' = [client EXCEPT ![s] = "idle"]
    /\ UNCHANGED <<listed, lock, raiser, queues, count, history, due>>

\* The length of what is waiting, asked before it is copied.
AskLength(s) ==
    /\ client[s] = "idle"
    /\ alive[s]
    /\ sized' = [sized EXCEPT ![s] = Len(added[s])]
    /\ client' = [client EXCEPT ![s] = "copying"]
    /\ UNCHANGED <<listed, lock, raiser, queues, count, added, taken, told, due>>

\* All of the queue at once, the count of its drops first.
Drain(s) ==
    /\ queue' = [queue EXCEPT ![s] = <<>>]
    /\ taken' = [taken EXCEPT ![s] = @ \o queue[s]]
    /\ told' = [told EXCEPT ![s] = @ + dropped[s]]
    /\ dropped' = [dropped EXCEPT ![s] = 0]

\* The buffer holds what was there when the length was asked; what came since
\* may be more than it holds, and then nothing is taken.
CopyOut(s) ==
    /\ client[s] = "copying"
    /\ client' = [client EXCEPT ![s] = "idle"]
    /\ sized' = [sized EXCEPT ![s] = 0]
    /\ \/ alive[s] /\ Drain(s)
       \/ /\ ~alive[s] \/ sized[s] # Len(added[s])
          /\ UNCHANGED <<queue, dropped, taken, told>>
    /\ UNCHANGED <<listed, lock, raiser, filter, alive, count, added, due>>

\* remove(): the handle dies first, then the list lets the subscription go.
Unsubscribe(s) ==
    /\ client[s] = "idle"
    /\ alive[s]
    /\ alive' = [alive EXCEPT ![s] = FALSE]
    /\ client' = [client EXCEPT ![s] = "leaving"]
    /\ UNCHANGED <<listed, lock, raiser, queue, dropped, filter, count, history, due>>

\* A faulty Leave: a dead handle is not taken off the list.
LeaveListed(s) ==
    /\ client[s] = "leaving"
    /\ lock = Unheld
    /\ client' = [client EXCEPT ![s] = "ended"]
    /\ UNCHANGED <<listed, lock, raiser, queues, count, history, due>>

Leave(s) ==
    /\ client[s] = "leaving"
    /\ lock = Unheld
    /\ \/ \E i \in DOMAIN listed : listed[i] = s /\ listed' = RemoveAt(listed, i)
       \/ ~IsListed(s) /\ UNCHANGED listed
    /\ client' = [client EXCEPT ![s] = "ended"]
    /\ UNCHANGED <<lock, raiser, queues, count, history, due>>

\* The runtime freed: nothing raises any more, and every handle dies.
Clear ==
    /\ \A r \in Raisers : raiser[r].at = "idle"
    /\ listed # <<>>
    /\ alive' = [s \in Subs |-> alive[s] /\ ~IsListed(s)]
    /\ listed' = <<>>
    /\ UNCHANGED <<lock, raiser, queue, dropped, filter, client, count, history, due>>

-----------------------------------------------------------------------------
RaiserStep(r) == HandOut(r) \/ AddNext(r) \/ Raised(r)

ClientStep(s) ==
    \/ Wait(s) \/ TimeOut(s) \/ WaitEnds(s)
    \/ AskLength(s) \/ CopyOut(s)
    \/ Unsubscribe(s) \/ Leave(s)

EventsNext ==
    \/ \E r \in Raisers, t \in Topics : Raise(r, t)
    \/ \E r \in Raisers : RaiserStep(r)
    \/ \E s \in Subs, f \in Filters : Subscribe(s, f)
    \/ \E s \in Subs : ClientStep(s)
    \/ Clear

EventsSpec == EventsInit /\ [][EventsNext]_events_vars

-----------------------------------------------------------------------------
(* Every variable keeps its type, and no queue outgrows its capacity.      *)
EventsTypes ==
    /\ listed \in Seq(Subs) /\ IsInjective(listed)
    /\ lock \in Raisers \union {Unheld}
    /\ raiser \in [Raisers -> [at : {"idle", "made", "adding"}, topic : Topics,
                               event : 0 .. MaxEvents, left : Seq(Subs)]]
    /\ queue \in [Subs -> Seq(1 .. MaxEvents)]
    /\ \A s \in Subs : Len(queue[s]) <= Capacity
    /\ dropped \in [Subs -> Nat]
    /\ filter \in [Subs -> Filters]
    /\ alive \in [Subs -> BOOLEAN]
    /\ client \in [Subs -> {"none", "idle", "parked", "roused", "copying", "leaving", "ended"}]
    /\ count \in 0 .. MaxEvents
    /\ added \in [Subs -> Seq(1 .. MaxEvents)] /\ taken \in [Subs -> Seq(1 .. MaxEvents)]
    /\ told \in [Subs -> Nat] /\ sized \in [Subs -> Nat]
    /\ due \in [Raisers -> SUBSET Subs]

(* No event is lost without a word: every one put in a queue waits there,  *)
(* was drained, or is counted among the dropped the client was or will be  *)
(* told of, however overflows and drains that did not fit interleave       *)
(* (add, drain).                                                           *)
NothingLostUnsaid ==
    \A s \in Subs :
        Len(added[s]) = Len(taken[s]) + told[s] + Len(queue[s]) + dropped[s]

(* What a client has and will get is in the order it was raised, and what  *)
(* a full queue gave up is always older than all it kept (add).            *)
LatestKeptInOrder ==
    \A s \in Subs :
        /\ IsSuffix(queue[s], added[s])
        /\ \A i, j \in DOMAIN taken[s] :
            i < j => \E k, l \in DOMAIN added[s] :
                        k < l /\ added[s][k] = taken[s][i] /\ added[s][l] = taken[s][j]

(* A queue tells all it was given: what its client drained, has still to   *)
(* drain and was told is lost make up every event added, in order.         *)
QueueTellsAll == EventsTypes /\ NothingLostUnsaid /\ LatestKeptInOrder

(* Two subscriptions that got the same two events got them in the same     *)
(* order, whatever threads raised them (raise holds the list's lock while  *)
(* it hands an event out).                                                 *)
SameOrderEverywhere ==
    \A s, u \in Subs : \A i, j \in DOMAIN added[s] : \A k, l \in DOMAIN added[u] :
        (added[s][i] = added[u][k] /\ added[s][j] = added[u][l]) => (i < j <=> k < l)

(* No event waits unheard: a client is never parked while its queue has    *)
(* one or a drop to tell (wait's test and add's notify share a lock).      *)
NoEventWaitsUnheard == \A s \in Subs : client[s] = "parked" => ~Waiting(s)

(* A subscription that wanted an event when it was made has been given it  *)
(* when the raise ends, unless it left, though the two looks at the list   *)
(* are under two holds of its lock (wanted, raise).                        *)
EveryoneDueIsServed ==
    \A r \in Raisers :
        raiser[r].at = "adding" /\ raiser[r].left = <<>> =>
            \A s \in due[r] : IsListed(s) => raiser[r].event \in ToSet(added[s])

(* Once an unsubscribe has come back nothing is put in the queue it ended, *)
(* though a raise may have been handing its event out meanwhile (remove).  *)
NothingAfterTheEnd ==
    [][\A s \in Subs : client[s] = "ended" => added'[s] = added[s]]_events_vars
=============================================================================
