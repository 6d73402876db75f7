---------------------------- MODULE Events_proofs ----------------------------
(***************************************************************************)
(* The runtime's events, for any raisers, subscriptions, filters, capacity *)
(* of a queue and number of events: what a client drains, has waiting and  *)
(* is told it lost make up all it was given, in order; all see one order;  *)
(* who was due an event is given it; nobody parks before a waiting event;  *)
(* and nothing is put in a queue whose end has come back.                  *)
(***************************************************************************)
EXTENDS Events, SequenceTheorems, TLAPS

(* Who hands an event out has the list's lock, and the list does not       *)
(* change meanwhile.                                                       *)
LockInv ==
    /\ \A r \in Raisers : raiser[r].at = "adding" <=> lock = r
    /\ \A r \in Raisers : raiser[r].at = "adding" =>
          /\ IsInjective(raiser[r].left)
          /\ \A i \in DOMAIN raiser[r].left : IsListed(raiser[r].left[i])

(* Who is listed has come and not gone.                                    *)
ListedInv == \A s \in Subs : IsListed(s) => client[s] \notin {"none", "ended"}

(* Each event is one raiser's.  One still to be handed out is in no queue; *)
(* one being handed out is the last in those it is in, and not in those    *)
(* it is to be put in yet.                                                 *)
EventInv ==
    /\ \A r \in Raisers : raiser[r].at # "idle" => raiser[r].event \in 1 .. count
    /\ \A q, r \in Raisers :
          /\ raiser[q].at # "idle" /\ raiser[r].at # "idle"
          /\ raiser[q].event = raiser[r].event
          => q = r
    /\ \A s \in Subs : \A i \in DOMAIN added[s] : added[s][i] \in 1 .. count
    /\ \A s \in Subs : \A i, j \in DOMAIN added[s] : added[s][i] = added[s][j] => i = j
    /\ \A r \in Raisers, s \in Subs : \A i \in DOMAIN added[s] :
          added[s][i] = raiser[r].event =>
             /\ raiser[r].at # "made"
             /\ raiser[r].at = "adding" =>
                   /\ i = Len(added[s])
                   /\ \A j \in DOMAIN raiser[r].left : raiser[r].left[j] # s

(* Who wanted an event when it was made still would, and has it or is to   *)
(* be given it, unless it left.                                            *)
Fits(f, t) ==
    /\ f.session \in {0, t.session}
    /\ f.kinds = {} \/ t.kind \in f.kinds

DueInv ==
    \A r \in Raisers : \A s \in due[r] :
        /\ raiser[r].at # "idle"
        /\ client[s] # "none"
        /\ Fits(filter[s], raiser[r].topic)
        /\ raiser[r].at = "adding" /\ IsListed(s) =>
              \/ \E i \in DOMAIN raiser[r].left : raiser[r].left[i] = s
              \/ \E i \in DOMAIN added[s] : added[s][i] = raiser[r].event

(* The queue is the end of what was added, and what was taken lies before  *)
(* it, in order.                                                           *)
EndOf(q, a) ==
    /\ Len(q) <= Len(a)
    /\ \A i \in 1 .. Len(q) : q[i] = a[Len(a) - Len(q) + i]

Within(t, a, n) ==
    /\ \A i \in 1 .. Len(t) : \E k \in 1 .. n : a[k] = t[i]
    /\ \A i, j \in 1 .. Len(t) :
          i < j => \E k, l \in 1 .. n : k < l /\ a[k] = t[i] /\ a[l] = t[j]

QueueOf(s) ==
    /\ EndOf(queue[s], added[s])
    /\ Within(taken[s], added[s], Len(added[s]) - Len(queue[s]))

QueueInv == \A s \in Subs : QueueOf(s)

EInv ==
    /\ EventsTypes /\ LockInv /\ ListedInv /\ EventInv /\ DueInv
    /\ NothingLostUnsaid /\ QueueInv /\ SameOrderEverywhere /\ NoEventWaitsUnheard

-----------------------------------------------------------------------------
(* The types, in parts.                                                    *)
ListType == listed \in Seq(Subs) /\ IsInjective(listed)

RaiserType ==
    /\ raiser \in [Raisers -> [at : {"idle", "made", "adding"}, topic : Topics,
                               event : 0 .. MaxEvents, left : Seq(Subs)]]
    /\ lock \in Raisers \union {Unheld}
    /\ count \in 0 .. MaxEvents
    /\ due \in [Raisers -> SUBSET Subs]

QueueType ==
    /\ queue \in [Subs -> Seq(1 .. MaxEvents)]
    /\ \A s \in Subs : Len(queue[s]) <= Capacity
    /\ added \in [Subs -> Seq(1 .. MaxEvents)]
    /\ taken \in [Subs -> Seq(1 .. MaxEvents)]
    /\ dropped \in [Subs -> Nat] /\ told \in [Subs -> Nat] /\ sized \in [Subs -> Nat]

ClientType ==
    /\ filter \in [Subs -> Filters]
    /\ alive \in [Subs -> BOOLEAN]
    /\ client \in [Subs -> {"none", "idle", "parked", "roused", "copying", "leaving", "ended"}]

LEMMA TypeParts == EventsTypes <=> ListType /\ RaiserType /\ QueueType /\ ClientType
BY Zenon DEF EventsTypes, ListType, RaiserType, QueueType, ClientType

-----------------------------------------------------------------------------
(* A sequence without repeats with one more at its end, without its first, *)
(* and without any one of its own.                                         *)
LEMMA AppendFacts ==
  ASSUME NEW S, NEW q \in Seq(S), IsInjective(q), NEW e \in S, e \notin ToSet(q)
  PROVE  /\ Append(q, e) \in Seq(S) /\ IsInjective(Append(q, e))
         /\ ToSet(Append(q, e)) = ToSet(q) \union {e}
BY AppendProperties, LenProperties DEF IsInjective, ToSet

LEMMA TailFacts ==
  ASSUME NEW S, NEW q \in Seq(S), q # <<>>
  PROVE  /\ Head(q) = q[1] /\ 1 \in DOMAIN q /\ Head(q) \in S
         /\ Tail(q) \in Seq(S) /\ DOMAIN Tail(q) = 1 .. Len(q) - 1
         /\ \A i \in DOMAIN Tail(q) : i + 1 \in DOMAIN q /\ Tail(q)[i] = q[i + 1]
         /\ \A i \in DOMAIN q : i = 1 \/ (i - 1 \in DOMAIN Tail(q) /\ Tail(q)[i - 1] = q[i])
BY HeadTailProperties, LenProperties, EmptySeq

LEMMA RemoveFacts ==
  ASSUME NEW S, NEW q \in Seq(S), IsInjective(q), NEW i \in DOMAIN q
  PROVE  /\ RemoveAt(q, i) \in Seq(S) /\ IsInjective(RemoveAt(q, i))
         /\ ToSet(RemoveAt(q, i)) = ToSet(q) \ {q[i]}
<1> DEFINE n == Len(q)
           before == SubSeq(q, 1, i - 1)
           after == SubSeq(q, i + 1, n)
<1>1. n \in Nat /\ DOMAIN q = 1 .. n /\ i \in 1 .. n /\ \A j \in 1 .. n : q[j] \in S
  BY LenProperties
<1>2. /\ before \in Seq(S) /\ Len(before) = i - 1
      /\ \A j \in 1 .. i - 1 : before[j] = q[j]
  <2>1. \A j \in 1 .. i - 1 : q[j] \in S
    BY <1>1
  <2> QED BY <1>1, <2>1, SubSeqProperties, Z3
<1>3. /\ after \in Seq(S) /\ Len(after) = n - i
      /\ \A j \in 1 .. n - i : after[j] = q[i + j]
  <2>1. \A j \in i + 1 .. n : q[j] \in S
    BY <1>1
  <2> QED BY <1>1, <2>1, SubSeqProperties, Z3
<1> DEFINE less == RemoveAt(q, i)
<1>4. /\ less \in Seq(S) /\ Len(less) = Len(before) + Len(after)
      /\ \A j \in 1 .. Len(before) + Len(after) :
            less[j] = IF j <= Len(before) THEN before[j] ELSE after[j - Len(before)]
  BY <1>2, <1>3, ConcatProperties DEF RemoveAt
<1> HIDE DEF before, after, n, less
<1>5. /\ Len(less) = n - 1
      /\ \A j \in 1 .. n - 1 : less[j] = IF j < i THEN q[j] ELSE q[j + 1]
  <2>1. Len(less) = n - 1
    BY <1>1, <1>2, <1>3, <1>4
  <2>2. ASSUME NEW j \in 1 .. n - 1, j < i PROVE less[j] = q[j]
    BY <1>1, <1>2, <1>3, <1>4, <2>2
  <2>3. ASSUME NEW j \in 1 .. n - 1, ~(j < i) PROVE less[j] = q[j + 1]
    <3>1. j - (i - 1) \in 1 .. n - i /\ i + (j - (i - 1)) = j + 1
      BY <1>1, <2>3
    <3>2. less[j] = after[j - (i - 1)]
      BY <1>1, <1>2, <1>3, <1>4, <2>3
    <3> QED BY <1>3, <3>1, <3>2
  <2> QED BY <2>1, <2>2, <2>3
<1>6. DOMAIN less = 1 .. n - 1
  BY <1>4, <1>5, LenProperties
<1>7. \A j \in 1 .. n : \A k \in 1 .. n : q[j] = q[k] => j = k
  BY <1>1 DEF IsInjective
<1>8. IsInjective(less)
  <2> SUFFICES ASSUME NEW j \in 1 .. n - 1, NEW k \in 1 .. n - 1, less[j] = less[k] PROVE j = k
    BY <1>6 DEF IsInjective
  <2> DEFINE at(x) == IF x < i THEN x ELSE x + 1
  <2>1. at(j) \in 1 .. n /\ at(k) \in 1 .. n /\ q[at(j)] = q[at(k)]
    BY <1>1, <1>5
  <2>2. at(j) = at(k)
    BY <1>7, <2>1
  <2> QED BY <1>1, <2>2
<1>9. ASSUME NEW j \in 1 .. n - 1 PROVE less[j] \in ToSet(q) \ {q[i]}
  <2>1. \E k \in 1 .. n : k # i /\ less[j] = q[k]
    BY <1>1, <1>5
  <2> QED BY <1>1, <1>7, <2>1 DEF ToSet
<1>10. ASSUME NEW j \in 1 .. n, j # i PROVE \E k \in 1 .. n - 1 : less[k] = q[j]
  <2>1. CASE j < i
    <3>1. j \in 1 .. n - 1
      BY <1>1, <2>1
    <3> QED BY <1>5, <2>1, <3>1
  <2>2. CASE j > i
    <3>1. j - 1 \in 1 .. n - 1 /\ ~(j - 1 < i) /\ (j - 1) + 1 = j
      BY <1>1, <2>2
    <3>2. less[j - 1] = q[(j - 1) + 1]
      BY <1>5, <3>1
    <3> QED BY <3>1, <3>2
  <2> QED BY <1>1, <1>10, <2>1, <2>2
<1>11. ToSet(less) = ToSet(q) \ {q[i]}
  <2>1. ToSet(less) = {less[k] : k \in 1 .. n - 1} /\ ToSet(q) = {q[j] : j \in 1 .. n}
    BY <1>1, <1>6 DEF ToSet
  <2>2. ToSet(less) \subseteq ToSet(q) \ {q[i]}
    BY <1>9, <2>1, Zenon
  <2>3. ToSet(q) \ {q[i]} \subseteq ToSet(less)
    BY <1>10, <2>1, Zenon
  <2> QED BY <2>2, <2>3, Zenon
<1> QED BY <1>4, <1>8, <1>11 DEF less

-----------------------------------------------------------------------------
(* The invariant holds at the start.                                       *)
LEMMA InitEInv == EventsInit => EInv
<1> SUFFICES ASSUME EventsInit PROVE EInv
  OBVIOUS
<1> USE FiltersAssumption, CapacityAssumption, ThreadsAssumption DEF EventsInit
<1>1. ToSet(listed) = {} /\ IsInjective(listed)
  BY DEF ToSet, IsInjective
<1>2. EventsTypes
  <2>1. ListType
    BY <1>1 DEF ListType
  <2>2. RaiserType
    BY DEF RaiserType, Quiet
  <2>3. QueueType
    BY DEF QueueType
  <2>4. alive \in [Subs -> BOOLEAN]
    BY Zenon
  <2>5. ClientType
    BY <2>4 DEF ClientType
  <2> QED BY <2>1, <2>2, <2>3, <2>5, TypeParts
<1>3. LockInv /\ ListedInv /\ DueInv
  BY <1>1 DEF LockInv, ListedInv, DueInv, IsListed, Quiet
<1>4. EventInv
  BY DEF EventInv, Quiet
<1>5. NothingLostUnsaid /\ QueueInv /\ SameOrderEverywhere /\ NoEventWaitsUnheard
  BY DEF NothingLostUnsaid, QueueInv, QueueOf, EndOf, Within, SameOrderEverywhere, NoEventWaitsUnheard
<1> QED BY <1>2, <1>3, <1>4, <1>5 DEF EInv

-----------------------------------------------------------------------------
(* What each step does to the list and to where the clients stand.         *)
ListMoves ==
    \/ /\ UNCHANGED listed
       /\ \A s \in Subs : client'[s] \in {client[s], "idle", "parked", "roused", "copying", "leaving"}
    \/ /\ lock = Unheld
       /\ \E s \in Subs :
             \/ client[s] = "none" /\ listed' = Append(listed, s) /\ client' = [client EXCEPT ![s] = "idle"]
             \/ /\ client' = [client EXCEPT ![s] = "ended"]
                /\ \/ \E i \in DOMAIN listed : listed[i] = s /\ listed' = RemoveAt(listed, i)
                   \/ ~IsListed(s) /\ UNCHANGED listed
    \/ (\A r \in Raisers : raiser[r].at = "idle") /\ listed' = <<>> /\ UNCHANGED client

LEMMA ListSteps ==
  ASSUME ListType, RaiserType, ClientType, [EventsNext]_events_vars
  PROVE  ListMoves
<1> USE DEF ListType, RaiserType, ClientType, ListMoves
<1>1. ASSUME NEW r \in Raisers, NEW t \in Topics, Raise(r, t) PROVE ListMoves
  BY <1>1 DEF Raise
<1>2. ASSUME NEW r \in Raisers, RaiserStep(r) PROVE ListMoves
  <2>1. CASE HandOut(r) BY <2>1 DEF HandOut
  <2>2. CASE AddNext(r)
    <3>1. Head(raiser[r].left) \in Subs
      BY <2>2, TailFacts DEF AddNext
    <3> QED BY <2>2, <3>1 DEF AddNext, AddTo
  <2>3. CASE Raised(r) BY <2>3 DEF Raised
  <2> QED BY <1>2, <2>1, <2>2, <2>3 DEF RaiserStep
<1>3. ASSUME NEW s \in Subs, NEW f \in Filters, Subscribe(s, f) PROVE ListMoves
  BY <1>3 DEF Subscribe
<1>4. ASSUME NEW s \in Subs, ClientStep(s) PROVE ListMoves
  <2>1. CASE Leave(s) BY <2>1 DEF Leave
  <2>2. CASE ~Leave(s)
    BY <1>4, <2>2 DEF ClientStep, Wait, TimeOut, WaitEnds, AskLength, CopyOut, Unsubscribe
  <2> QED BY <2>1, <2>2
<1>5. CASE Clear BY <1>5 DEF Clear
<1>6. CASE UNCHANGED events_vars BY <1>6 DEF events_vars
<1> QED BY <1>1, <1>2, <1>3, <1>4, <1>5, <1>6 DEF EventsNext

LEMMA ListKept ==
  ASSUME ListType, ClientType, ListedInv, ListMoves
  PROVE  /\ ListType' /\ ListedInv'
         /\ \A s \in Subs : IsListed(s)' => IsListed(s) \/ client[s] = "none"
         /\ \A s \in Subs : client[s] = "ended" => client'[s] # "none"
         /\ \A s \in Subs : client[s] # "none" => client'[s] # "none"
<1> USE DEF ListType, ClientType, ListedInv, IsListed
<1>1. CASE UNCHANGED listed /\ \A s \in Subs : client'[s] \in {client[s], "idle", "parked", "roused", "copying", "leaving"}
  BY <1>1
<1>2. ASSUME NEW s \in Subs, client[s] = "none", listed' = Append(listed, s), client' = [client EXCEPT ![s] = "idle"]
      PROVE  /\ ListType' /\ ListedInv'
             /\ \A u \in Subs : IsListed(u)' => IsListed(u) \/ client[u] = "none"
             /\ \A u \in Subs : client[u] # "none" => client'[u] # "none"
  <2>1. s \notin ToSet(listed)
    BY <1>2
  <2>2. listed' \in Seq(Subs) /\ IsInjective(listed') /\ ToSet(listed') = ToSet(listed) \union {s}
    BY <1>2, <2>1, AppendFacts
  <2> QED BY <1>2, <2>2
<1>3. ASSUME NEW s \in Subs, client' = [client EXCEPT ![s] = "ended"],
             NEW i \in DOMAIN listed, listed[i] = s, listed' = RemoveAt(listed, i)
      PROVE  /\ ListType' /\ ListedInv'
             /\ \A u \in Subs : IsListed(u)' => IsListed(u)
             /\ \A u \in Subs : client[u] # "none" => client'[u] # "none"
  <2>1. listed' \in Seq(Subs) /\ IsInjective(listed') /\ ToSet(listed') = ToSet(listed) \ {s}
    BY <1>3, RemoveFacts
  <2> QED BY <1>3, <2>1
<1>4. ASSUME NEW s \in Subs, client' = [client EXCEPT ![s] = "ended"], ~IsListed(s), UNCHANGED listed
      PROVE  /\ ListType' /\ ListedInv'
             /\ \A u \in Subs : IsListed(u)' => IsListed(u)
             /\ \A u \in Subs : client[u] # "none" => client'[u] # "none"
  BY <1>4
<1>5. CASE listed' = <<>> /\ UNCHANGED client
  <2>1. ToSet(listed') = {} /\ IsInjective(listed') /\ listed' \in Seq(Subs)
    BY <1>5 DEF ToSet, IsInjective
  <2> QED BY <1>5, <2>1
<1> QED BY <1>1, <1>2, <1>3, <1>4, <1>5 DEF ListMoves

-----------------------------------------------------------------------------
(* What each step does to the raisers: nothing but where the list is the   *)
(* same or nobody is handing out; or one of the four of a raise.           *)
RaisersRest == UNCHANGED <<raiser, lock, count, due, added>>

ListStays == UNCHANGED listed \/ \A r \in Raisers : raiser[r].at # "adding"

RaiserMoves ==
    \/ RaisersRest /\ ListStays
    \/ \E r \in Raisers, t \in Topics : Raise(r, t)
    \/ \E r \in Raisers : HandOut(r) \/ AddNext(r) \/ Raised(r)

LEMMA RaiserSteps ==
  ASSUME LockInv, [EventsNext]_events_vars
  PROVE  RaiserMoves
<1> USE ThreadsAssumption DEF RaiserMoves, RaisersRest, ListStays, LockInv, history
<1>1. ASSUME NEW s \in Subs, NEW f \in Filters, Subscribe(s, f) PROVE RaiserMoves
  BY <1>1 DEF Subscribe
<1>2. ASSUME NEW s \in Subs, ClientStep(s) PROVE RaiserMoves
  BY <1>2 DEF ClientStep, Wait, TimeOut, WaitEnds, AskLength, CopyOut, Unsubscribe, Leave
<1>3. CASE Clear
  BY <1>3 DEF Clear
<1>4. CASE UNCHANGED events_vars
  BY <1>4 DEF events_vars
<1> QED BY <1>1, <1>2, <1>3, <1>4 DEF EventsNext, RaiserStep

LEMMA RestingType == Quiet \in [at : {"idle", "made", "adding"}, topic : Topics,
                                  event : 0 .. MaxEvents, left : Seq(Subs)]
<1>1. (CHOOSE t \in Topics : TRUE) \in Topics
  BY FiltersAssumption
<1> QED BY <1>1, CapacityAssumption DEF Quiet

LEMMA RaiserKept ==
  ASSUME ListType, RaiserType, LockInv, RaiserMoves
  PROVE  RaiserType' /\ LockInv'
<1> USE DEF RaiserType, LockInv, IsListed
<1>1. CASE RaisersRest /\ ListStays
  BY <1>1 DEF RaisersRest, ListStays
<1>2. ASSUME NEW r \in Raisers, NEW t \in Topics, Raise(r, t) PROVE RaiserType' /\ LockInv'
  <2>1. count + 1 \in 0 .. MaxEvents /\ Wanting(t) \subseteq Subs
    <3>1. ToSet(listed) \subseteq Subs
      BY LenProperties DEF ListType, ToSet
    <3> QED BY <1>2, <3>1, CapacityAssumption DEF Raise, Wanting
  <2>2. RaiserType'
    BY <1>2, <2>1 DEF Raise
  <2>3. LockInv'
    BY <1>2, ThreadsAssumption DEF Raise
  <2> QED BY <2>2, <2>3
<1>3. ASSUME NEW r \in Raisers, HandOut(r) PROVE RaiserType' /\ LockInv'
  <2>1. RaiserType'
    BY <1>3 DEF HandOut, ListType
  <2>2. \A i \in DOMAIN listed : listed[i] \in ToSet(listed)
    BY DEF ToSet
  <2>3. LockInv'
    BY <1>3, <2>2, ThreadsAssumption DEF HandOut, ListType
  <2> QED BY <2>1, <2>3
<1>4. ASSUME NEW r \in Raisers, AddNext(r) PROVE RaiserType' /\ LockInv'
  <2> DEFINE left == raiser[r].left
  <2>1. left \in Seq(Subs) /\ left # <<>> /\ raiser[r].at = "adding"
    BY <1>4 DEF AddNext
  <2>2. /\ Tail(left) \in Seq(Subs) /\ DOMAIN Tail(left) = 1 .. Len(left) - 1
        /\ \A i \in DOMAIN Tail(left) : i + 1 \in DOMAIN left /\ Tail(left)[i] = left[i + 1]
    BY <2>1, TailFacts
  <2>3. raiser' = [raiser EXCEPT ![r].left = Tail(left)]
        /\ UNCHANGED <<listed, lock, count, due>>
    BY <1>4 DEF AddNext
  <2>4. IsInjective(left) /\ \A i \in DOMAIN left : left[i] \in ToSet(listed)
    BY <2>1
  <2> HIDE DEF left
  <2>5. IsInjective(Tail(left)) /\ \A i \in DOMAIN Tail(left) : Tail(left)[i] \in ToSet(listed)
    <3>1. Len(left) \in Nat
      BY <2>1, LenProperties DEF left
    <3> QED BY <2>2, <2>4, <3>1 DEF IsInjective
  <2>6. RaiserType'
    BY <2>2, <2>3
  <2>7. LockInv'
    BY <2>3, <2>5
  <2> QED BY <2>6, <2>7
<1>5. ASSUME NEW r \in Raisers, Raised(r) PROVE RaiserType' /\ LockInv'
  <2>1. raiser' = [raiser EXCEPT ![r] = Quiet] /\ lock' = Unheld /\ lock = r
        /\ due' = [due EXCEPT ![r] = {}] /\ UNCHANGED <<listed, count>>
    BY <1>5 DEF Raised
  <2>2. RaiserType'
    BY <2>1, RestingType
  <2>3. LockInv'
    BY <2>1, ThreadsAssumption DEF Quiet
  <2> QED BY <2>2, <2>3
<1> QED BY <1>1, <1>2, <1>3, <1>4, <1>5 DEF RaiserMoves

-----------------------------------------------------------------------------
(* What each step does to the queues: nothing, and nobody parks but by an  *)
(* empty one; or one hands an event out; or one drains its own.            *)
QueuesRest ==
    /\ UNCHANGED <<queue, dropped, added, taken, told>>
    /\ \A s \in Subs : client'[s] = "parked" => client[s] = "parked" \/ ~Waiting(s)

Drains(s) ==
    /\ Drain(s)
    /\ client' = [client EXCEPT ![s] = "idle"]
    /\ UNCHANGED added

QueueMoves ==
    \/ QueuesRest
    \/ \E r \in Raisers : AddNext(r)
    \/ \E s \in Subs : Drains(s)

LEMMA QueueSteps ==
  ASSUME ClientType, [EventsNext]_events_vars
  PROVE  QueueMoves
<1> USE DEF QueueMoves, QueuesRest, queues, history, ClientType
<1>1. ASSUME NEW r \in Raisers, NEW t \in Topics, Raise(r, t) PROVE QueueMoves
  BY <1>1 DEF Raise
<1>2. ASSUME NEW r \in Raisers, RaiserStep(r) PROVE QueueMoves
  <2>1. CASE HandOut(r) BY <2>1 DEF HandOut
  <2>2. CASE Raised(r) BY <2>2 DEF Raised
  <2> QED BY <1>2, <2>1, <2>2 DEF RaiserStep
<1>3. ASSUME NEW s \in Subs, NEW f \in Filters, Subscribe(s, f) PROVE QueueMoves
  BY <1>3 DEF Subscribe
<1>4. ASSUME NEW s \in Subs, ClientStep(s) PROVE QueueMoves
  <2>1. CASE Wait(s) BY <2>1 DEF Wait
  <2>2. CASE CopyOut(s)
    <3>1. CASE Drain(s)
      BY <2>2, <3>1 DEF CopyOut, Drains
    <3>2. CASE UNCHANGED <<queue, dropped, taken, told>>
      BY <2>2, <3>2 DEF CopyOut
    <3> QED BY <2>2, <3>1, <3>2 DEF CopyOut
  <2>3. CASE TimeOut(s) \/ WaitEnds(s) \/ AskLength(s) \/ Unsubscribe(s) \/ Leave(s)
    BY <2>3 DEF TimeOut, WaitEnds, AskLength, Unsubscribe, Leave
  <2> QED BY <1>4, <2>1, <2>2, <2>3 DEF ClientStep
<1>5. CASE Clear
  BY <1>5 DEF Clear
<1>6. CASE UNCHANGED events_vars
  BY <1>6 DEF events_vars
<1> QED BY <1>1, <1>2, <1>3, <1>4, <1>5, <1>6 DEF EventsNext

\* What a client wants changes only as it comes; who was due an event changes
\* only with the raise.
FiltersMove == \A s \in Subs : client[s] # "none" => filter'[s] = filter[s]

LEMMA FilterSteps ==
  ASSUME ClientType, [EventsNext]_events_vars
  PROVE  FiltersMove
<1> USE DEF FiltersMove, queues, ClientType
<1>1. ASSUME NEW r \in Raisers, NEW t \in Topics, Raise(r, t) PROVE FiltersMove
  BY <1>1 DEF Raise
<1>2. ASSUME NEW r \in Raisers, RaiserStep(r) PROVE FiltersMove
  BY <1>2 DEF RaiserStep, HandOut, AddNext, Raised
<1>3. ASSUME NEW s \in Subs, NEW f \in Filters, Subscribe(s, f) PROVE FiltersMove
  BY <1>3 DEF Subscribe
<1>4. ASSUME NEW s \in Subs, ClientStep(s) PROVE FiltersMove
  BY <1>4 DEF ClientStep, Wait, TimeOut, WaitEnds, AskLength, CopyOut, Unsubscribe, Leave
<1>5. CASE Clear
  BY <1>5 DEF Clear
<1>6. CASE UNCHANGED events_vars
  BY <1>6 DEF events_vars
<1> QED BY <1>1, <1>2, <1>3, <1>4, <1>5, <1>6 DEF EventsNext

LEMMA ClientTypeKept ==
  ASSUME ClientType, ListType, RaiserType, [EventsNext]_events_vars
  PROVE  ClientType'
<1>1. alive' \in [Subs -> BOOLEAN]
  <2>1. alive \in [Subs -> BOOLEAN]
    BY DEF ClientType
  <2>2. ASSUME NEW r \in Raisers, NEW t \in Topics, Raise(r, t) PROVE alive' = alive
    BY <2>2 DEF Raise, queues
  <2>3. ASSUME NEW r \in Raisers, RaiserStep(r) PROVE alive' = alive
    BY <2>3 DEF RaiserStep, HandOut, AddNext, Raised, queues
  <2>4. ASSUME NEW s \in Subs, NEW f \in Filters, Subscribe(s, f)
        PROVE  alive' = [alive EXCEPT ![s] = TRUE]
    BY <2>4 DEF Subscribe
  <2>5. ASSUME NEW s \in Subs, ClientStep(s)
        PROVE  alive' = alive \/ alive' = [alive EXCEPT ![s] = FALSE]
    BY <2>5 DEF ClientStep, Wait, TimeOut, WaitEnds, AskLength, CopyOut, Unsubscribe, Leave, queues
  <2>6. ASSUME NEW s \in Subs, NEW b \in BOOLEAN, alive' = [alive EXCEPT ![s] = b]
        PROVE  alive' \in [Subs -> BOOLEAN]
    BY <2>1, <2>6, Zenon
  <2>7. CASE Clear
    <3>1. alive' = [s \in Subs |-> alive[s] /\ ~IsListed(s)]
      BY <2>7 DEF Clear
    <3> QED BY <3>1, Zenon
  <2>8. CASE UNCHANGED events_vars
    BY <2>1, <2>8, Zenon DEF events_vars, queues
  <2> QED BY <2>1, <2>2, <2>3, <2>4, <2>5, <2>6, <2>7, <2>8, Zenon DEF EventsNext
<1>2. filter' \in [Subs -> Filters]
  <2> USE DEF ClientType, queues
  <2>1. ASSUME NEW r \in Raisers, NEW t \in Topics, Raise(r, t) PROVE filter' = filter
    BY <2>1 DEF Raise
  <2>2. ASSUME NEW r \in Raisers, RaiserStep(r) PROVE filter' = filter
    BY <2>2 DEF RaiserStep, HandOut, AddNext, Raised
  <2>3. ASSUME NEW s \in Subs, NEW f \in Filters, Subscribe(s, f) PROVE filter' \in [Subs -> Filters]
    BY <2>3 DEF Subscribe
  <2>4. ASSUME NEW s \in Subs, ClientStep(s) PROVE filter' = filter
    BY <2>4 DEF ClientStep, Wait, TimeOut, WaitEnds, AskLength, CopyOut, Unsubscribe, Leave
  <2>5. CASE Clear \/ UNCHANGED events_vars
    BY <2>5 DEF Clear, events_vars
  <2> QED BY <2>1, <2>2, <2>3, <2>4, <2>5 DEF EventsNext
<1>3. client' \in [Subs -> {"none", "idle", "parked", "roused", "copying", "leaving", "ended"}]
  <2> USE DEF ClientType
  <2>1. ASSUME NEW r \in Raisers, NEW t \in Topics, Raise(r, t) PROVE client' = client
    BY <2>1 DEF Raise
  <2>2. ASSUME NEW r \in Raisers, RaiserStep(r)
        PROVE  client' \in [Subs -> {"none", "idle", "parked", "roused", "copying", "leaving", "ended"}]
    BY <2>2 DEF RaiserStep, HandOut, AddNext, Raised, AddTo
  <2>3. ASSUME NEW s \in Subs, NEW f \in Filters, Subscribe(s, f)
        PROVE  client' \in [Subs -> {"none", "idle", "parked", "roused", "copying", "leaving", "ended"}]
    BY <2>3 DEF Subscribe
  <2>4. ASSUME NEW s \in Subs, ClientStep(s)
        PROVE  client' \in [Subs -> {"none", "idle", "parked", "roused", "copying", "leaving", "ended"}]
    BY <2>4 DEF ClientStep, Wait, TimeOut, WaitEnds, AskLength, CopyOut, Unsubscribe, Leave
  <2>5. CASE Clear \/ UNCHANGED events_vars
    BY <2>5 DEF Clear, events_vars
  <2> QED BY <2>1, <2>2, <2>3, <2>4, <2>5 DEF EventsNext
<1> QED BY <1>1, <1>2, <1>3, Zenon DEF ClientType

-----------------------------------------------------------------------------
(* What is in a queue with one event more, its oldest gone if it was full. *)
LEMMA PutFacts ==
  ASSUME NEW S, NEW q \in Seq(S), NEW e \in S, Len(q) <= Capacity,
         NEW p, p = IF Len(q) = Capacity THEN Append(Tail(q), e) ELSE Append(q, e)
  PROVE  /\ p \in Seq(S) /\ Len(p) <= Capacity /\ Len(p) \in Nat /\ p[Len(p)] = e
         /\ \/ /\ Len(q) = Capacity /\ Len(p) = Len(q)
               /\ \A i \in 1 .. Len(q) - 1 : p[i] = q[i + 1]
            \/ /\ Len(q) < Capacity /\ Len(p) = Len(q) + 1
               /\ \A i \in 1 .. Len(q) : p[i] = q[i]
<1>1. Len(q) \in Nat /\ Capacity \in Nat \ {0}
  BY LenProperties, CapacityAssumption
<1>2. CASE Len(q) = Capacity
  <2> DEFINE t == Tail(q)
             n == Len(q)
  <2>1. q # <<>>
    BY <1>1, <1>2
  <2>2. t \in Seq(S) /\ Len(t) = n - 1 /\ \A i \in 1 .. n - 1 : t[i] = q[i + 1]
    BY <2>1, HeadTailProperties
  <2>3. p = Append(t, e) /\ n \in Nat
    BY <1>1, <1>2
  <2> HIDE DEF t
  <2>4. /\ p \in Seq(S) /\ Len(p) = Len(t) + 1
        /\ \A i \in 1 .. Len(t) : p[i] = t[i]
        /\ p[Len(t) + 1] = e
    BY <2>2, <2>3, AppendProperties
  <2>5. Len(p) = n /\ p[Len(p)] = e
    BY <2>2, <2>3, <2>4
  <2>6. ASSUME NEW i \in 1 .. n - 1 PROVE p[i] = q[i + 1]
    BY <2>2, <2>3, <2>4
  <2> QED BY <1>1, <1>2, <2>3, <2>4, <2>5, <2>6
<1>3. CASE Len(q) # Capacity
  <2>1. p = Append(q, e)
    BY <1>3
  <2>2. /\ p \in Seq(S) /\ Len(p) = Len(q) + 1
        /\ \A i \in 1 .. Len(q) : p[i] = q[i]
        /\ p[Len(q) + 1] = e
    BY <1>1, <2>1, AppendProperties
  <2>3. Len(p) <= Capacity
    BY <1>1, <1>3, <2>2
  <2> QED BY <1>1, <1>3, <2>2, <2>3
<1> QED BY <1>2, <1>3

LEMMA GrowFacts ==
  ASSUME NEW S, NEW a \in Seq(S), NEW e \in S
  PROVE  /\ Append(a, e) \in Seq(S) /\ Len(Append(a, e)) = Len(a) + 1
         /\ Len(a) \in Nat /\ DOMAIN a = 1 .. Len(a)
         /\ DOMAIN Append(a, e) = 1 .. Len(a) + 1
         /\ \A i \in 1 .. Len(a) : Append(a, e)[i] = a[i] /\ Append(a, e)[i] \in S
         /\ Append(a, e)[Len(a) + 1] = e
BY AppendProperties, LenProperties

LEMMA JoinFacts ==
  ASSUME NEW S, NEW a \in Seq(S), NEW b \in Seq(S)
  PROVE  /\ a \o b \in Seq(S) /\ Len(a \o b) = Len(a) + Len(b)
         /\ Len(a) \in Nat /\ Len(b) \in Nat
         /\ \A i \in 1 .. Len(a) : (a \o b)[i] = a[i]
         /\ \A i \in 1 .. Len(b) : (a \o b)[Len(a) + i] = b[i]
BY ConcatProperties, LenProperties

(* Who an event is handed to, and what its queue becomes.                  *)
LEMMA AddNextFacts ==
  ASSUME RaiserType, QueueType, ClientType, LockInv, EventInv, NEW r \in Raisers, AddNext(r)
  PROVE  LET s == raiser[r].left[1]
             e == raiser[r].event
         IN  /\ lock = r /\ raiser[r].at = "adding" /\ 1 \in DOMAIN raiser[r].left
             /\ s \in Subs /\ IsListed(s) /\ e \in 1 .. MaxEvents /\ e \in 1 .. count
             /\ \/ UNCHANGED <<queue, dropped, added, client>> /\ ~Wants(s, raiser[r].topic)
                \/ AddTo(s, e) /\ Wants(s, raiser[r].topic)
             /\ UNCHANGED <<taken, told>>
<1>1. raiser[r].left \in Seq(Subs) /\ raiser[r].left # <<>> /\ raiser[r].at = "adding"
  BY DEF AddNext, RaiserType
<1>2. /\ Head(raiser[r].left) = raiser[r].left[1] /\ 1 \in DOMAIN raiser[r].left
      /\ Head(raiser[r].left) \in Subs
  BY <1>1, TailFacts
<1>3. lock = r /\ IsListed(raiser[r].left[1])
  BY <1>1, <1>2 DEF LockInv
<1>4. raiser[r].event \in 1 .. count /\ raiser[r].event \in 1 .. MaxEvents
  <2>1. raiser[r].event \in 1 .. count /\ count \in 0 .. MaxEvents
    BY <1>1 DEF EventInv, RaiserType
  <2> QED BY <2>1, CapacityAssumption
<1>5. /\ \/ UNCHANGED <<queue, dropped, added, client>> /\ ~Wants(Head(raiser[r].left), raiser[r].topic)
         \/ AddTo(Head(raiser[r].left), raiser[r].event) /\ Wants(Head(raiser[r].left), raiser[r].topic)
      /\ UNCHANGED <<taken, told>>
  BY DEF AddNext
<1> QED BY <1>1, <1>2, <1>3, <1>4, <1>5, Zenon

(* The clients: their own steps, and the size they asked.                  *)
LEMMA SizedKept ==
  ASSUME QueueType, [EventsNext]_events_vars
  PROVE  sized' \in [Subs -> Nat]
<1> USE DEF history
<1>0. sized \in [Subs -> Nat] /\ \A s \in Subs : Len(added[s]) \in Nat
  BY LenProperties DEF QueueType
<1>1. ASSUME NEW r \in Raisers, NEW t \in Topics, Raise(r, t) PROVE sized' = sized
  BY <1>1 DEF Raise
<1>2. ASSUME NEW r \in Raisers, RaiserStep(r) PROVE sized' = sized
  BY <1>2 DEF RaiserStep, HandOut, AddNext, Raised
<1>3. ASSUME NEW s \in Subs, NEW f \in Filters, Subscribe(s, f) PROVE sized' = sized
  BY <1>3 DEF Subscribe
<1>4. ASSUME NEW s \in Subs, ClientStep(s) PROVE sized' \in [Subs -> Nat]
  BY <1>0, <1>4 DEF ClientStep, Wait, TimeOut, WaitEnds, AskLength, CopyOut, Unsubscribe, Leave
<1>5. CASE Clear \/ UNCHANGED events_vars
  BY <1>0, <1>5 DEF Clear, events_vars
<1> QED BY <1>0, <1>1, <1>2, <1>3, <1>4, <1>5 DEF EventsNext

(* What handing an event out does to each queue: nothing, or to one the    *)
(* event is put at its end, its oldest gone and counted if it was full.    *)
Same(u) ==
    /\ queue'[u] = queue[u] /\ dropped'[u] = dropped[u] /\ added'[u] = added[u]
    /\ taken'[u] = taken[u] /\ told'[u] = told[u]

Put(s, e) ==
    /\ taken'[s] = taken[s] /\ told'[s] = told[s]
    /\ added'[s] = Append(added[s], e)
    /\ queue'[s] \in Seq(1 .. MaxEvents) /\ Len(queue'[s]) <= Capacity
    /\ Len(queue'[s]) \in Nat \ {0} /\ queue'[s][Len(queue'[s])] = e
    /\ \/ /\ Len(queue[s]) = Capacity /\ Len(queue'[s]) = Len(queue[s])
          /\ dropped'[s] = dropped[s] + 1
          /\ \A i \in 1 .. Len(queue[s]) - 1 : queue'[s][i] = queue[s][i + 1]
       \/ /\ Len(queue[s]) < Capacity /\ Len(queue'[s]) = Len(queue[s]) + 1
          /\ dropped'[s] = dropped[s]
          /\ \A i \in 1 .. Len(queue[s]) : queue'[s][i] = queue[s][i]

LEMMA HandedOut ==
  ASSUME QueueType, ClientType, NEW s \in Subs, NEW e \in 1 .. MaxEvents,
         AddTo(s, e), UNCHANGED <<taken, told>>
  PROVE  /\ \A u \in Subs \ {s} : Same(u) /\ client'[u] = client[u]
         /\ Put(s, e) /\ client'[s] # "parked"
         /\ queue' = [queue EXCEPT ![s] = queue'[s]]
         /\ dropped' = [dropped EXCEPT ![s] = dropped'[s]] /\ dropped'[s] \in Nat
         /\ added' = [added EXCEPT ![s] = added'[s]]
<1>1. /\ queue' = [queue EXCEPT ![s] = IF Full(s) THEN Append(Tail(@), e) ELSE Append(@, e)]
      /\ dropped' = [dropped EXCEPT ![s] = IF Full(s) THEN @ + 1 ELSE @]
      /\ added' = [added EXCEPT ![s] = Append(@, e)]
      /\ client' = [client EXCEPT ![s] = IF @ = "parked" THEN "roused" ELSE @]
  BY DEF AddTo
<1>2. queue[s] \in Seq(1 .. MaxEvents) /\ Len(queue[s]) <= Capacity /\ Len(queue[s]) \in Nat
  BY LenProperties DEF QueueType
<1>3. queue'[s] = IF Len(queue[s]) = Capacity THEN Append(Tail(queue[s]), e) ELSE Append(queue[s], e)
  BY <1>1 DEF QueueType, Full
<1>4. /\ queue'[s] \in Seq(1 .. MaxEvents) /\ Len(queue'[s]) <= Capacity
      /\ Len(queue'[s]) \in Nat /\ queue'[s][Len(queue'[s])] = e
      /\ \/ /\ Len(queue[s]) = Capacity /\ Len(queue'[s]) = Len(queue[s])
            /\ \A i \in 1 .. Len(queue[s]) - 1 : queue'[s][i] = queue[s][i + 1]
         \/ /\ Len(queue[s]) < Capacity /\ Len(queue'[s]) = Len(queue[s]) + 1
            /\ \A i \in 1 .. Len(queue[s]) : queue'[s][i] = queue[s][i]
  <2> DEFINE q == queue[s]
             p == queue'[s]
             S == 1 .. MaxEvents
  <2>1. q \in Seq(S) /\ e \in S /\ Len(q) <= Capacity
        /\ p = IF Len(q) = Capacity THEN Append(Tail(q), e) ELSE Append(q, e)
    BY <1>2, <1>3
  <2> HIDE DEF q, p, S
  <2>2. /\ p \in Seq(S) /\ Len(p) <= Capacity /\ Len(p) \in Nat /\ p[Len(p)] = e
        /\ \/ /\ Len(q) = Capacity /\ Len(p) = Len(q)
              /\ \A i \in 1 .. Len(q) - 1 : p[i] = q[i + 1]
           \/ /\ Len(q) < Capacity /\ Len(p) = Len(q) + 1
              /\ \A i \in 1 .. Len(q) : p[i] = q[i]
    BY <2>1, PutFacts, SMT
  <2> QED BY <2>2 DEF q, p, S
<1>5. dropped'[s] = IF Len(queue[s]) = Capacity THEN dropped[s] + 1 ELSE dropped[s]
  BY <1>1 DEF QueueType, Full
<1>6. added'[s] = Append(added[s], e) /\ client'[s] # "parked"
  BY <1>1 DEF QueueType, ClientType
<1>7. Len(queue'[s]) # 0
  BY <1>2, <1>4, CapacityAssumption
<1>8. Put(s, e)
  <2>1. CASE Len(queue[s]) = Capacity
    BY <1>2, <1>4, <1>5, <1>6, <1>7, <2>1, CapacityAssumption DEF Put
  <2>2. CASE Len(queue[s]) < Capacity
    BY <1>2, <1>4, <1>5, <1>6, <1>7, <2>2, CapacityAssumption DEF Put
  <2> QED BY <1>4, <2>1, <2>2
<1>9. \A u \in Subs \ {s} : Same(u) /\ client'[u] = client[u]
  BY <1>1 DEF QueueType, ClientType, Same
<1>10. /\ queue' = [queue EXCEPT ![s] = queue'[s]]
       /\ dropped' = [dropped EXCEPT ![s] = dropped'[s]] /\ dropped'[s] \in Nat
       /\ added' = [added EXCEPT ![s] = added'[s]]
  BY <1>1, <1>5 DEF QueueType
<1> QED BY <1>6, <1>8, <1>9, <1>10

LEMMA QueueTypeKept ==
  ASSUME QueueType, RaiserType, ClientType, LockInv, EventInv, QueueMoves,
         sized' \in [Subs -> Nat]
  PROVE  QueueType'
<1>1. CASE QueuesRest
  BY <1>1 DEF QueuesRest, QueueType
<1>2. ASSUME NEW r \in Raisers, AddNext(r) PROVE QueueType'
  <2> DEFINE s == raiser[r].left[1]
             e == raiser[r].event
  <2>1. /\ s \in Subs /\ e \in 1 .. MaxEvents /\ UNCHANGED <<taken, told>>
        /\ UNCHANGED <<queue, dropped, added>> \/ AddTo(s, e)
    BY <1>2, AddNextFacts
  <2> HIDE DEF s, e
  <2>2. CASE UNCHANGED <<queue, dropped, added>>
    BY <2>1, <2>2 DEF QueueType
  <2>3. CASE AddTo(s, e)
    <3>1. /\ Put(s, e)
          /\ queue' = [queue EXCEPT ![s] = queue'[s]]
          /\ dropped' = [dropped EXCEPT ![s] = dropped'[s]] /\ dropped'[s] \in Nat
          /\ added' = [added EXCEPT ![s] = added'[s]]
      BY <2>1, <2>3, HandedOut
    <3>2. queue'[s] \in Seq(1 .. MaxEvents) /\ Len(queue'[s]) <= Capacity
      BY <3>1 DEF Put
    <3>3. added'[s] \in Seq(1 .. MaxEvents)
      <4>1. added[s] \in Seq(1 .. MaxEvents)
        BY <2>1 DEF QueueType
      <4> QED BY <2>1, <3>1, <4>1, GrowFacts DEF Put
    <3> QED BY <2>1, <3>1, <3>2, <3>3 DEF QueueType
  <2> QED BY <2>1, <2>2, <2>3
<1>3. ASSUME NEW s \in Subs, Drains(s) PROVE QueueType'
  <2>1. taken[s] \o queue[s] \in Seq(1 .. MaxEvents)
    BY JoinFacts DEF QueueType
  <2>2. <<>> \in Seq(1 .. MaxEvents) /\ Len(<<>>) <= Capacity
    BY CapacityAssumption
  <2>3. /\ queue' = [queue EXCEPT ![s] = <<>>] /\ added' = added
        /\ taken' = [taken EXCEPT ![s] = taken[s] \o queue[s]]
        /\ told' = [told EXCEPT ![s] = told[s] + dropped[s]]
        /\ dropped' = [dropped EXCEPT ![s] = 0]
    BY <1>3 DEF Drains, Drain, QueueType
  <2> QED BY <2>1, <2>2, <2>3 DEF QueueType
<1> QED BY <1>1, <1>2, <1>3 DEF QueueMoves

-----------------------------------------------------------------------------
(* Events stay one raiser's, and the newest of the queues they are in.     *)
LEMMA EventsRaised ==
  ASSUME RaiserType, QueueType, EventInv, NEW r \in Raisers, NEW t \in Topics, Raise(r, t)
  PROVE  EventInv'
<1>1. /\ raiser' = [raiser EXCEPT ![r] = [@ EXCEPT !.at = "made", !.topic = t, !.event = count + 1]]
      /\ count' = count + 1 /\ added' = added /\ count \in Nat
  BY CapacityAssumption DEF Raise, history, RaiserType
<1>2. raiser'[r].event = count + 1 /\ raiser'[r].at = "made"
  BY <1>1 DEF RaiserType
<1>3. \A q \in Raisers \ {r} : raiser'[q] = raiser[q]
  BY <1>1 DEF RaiserType
<1>4. \A s \in Subs : \A i \in DOMAIN added[s] : added[s][i] \in 1 .. count
  BY DEF EventInv
<1>5. \A q \in Raisers : raiser'[q].at # "idle" => raiser'[q].event \in 1 .. count'
  BY <1>1, <1>2, <1>3 DEF EventInv
<1>6. \A q, p \in Raisers :
         /\ raiser'[q].at # "idle" /\ raiser'[p].at # "idle"
         /\ raiser'[p].event = raiser'[q].event
         => q = p
  BY <1>1, <1>2, <1>3 DEF EventInv
<1>7. \A s \in Subs : \A i \in DOMAIN added'[s] : added'[s][i] \in 1 .. count'
  BY <1>1, <1>4
<1>8. \A s \in Subs : \A i, j \in DOMAIN added'[s] : added'[s][i] = added'[s][j] => i = j
  BY <1>1 DEF EventInv
<1>9. \A q \in Raisers, s \in Subs : \A i \in DOMAIN added'[s] :
         added'[s][i] = raiser'[q].event =>
            /\ raiser'[q].at # "made"
            /\ raiser'[q].at = "adding" =>
                  /\ i = Len(added'[s])
                  /\ \A j \in DOMAIN raiser'[q].left : raiser'[q].left[j] # s
  <2>1. \A s \in Subs : \A i \in DOMAIN added'[s] : added'[s][i] # raiser'[r].event
    BY <1>1, <1>2, <1>4
  <2> QED BY <1>1, <1>3, <2>1 DEF EventInv
<1> QED BY <1>5, <1>6, <1>7, <1>8, <1>9 DEF EventInv

LEMMA EventsPassed ==
  ASSUME RaiserType, EventInv, NEW r \in Raisers, added' = added, count' = count,
         \A q \in Raisers \ {r} : raiser'[q] = raiser[q],
         \/ raiser'[r].at = "idle"
         \/ /\ raiser[r].at = "made" /\ raiser'[r].at = "adding"
            /\ raiser'[r].event = raiser[r].event
         \/ /\ raiser[r].at = "adding" /\ raiser'[r].at = "adding"
            /\ raiser'[r].event = raiser[r].event
            /\ \A j \in DOMAIN raiser'[r].left : \E k \in DOMAIN raiser[r].left :
                  raiser'[r].left[j] = raiser[r].left[k]
  PROVE  EventInv'
<1>1. \A q \in Raisers : raiser'[q].at # "idle" =>
         raiser[q].at # "idle" /\ raiser'[q].event = raiser[q].event
  OBVIOUS
<1>2. \A q \in Raisers : raiser'[q].at # "idle" => raiser'[q].event \in 1 .. count'
  BY <1>1 DEF EventInv
<1>3. \A q, p \in Raisers :
         /\ raiser'[q].at # "idle" /\ raiser'[p].at # "idle"
         /\ raiser'[p].event = raiser'[q].event
         => q = p
  BY <1>1 DEF EventInv
<1>4. \A q \in Raisers, s \in Subs : \A i \in DOMAIN added[s] :
         added[s][i] = raiser'[q].event =>
            /\ raiser'[q].at # "made"
            /\ raiser'[q].at = "adding" =>
                  /\ i = Len(added[s])
                  /\ \A j \in DOMAIN raiser'[q].left : raiser'[q].left[j] # s
  BY DEF EventInv
<1> QED BY <1>2, <1>3, <1>4 DEF EventInv

LEMMA EventsAdded ==
  ASSUME RaiserType, QueueType, ClientType, LockInv, EventInv, NEW r \in Raisers, AddNext(r)
  PROVE  EventInv'
<1> DEFINE s == raiser[r].left[1]
           e == raiser[r].event
           left == raiser[r].left
<1>1. /\ s \in Subs /\ e \in 1 .. MaxEvents /\ e \in 1 .. count /\ lock = r
      /\ raiser[r].at = "adding" /\ 1 \in DOMAIN left
      /\ UNCHANGED <<queue, dropped, added>> \/ AddTo(s, e)
      /\ UNCHANGED <<taken, told>>
  BY AddNextFacts
<1>2. /\ raiser' = [raiser EXCEPT ![r].left = Tail(left)] /\ count' = count
      /\ left \in Seq(Subs) /\ left # <<>>
  BY DEF AddNext, RaiserType
<1>3. /\ \A j \in DOMAIN Tail(left) : j + 1 \in DOMAIN left /\ Tail(left)[j] = left[j + 1]
      /\ DOMAIN Tail(left) = 1 .. Len(left) - 1
  BY <1>2, TailFacts
<1>4. /\ \A q \in Raisers \ {r} : raiser'[q] = raiser[q]
      /\ raiser'[r].at = "adding" /\ raiser'[r].event = e /\ raiser'[r].left = Tail(left)
      /\ \A q \in Raisers : raiser'[q].at = raiser[q].at /\ raiser'[q].event = raiser[q].event
  BY <1>1, <1>2 DEF RaiserType
<1>5. CASE UNCHANGED added
  BY <1>1, <1>2, <1>3, <1>4, <1>5, EventsPassed
<1>6. CASE AddTo(s, e)
  <2>1. /\ \A u \in Subs \ {s} : added'[u] = added[u]
        /\ added'[s] = Append(added[s], e) /\ added[s] \in Seq(1 .. MaxEvents)
    <3> HIDE DEF s, e, left
    <3>1. (\A u \in Subs \ {s} : Same(u) /\ client'[u] = client[u]) /\ Put(s, e)
      BY <1>1, <1>6, HandedOut
    <3> QED BY <1>1, <3>1 DEF Same, Put, QueueType
  <2> DEFINE n == Len(added[s])
  <2>2. /\ n \in Nat /\ DOMAIN added[s] = 1 .. n /\ DOMAIN added'[s] = 1 .. n + 1
        /\ Len(added'[s]) = n + 1 /\ added'[s][n + 1] = e
        /\ \A i \in 1 .. n : added'[s][i] = added[s][i]
    BY <1>1, <2>1, GrowFacts
  <2>3. \A i \in 1 .. n : added[s][i] # e
    BY <1>1, <2>2 DEF EventInv
  <2>4. \A j \in DOMAIN Tail(left) : Tail(left)[j] # s
    <3>1. IsInjective(left) /\ Len(left) \in Nat
      BY <1>1, <1>2, LenProperties DEF LockInv
    <3>2. \A j \in DOMAIN Tail(left) : j + 1 # 1
      BY <1>3, <3>1
    <3> QED BY <1>1, <1>3, <3>1, <3>2 DEF IsInjective
  <2> HIDE DEF s, e, left, n
  <2>5. \A q \in Raisers : raiser'[q].at # "idle" => raiser'[q].event \in 1 .. count'
    BY <1>2, <1>4 DEF EventInv
  <2>6. \A q, p \in Raisers :
           /\ raiser'[q].at # "idle" /\ raiser'[p].at # "idle"
           /\ raiser'[p].event = raiser'[q].event
           => q = p
    BY <1>4 DEF EventInv
  <2>7. \A u \in Subs : \A i \in DOMAIN added'[u] : added'[u][i] \in 1 .. count'
    <3>1. \A i \in 1 .. n : added[s][i] \in 1 .. count
      BY <1>1, <2>2 DEF EventInv
    <3>2. \A i \in DOMAIN added'[s] : added'[s][i] \in 1 .. count'
      BY <1>1, <1>2, <2>2, <3>1
    <3> QED BY <1>2, <2>1, <3>2 DEF EventInv
  <2>8. \A u \in Subs : \A i, j \in DOMAIN added'[u] : added'[u][i] = added'[u][j] => i = j
    <3>1. \A i, j \in 1 .. n : added[s][i] = added[s][j] => i = j
      BY <1>1, <2>2 DEF EventInv
    <3>2. \A i, j \in 1 .. n + 1 : added'[s][i] = added'[s][j] => i = j
      BY <2>2, <2>3, <3>1
    <3> QED BY <2>1, <2>2, <3>2 DEF EventInv
  <2>9. ASSUME NEW q \in Raisers, NEW u \in Subs, NEW i \in DOMAIN added'[u],
               added'[u][i] = raiser'[q].event
        PROVE  /\ raiser'[q].at # "made"
               /\ raiser'[q].at = "adding" =>
                     /\ i = Len(added'[u])
                     /\ \A j \in DOMAIN raiser'[q].left : raiser'[q].left[j] # u
    <3>1. ASSUME raiser'[q].at # "idle" PROVE q = r \/ raiser[q].event # e
      BY <1>1, <1>4, <3>1 DEF EventInv, e
    <3>2. raiser'[q].at = "adding" => q = r
      BY <1>1, <1>4 DEF LockInv
    <3>3. \A j \in DOMAIN Tail(left) : j + 1 \in DOMAIN left /\ Tail(left)[j] = left[j + 1]
      BY <1>3
    <3>4. CASE u # s
      <4>1. i \in DOMAIN added[u] /\ added'[u] = added[u] /\ added[u][i] = raiser[q].event
        BY <1>4, <2>1, <2>9, <3>4
      <4>2. /\ raiser[q].at # "made"
            /\ raiser[q].at = "adding" =>
                  i = Len(added[u]) /\ \A j \in DOMAIN raiser[q].left : raiser[q].left[j] # u
        BY <4>1 DEF EventInv
      <4>3. raiser'[q].at # "made"
        BY <1>4, <4>2
      <4>4. ASSUME raiser'[q].at = "adding"
            PROVE  i = Len(added'[u]) /\ \A j \in DOMAIN raiser'[q].left : raiser'[q].left[j] # u
        <5>1. q = r /\ i = Len(added[u]) /\ \A j \in DOMAIN left : left[j] # u
          BY <1>4, <3>2, <4>2, <4>4 DEF left
        <5>2. \A j \in DOMAIN Tail(left) : Tail(left)[j] # u
          BY <3>3, <5>1
        <5> QED BY <1>4, <4>1, <5>1, <5>2
      <4> QED BY <4>3, <4>4
    <3>5. CASE u = s /\ i = n + 1
      BY <1>1, <1>4, <2>2, <2>4, <2>9, <3>1, <3>2, <3>5
    <3>6. CASE u = s /\ i \in 1 .. n
      <4>1. i \in DOMAIN added[s] /\ added[s][i] = raiser[q].event
        BY <1>4, <2>2, <2>9, <3>6
      <4>2. q # r
        BY <1>4, <2>2, <2>3, <2>9, <3>6
      <4> QED BY <1>1, <1>4, <3>2, <3>6, <4>1, <4>2 DEF EventInv
    <3> QED BY <2>2, <3>4, <3>5, <3>6
  <2> QED BY <2>5, <2>6, <2>7, <2>8, <2>9 DEF EventInv
<1> QED BY <1>1, <1>5, <1>6

LEMMA EventsKept ==
  ASSUME RaiserType, QueueType, ClientType, LockInv, EventInv, RaiserMoves
  PROVE  EventInv'
<1>1. CASE RaisersRest /\ ListStays
  BY <1>1 DEF RaisersRest, EventInv
<1>2. ASSUME NEW r \in Raisers, NEW t \in Topics, Raise(r, t) PROVE EventInv'
  BY <1>2, EventsRaised
<1>3. ASSUME NEW r \in Raisers, HandOut(r) PROVE EventInv'
  <2>1. /\ raiser[r].at = "made" /\ added' = added /\ count' = count
        /\ \A q \in Raisers \ {r} : raiser'[q] = raiser[q]
        /\ raiser'[r].at = "adding" /\ raiser'[r].event = raiser[r].event
    BY <1>3 DEF HandOut, RaiserType, history
  <2> QED BY <2>1, EventsPassed
<1>4. ASSUME NEW r \in Raisers, AddNext(r) PROVE EventInv'
  BY <1>4, EventsAdded
<1>5. ASSUME NEW r \in Raisers, Raised(r) PROVE EventInv'
  <2>1. /\ added' = added /\ count' = count
        /\ \A q \in Raisers \ {r} : raiser'[q] = raiser[q]
        /\ raiser'[r].at = "idle"
    BY <1>5 DEF Raised, RaiserType, history, Quiet
  <2> QED BY <2>1, EventsPassed
<1> QED BY <1>1, <1>2, <1>3, <1>4, <1>5 DEF RaiserMoves

-----------------------------------------------------------------------------
(* Who was due an event keeps its claim on it.                             *)
LEMMA DueKept ==
  ASSUME ListType, RaiserType, QueueType, ClientType, LockInv, ListedInv, EventInv, DueInv,
         RaiserMoves, FiltersMove,
         \A s \in Subs : IsListed(s)' => IsListed(s) \/ client[s] = "none",
         \A s \in Subs : client[s] # "none" => client'[s] # "none"
  PROVE  DueInv'
<1>1. \A s \in Subs : client[s] # "none" => filter'[s] = filter[s]
  BY DEF FiltersMove
<1>2. \A r \in Raisers : \A s \in due[r] :
         /\ s \in Subs /\ raiser[r].at # "idle" /\ client'[s] # "none"
         /\ Fits(filter'[s], raiser[r].topic) /\ (IsListed(s)' => IsListed(s))
  <2>1. \A r \in Raisers : due[r] \subseteq Subs /\ raiser[r].topic \in Topics
    BY DEF RaiserType
  <2> QED BY <1>1, <2>1 DEF DueInv
<1>3. CASE RaisersRest /\ ListStays
  BY <1>2, <1>3 DEF RaisersRest, DueInv
<1>4. ASSUME NEW r \in Raisers, NEW t \in Topics, Raise(r, t) PROVE DueInv'
  <2>1. /\ raiser'[r].at = "made" /\ raiser'[r].topic = t /\ due'[r] = Wanting(t)
        /\ \A q \in Raisers \ {r} : raiser'[q] = raiser[q] /\ due'[q] = due[q]
        /\ added' = added /\ client' = client /\ filter' = filter
    BY <1>4 DEF Raise, RaiserType, history, queues
  <2>2. \A s \in Wanting(t) : client'[s] # "none" /\ Fits(filter'[s], t)
    <3>1. \A s \in ToSet(listed) : s \in Subs
      BY LenProperties DEF ListType, ToSet
    <3> QED BY <2>1, <3>1 DEF Wanting, ListedInv, IsListed, Wants, Fits
  <2>3. \A s \in due'[r] : raiser'[r].at = "made" /\ client'[s] # "none" /\ Fits(filter'[s], raiser'[r].topic)
    BY <2>1, <2>2
  <2> QED BY <1>2, <2>1, <2>3 DEF DueInv
<1>5. ASSUME NEW r \in Raisers, HandOut(r) PROVE DueInv'
  <2>1. /\ raiser'[r].at = "adding" /\ raiser'[r].topic = raiser[r].topic
        /\ raiser'[r].left = listed /\ due' = due
        /\ \A q \in Raisers \ {r} : raiser'[q] = raiser[q]
        /\ added' = added
    BY <1>5 DEF HandOut, RaiserType, history
  <2>2. \A s \in Subs : IsListed(s) => \E i \in DOMAIN listed : listed[i] = s
    BY DEF IsListed, ToSet
  <2> QED BY <1>2, <2>1, <2>2 DEF DueInv
<1>6. ASSUME NEW r \in Raisers, AddNext(r) PROVE DueInv'
  <2> DEFINE u == raiser[r].left[1]
             e == raiser[r].event
             left == raiser[r].left
  <2>1. /\ u \in Subs /\ e \in 1 .. MaxEvents /\ lock = r /\ raiser[r].at = "adding"
        /\ 1 \in DOMAIN left
        /\ \/ UNCHANGED added /\ ~Fits(filter[u], raiser[r].topic)
           \/ AddTo(u, e)
        /\ UNCHANGED <<taken, told>>
    <3>1. /\ u \in Subs /\ e \in 1 .. MaxEvents /\ lock = r /\ raiser[r].at = "adding"
          /\ 1 \in DOMAIN left /\ UNCHANGED <<taken, told>>
      BY <1>6, AddNextFacts
    <3>2. \/ UNCHANGED <<queue, dropped, added, client>> /\ ~Fits(filter[u], raiser[r].topic)
          \/ AddTo(u, e) /\ Fits(filter[u], raiser[r].topic)
      BY <1>6, AddNextFacts DEF Wants, Fits
    <3> QED BY <3>1, <3>2
  <2>2. /\ raiser' = [raiser EXCEPT ![r].left = Tail(left)] /\ due' = due
        /\ left \in Seq(Subs) /\ left # <<>>
    BY <1>6 DEF AddNext, RaiserType
  <2>3. \A j \in DOMAIN left : j = 1 \/ (j - 1 \in DOMAIN Tail(left) /\ Tail(left)[j - 1] = left[j])
    BY <2>2, TailFacts
  <2>4. /\ \A q \in Raisers \ {r} : raiser'[q] = raiser[q]
        /\ raiser'[r].at = "adding" /\ raiser'[r].event = e /\ raiser'[r].left = Tail(left)
        /\ raiser'[r].topic = raiser[r].topic
    BY <2>1, <2>2 DEF RaiserType
  <2> HIDE DEF u, e, left
  <2>5. /\ \A s \in Subs : \A i \in DOMAIN added[s] : i \in DOMAIN added'[s] /\ added'[s][i] = added[s][i]
        /\ Fits(filter[u], raiser[r].topic) => \E i \in DOMAIN added'[u] : added'[u][i] = e
    <3>1. CASE AddTo(u, e)
      <4>1. (\A s \in Subs \ {u} : Same(s) /\ client'[s] = client[s]) /\ Put(u, e)
        BY <2>1, <3>1, HandedOut
      <4>2. added'[u] = Append(added[u], e) /\ added[u] \in Seq(1 .. MaxEvents)
            /\ \A s \in Subs \ {u} : added'[s] = added[s]
        BY <2>1, <4>1 DEF Same, Put, QueueType
      <4>3. /\ Len(added[u]) \in Nat /\ DOMAIN added[u] = 1 .. Len(added[u])
            /\ DOMAIN added'[u] = 1 .. Len(added[u]) + 1
            /\ \A i \in 1 .. Len(added[u]) : added'[u][i] = added[u][i]
            /\ added'[u][Len(added[u]) + 1] = e
        BY <2>1, <4>2, GrowFacts
      <4>4. \E i \in DOMAIN added'[u] : added'[u][i] = e
        BY <4>3
      <4>5. \A i \in DOMAIN added[u] : i \in DOMAIN added'[u] /\ added'[u][i] = added[u][i]
        BY <4>3
      <4> QED BY <4>2, <4>4, <4>5
    <3>2. CASE UNCHANGED added /\ ~Fits(filter[u], raiser[r].topic)
      BY <3>2
    <3> QED BY <2>1, <3>1, <3>2
  <2>6. ASSUME NEW s \in due[r], IsListed(s)'
        PROVE  \/ \E i \in DOMAIN raiser'[r].left : raiser'[r].left[i] = s
               \/ \E i \in DOMAIN added'[s] : added'[s][i] = raiser'[r].event
    <3>1. /\ s \in Subs /\ Fits(filter[s], raiser[r].topic)
          /\ \/ \E i \in DOMAIN left : left[i] = s
             \/ \E i \in DOMAIN added[s] : added[s][i] = e
      BY <1>2, <2>1, <2>6 DEF DueInv, left, e
    <3>2. CASE \E i \in DOMAIN added[s] : added[s][i] = e
      BY <2>4, <2>5, <3>1, <3>2
    <3>3. CASE s = u
      BY <2>4, <2>5, <3>1, <3>3
    <3>4. ASSUME s # u, NEW i \in DOMAIN left, left[i] = s
          PROVE  \E j \in DOMAIN raiser'[r].left : raiser'[r].left[j] = s
      <4>1. i # 1
        BY <3>4 DEF u, left
      <4> QED BY <2>3, <2>4, <3>4, <4>1
    <3> QED BY <3>1, <3>2, <3>3, <3>4
  <2>7. \A q \in Raisers \ {r} : raiser[q].at # "adding"
    BY <2>1 DEF LockInv
  <2>8. ASSUME NEW q \in Raisers, NEW s \in due[q]
        PROVE  /\ raiser'[q].at # "idle" /\ client'[s] # "none" /\ Fits(filter'[s], raiser'[q].topic)
               /\ raiser'[q].at = "adding" /\ IsListed(s)' =>
                     \/ \E i \in DOMAIN raiser'[q].left : raiser'[q].left[i] = s
                     \/ \E i \in DOMAIN added'[s] : added'[s][i] = raiser'[q].event
    <3>1. CASE q = r
      BY <1>2, <2>4, <2>6, <2>8, <3>1
    <3>2. CASE q # r
      BY <1>2, <2>4, <2>7, <2>8, <3>2
    <3> QED BY <3>1, <3>2
  <2> QED BY <2>2, <2>8 DEF DueInv
<1>7. ASSUME NEW r \in Raisers, Raised(r) PROVE DueInv'
  <2>1. /\ due'[r] = {}
        /\ \A q \in Raisers \ {r} : raiser'[q] = raiser[q] /\ due'[q] = due[q]
        /\ added' = added
    BY <1>7 DEF Raised, RaiserType, history
  <2> QED BY <1>2, <2>1 DEF DueInv
<1> QED BY <1>3, <1>4, <1>5, <1>6, <1>7 DEF RaiserMoves

-----------------------------------------------------------------------------
(* All see one order: what is put in a queue is the newest of every queue  *)
(* that has it.                                                            *)
LEMMA OrderKept ==
  ASSUME RaiserType, QueueType, ClientType, LockInv, EventInv, SameOrderEverywhere, RaiserMoves
  PROVE  SameOrderEverywhere'
<1>1. CASE UNCHANGED added
  BY <1>1 DEF SameOrderEverywhere
<1>2. ASSUME NEW r \in Raisers, AddNext(r), ~UNCHANGED added PROVE SameOrderEverywhere'
  <2> DEFINE s == raiser[r].left[1]
             e == raiser[r].event
             n == Len(added[s])
  <2>1. /\ s \in Subs /\ e \in 1 .. MaxEvents /\ raiser[r].at = "adding"
        /\ 1 \in DOMAIN raiser[r].left /\ AddTo(s, e) /\ UNCHANGED <<taken, told>>
    BY <1>2, AddNextFacts
  <2>2. /\ \A u \in Subs : \A i \in DOMAIN added[u] : added[u][i] = e => u # s /\ i = Len(added[u])
        /\ \A u \in Subs : \A i, j \in DOMAIN added[u] : added[u][i] = added[u][j] => i = j
    BY <2>1 DEF EventInv
  <2>3. \A u \in Subs : Len(added[u]) \in Nat /\ DOMAIN added[u] = 1 .. Len(added[u])
    BY LenProperties DEF QueueType
  <2> HIDE DEF s, e
  <2>4. /\ \A u \in Subs \ {s} : added'[u] = added[u]
        /\ added'[s] = Append(added[s], e) /\ added[s] \in Seq(1 .. MaxEvents)
    <3>1. (\A u \in Subs \ {s} : Same(u) /\ client'[u] = client[u]) /\ Put(s, e)
      BY <2>1, HandedOut
    <3> QED BY <2>1, <3>1 DEF Same, Put, QueueType
  <2>5. /\ n \in Nat /\ DOMAIN added'[s] = 1 .. n + 1
        /\ added'[s][n + 1] = e /\ \A i \in 1 .. n : added'[s][i] = added[s][i]
    BY <2>1, <2>4, GrowFacts
  <2> HIDE DEF n
  <2>6. ASSUME NEW u \in Subs \ {s}, NEW i \in DOMAIN added'[s], NEW j \in DOMAIN added'[s],
               NEW k \in DOMAIN added[u], NEW l \in DOMAIN added[u],
               added'[s][i] = added[u][k], added'[s][j] = added[u][l]
        PROVE  i < j <=> k < l
    <3>1. CASE i \in 1 .. n /\ j \in 1 .. n
      <4>1. /\ i \in DOMAIN added[s] /\ j \in DOMAIN added[s]
            /\ added[s][i] = added[u][k] /\ added[s][j] = added[u][l]
        BY <2>1, <2>3, <2>5, <2>6, <3>1 DEF n
      <4> QED BY <2>1, <2>6, <4>1 DEF SameOrderEverywhere
    <3>2. CASE i = n + 1 /\ j = n + 1
      <4>1. k = Len(added[u]) /\ l = Len(added[u])
        BY <2>2, <2>5, <2>6, <3>2
      <4> QED BY <2>3, <3>2, <4>1
    <3>3. CASE i = n + 1 /\ j \in 1 .. n
      <4>1. k = Len(added[u]) /\ l <= Len(added[u])
        BY <2>2, <2>3, <2>5, <2>6, <3>3
      <4> QED BY <2>3, <2>5, <3>3, <4>1
    <3>4. CASE i \in 1 .. n /\ j = n + 1
      <4>1. l = Len(added[u]) /\ k <= Len(added[u])
        BY <2>2, <2>3, <2>5, <2>6, <3>4
      <4>2. added[s][i] # e /\ added[u][k] = added[s][i] /\ added[u][l] = e
        BY <2>1, <2>2, <2>3, <2>5, <2>6, <3>4 DEF n
      <4>3. k # l
        BY <4>2
      <4> QED BY <2>3, <2>5, <3>4, <4>1, <4>3
    <3> QED BY <2>5, <3>1, <3>2, <3>3, <3>4
  <2>7. ASSUME NEW i \in DOMAIN added'[s], NEW j \in DOMAIN added'[s], added'[s][i] = added'[s][j]
        PROVE  i = j
    <3>1. \A k \in 1 .. n : added'[s][k] # e
      BY <2>1, <2>2, <2>3, <2>5 DEF n
    <3>2. \A k, l \in 1 .. n : added[s][k] = added[s][l] => k = l
      BY <2>1, <2>2, <2>3 DEF n
    <3> QED BY <2>5, <2>7, <3>1, <3>2
  <2>8. ASSUME NEW t \in Subs, NEW u \in Subs,
               NEW i \in DOMAIN added'[t], NEW j \in DOMAIN added'[t],
               NEW k \in DOMAIN added'[u], NEW l \in DOMAIN added'[u],
               added'[t][i] = added'[u][k], added'[t][j] = added'[u][l]
        PROVE  i < j <=> k < l
    <3>1. CASE t # s /\ u # s
      BY <2>4, <2>8, <3>1 DEF SameOrderEverywhere
    <3>2. CASE t = s /\ u # s
      <4>1. /\ i \in DOMAIN added'[s] /\ j \in DOMAIN added'[s] /\ u \in Subs \ {s}
            /\ k \in DOMAIN added[u] /\ l \in DOMAIN added[u]
            /\ added'[s][i] = added[u][k] /\ added'[s][j] = added[u][l]
        BY <2>4, <2>8, <3>2
      <4> QED BY <2>6, <4>1, <3>2
    <3>3. CASE t # s /\ u = s
      <4>1. /\ k \in DOMAIN added'[s] /\ l \in DOMAIN added'[s] /\ t \in Subs \ {s}
            /\ i \in DOMAIN added[t] /\ j \in DOMAIN added[t]
            /\ added'[s][k] = added[t][i] /\ added'[s][l] = added[t][j]
        BY <2>4, <2>8, <3>3
      <4>2. k < l <=> i < j
        BY <2>6, <4>1
      <4> QED BY <4>2
    <3>4. CASE t = s /\ u = s
      BY <2>7, <2>8, <3>4
    <3> QED BY <3>1, <3>2, <3>3, <3>4
  <2> QED BY <2>8 DEF SameOrderEverywhere
<1>3. ASSUME NEW r \in Raisers, NEW t \in Topics, Raise(r, t) PROVE UNCHANGED added
  BY <1>3 DEF Raise, history
<1>4. ASSUME NEW r \in Raisers, HandOut(r) \/ Raised(r) PROVE UNCHANGED added
  BY <1>4 DEF HandOut, Raised, history
<1> QED BY <1>1, <1>2, <1>3, <1>4 DEF RaiserMoves, RaisersRest

-----------------------------------------------------------------------------
(* A queue stays the end of what was added, and the count comes out.       *)
CountOf(s) == Len(added[s]) = Len(taken[s]) + told[s] + Len(queue[s]) + dropped[s]

LEMMA SameKept ==
  ASSUME NEW s \in Subs, Same(s), QueueOf(s), CountOf(s)
  PROVE  QueueOf(s)' /\ CountOf(s)'
BY DEF Same, QueueOf, CountOf

LEMMA PutKept ==
  ASSUME QueueType, NEW s \in Subs, NEW e \in 1 .. MaxEvents, Put(s, e), QueueOf(s), CountOf(s)
  PROVE  QueueOf(s)' /\ CountOf(s)'
<1> DEFINE a == added[s]
           b == added'[s]
           q == queue[s]
           p == queue'[s]
           t == taken[s]
<1>1. /\ Len(a) \in Nat /\ Len(q) \in Nat /\ Len(t) \in Nat /\ Len(p) \in Nat \ {0}
      /\ told[s] \in Nat /\ dropped[s] \in Nat
      /\ b = Append(a, e) /\ a \in Seq(1 .. MaxEvents) /\ taken'[s] = t /\ told'[s] = told[s]
      /\ p[Len(p)] = e
  BY LenProperties DEF QueueType, Put
<1>2. /\ \/ /\ Len(q) = Capacity /\ Len(p) = Len(q) /\ dropped'[s] = dropped[s] + 1
            /\ \A i \in 1 .. Len(q) - 1 : p[i] = q[i + 1]
         \/ /\ Len(q) < Capacity /\ Len(p) = Len(q) + 1 /\ dropped'[s] = dropped[s]
            /\ \A i \in 1 .. Len(q) : p[i] = q[i]
  BY DEF Put
<1>3. /\ Len(q) <= Len(a)
      /\ \A i \in 1 .. Len(q) : q[i] = a[Len(a) - Len(q) + i]
      /\ \A i \in 1 .. Len(t) : \E k \in 1 .. Len(a) - Len(q) : a[k] = t[i]
      /\ \A i, j \in 1 .. Len(t) :
            i < j => \E k, l \in 1 .. Len(a) - Len(q) : k < l /\ a[k] = t[i] /\ a[l] = t[j]
  BY DEF QueueOf, EndOf, Within
<1>4. Len(a) = Len(t) + told[s] + Len(q) + dropped[s]
  BY DEF CountOf
<1>5. /\ Len(b) = Len(a) + 1 /\ b[Len(a) + 1] = e
      /\ \A i \in 1 .. Len(a) : b[i] = a[i]
  BY <1>1, GrowFacts
<1> HIDE DEF a, b, p, q, t
<1>6. Len(p) <= Len(b) /\ Len(a) - Len(q) <= Len(b) - Len(p)
  BY <1>1, <1>2, <1>3, <1>5
<1>7. ASSUME NEW i \in 1 .. Len(p) PROVE p[i] = b[Len(b) - Len(p) + i]
  <2>1. CASE i = Len(p)
    <3>1. Len(b) - Len(p) + i = Len(a) + 1
      BY <1>1, <1>5, <2>1
    <3> QED BY <1>1, <1>5, <2>1, <3>1
  <2>2. CASE i # Len(p) /\ Len(p) = Len(q) /\ \A j \in 1 .. Len(q) - 1 : p[j] = q[j + 1]
    <3>1. i \in 1 .. Len(q) - 1 /\ i + 1 \in 1 .. Len(q)
      BY <1>1, <2>2
    <3>2. p[i] = a[Len(a) - Len(q) + (i + 1)]
      BY <1>3, <2>2, <3>1
    <3>3. /\ Len(a) - Len(q) + (i + 1) \in 1 .. Len(a)
          /\ Len(a) - Len(q) + (i + 1) = Len(b) - Len(p) + i
      BY <1>1, <1>3, <1>5, <2>2, <3>1
    <3> QED BY <1>5, <3>2, <3>3
  <2>3. CASE i # Len(p) /\ Len(p) = Len(q) + 1 /\ \A j \in 1 .. Len(q) : p[j] = q[j]
    <3>1. i \in 1 .. Len(q)
      BY <1>1, <2>3
    <3>2. p[i] = a[Len(a) - Len(q) + i]
      BY <1>3, <2>3, <3>1
    <3>3. /\ Len(a) - Len(q) + i \in 1 .. Len(a)
          /\ Len(a) - Len(q) + i = Len(b) - Len(p) + i
      BY <1>1, <1>3, <1>5, <2>3, <3>1
    <3> QED BY <1>5, <3>2, <3>3
  <2> QED BY <1>2, <2>1, <2>2, <2>3
<1>8. \A k \in 1 .. Len(a) - Len(q) : k \in 1 .. Len(b) - Len(p) /\ b[k] = a[k]
  <2> TAKE k \in 1 .. Len(a) - Len(q)
  <2>1. k \in 1 .. Len(a) /\ k \in 1 .. Len(b) - Len(p)
    BY <1>1, <1>5, <1>6
  <2> QED BY <1>5, <2>1
<1>9. \A i \in 1 .. Len(t) : \E k \in 1 .. Len(b) - Len(p) : b[k] = t[i]
  BY <1>3, <1>8
<1>10. \A i, j \in 1 .. Len(t) :
          i < j => \E k, l \in 1 .. Len(b) - Len(p) : k < l /\ b[k] = t[i] /\ b[l] = t[j]
  <2> SUFFICES ASSUME NEW i \in 1 .. Len(t), NEW j \in 1 .. Len(t), i < j
               PROVE  \E k, l \in 1 .. Len(b) - Len(p) : k < l /\ b[k] = t[i] /\ b[l] = t[j]
    OBVIOUS
  <2>1. PICK k \in 1 .. Len(a) - Len(q), l \in 1 .. Len(a) - Len(q) :
           k < l /\ a[k] = t[i] /\ a[l] = t[j]
    BY <1>3
  <2> QED BY <1>8, <2>1
<1>11. Len(b) = Len(t) + told'[s] + Len(p) + dropped'[s]
  <2> DEFINE la == Len(a)
             lb == Len(b)
             lp == Len(p)
             lq == Len(q)
             lt == Len(t)
             d == dropped[s]
             dd == dropped'[s]
             o == told[s]
             oo == told'[s]
  <2>1. la \in Nat /\ lq \in Nat /\ lt \in Nat /\ o \in Nat /\ d \in Nat /\ oo = o /\ lb = la + 1
    BY <1>1, <1>5
  <2>2. la = lt + o + lq + d
    BY <1>4
  <2>3. (lp = lq /\ dd = d + 1) \/ (lp = lq + 1 /\ dd = d)
    BY <1>2
  <2> HIDE DEF la, lb, lp, lq, lt, d, dd, o, oo
  <2>4. lb = lt + oo + lp + dd
    BY <2>1, <2>2, <2>3
  <2> QED BY <2>4 DEF lb, lt, oo, lp, dd
<1>12. QueueOf(s)'
  <2>1. EndOf(p, b)
    BY <1>6, <1>7 DEF EndOf
  <2>2. Within(t, b, Len(b) - Len(p))
    BY <1>9, <1>10 DEF Within
  <2> QED BY <1>1, <2>1, <2>2 DEF QueueOf, p, b
<1>13. CountOf(s)'
  BY <1>1, <1>11 DEF CountOf, a, b, p, q, t
<1> QED BY <1>12, <1>13

LEMMA DrainKept ==
  ASSUME QueueType, NEW s \in Subs, Drain(s), UNCHANGED added, QueueOf(s), CountOf(s)
  PROVE  QueueOf(s)' /\ CountOf(s)' /\ \A u \in Subs \ {s} : Same(u)
<1> DEFINE a == added[s]
           q == queue[s]
           t == taken[s]
           u == taken'[s]
           la == Len(a)
           lq == Len(q)
           lt == Len(t)
           lu == Len(u)
<1>1. /\ a \in Seq(1 .. MaxEvents) /\ q \in Seq(1 .. MaxEvents) /\ t \in Seq(1 .. MaxEvents)
      /\ told[s] \in Nat /\ dropped[s] \in Nat
      /\ added'[s] = a /\ queue'[s] = <<>> /\ u = t \o q
      /\ told'[s] = told[s] + dropped[s] /\ dropped'[s] = 0
  BY DEF QueueType, Drain
<1>2. \A v \in Subs \ {s} : Same(v)
  BY DEF QueueType, Drain, Same
<1>3. /\ lq <= la
      /\ \A i \in 1 .. lq : q[i] = a[la - lq + i]
      /\ \A i \in 1 .. lt : \E k \in 1 .. la - lq : a[k] = t[i]
      /\ \A i, j \in 1 .. lt :
            i < j => \E k, l \in 1 .. la - lq : k < l /\ a[k] = t[i] /\ a[l] = t[j]
  BY DEF QueueOf, EndOf, Within
<1>4. la = lt + told[s] + lq + dropped[s]
  BY DEF CountOf
<1> HIDE DEF a, q, t, u
<1>5. /\ lu = lt + lq /\ lt \in Nat /\ lq \in Nat /\ la \in Nat
      /\ \A i \in 1 .. lt : u[i] = t[i]
      /\ \A i \in 1 .. lq : u[lt + i] = q[i]
  BY <1>1, JoinFacts, LenProperties
<1>6. Len(queue'[s]) = 0
  BY <1>1
<1> HIDE DEF la, lq, lt, lu
<1>7. ASSUME NEW i \in 1 .. lu PROVE i \in 1 .. lt \/ (i - lt \in 1 .. lq /\ u[i] = a[la - lq + (i - lt)])
  <2>1. CASE i <= lt
    BY <1>5, <2>1
  <2>2. CASE i > lt
    <3>1. i - lt \in 1 .. lq /\ lt + (i - lt) = i
      BY <1>5, <2>2
    <3>2. u[lt + (i - lt)] = q[i - lt]
      BY <1>5, <3>1
    <3> QED BY <1>3, <3>1, <3>2
  <2> QED BY <1>5, <2>1, <2>2
<1>8. ASSUME NEW i \in 1 .. lu PROVE \E k \in 1 .. la : a[k] = u[i]
  <2>1. CASE i \in 1 .. lt
    <3>1. PICK k \in 1 .. la - lq : a[k] = t[i]
      BY <1>3, <2>1
    <3> QED BY <1>5, <2>1, <3>1
  <2>2. CASE i - lt \in 1 .. lq /\ u[i] = a[la - lq + (i - lt)]
    <3>1. la - lq + (i - lt) \in 1 .. la
      BY <1>3, <1>5, <2>2
    <3> QED BY <2>2, <3>1
  <2> QED BY <1>7, <2>1, <2>2
<1>9. ASSUME NEW i \in 1 .. lu, NEW j \in 1 .. lu, i < j
      PROVE  \E k, l \in 1 .. la : k < l /\ a[k] = u[i] /\ a[l] = u[j]
  <2>1. CASE j \in 1 .. lt
    <3>1. i \in 1 .. lt
      BY <1>5, <1>9, <2>1
    <3>2. PICK k \in 1 .. la - lq, l \in 1 .. la - lq : k < l /\ a[k] = t[i] /\ a[l] = t[j]
      BY <1>3, <1>9, <2>1, <3>1
    <3>3. u[i] = t[i] /\ u[j] = t[j] /\ k \in 1 .. la /\ l \in 1 .. la
      BY <1>5, <2>1, <3>1
    <3> QED BY <3>2, <3>3
  <2>2. CASE i \in 1 .. lt /\ j - lt \in 1 .. lq /\ u[j] = a[la - lq + (j - lt)]
    <3>1. PICK k \in 1 .. la - lq : a[k] = t[i]
      BY <1>3, <2>2
    <3>2. k \in 1 .. la /\ la - lq + (j - lt) \in 1 .. la /\ k < la - lq + (j - lt)
      BY <1>3, <1>5, <2>2
    <3> QED BY <1>5, <2>2, <3>1, <3>2
  <2>3. CASE i - lt \in 1 .. lq /\ u[i] = a[la - lq + (i - lt)]
             /\ j - lt \in 1 .. lq /\ u[j] = a[la - lq + (j - lt)]
    <3>1. /\ la - lq + (i - lt) \in 1 .. la /\ la - lq + (j - lt) \in 1 .. la
          /\ la - lq + (i - lt) < la - lq + (j - lt)
      BY <1>3, <1>5, <1>9, <2>3
    <3> QED BY <2>3, <3>1
  <2>4. CASE i \notin 1 .. lt /\ j \in 1 .. lt
    BY <1>5, <1>9, <2>4
  <2> QED BY <1>7, <2>1, <2>2, <2>3, <2>4
<1>10. QueueOf(s)'
  <2>1. Len(queue'[s]) = 0 /\ added'[s] = a /\ taken'[s] = u
    BY <1>1, <1>6 DEF u
  <2>2. EndOf(queue'[s], a)
    BY <1>5, <2>1 DEF EndOf, la
  <2>3. Within(u, a, la)
    BY <1>8, <1>9 DEF Within, lu
  <2>4. Len(a) - Len(queue'[s]) = la
    BY <1>5, <2>1 DEF la
  <2> QED BY <2>1, <2>2, <2>3, <2>4 DEF QueueOf
<1>11. CountOf(s)'
  <2> DEFINE o == told[s]
             oo == told'[s]
             d == dropped[s]
             lqq == Len(queue'[s])
             dd == dropped'[s]
             laa == Len(added'[s])
             luu == Len(taken'[s])
  <2>1. o \in Nat /\ d \in Nat /\ oo = o + d /\ dd = 0 /\ lqq = 0 /\ laa = la /\ luu = lu
    BY <1>1, <1>6 DEF la, lu, u
  <2>2. la = lt + o + lq + d
    BY <1>4
  <2> HIDE DEF o, oo, d, lqq, dd, laa, luu
  <2>3. laa = luu + oo + lqq + dd
    BY <1>5, <2>1, <2>2
  <2> QED BY <2>3 DEF CountOf, laa, luu, oo, lqq, dd
<1> QED BY <1>2, <1>10, <1>11

LEMMA QueuesKept ==
  ASSUME QueueType, RaiserType, ClientType, LockInv, EventInv, QueueMoves,
         QueueInv, NothingLostUnsaid, NoEventWaitsUnheard
  PROVE  QueueInv' /\ NothingLostUnsaid' /\ NoEventWaitsUnheard'
<1>1. \A s \in Subs : QueueOf(s) /\ CountOf(s)
  BY DEF QueueInv, NothingLostUnsaid, CountOf
<1>2. ASSUME \A s \in Subs : QueueOf(s)' /\ CountOf(s)' PROVE QueueInv' /\ NothingLostUnsaid'
  BY <1>2 DEF QueueInv, NothingLostUnsaid, CountOf
<1>3. ASSUME QueuesRest PROVE (\A s \in Subs : Same(s)) /\ NoEventWaitsUnheard'
  BY <1>3 DEF QueuesRest, Same, NoEventWaitsUnheard, Waiting
<1>4. ASSUME NEW r \in Raisers, AddNext(r)
      PROVE  (\A s \in Subs : QueueOf(s)' /\ CountOf(s)') /\ NoEventWaitsUnheard'
  <2>1. PICK s \in Subs, e \in 1 .. MaxEvents :
           (UNCHANGED <<queue, dropped, added, client>> \/ AddTo(s, e)) /\ UNCHANGED <<taken, told>>
    BY <1>4, AddNextFacts
  <2>2. CASE UNCHANGED <<queue, dropped, added, client>>
    <3>1. \A u \in Subs : Same(u)
      BY <2>1, <2>2 DEF Same
    <3>2. NoEventWaitsUnheard'
      BY <2>2 DEF NoEventWaitsUnheard, Waiting
    <3> QED BY <1>1, <3>1, <3>2, SameKept
  <2>3. CASE AddTo(s, e)
    <3>1. /\ \A u \in Subs \ {s} : Same(u) /\ client'[u] = client[u]
          /\ Put(s, e) /\ client'[s] # "parked"
      BY <2>1, <2>3, HandedOut
    <3>2. QueueOf(s)' /\ CountOf(s)'
      BY <1>1, <2>1, <3>1, PutKept
    <3>3. \A u \in Subs \ {s} : QueueOf(u)' /\ CountOf(u)'
      BY <1>1, <3>1, SameKept
    <3>4. NoEventWaitsUnheard'
      BY <3>1 DEF NoEventWaitsUnheard, Waiting, Same
    <3> QED BY <3>2, <3>3, <3>4
  <2> QED BY <2>1, <2>2, <2>3
<1>5. ASSUME NEW s \in Subs, Drains(s)
      PROVE  (\A u \in Subs : QueueOf(u)' /\ CountOf(u)') /\ NoEventWaitsUnheard'
  <2>1. QueueOf(s)' /\ CountOf(s)' /\ \A u \in Subs \ {s} : Same(u)
    BY <1>1, <1>5, DrainKept DEF Drains
  <2>2. \A u \in Subs \ {s} : QueueOf(u)' /\ CountOf(u)' /\ client'[u] = client[u]
    BY <1>1, <1>5, <2>1, SameKept DEF Drains, ClientType
  <2>3. client'[s] = "idle"
    BY <1>5 DEF Drains, ClientType
  <2>4. NoEventWaitsUnheard'
    BY <2>1, <2>2, <2>3 DEF NoEventWaitsUnheard, Waiting, Same
  <2> QED BY <2>1, <2>2, <2>4
<1> QED BY <1>1, <1>2, <1>3, <1>4, <1>5, SameKept DEF QueueMoves

-----------------------------------------------------------------------------
(* The invariant holds after every step.                                   *)
LEMMA NextEInv == EInv /\ [EventsNext]_events_vars => EInv'
<1> SUFFICES ASSUME EInv, [EventsNext]_events_vars PROVE EInv'
  OBVIOUS
<1>1. /\ ListType /\ RaiserType /\ QueueType /\ ClientType
      /\ LockInv /\ ListedInv /\ EventInv /\ DueInv
      /\ NothingLostUnsaid /\ QueueInv /\ SameOrderEverywhere /\ NoEventWaitsUnheard
  BY TypeParts DEF EInv
<1>2. ListMoves /\ RaiserMoves /\ QueueMoves /\ FiltersMove
  BY <1>1, ListSteps, RaiserSteps, QueueSteps, FilterSteps
<1>3. /\ ListType' /\ ListedInv'
      /\ \A s \in Subs : IsListed(s)' => IsListed(s) \/ client[s] = "none"
      /\ \A s \in Subs : client[s] # "none" => client'[s] # "none"
  BY <1>1, <1>2, ListKept
<1>4. RaiserType' /\ LockInv'
  BY <1>1, <1>2, RaiserKept
<1>5. ClientType'
  BY <1>1, ClientTypeKept
<1>6. QueueType'
  <2>1. sized' \in [Subs -> Nat]
    BY <1>1, SizedKept
  <2> QED BY <1>1, <1>2, <2>1, QueueTypeKept
<1>7. EventInv'
  BY <1>1, <1>2, EventsKept
<1>8. DueInv'
  BY <1>1, <1>2, <1>3, DueKept
<1>9. SameOrderEverywhere'
  BY <1>1, <1>2, OrderKept
<1>10. QueueInv' /\ NothingLostUnsaid' /\ NoEventWaitsUnheard'
  BY <1>1, <1>2, QueuesKept
<1>11. EventsTypes'
  <2>1. ListType' /\ RaiserType' /\ QueueType' /\ ClientType' => EventsTypes'
    BY TypeParts, PTL
  <2> QED BY <1>3, <1>4, <1>5, <1>6, <2>1
<1> QED BY <1>3, <1>4, <1>7, <1>8, <1>9, <1>10, <1>11 DEF EInv

THEOREM AlwaysEInv == EventsSpec => []EInv
BY InitEInv, NextEInv, PTL DEF EventsSpec

-----------------------------------------------------------------------------
\* All subscriptions see one order, whoever raises (raise).
THEOREM OneOrder == EventsSpec => []SameOrderEverywhere
<1>1. EInv => SameOrderEverywhere
  BY DEF EInv
<1> QED BY <1>1, AlwaysEInv, PTL

\* A client never parks before an event or a drop it has to be told (wait, add).
THEOREM HeardAtOnce == EventsSpec => []NoEventWaitsUnheard
<1>1. EInv => NoEventWaitsUnheard
  BY DEF EInv
<1> QED BY <1>1, AlwaysEInv, PTL

\* Who wanted an event when it was made is given it, unless it left (raise).
THEOREM DueAreServed == EventsSpec => []EveryoneDueIsServed
<1>1. EInv => EveryoneDueIsServed
  <2> SUFFICES ASSUME EInv, NEW r \in Raisers,
                      raiser[r].at = "adding", raiser[r].left = <<>>,
                      NEW s \in due[r], IsListed(s)
               PROVE  raiser[r].event \in ToSet(added[s])
    BY DEF EveryoneDueIsServed
  <2>1. \/ \E i \in DOMAIN raiser[r].left : raiser[r].left[i] = s
        \/ \E i \in DOMAIN added[s] : added[s][i] = raiser[r].event
    BY DEF EInv, DueInv
  <2>2. DOMAIN raiser[r].left = {}
    BY EmptySeq
  <2> QED BY <2>1, <2>2 DEF ToSet
<1> QED BY <1>1, AlwaysEInv, PTL

\* Nothing is put in a queue once its unsubscribe has come back (remove).
THEOREM EndedHearNothing == EventsSpec => NothingAfterTheEnd
<1>1. EInv /\ [EventsNext]_events_vars => [\A s \in Subs : client[s] = "ended" => added'[s] = added[s]]_events_vars
  <2> SUFFICES ASSUME EInv, [EventsNext]_events_vars, NEW s \in Subs, client[s] = "ended"
               PROVE  added'[s] = added[s]
    OBVIOUS
  <2>1. /\ ListType /\ RaiserType /\ QueueType /\ ClientType
        /\ LockInv /\ ListedInv /\ EventInv
    BY TypeParts DEF EInv
  <2>2. RaiserMoves
    BY <2>1, RaiserSteps
  <2>3. ASSUME NEW r \in Raisers, AddNext(r) PROVE added'[s] = added[s]
    <3>1. PICK u \in Subs, e \in 1 .. MaxEvents :
             /\ IsListed(u) /\ UNCHANGED <<taken, told>>
             /\ UNCHANGED <<queue, dropped, added, client>> \/ AddTo(u, e)
      BY <2>1, <2>3, AddNextFacts
    <3>2. u # s
      BY <2>1, <3>1 DEF ListedInv
    <3>3. CASE AddTo(u, e)
      BY <2>1, <3>1, <3>2, <3>3, HandedOut DEF Same
    <3> QED BY <3>1, <3>3
  <2>4. ASSUME ~(\E r \in Raisers : AddNext(r)) PROVE added' = added
    BY <2>2, <2>4 DEF RaiserMoves, RaisersRest, Raise, HandOut, Raised, history
  <2> QED BY <2>3, <2>4
<1> QED BY <1>1, AlwaysEInv, PTL DEF EventsSpec, NothingAfterTheEnd

-----------------------------------------------------------------------------
(* A queue tells all.                                                      *)
LEMMA ReverseFacts ==
  ASSUME NEW S, NEW q \in Seq(S)
  PROVE  /\ Reverse(q) \in Seq(S) /\ Len(Reverse(q)) = Len(q) /\ Len(q) \in Nat
         /\ \A i \in 1 .. Len(q) : Reverse(q)[i] = q[Len(q) - i + 1] /\ Reverse(q)[i] \in S
<1> DEFINE n == Len(q)
<1>1. n \in Nat /\ \A i \in 1 .. n : q[i] \in S
  BY LenProperties
<1>2. Reverse(q) = [i \in 1 .. n |-> q[(n - i) + 1]]
  BY DEF Reverse
<1> HIDE DEF n
<1>3. \A i \in 1 .. n : (n - i) + 1 \in 1 .. n
  BY <1>1
<1>4. Reverse(q) \in [1 .. n -> S]
  BY <1>1, <1>2, <1>3
<1>5. Reverse(q) \in Seq(S) /\ Len(Reverse(q)) = n
  BY <1>1, <1>4, IsASeq, LenProperties
<1>6. \A i \in 1 .. n : Reverse(q)[i] = q[(n - i) + 1] /\ Reverse(q)[i] \in S
  BY <1>1, <1>2, <1>3
<1> QED BY <1>1, <1>5, <1>6 DEF n

LEMMA SuffixFacts ==
  ASSUME NEW S, NEW a \in Seq(S), NEW q \in Seq(S), Len(q) <= Len(a),
         \A i \in 1 .. Len(q) : q[i] = a[Len(a) - Len(q) + i]
  PROVE  IsSuffix(q, a)
<1> DEFINE n == Len(q)
           m == Len(a)
           b == Reverse(a)
           r == Reverse(q)
<1>1. /\ b \in Seq(S) /\ Len(b) = m /\ m \in Nat
      /\ \A i \in 1 .. m : b[i] = a[m - i + 1] /\ b[i] \in S
  BY ReverseFacts
<1>2. /\ r \in Seq(S) /\ Len(r) = n /\ n \in Nat
      /\ \A i \in 1 .. n : r[i] = q[n - i + 1] /\ r[i] \in S
  BY ReverseFacts
<1>3. n <= m /\ \A i \in 1 .. n : q[i] = a[m - n + i]
  OBVIOUS
<1> HIDE DEF n, m, b, r
<1>4. ASSUME NEW i \in 1 .. n PROVE r[i] = b[i] /\ b[i] \in S
  <2>0. n \in Nat /\ m \in Nat /\ n <= m
    BY <1>1, <1>2, <1>3
  <2>1. i \in 1 .. m /\ n - i + 1 \in 1 .. n /\ m - n + (n - i + 1) = m - i + 1
    BY <2>0
  <2>2. q[n - i + 1] = a[m - n + (n - i + 1)]
    BY <1>3, <2>1
  <2> QED BY <1>1, <1>2, <2>1, <2>2
<1>5. SubSeq(r, 1, n) = SubSeq(b, 1, n)
  <2> DEFINE c == SubSeq(r, 1, n)
             d == SubSeq(b, 1, n)
  <2>1. /\ c \in Seq(S) /\ Len(c) = IF 1 <= n THEN n - 1 + 1 ELSE 0
        /\ \A i \in 1 .. n - 1 + 1 : c[i] = r[1 + i - 1]
    BY <1>2, SubSeqProperties
  <2>2. /\ d \in Seq(S) /\ Len(d) = IF 1 <= n THEN n - 1 + 1 ELSE 0
        /\ \A i \in 1 .. n - 1 + 1 : d[i] = b[1 + i - 1]
    BY <1>2, <1>4, SubSeqProperties
  <2>3. n - 1 + 1 = n /\ (IF 1 <= n THEN n - 1 + 1 ELSE 0) = n
    BY <1>2
  <2>4. \A i \in 1 .. n : 1 + i - 1 = i
    BY <1>2
  <2> HIDE DEF c, d
  <2>5. Len(c) = n /\ Len(d) = n /\ \A i \in 1 .. n : c[i] = d[i]
    BY <1>4, <2>1, <2>2, <2>3, <2>4
  <2> QED BY <2>1, <2>2, <2>5, SeqEqual DEF c, d
<1>6. Len(r) <= Len(b) /\ SubSeq(r, 1, Len(r)) = SubSeq(b, 1, Len(r))
  BY <1>1, <1>2, <1>3, <1>5
<1> QED BY <1>6 DEF IsSuffix, IsPrefix, r, b

\* What a client drained, has still to drain and was told is lost make up all
\* it was given, in order (add, drain).
THEOREM AllIsTold == EventsSpec => []QueueTellsAll
<1>1. EInv => QueueTellsAll
  <2> SUFFICES ASSUME EInv PROVE QueueTellsAll
    OBVIOUS
  <2>1. EventsTypes /\ NothingLostUnsaid /\ QueueType /\ QueueInv
    BY TypeParts DEF EInv
  <2>2. ASSUME NEW s \in Subs PROVE IsSuffix(queue[s], added[s])
    BY <2>1, SuffixFacts DEF QueueType, QueueInv, QueueOf, EndOf
  <2>3. ASSUME NEW s \in Subs, NEW i \in DOMAIN taken[s], NEW j \in DOMAIN taken[s], i < j
        PROVE  \E k, l \in DOMAIN added[s] :
                  k < l /\ added[s][k] = taken[s][i] /\ added[s][l] = taken[s][j]
    <3>1. /\ DOMAIN taken[s] = 1 .. Len(taken[s]) /\ DOMAIN added[s] = 1 .. Len(added[s])
          /\ Len(added[s]) \in Nat /\ Len(queue[s]) \in Nat
      BY <2>1, LenProperties DEF QueueType
    <3> DEFINE a == added[s]
               t == taken[s]
               n == Len(added[s]) - Len(queue[s])
    <3>2. Within(t, a, n) /\ i \in 1 .. Len(t) /\ j \in 1 .. Len(t)
      BY <2>1, <3>1 DEF QueueInv, QueueOf
    <3>3. n \in Int /\ n <= Len(a)
      <4> DEFINE la == Len(added[s])
                 lq == Len(queue[s])
      <4>1. la \in Nat /\ lq \in Nat
        BY <3>1
      <4>2. n = la - lq /\ Len(a) = la
        OBVIOUS
      <4> HIDE DEF la, lq, n, a
      <4>3. la - lq \in Int /\ la - lq <= la
        BY <4>1, SMT
      <4> QED BY <4>2, <4>3
    <3> HIDE DEF a, t, n
    <3>4. PICK k \in 1 .. n, l \in 1 .. n : k < l /\ a[k] = t[i] /\ a[l] = t[j]
      BY <2>3, <3>2 DEF Within
    <3>5. k \in 1 .. Len(a) /\ l \in 1 .. Len(a)
      BY <3>1, <3>3 DEF a
    <3> QED BY <3>1, <3>4, <3>5 DEF a, t
  <2> QED BY <2>1, <2>2, <2>3 DEF QueueTellsAll, LatestKeptInOrder
<1> QED BY <1>1, AlwaysEInv, PTL
=============================================================================
