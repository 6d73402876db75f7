------------------------------ MODULE Sessions ------------------------------
(***************************************************************************)
(* The runtime's sessions (Platform/crystal/src/open.rs and runtime.rs):   *)
(* the list with the current one, sessions opened and closed by any        *)
(* thread, a change of disc as the example of a change, and the events     *)
(* that tell of them.                                                      *)
(*                                                                         *)
(* The list has a lock of its own, held for one step at a time.  What a    *)
(* session is asked is done under its gate (module SessionGate): here a    *)
(* close is one step under it, refused if the session is closed already,   *)
(* and a change of disc holds it from the change to the event.  An event   *)
(* raised is one more line of what was said (module Events).  Opens and    *)
(* changes refused before they touch anything shared are left out.         *)
(***************************************************************************)
EXTENDS Naturals, Sequences, FiniteSets, FiniteSetsExt

CONSTANTS
    Threads,      \* the threads holding the runtime
    MaxSessions,  \* opens in a run
    MaxChanges    \* changes of disc in a run

ASSUME BoundsAssumption == MaxSessions \in Nat /\ MaxChanges \in Nat

VARIABLES
    list,     \* the sessions open: they are found and taken out by id, and
              \* read in the order of their ids, never as they were added
    next,     \* the id the next open takes
    current,  \* the current session's id, 0 for none
    closed,   \* the sessions closed under their gate
    said,     \* the events raised, in order
    stage,    \* where each thread stands
    asked,    \* the id its call was given
    session,  \* the session it works on
    named,    \* the session its disc event will name
    changes,  \* changes of disc so far
    freed     \* the runtime is gone

listing == <<list, next, current>>
sessions_vars == <<list, next, current, closed, said, stage, asked, session,
    named, changes, freed>>

SessionIds == 1 .. MaxSessions

SessionsInit ==
    /\ list = {}
    /\ next = 1
    /\ current = 0
    /\ closed = {}
    /\ said = <<>>
    /\ stage = [t \in Threads |-> "idle"]
    /\ asked = [t \in Threads |-> 0]
    /\ session = [t \in Threads |-> 0]
    /\ named = [t \in Threads |-> 0]
    /\ changes = 0
    /\ freed = FALSE

AtStage(t, here) == stage[t] = here
GotoStage(t, there) == stage' = [stage EXCEPT ![t] = there]
\* A call comes back: what it had in hand is gone.
Return(t) ==
    /\ GotoStage(t, "idle")
    /\ asked' = [asked EXCEPT ![t] = 0]
    /\ session' = [session EXCEPT ![t] = 0]
    /\ named' = [named EXCEPT ![t] = 0]

Say(op, id) == said' = Append(said, [op |-> op, session |-> id])

IsOpen(id) == id \in list

\* The session an id names: 0 names the current one; 0 answers that none does.
Key(id) == IF id = 0 THEN current ELSE id
Get(id) == IF IsOpen(Key(id)) THEN Key(id) ELSE 0

-----------------------------------------------------------------------------
(* open().                                                                 *)

\* The engine is made, then the session's id taken.
NextId(t) ==
    /\ AtStage(t, "idle")
    /\ ~freed
    /\ next <= MaxSessions
    /\ session' = [session EXCEPT ![t] = next]
    /\ next' = next + 1
    /\ GotoStage(t, "adding")
    /\ UNCHANGED <<list, current, closed, said, asked, named, changes, freed>>

Add(t) ==
    /\ AtStage(t, "adding")
    /\ current' = session[t]
    /\ list' = list \union {session[t]}
    /\ GotoStage(t, "opened")
    /\ UNCHANGED <<next, closed, said, asked, session, named, changes, freed>>

SayOpened(t) ==
    /\ AtStage(t, "opened")
    /\ Say("opened", session[t])
    /\ Return(t)
    /\ UNCHANGED <<listing, closed, changes, freed>>

-----------------------------------------------------------------------------
(* close() and a change of disc: the session found first, used later.      *)

Find(t, id, then) ==
    /\ AtStage(t, "idle")
    /\ ~freed
    /\ Get(id) # 0
    /\ asked' = [asked EXCEPT ![t] = id]
    /\ session' = [session EXCEPT ![t] = Get(id)]
    /\ GotoStage(t, then)
    /\ UNCHANGED <<listing, closed, said, named, changes, freed>>

Inside == {"changed", "naming"}

\* Nobody holds the gate of a session.
GateFree(id) == \A t \in Threads : stage[t] \in Inside => session[t] # id

\* The change() both are made with: refused once the session is closed.
ChangeRefused(t) ==
    /\ stage[t] \in {"closing", "changing"}
    /\ GateFree(session[t])
    /\ session[t] \in closed
    /\ Return(t)
    /\ UNCHANGED <<listing, closed, said, changes, freed>>

\* A faulty CloseUnderGate: a session closed already is closed again.
CloseAgain(t) ==
    /\ AtStage(t, "closing")
    /\ GateFree(session[t])
    /\ closed' = closed \union {session[t]}
    /\ GotoStage(t, "removing")
    /\ UNCHANGED <<listing, said, asked, session, named, changes, freed>>

CloseUnderGate(t) ==
    /\ AtStage(t, "closing")
    /\ GateFree(session[t])
    /\ session[t] \notin closed
    /\ closed' = closed \union {session[t]}
    /\ GotoStage(t, "removing")
    /\ UNCHANGED <<listing, said, asked, session, named, changes, freed>>

\* The current one after a session has gone.
CurrentWithout(id) ==
    LET rest == list \ {id}
    IN  IF current # id THEN current
        ELSE IF rest = {} THEN 0 ELSE Max(rest)

\* A faulty TakeOut: the current session is left naming the one gone.
TakeOutStillCurrent(t) ==
    /\ AtStage(t, "removing")
    /\ list' = list \ {session[t]}
    /\ GotoStage(t, "closed")
    /\ UNCHANGED <<next, current, closed, said, asked, session, named, changes, freed>>

TakeOut(t) ==
    /\ AtStage(t, "removing")
    /\ list' = list \ {session[t]}
    /\ current' = CurrentWithout(session[t])
    /\ GotoStage(t, "closed")
    /\ UNCHANGED <<next, closed, said, asked, session, named, changes, freed>>

SayClosed(t) ==
    /\ AtStage(t, "closed")
    /\ Say("closed", session[t])
    /\ Return(t)
    /\ UNCHANGED <<listing, closed, changes, freed>>

\* The disc changed, under the gate.
ChangeDisc(t) ==
    /\ AtStage(t, "changing")
    /\ GateFree(session[t])
    /\ session[t] \notin closed
    /\ changes < MaxChanges
    /\ changes' = changes + 1
    /\ GotoStage(t, "changed")
    /\ UNCHANGED <<listing, closed, said, asked, session, named, freed>>

\* disc_event(): the id the call was given is looked up once more.
NameSession(t) ==
    /\ AtStage(t, "changed")
    /\ named' = [named EXCEPT ![t] = IF Get(asked[t]) # 0 THEN Get(asked[t]) ELSE asked[t]]
    /\ GotoStage(t, "naming")
    /\ UNCHANGED <<listing, closed, said, asked, session, changes, freed>>

SayDisc(t) ==
    /\ AtStage(t, "naming")
    /\ Say("disc", named[t])
    /\ Return(t)
    /\ UNCHANGED <<listing, closed, changes, freed>>

-----------------------------------------------------------------------------
\* The runtime freed, with no call in it: every session closed, by id.
FreeRuntime ==
    /\ ~freed
    /\ \A t \in Threads : AtStage(t, "idle")
    /\ freed' = TRUE
    /\ closed' = closed \union list
    /\ \E order \in [1 .. Cardinality(list) -> list] :
          /\ \A i, j \in DOMAIN order : i < j => order[i] < order[j]
          /\ said' = said \o [i \in DOMAIN order |->
                                 [op |-> "closed", session |-> order[i]]]
    /\ list' = {}
    /\ current' = 0
    /\ UNCHANGED <<next, stage, asked, session, named, changes>>

SessionStep(t) ==
    \/ NextId(t) \/ Add(t) \/ SayOpened(t)
    \/ \E id \in SessionIds \union {0} : Find(t, id, "closing") \/ Find(t, id, "changing")
    \/ ChangeRefused(t)
    \/ CloseUnderGate(t) \/ TakeOut(t) \/ SayClosed(t)
    \/ ChangeDisc(t) \/ NameSession(t) \/ SayDisc(t)

SessionsNext == (\E t \in Threads : SessionStep(t)) \/ FreeRuntime

SessionsSpec == SessionsInit /\ [][SessionsNext]_sessions_vars

-----------------------------------------------------------------------------
(* Every variable keeps its type.                                          *)
SessionTypes ==
    /\ list \subseteq SessionIds
    /\ next \in 1 .. MaxSessions + 1
    /\ current \in SessionIds \union {0}
    /\ closed \subseteq SessionIds
    /\ said \in Seq([op : {"opened", "closed", "disc"}, session : SessionIds \union {0}])
    /\ stage \in [Threads -> {"idle", "adding", "opened", "closing", "changing", "removing",
                           "closed", "changed", "naming"}]
    /\ asked \in [Threads -> SessionIds \union {0}]
    /\ session \in [Threads -> SessionIds \union {0}]
    /\ named \in [Threads -> SessionIds \union {0}]
    /\ changes \in 0 .. MaxChanges
    /\ freed \in BOOLEAN

(* The current session is one of those listed, and there is one whenever   *)
(* any is: however opens and closes on several threads interleave, session *)
(* 0 never names one gone, nor none while one is open (add, remove).       *)
CurrentIsListed ==
    IF list = {} THEN current = 0 ELSE IsOpen(current)

(* A closed session is on its way off the list, with exactly one thread    *)
(* taking it off: no close leaves it listed, and of two closes one is      *)
(* refused (close()'s gate comes before the list).                         *)
ClosedIsLeaving ==
    \A id \in SessionIds :
        /\ IsOpen(id) /\ id \in closed =>
              Cardinality({t \in Threads : AtStage(t, "removing") /\ session[t] = id}) = 1
        /\ id \notin closed => ~\E t \in Threads : AtStage(t, "removing") /\ session[t] = id

(* The list, its current session and the closes on their way agree.        *)
ListHoldsTogether == SessionTypes /\ CurrentIsListed /\ ClosedIsLeaving

(* A session's end is told of at most once, and an open one is never told  *)
(* of as ended: what a window shows as gone is gone.                       *)
EndToldOnce ==
    \A id \in SessionIds :
        LET ends == {i \in DOMAIN said : said[i] = [op |-> "closed", session |-> id]}
        IN  /\ Cardinality(ends) <= 1
            /\ ends # {} => id \in closed /\ ~IsOpen(id)

=============================================================================
