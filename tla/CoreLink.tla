------------------------------- MODULE CoreLink -------------------------------
(***************************************************************************)
(* A core in a process of its own (emusen-core-broker): the proxy's link   *)
(* to its runner (client.rs), the calls a machine's handle makes over it   *)
(* and the window of memory the proxy answers reads from (proxy.rs), and   *)
(* the runner that serves them (runner.rs, the watcher of its program).    *)
(*                                                                         *)
(* A call is a request on a socket and a reply, written as a head and a    *)
(* rest.  The core may answer at any time, late or never, refuse, or take  *)
(* its process down at any step; the process may also close its socket and *)
(* stay.  A deadline passes only while nothing lies unread, and the kill   *)
(* comes a step after it.  The host is one thread a machine, as the        *)
(* session's gate makes it, and may end at any step.                       *)
(*                                                                         *)
(* Memory is a few cells seen at a few addresses; what a call may do to it *)
(* is Changed.  A request fits the socket's buffer.                        *)
(***************************************************************************)
EXTENDS Integers, Sequences, FiniteSets

CONSTANTS
    Addrs,      \* the addresses a host reads and writes
    Cells,      \* the bytes behind them
    CellAt,     \* the cell an address shows
    ReadOnly,   \* the cells no write changes
    Values,     \* what a cell may hold
    MaxCalls,   \* requests sent in a run
    MaxRunners  \* runners started in a run

ASSUME MemoryAssumption ==
    /\ CellAt \in [Addrs -> Cells]
    /\ ReadOnly \subseteq Cells
    /\ MaxCalls \in Nat /\ MaxRunners \in Nat

VARIABLES
    handle,   \* none, starting, made, freeing: what the host has of the machine
    pc,       \* idle; waiting, head: in receive; late, reaping; dropping; died
    dead,     \* Link::dead: no, ended, hung
    op,       \* the call being made
    calls,    \* requests sent
    runners,  \* runners started
    process,  \* the runner: none, busy, reading, answering, leaving, ended
    request,  \* the call that lies unread at the runner's end, 0 for none
    doing,    \* the call the runner answers, and what it will say
    replies,  \* what lies unread at the proxy's end
    closed,   \* the proxy's end of the socket is shut
    answer,   \* the last reply taken: the call it was taken for and the call it is of
    memory,   \* the machine's memory
    held, valid, wanted   \* Window

link == <<dead, runners, closed>>
serving == <<process, request, doing, memory>>
window == <<held, valid, wanted>>
vars == <<handle, pc, op, calls, link, serving, replies, answer, window>>

Nothing == [a \in {} |-> 0]
Hello == [kind |-> "hello", at |-> {}, value |-> 0]
NoReply == [of |-> 0, ok |-> TRUE, got |-> Nothing]

Init ==
    /\ handle = "none" /\ pc = "idle" /\ dead = "no" /\ op = Hello
    /\ calls = 0 /\ runners = 0
    /\ process = "none" /\ request = 0 /\ doing = NoReply /\ replies = <<>>
    /\ closed = FALSE
    /\ answer = [for |-> 0, of |-> 0]
    /\ memory \in [Cells -> Values]
    /\ held = Nothing /\ valid = FALSE /\ wanted = {}

-----------------------------------------------------------------------------
(* The runner: it reads a request, calls the export, writes the reply.     *)

Alive == process \notin {"none", "ended"}
Open == Alive /\ process # "leaving"   \* its end of the socket still is

Bytes(at, m) == [a \in at |-> m[CellAt[a]]]

\* What an export may leave the memory as, by the call and its answer.
Changed(o, ok, m) ==
    CASE o.kind \in {"advance", "load", "create"} -> TRUE
      [] o.kind = "write" ->
            /\ m = [c \in Cells |-> IF \E a \in o.at : CellAt[a] = c /\ c \notin ReadOnly
                                    THEN o.value ELSE memory[c]]
            /\ ok = (\A a \in o.at : CellAt[a] \notin ReadOnly)
      [] OTHER -> m = memory

\* What the reply carries: a read's bytes, a frame's ranges.
Carried(o, ok, m) ==
    IF ok /\ o.kind \in {"advance", "read"} THEN Bytes(o.at, m) ELSE Nothing

Read ==
    /\ process = "reading" /\ request # 0
    /\ process' = "busy"
    /\ doing' = [NoReply EXCEPT !.of = request]
    /\ request' = 0
    /\ UNCHANGED <<handle, pc, op, calls, link, memory, replies, answer, window>>

WriteHead ==
    /\ process = "busy"
    /\ \E ok \in BOOLEAN, m \in [Cells -> Values] :
          /\ Changed(op, ok, m)
          /\ memory' = m
          /\ doing' = [doing EXCEPT !.ok = ok, !.got = Carried(op, ok, m)]
    /\ process' = "answering"
    /\ replies' = Append(replies, [part |-> "head", of |-> doing.of])
    /\ UNCHANGED <<handle, pc, op, calls, link, request, answer, window>>

\* A runner whose hello is a refusal, and one that has freed its machine,
\* goes on to its end.
WriteRest ==
    /\ process = "answering"
    /\ replies' = Append(replies, [part |-> "rest", of |-> doing.of,
                                   ok |-> doing.ok, got |-> doing.got])
    /\ process' = IF op.kind = "free" \/ (op.kind = "hello" /\ ~doing.ok)
                  THEN "leaving" ELSE "reading"
    /\ UNCHANGED <<handle, pc, op, calls, link, request, doing, memory, answer, window>>

\* The core takes the process down, at once or by way of its exit handlers.
Crash ==
    /\ Alive
    /\ process' \in {"leaving", "ended"} \ {process}
    /\ UNCHANGED <<handle, pc, op, calls, link, request, doing, memory, replies, answer, window>>

\* A runner that learns of it as it reads its next request.
SeesCloseBetweenCalls ==
    /\ process = "reading" /\ closed
    /\ process' = "ended"
    /\ UNCHANGED <<handle, pc, op, calls, link, request, doing, memory, replies, answer, window>>

\* watch_parent: the process ends when the proxy's end of the socket closes.
SeesClose ==
    /\ Alive /\ closed
    /\ process' = "ended"
    /\ UNCHANGED <<handle, pc, op, calls, link, request, doing, memory, replies, answer, window>>

-----------------------------------------------------------------------------
(* The link: one call, its reply, and a runner that ends or hangs.         *)

\* The request is sent, or the socket is found broken.
Send(o) ==
    /\ op' = o /\ calls' = calls + 1
    /\ \/ Open /\ request' = calls + 1 /\ pc' = "waiting"
       \/ ~Open /\ request' = request /\ pc' = "reaping"
    /\ UNCHANGED <<handle, link, process, doing, memory, replies, answer>>

TakeHead ==
    /\ pc = "waiting" /\ replies # <<>>
    /\ pc' = "head"
    /\ replies' = Tail(replies)
    /\ UNCHANGED <<handle, op, calls, link, serving, answer, window>>

\* A deadline that watches for the reply's head alone.
TimeOutForTheHead ==
    /\ pc = "waiting" /\ replies = <<>> /\ Open
    /\ pc' = "late"
    /\ UNCHANGED <<handle, op, calls, link, serving, replies, answer, window>>

TimeOut ==
    /\ pc \in {"waiting", "head"} /\ replies = <<>> /\ Open
    /\ pc' = "late"
    /\ UNCHANGED <<handle, op, calls, link, serving, replies, answer, window>>

SeesEnd ==
    /\ pc \in {"waiting", "head"} /\ replies = <<>> /\ ~Open
    /\ pc' = "reaping"
    /\ UNCHANGED <<handle, op, calls, link, serving, replies, answer, window>>

\* What a call's failure comes to: a machine's handle stays, a start's goes.
Failed(why) ==
    /\ dead' = why
    /\ pc' = IF handle = "made" THEN "idle" ELSE "dropping"
    /\ UNCHANGED <<handle, op, calls, runners, closed, request, doing, memory, replies, answer, window>>

\* A call given up while its runner, and its link, stay.
StopWaiting ==
    /\ pc = "late"
    /\ pc' = IF handle = "made" THEN "idle" ELSE "dropping"
    /\ UNCHANGED <<handle, op, calls, link, serving, replies, answer, window>>

Stop == pc = "late" /\ process' = "ended" /\ Failed("hung")

\* A process waited for and never killed.
ReapAtLeisure == pc = "reaping" /\ UNCHANGED process /\ Failed("ended")

\* The process is waited for, and killed when it has not ended in time.
Reap == pc = "reaping" /\ process' = "ended" /\ Failed("ended")

-----------------------------------------------------------------------------
(* The handle: made, called, freed.                                        *)

Start ==
    /\ handle = "none" /\ pc = "idle" /\ runners < MaxRunners /\ calls < MaxCalls
    /\ handle' = "starting" /\ pc' = "waiting"
    /\ dead' = "no" /\ runners' = runners + 1 /\ closed' = FALSE
    /\ op' = Hello /\ calls' = calls + 1
    /\ process' = "busy" /\ doing' = [NoReply EXCEPT !.of = calls + 1]
    /\ request' = 0 /\ replies' = <<>>
    /\ held' = Nothing /\ valid' = FALSE /\ wanted' = {}
    /\ UNCHANGED <<memory, answer>>

\* A call on a machine whose runner is gone is answered with that.
Ready == handle = "made" /\ pc = "idle" /\ dead = "no" /\ calls < MaxCalls

Advance ==
    /\ Ready
    /\ Send([kind |-> "advance", at |-> wanted, value |-> 0])
    /\ valid' = FALSE /\ wanted' = {} /\ UNCHANGED held

\* StateLoad, Reset, MediaInsert and the others that end the window.
Load ==
    /\ Ready
    /\ Send([kind |-> "load", at |-> {}, value |-> 0])
    /\ valid' = FALSE /\ UNCHANGED <<held, wanted>>

\* The calls that leave memory alone.
Look ==
    /\ Ready
    /\ Send([kind |-> "look", at |-> {}, value |-> 0])
    /\ UNCHANGED window

Held(at) == valid /\ at \subseteq DOMAIN held

\* A read the window does not hold is asked of the runner, and wanted.
SpaceRead ==
    /\ Ready
    /\ \E a \in Addrs :
          /\ ~Held({a})
          /\ Send([kind |-> "read", at |-> {a}, value |-> 0])
          /\ wanted' = wanted \cup {a}
    /\ UNCHANGED <<held, valid>>

SpaceWrite ==
    /\ Ready
    /\ \E at \in SUBSET Addrs, v \in Values :
          /\ at # {}
          /\ Send([kind |-> "write", at |-> at, value |-> v])
    /\ UNCHANGED window

\* The runner is asked to free the machine; the link goes whatever it says.
Free ==
    /\ handle = "made" /\ pc = "idle"
    /\ handle' = "freeing"
    /\ IF dead = "no" /\ calls < MaxCalls
       THEN /\ op' = [kind |-> "free", at |-> {}, value |-> 0]
            /\ calls' = calls + 1
            /\ IF Open THEN request' = calls + 1 /\ pc' = "waiting"
                       ELSE UNCHANGED request /\ pc' = "reaping"
       ELSE pc' = "dropping" /\ UNCHANGED <<op, calls, request>>
    /\ UNCHANGED <<link, process, doing, memory, replies, answer, window>>

\* A write sent on, the window left as it was.
WroteThrough(o, ok) == held

\* Window::wrote: an accepted write in what the window holds.
Wrote(o, ok) ==
    IF o.kind = "write" /\ ok
    THEN [a \in DOMAIN held |-> IF a \in o.at THEN o.value ELSE held[a]]
    ELSE held

\* The reply is whole: what each call does with it.
TakeRest ==
    /\ pc = "head" /\ replies # <<>>
    /\ LET r == Head(replies) IN
          /\ replies' = Tail(replies)
          /\ answer' = [for |-> calls, of |-> r.of]
          /\ CASE op.kind = "hello" /\ r.ok ->
                     \* the request to create follows at once
                     /\ op' = [kind |-> "create", at |-> {}, value |-> 0]
                     /\ calls' = calls + 1
                     /\ IF Open THEN request' = calls + 1 /\ pc' = "waiting"
                                ELSE UNCHANGED request /\ pc' = "reaping"
                     /\ UNCHANGED <<handle, window>>
               [] op.kind = "create" /\ r.ok ->
                     /\ handle' = "made" /\ pc' = "idle"
                     /\ UNCHANGED <<op, calls, request, window>>
               [] op.kind = "free" \/ (op.kind \in {"hello", "create"} /\ ~r.ok) ->
                     /\ pc' = "dropping"
                     /\ UNCHANGED <<handle, op, calls, request, window>>
               [] OTHER ->
                     /\ pc' = "idle"
                     /\ IF op.kind = "advance" /\ r.ok
                        THEN held' = r.got /\ valid' = TRUE
                        ELSE held' = Wrote(op, r.ok) /\ UNCHANGED valid
                     /\ UNCHANGED <<handle, op, calls, request, wanted>>
    /\ UNCHANGED <<link, process, doing, memory>>

\* Link::drop: the socket is shut, then the process waited for and killed.
Shut ==
    /\ pc = "dropping" /\ ~closed
    /\ closed' = TRUE
    /\ UNCHANGED <<handle, pc, dead, op, calls, runners, serving, replies, answer, window>>

Bury ==
    /\ pc = "dropping" /\ closed
    /\ process' = "ended"
    /\ pc' = "idle" /\ handle' = "none"
    /\ UNCHANGED <<op, calls, link, request, doing, memory, replies, answer, window>>

\* The host's own process ends, and its sockets with it.
HostEnds ==
    /\ pc # "died"
    /\ pc' = "died" /\ closed' = TRUE
    /\ UNCHANGED <<handle, dead, op, calls, runners, serving, replies, answer, window>>

-----------------------------------------------------------------------------
Runner == Read \/ WriteHead \/ WriteRest \/ Crash
Receive == TakeHead \/ TakeRest \/ TimeOut \/ SeesEnd \/ Stop \/ Reap \/ Shut \/ Bury
Host == Start \/ Advance \/ Load \/ Look \/ SpaceRead \/ SpaceWrite \/ Free

Next == Runner \/ SeesClose \/ Receive \/ Host \/ HostEnds

Spec == Init /\ [][Next]_vars

\* The proxy runs and its clocks do, as does the runner's watcher; the core
\* is promised nothing.
Fairness == WF_vars(Receive) /\ WF_vars(SeesClose)

FairSpec == Spec /\ Fairness

-----------------------------------------------------------------------------
(* Properties.                                                             *)

TypeOK ==
    /\ handle \in {"none", "starting", "made", "freeing"}
    /\ pc \in {"idle", "waiting", "head", "late", "reaping", "dropping", "died"}
    /\ dead \in {"no", "ended", "hung"}
    /\ calls \in 0 .. MaxCalls + 1 /\ runners \in 0 .. MaxRunners
    /\ process \in {"none", "busy", "reading", "answering", "leaving", "ended"}
    /\ request \in 0 .. calls /\ doing.of \in 0 .. calls
    /\ memory \in [Cells -> Values]
    /\ DOMAIN held \subseteq Addrs /\ valid \in BOOLEAN /\ wanted \subseteq Addrs

\* A reply is taken for the call it answers, whatever was late before.
AnswersAreTheirOwn == answer.for = answer.of

\* A runner ends with the machine it was made for: no handle, and no link
\* that has answered that it is dead, leaves one behind.
NoRunnerLeftBehind ==
    /\ handle = "none" /\ pc = "idle" => ~Alive
    /\ dead # "no" => ~Alive

\* Between calls a read the window answers is what the runner would answer.
WindowIsTheMemory ==
    handle = "made" /\ pc = "idle" /\ dead = "no" /\ valid
       => held = Bytes(DOMAIN held, memory)

\* The host never hangs: a call ends whatever the core does.
CallsEnd == pc \notin {"idle", "died"} ~> pc \in {"idle", "died"}

\* A host that ends takes its runner with it.
OrphansEnd == pc = "died" ~> ~Alive
=============================================================================
