--------------------------- MODULE CoreLink_proofs ---------------------------
(***************************************************************************)
(* Answers are their calls', no runner outlives its machine, and the       *)
(* window is the memory where the map has no mirrors and no byte refuses a *)
(* write: for any memory, any calls and any runners (module CoreLink).     *)
(* The invariant follows a call down the pipe: what of it lies unread at   *)
(* either end, and what the runner has in hand.                            *)
(***************************************************************************)
EXTENDS CoreLink, SequenceTheorems, TLAPS

Byteses == UNION {[at -> Values] : at \in SUBSET Addrs}
Replies == [part : {"head"}, of : Nat] \cup
           [part : {"rest"}, of : Nat, ok : BOOLEAN, got : Byteses]
Ops == [kind : {"hello", "create", "advance", "load", "look", "read", "free"},
        at : SUBSET Addrs, value : {0}] \cup
       [kind : {"write"}, at : SUBSET Addrs, value : Values]

Types ==
    /\ handle \in {"none", "starting", "made", "freeing"}
    /\ pc \in {"idle", "waiting", "head", "late", "reaping", "dropping", "died"}
    /\ dead \in {"no", "ended", "hung"}
    /\ process \in {"none", "busy", "reading", "answering", "leaving", "ended"}
    /\ calls \in Nat /\ request \in Nat
    /\ op \in Ops
    /\ doing \in [of : Nat, ok : BOOLEAN, got : Byteses]
    /\ replies \in Seq(Replies)
    /\ memory \in [Cells -> Values]
    /\ held \in Byteses /\ wanted \subseteq Addrs

\* Where the host stands in a call, and what its handle is then.
InHand ==
    /\ pc \notin {"idle", "died"} => handle # "none"
    /\ pc = "idle" => handle \in {"none", "made"}
    /\ pc \in {"waiting", "head", "late", "reaping"} => dead = "no"
    /\ pc \in {"waiting", "head"} => /\ (handle = "starting" <=> op.kind \in {"hello", "create"})
                                    /\ (handle = "freeing" <=> op.kind = "free")

\* The call waited for is the only one in the pipe, one part after another;
\* between calls the pipe is empty.
Pipe ==
    /\ pc = "waiting" =>
          \/ /\ Len(replies) = 0 /\ process # "answering" /\ request \in {0, calls}
             /\ process = "busy" => doing.of = calls /\ request = 0
          \/ /\ Len(replies) = 1 /\ request = 0 /\ process \notin {"busy", "reading"}
             /\ process = "answering" => doing.of = calls
          \/ /\ Len(replies) = 2 /\ request = 0 /\ process \notin {"busy", "answering"}
             /\ replies[2].of = calls /\ replies[2].part = "rest"
    /\ pc = "head" =>
          \/ /\ Len(replies) = 0 /\ request = 0 /\ process \notin {"busy", "reading"}
             /\ process = "answering" => doing.of = calls
          \/ /\ Len(replies) = 1 /\ request = 0 /\ process \notin {"busy", "answering"}
             /\ replies[1].of = calls /\ replies[1].part = "rest"
    /\ pc = "idle" /\ handle = "made" /\ dead = "no" =>
          replies = <<>> /\ request = 0 /\ process \notin {"busy", "answering"}

\* A map without mirrors, all of it written as it is asked.
Exact ==
    /\ ReadOnly = {}
    /\ \A a, b \in Addrs : CellAt[a] = CellAt[b] => a = b

\* The runner has answered so: what the window comes to when it is taken.
Settles(ok, got) ==
    /\ op.kind = "advance" /\ ok => got = Bytes(op.at, memory)
    /\ valid => Wrote(op, ok) = Bytes(DOMAIN held, memory)

Mirror ==
    /\ handle = "starting" => ~valid
    /\ handle = "made" /\ dead = "no" =>
          /\ pc = "idle" /\ valid => held = Bytes(DOMAIN held, memory)
          /\ pc \in {"waiting", "head"} /\ op.kind \in {"advance", "load"} => ~valid
          /\ pc = "waiting" /\ Len(replies) = 0 /\ valid => held = Bytes(DOMAIN held, memory)
          /\ pc = "waiting" /\ Len(replies) = 1 /\ process = "answering" =>
                Settles(doing.ok, doing.got)
          /\ pc = "waiting" /\ Len(replies) = 2 => Settles(replies[2].ok, replies[2].got)
          /\ pc = "head" /\ Len(replies) = 0 /\ process = "answering" =>
                Settles(doing.ok, doing.got)
          /\ pc = "head" /\ Len(replies) = 1 => Settles(replies[1].ok, replies[1].got)

IInv == Types /\ InHand /\ Pipe /\ AnswersAreTheirOwn /\ NoRunnerLeftBehind
WInv == Exact => Mirror

-----------------------------------------------------------------------------
(* Bytes, calls and replies.                                               *)

LEMMA BytesType ==
    ASSUME NEW at \in SUBSET Addrs, NEW m \in [Cells -> Values]
    PROVE  Bytes(at, m) \in Byteses /\ DOMAIN Bytes(at, m) = at
<1>1. Bytes(at, m) \in [at -> Values]
  BY MemoryAssumption DEF Bytes
<1> QED BY <1>1 DEF Byteses

LEMMA NothingType == Nothing \in Byteses
<1>1. Nothing \in [{} -> Values]
  BY DEF Nothing
<1> QED BY <1>1 DEF Byteses

LEMMA WroteType ==
    ASSUME Types, NEW ok PROVE Wrote(op, ok) \in Byteses
<1>1. held \in Byteses /\ op \in Ops
  BY DEF Types
<1>2. PICK at \in SUBSET Addrs : held \in [at -> Values]
  BY <1>1 DEF Byteses
<1>3. CASE op.kind = "write" /\ ok
  <2>1. op.value \in Values
    BY <1>1, <1>3 DEF Ops
  <2>2. Wrote(op, ok) \in [at -> Values]
    BY <1>2, <1>3, <2>1 DEF Wrote
  <2> QED BY <2>2 DEF Byteses
<1>4. CASE ~(op.kind = "write" /\ ok)
  BY <1>1, <1>4 DEF Wrote
<1> QED BY <1>3, <1>4

LEMMA RepliesType ==
    ASSUME NEW r \in Replies
    PROVE  /\ r.of \in Nat /\ r.part \in {"head", "rest"}
           /\ r.part = "rest" => r.ok \in BOOLEAN /\ r.got \in Byteses
  BY DEF Replies

LEMMA OneLeft ==
    ASSUME NEW S, NEW q \in Seq(S), Len(q) = 1
    PROVE  q[1] = Head(q) /\ Tail(q) = <<>> /\ q[1] \in S
<1>1. q # <<>>
  OBVIOUS
<1>2. Tail(q) \in Seq(S) /\ Len(Tail(q)) = 0
  BY <1>1
<1>3. Tail(q) = <<>>
  BY <1>2, EmptySeq
<1> QED BY <1>1, <1>3

LEMMA HelloIsACall == Hello \in Ops
  BY DEF Hello, Ops

-----------------------------------------------------------------------------
(* Initially, and after each step of the runner.                           *)

LEMMA InitIInv == Init => IInv
<1> SUFFICES ASSUME Init PROVE IInv OBVIOUS
<1>1. Types
  <2>1. doing \in [of : Nat, ok : BOOLEAN, got : Byteses]
    BY NothingType DEF Init, NoReply
  <2>2. replies \in Seq(Replies)
    BY DEF Init
  <2> QED BY <2>1, <2>2, NothingType, HelloIsACall DEF Init, Types
<1>2. InHand /\ Pipe
  BY DEF Init, InHand, Pipe
<1>3. AnswersAreTheirOwn /\ NoRunnerLeftBehind
  BY DEF Init, AnswersAreTheirOwn, NoRunnerLeftBehind, Alive
<1> QED BY <1>1, <1>2, <1>3 DEF IInv

LEMMA ReadKeeps == ASSUME IInv, Read PROVE IInv'
<1>1. /\ process = "reading" /\ request # 0 /\ process' = "busy" /\ request' = 0
      /\ doing' = [NoReply EXCEPT !.of = request]
      /\ UNCHANGED <<handle, pc, op, calls, dead, memory, replies, answer, held, wanted>>
  BY DEF Read, link, window
<1>2. doing' = [of |-> request, ok |-> TRUE, got |-> Nothing]
  BY <1>1 DEF NoReply
<1>3. Types'
  <2>1. doing' \in [of : Nat, ok : BOOLEAN, got : Byteses]
    BY <1>2, NothingType DEF IInv, Types
  <2> QED BY <1>1, <2>1 DEF IInv, Types
<1>4. InHand'
  BY <1>1, Zenon DEF IInv, InHand
<1>5. Pipe'
  BY <1>1, <1>2 DEF IInv, Pipe
<1>6. AnswersAreTheirOwn' /\ NoRunnerLeftBehind'
  BY <1>1 DEF IInv, AnswersAreTheirOwn, NoRunnerLeftBehind, Alive
<1> QED BY <1>3, <1>4, <1>5, <1>6 DEF IInv

LEMMA WriteHeadKeeps == ASSUME IInv, WriteHead PROVE IInv'
<1>1. PICK ok \in BOOLEAN, m \in [Cells -> Values] :
         /\ memory' = m
         /\ doing' = [doing EXCEPT !.ok = ok, !.got = Carried(op, ok, m)]
  BY DEF WriteHead
<1>2. /\ process = "busy" /\ process' = "answering"
      /\ replies' = Append(replies, [part |-> "head", of |-> doing.of])
      /\ UNCHANGED <<handle, pc, op, calls, dead, request, answer, held, wanted>>
  BY DEF WriteHead, link, window
<1>3. /\ op \in Ops /\ op.at \in SUBSET Addrs /\ replies \in Seq(Replies)
      /\ doing \in [of : Nat, ok : BOOLEAN, got : Byteses]
  BY DEF IInv, Types, Ops
<1>4. Carried(op, ok, m) \in Byteses
  BY <1>3, BytesType, NothingType DEF Carried
<1>5. doing' \in [of : Nat, ok : BOOLEAN, got : Byteses] /\ doing'.of = doing.of
  <2> DEFINE c == Carried(op, ok, m)
  <2> HIDE DEF c
  <2>1. c \in Byteses /\ doing' = [doing EXCEPT !.ok = ok, !.got = c]
    BY <1>1, <1>4 DEF c
  <2>2. [doing EXCEPT !.ok = ok] \in [of : Nat, ok : BOOLEAN, got : Byteses]
        /\ [doing EXCEPT !.ok = ok].of = doing.of
    BY <1>3
  <2> QED BY <2>1, <2>2
<1>6. [part |-> "head", of |-> doing.of] \in Replies
  BY <1>3 DEF Replies
<1>7. replies' \in Seq(Replies) /\ Len(replies') = Len(replies) + 1
  BY <1>2, <1>3, <1>6
<1>8. Types'
  BY <1>1, <1>2, <1>5, <1>7 DEF IInv, Types
<1>9. InHand'
  BY <1>2, Zenon DEF IInv, InHand
<1>10. Pipe'
  <2>1. CASE pc = "waiting"
    <3>1. Len(replies) = 0 /\ doing.of = calls /\ request = 0
      BY <1>2, <2>1 DEF IInv, Pipe
    <3>2. Len(replies') = 1
      BY <1>7, <3>1
    <3> QED BY <1>2, <1>5, <2>1, <3>1, <3>2 DEF Pipe
  <2>2. CASE pc # "waiting"
    BY <1>2, <2>2 DEF IInv, Pipe
  <2> QED BY <2>1, <2>2
<1>11. AnswersAreTheirOwn' /\ NoRunnerLeftBehind'
  BY <1>2 DEF IInv, AnswersAreTheirOwn, NoRunnerLeftBehind, Alive
<1> QED BY <1>8, <1>9, <1>10, <1>11 DEF IInv

LEMMA WriteRestKeeps == ASSUME IInv, WriteRest PROVE IInv'
<1> DEFINE rest == [part |-> "rest", of |-> doing.of, ok |-> doing.ok, got |-> doing.got]
<1>1. /\ process = "answering" /\ process' \in {"leaving", "reading"}
      /\ replies' = Append(replies, rest)
      /\ UNCHANGED <<handle, pc, op, calls, dead, request, doing, memory, answer, held, wanted>>
  BY DEF WriteRest, link, window
<1>2. replies \in Seq(Replies) /\ rest \in Replies
  BY DEF IInv, Types, Replies
<1>3. rest.of = doing.of /\ rest.part = "rest"
  OBVIOUS
<1> HIDE DEF rest
<1>4. /\ replies' \in Seq(Replies) /\ Len(replies') = Len(replies) + 1
      /\ replies'[Len(replies) + 1] = rest
  BY <1>1, <1>2
<1>5. Types'
  BY <1>1, <1>4 DEF IInv, Types
<1>6. InHand'
  BY <1>1, Zenon DEF IInv, InHand
<1>7. Pipe'
  <2>1. CASE pc = "waiting"
    <3>1. Len(replies) = 1 /\ doing.of = calls /\ request = 0
      BY <1>1, <2>1 DEF IInv, Pipe
    <3>2. Len(replies') = 2 /\ replies'[2] = rest
      BY <1>4, <3>1
    <3> QED BY <1>1, <1>3, <2>1, <3>1, <3>2 DEF Pipe
  <2>2. CASE pc = "head"
    <3>1. Len(replies) = 0 /\ doing.of = calls /\ request = 0
      BY <1>1, <2>2 DEF IInv, Pipe
    <3>2. Len(replies') = 1 /\ replies'[1] = rest
      BY <1>4, <3>1
    <3> QED BY <1>1, <1>3, <2>2, <3>1, <3>2 DEF Pipe
  <2>3. CASE pc \notin {"waiting", "head"}
    BY <1>1, <2>3 DEF IInv, Pipe
  <2> QED BY <2>1, <2>2, <2>3
<1>8. AnswersAreTheirOwn' /\ NoRunnerLeftBehind'
  BY <1>1 DEF IInv, AnswersAreTheirOwn, NoRunnerLeftBehind, Alive
<1> QED BY <1>5, <1>6, <1>7, <1>8 DEF IInv

\* A runner that ends, or is on its way to.
LEMMA LeavingKeeps ==
    ASSUME IInv, Alive, process' \in {"leaving", "ended"},
           UNCHANGED <<handle, pc, op, calls, link, request, doing, memory, replies,
                       answer, window>>
    PROVE  IInv'
<1>1. UNCHANGED <<handle, pc, op, calls, dead, request, doing, memory, replies, answer, held, wanted>>
  BY DEF link, window
<1>2. Types'
  BY <1>1 DEF IInv, Types
<1>3. InHand'
  BY <1>1, Zenon DEF IInv, InHand
<1>4. Pipe'
  BY <1>1 DEF IInv, Pipe
<1>5. AnswersAreTheirOwn' /\ NoRunnerLeftBehind'
  BY <1>1 DEF IInv, AnswersAreTheirOwn, NoRunnerLeftBehind, Alive
<1> QED BY <1>2, <1>3, <1>4, <1>5 DEF IInv

LEMMA CrashKeeps == ASSUME IInv, Crash PROVE IInv'
  BY LeavingKeeps DEF Crash

LEMMA SeesCloseKeeps == ASSUME IInv, SeesClose PROVE IInv'
  BY LeavingKeeps DEF SeesClose

-----------------------------------------------------------------------------
(* The link.                                                               *)

\* A call that is given up: the host goes on to be done with the runner.
LEMMA GivenUpKeeps ==
    ASSUME IInv, pc \in {"waiting", "head"}, pc' \in {"late", "reaping"},
           UNCHANGED <<handle, op, calls, link, serving, replies, answer, window>>
    PROVE  IInv'
<1>1. UNCHANGED <<handle, op, calls, dead, process, request, doing, memory, replies, answer, held, wanted>>
  BY DEF link, serving, window
<1>2. Types' /\ InHand' /\ Pipe'
  BY <1>1 DEF IInv, Types, InHand, Pipe
<1>3. AnswersAreTheirOwn' /\ NoRunnerLeftBehind'
  BY <1>1 DEF IInv, AnswersAreTheirOwn, NoRunnerLeftBehind, Alive
<1> QED BY <1>2, <1>3 DEF IInv

LEMMA TimeOutKeeps == ASSUME IInv, TimeOut PROVE IInv'
  BY GivenUpKeeps DEF TimeOut

LEMMA SeesEndKeeps == ASSUME IInv, SeesEnd PROVE IInv'
  BY GivenUpKeeps DEF SeesEnd

LEMMA TakeHeadKeeps == ASSUME IInv, TakeHead PROVE IInv'
<1>1. /\ pc = "waiting" /\ replies # <<>> /\ pc' = "head" /\ replies' = Tail(replies)
      /\ UNCHANGED <<handle, op, calls, dead, process, request, doing, memory, answer, held, wanted>>
  BY DEF TakeHead, link, serving, window
<1>2. /\ replies \in Seq(Replies) /\ Tail(replies) \in Seq(Replies)
      /\ Len(Tail(replies)) = Len(replies) - 1 /\ Len(replies) \in Nat /\ Len(replies) # 0
      /\ Len(replies) = 2 => Tail(replies)[1] = replies[2]
  BY <1>1 DEF IInv, Types
<1>3. Types' /\ InHand'
  BY <1>1, <1>2 DEF IInv, Types, InHand
<1>4. Pipe'
  <2>1. CASE Len(replies) = 1
    BY <1>1, <1>2, <2>1 DEF IInv, Pipe
  <2>2. CASE Len(replies) = 2
    <3>1. /\ request = 0 /\ process \notin {"busy", "answering"}
          /\ replies[2].of = calls /\ replies[2].part = "rest"
      BY <1>1, <2>2 DEF IInv, Pipe
    <3>2. Len(replies') = 1 /\ replies'[1] = replies[2]
      BY <1>1, <1>2, <2>2
    <3> QED BY <1>1, <3>1, <3>2 DEF Pipe
  <2> QED BY <1>1, <1>2, <2>1, <2>2 DEF IInv, Pipe
<1>5. AnswersAreTheirOwn' /\ NoRunnerLeftBehind'
  BY <1>1 DEF IInv, AnswersAreTheirOwn, NoRunnerLeftBehind, Alive
<1> QED BY <1>3, <1>4, <1>5 DEF IInv

\* A runner killed, or waited for and killed: the link is dead from here.
LEMMA FailedKeeps ==
    ASSUME IInv, NEW why \in {"ended", "hung"}, pc \in {"late", "reaping"},
           process' = "ended", Failed(why)
    PROVE  IInv'
<1>1. /\ dead' = why /\ pc' = IF handle = "made" THEN "idle" ELSE "dropping"
      /\ UNCHANGED <<handle, op, calls, request, doing, memory, replies, answer, held, wanted>>
  BY DEF Failed, window
<1>2. Types' /\ InHand' /\ Pipe'
  BY <1>1 DEF IInv, Types, InHand, Pipe
<1>3. AnswersAreTheirOwn' /\ NoRunnerLeftBehind'
  BY <1>1 DEF IInv, AnswersAreTheirOwn, NoRunnerLeftBehind, Alive
<1> QED BY <1>2, <1>3 DEF IInv

LEMMA StopKeeps == ASSUME IInv, Stop PROVE IInv'
  BY FailedKeeps DEF Stop

LEMMA ReapKeeps == ASSUME IInv, Reap PROVE IInv'
  BY FailedKeeps DEF Reap

LEMMA ShutKeeps == ASSUME IInv, Shut PROVE IInv'
<1>1. UNCHANGED <<handle, pc, dead, op, calls, process, request, doing, memory, replies, answer, held, wanted>>
  BY DEF Shut, serving, window
<1>2. Types' /\ InHand' /\ Pipe'
  BY <1>1 DEF IInv, Types, InHand, Pipe
<1>3. AnswersAreTheirOwn' /\ NoRunnerLeftBehind'
  BY <1>1 DEF IInv, AnswersAreTheirOwn, NoRunnerLeftBehind, Alive
<1> QED BY <1>2, <1>3 DEF IInv

LEMMA BuryKeeps == ASSUME IInv, Bury PROVE IInv'
<1>1. /\ process' = "ended" /\ pc' = "idle" /\ handle' = "none"
      /\ UNCHANGED <<op, calls, dead, request, doing, memory, replies, answer, held, wanted>>
  BY DEF Bury, link, window
<1>2. Types' /\ InHand' /\ Pipe'
  BY <1>1 DEF IInv, Types, InHand, Pipe
<1>3. AnswersAreTheirOwn' /\ NoRunnerLeftBehind'
  BY <1>1 DEF IInv, AnswersAreTheirOwn, NoRunnerLeftBehind, Alive
<1> QED BY <1>2, <1>3 DEF IInv

LEMMA HostEndsKeeps == ASSUME IInv, HostEnds PROVE IInv'
<1>1. /\ pc' = "died"
      /\ UNCHANGED <<handle, dead, op, calls, process, request, doing, memory, replies, answer, held, wanted>>
  BY DEF HostEnds, serving, window
<1>2. Types' /\ InHand' /\ Pipe'
  BY <1>1 DEF IInv, Types, InHand, Pipe
<1>3. AnswersAreTheirOwn' /\ NoRunnerLeftBehind'
  BY <1>1 DEF IInv, AnswersAreTheirOwn, NoRunnerLeftBehind, Alive
<1> QED BY <1>2, <1>3 DEF IInv

-----------------------------------------------------------------------------
(* The handle's calls.                                                     *)

LEMMA StartKeeps == ASSUME IInv, Start PROVE IInv'
<1>1. /\ handle' = "starting" /\ pc' = "waiting" /\ dead' = "no" /\ op' = Hello
      /\ calls' = calls + 1 /\ process' = "busy" /\ request' = 0 /\ replies' = <<>>
      /\ doing' = [NoReply EXCEPT !.of = calls + 1] /\ held' = Nothing /\ wanted' = {}
      /\ UNCHANGED <<memory, answer>>
  BY DEF Start
<1>2. doing' = [of |-> calls + 1, ok |-> TRUE, got |-> Nothing] /\ calls + 1 \in Nat
  <2>1. calls \in Nat
    BY DEF IInv, Types
  <2>2. calls + 1 \in Nat
    BY <2>1
  <2>3. doing' = [NoReply EXCEPT !.of = calls + 1]
    BY <1>1
  <2> QED BY <2>2, <2>3, Zenon DEF NoReply
<1>3. Types'
  <2>1. doing' \in [of : Nat, ok : BOOLEAN, got : Byteses]
    BY <1>2, NothingType
  <2>2. replies' \in Seq(Replies)
    BY <1>1
  <2> QED BY <1>1, <1>2, <2>1, <2>2, HelloIsACall, NothingType DEF IInv, Types
<1>4. InHand'
  BY <1>1 DEF InHand, Hello
<1>5. Pipe'
  BY <1>1, <1>2 DEF Pipe
<1>6. AnswersAreTheirOwn' /\ NoRunnerLeftBehind'
  BY <1>1 DEF IInv, AnswersAreTheirOwn, NoRunnerLeftBehind
<1> QED BY <1>3, <1>4, <1>5, <1>6 DEF IInv

\* The request of a call is the only thing in the pipe, or the runner is gone.
LEMMA SendKeeps ==
    ASSUME IInv, NEW o \in Ops, o.kind \notin {"hello", "create", "free"}, Ready, Send(o),
           held' \in Byteses, wanted' \subseteq Addrs
    PROVE  IInv'
<1>1. /\ handle = "made" /\ pc = "idle" /\ dead = "no"
      /\ op' = o /\ calls' = calls + 1
      /\ UNCHANGED <<handle, dead, process, doing, memory, replies, answer>>
  BY DEF Ready, Send, link
<1>2. \/ request' = calls + 1 /\ pc' = "waiting"
      \/ request' = request /\ pc' = "reaping"
  BY DEF Send
<1>3. replies = <<>> /\ process \notin {"busy", "answering"} /\ calls + 1 \in Nat
  BY <1>1 DEF IInv, Types, Pipe
<1>4. Types'
  BY <1>1, <1>2, <1>3 DEF IInv, Types
<1>5. InHand' /\ Pipe'
  BY <1>1, <1>2, <1>3 DEF InHand, Pipe
<1>6. AnswersAreTheirOwn' /\ NoRunnerLeftBehind'
  BY <1>1, <1>2 DEF IInv, AnswersAreTheirOwn, NoRunnerLeftBehind, Alive
<1> QED BY <1>4, <1>5, <1>6 DEF IInv

LEMMA CallKeeps ==
    ASSUME IInv, Advance \/ Load \/ Look \/ SpaceRead \/ SpaceWrite PROVE IInv'
<1>1. held \in Byteses /\ wanted \subseteq Addrs
  BY DEF IInv, Types
<1>2. CASE Advance
  <2>1. [kind |-> "advance", at |-> wanted, value |-> 0] \in Ops
    BY <1>1 DEF Ops
  <2> QED BY <1>1, <1>2, <2>1, SendKeeps DEF Advance
<1>3. CASE Load
  <2>1. [kind |-> "load", at |-> {}, value |-> 0] \in Ops
    BY DEF Ops
  <2> QED BY <1>1, <1>3, <2>1, SendKeeps DEF Load
<1>4. CASE Look
  <2>1. [kind |-> "look", at |-> {}, value |-> 0] \in Ops
    BY DEF Ops
  <2> QED BY <1>1, <1>4, <2>1, SendKeeps DEF Look, window
<1>5. CASE SpaceRead
  <2>1. PICK a \in Addrs : /\ Send([kind |-> "read", at |-> {a}, value |-> 0])
                           /\ wanted' = wanted \cup {a}
    BY <1>5 DEF SpaceRead
  <2>2. [kind |-> "read", at |-> {a}, value |-> 0] \in Ops
    BY DEF Ops
  <2>3. held' = held /\ Ready
    BY <1>5 DEF SpaceRead
  <2> QED BY <1>1, <2>1, <2>2, <2>3, SendKeeps
<1>6. CASE SpaceWrite
  <2>1. PICK at \in SUBSET Addrs, v \in Values : Send([kind |-> "write", at |-> at, value |-> v])
    BY <1>6 DEF SpaceWrite
  <2>2. [kind |-> "write", at |-> at, value |-> v] \in Ops
    BY DEF Ops
  <2>3. held' = held /\ wanted' = wanted /\ Ready
    BY <1>6 DEF SpaceWrite, window
  <2> QED BY <1>1, <2>1, <2>2, <2>3, SendKeeps
<1> QED BY <1>2, <1>3, <1>4, <1>5, <1>6

LEMMA FreeKeeps == ASSUME IInv, Free PROVE IInv'
<1>1. /\ handle = "made" /\ pc = "idle" /\ handle' = "freeing"
      /\ UNCHANGED <<dead, process, doing, memory, replies, answer, held, wanted>>
  BY DEF Free, link, window
<1>2. CASE pc' = "dropping" /\ UNCHANGED <<op, calls, request>>
  <2>1. Types' /\ InHand' /\ Pipe'
    BY <1>1, <1>2 DEF IInv, Types, InHand, Pipe
  <2>2. AnswersAreTheirOwn' /\ NoRunnerLeftBehind'
    BY <1>1, <1>2 DEF IInv, AnswersAreTheirOwn, NoRunnerLeftBehind, Alive
  <2> QED BY <2>1, <2>2 DEF IInv
<1>3. CASE /\ dead = "no" /\ op' = [kind |-> "free", at |-> {}, value |-> 0] /\ calls' = calls + 1
           /\ \/ request' = calls + 1 /\ pc' = "waiting"
              \/ request' = request /\ pc' = "reaping"
  <2>1. replies = <<>> /\ process \notin {"busy", "answering"} /\ calls + 1 \in Nat
    BY <1>1, <1>3 DEF IInv, Types, Pipe
  <2>2. op' \in Ops /\ op'.kind = "free"
    BY <1>3 DEF Ops
  <2>3. Types'
    BY <1>1, <1>3, <2>1, <2>2 DEF IInv, Types
  <2>4. InHand' /\ Pipe'
    BY <1>1, <1>3, <2>1, <2>2 DEF InHand, Pipe
  <2>5. AnswersAreTheirOwn' /\ NoRunnerLeftBehind'
    BY <1>1, <1>3 DEF IInv, AnswersAreTheirOwn, NoRunnerLeftBehind, Alive
  <2> QED BY <2>3, <2>4, <2>5 DEF IInv
<1> QED BY <1>2, <1>3 DEF Free

\* The reply taken is the call's, and nothing is left behind it.
LEMMA ReplyTaken ==
    ASSUME IInv, TakeRest
    PROVE  /\ Len(replies) = 1 /\ replies[1] = Head(replies) /\ replies' = <<>>
           /\ Head(replies).of = calls /\ Head(replies).ok \in BOOLEAN
           /\ Head(replies).got \in Byteses
           /\ request = 0 /\ process \notin {"busy", "answering"}
           /\ answer' = [for |-> calls, of |-> calls]
           /\ pc = "head" /\ handle # "none" /\ dead = "no"
           /\ (handle = "starting" <=> op.kind \in {"hello", "create"})
           /\ (handle = "freeing" <=> op.kind = "free")
           /\ UNCHANGED <<dead, process, doing, memory>>
<1>1. /\ pc = "head" /\ replies # <<>> /\ replies' = Tail(replies)
      /\ answer' = [for |-> calls, of |-> Head(replies).of]
      /\ UNCHANGED <<dead, process, doing, memory>>
  BY DEF TakeRest, link
<1>2. replies \in Seq(Replies)
  BY DEF IInv, Types
<1>3. Len(replies) # 0
  BY <1>1, <1>2
<1>4. /\ Len(replies) = 1 /\ request = 0 /\ process \notin {"busy", "answering"}
      /\ replies[1].of = calls /\ replies[1].part = "rest"
  BY <1>1, <1>3 DEF IInv, Pipe
<1>5. replies[1] = Head(replies) /\ Tail(replies) = <<>> /\ replies[1] \in Replies
  BY <1>2, <1>4, OneLeft
<1>6. replies[1].ok \in BOOLEAN /\ replies[1].got \in Byteses
  BY <1>4, <1>5, RepliesType
<1>7. /\ handle # "none" /\ dead = "no"
      /\ (handle = "starting" <=> op.kind \in {"hello", "create"})
      /\ (handle = "freeing" <=> op.kind = "free")
  BY <1>1 DEF IInv, InHand
<1> QED BY <1>1, <1>4, <1>5, <1>6, <1>7

LEMMA TakeRestKeeps == ASSUME IInv, TakeRest PROVE IInv'
<1> DEFINE r == Head(replies)
<1>1. /\ replies' = <<>> /\ r.of = calls /\ r.got \in Byteses /\ request = 0
      /\ process \notin {"busy", "answering"} /\ answer' = [for |-> calls, of |-> calls]
      /\ pc = "head" /\ handle # "none" /\ dead = "no"
      /\ (handle = "starting" <=> op.kind \in {"hello", "create"})
      /\ (handle = "freeing" <=> op.kind = "free")
      /\ UNCHANGED <<dead, process, doing, memory>>
  BY ReplyTaken
<1>2. AnswersAreTheirOwn' /\ replies' \in Seq(Replies)
  BY <1>1 DEF AnswersAreTheirOwn
<1>3. NoRunnerLeftBehind'
  <2>1. handle' # "none"
    BY <1>1 DEF TakeRest
  <2> QED BY <1>1, <2>1 DEF NoRunnerLeftBehind
<1>4. CASE op.kind = "hello" /\ r.ok
  <2>1. /\ op' = [kind |-> "create", at |-> {}, value |-> 0] /\ calls' = calls + 1
        /\ UNCHANGED <<handle, held, wanted>>
        /\ \/ request' = calls + 1 /\ pc' = "waiting"
           \/ request' = request /\ pc' = "reaping"
    BY <1>4 DEF TakeRest, window
  <2>2. op' \in Ops /\ op'.kind = "create" /\ calls + 1 \in Nat /\ handle = "starting"
    BY <1>1, <1>4, <2>1 DEF Ops, IInv, Types
  <2>3. Types'
    BY <1>1, <1>2, <2>1, <2>2 DEF IInv, Types
  <2>4. InHand' /\ Pipe'
    BY <1>1, <2>1, <2>2 DEF InHand, Pipe
  <2> QED BY <1>2, <1>3, <2>3, <2>4 DEF IInv
<1>5. CASE ~(op.kind = "hello" /\ r.ok)
  <2>1. /\ pc' \in {"idle", "dropping"} /\ handle' \in {handle, "made"}
        /\ UNCHANGED <<op, calls, request, wanted>>
        /\ held' = held \/ held' = r.got \/ held' = Wrote(op, r.ok)
    BY <1>5 DEF TakeRest, window
  <2>2. pc' = "idle" => handle' = "made"
    <3>1. CASE op.kind = "create" /\ r.ok
      BY <1>5, <3>1 DEF TakeRest
    <3>2. CASE op.kind = "free" \/ (op.kind \in {"hello", "create"} /\ ~r.ok)
      BY <1>5, <3>2 DEF TakeRest
    <3>3. CASE op.kind \notin {"hello", "create", "free"}
      <4>1. handle' = handle
        BY <1>5, <3>3 DEF TakeRest
      <4> QED BY <1>1, <3>3, <4>1 DEF IInv, Types
    <3> QED BY <1>5, <3>1, <3>2, <3>3
  <2>3. held' \in Byteses /\ handle' \in {"starting", "made", "freeing"}
    BY <1>1, <2>1, WroteType DEF IInv, Types
  <2>4. Types'
    BY <1>1, <1>2, <2>1, <2>3 DEF IInv, Types
  <2>5. InHand' /\ Pipe'
    BY <1>1, <2>1, <2>2, <2>3 DEF InHand, Pipe
  <2> QED BY <1>2, <1>3, <2>4, <2>5 DEF IInv
<1> QED BY <1>4, <1>5

\* The invariant holds in every reachable state.
THEOREM AlwaysIInv == Spec => []IInv
<1>1. IInv /\ [Next]_vars => IInv'
  <2>1. IInv /\ Next => IInv'
    BY ReadKeeps, WriteHeadKeeps, WriteRestKeeps, CrashKeeps, SeesCloseKeeps,
       TakeHeadKeeps, TakeRestKeeps, TimeOutKeeps, SeesEndKeeps, StopKeeps, ReapKeeps,
       ShutKeeps, BuryKeeps, StartKeeps, CallKeeps, FreeKeeps, HostEndsKeeps
    DEF Next, Runner, Receive, Host
  <2>2. IInv /\ UNCHANGED vars => IInv'
    <3> SUFFICES ASSUME IInv, UNCHANGED vars PROVE IInv'
      OBVIOUS
    <3>1. UNCHANGED <<handle, pc, dead, op, calls, process, request, doing, memory, replies,
                      answer, held, wanted>>
      BY DEF vars, link, serving, window
    <3>2. Types' /\ InHand' /\ Pipe'
      BY <3>1 DEF IInv, Types, InHand, Pipe
    <3>3. AnswersAreTheirOwn' /\ NoRunnerLeftBehind'
      BY <3>1 DEF IInv, AnswersAreTheirOwn, NoRunnerLeftBehind, Alive
    <3> QED BY <3>2, <3>3 DEF IInv
  <2> QED BY <2>1, <2>2
<1> QED BY InitIInv, <1>1, PTL DEF Spec

\* A reply is taken for the call it answers (client.rs: receive), whatever the
\* runner does and however late, for any calls and runners.
THEOREM OwnAnswers == Spec => []AnswersAreTheirOwn
<1>1. IInv => AnswersAreTheirOwn
  BY DEF IInv
<1> QED BY <1>1, AlwaysIInv, PTL

\* No runner outlives its machine's handle, nor a link that is dead
\* (client.rs: stop, reap, drop).
THEOREM NoneLeftBehind == Spec => []NoRunnerLeftBehind
<1>1. IInv => NoRunnerLeftBehind
  BY DEF IInv
<1> QED BY <1>1, AlwaysIInv, PTL

-----------------------------------------------------------------------------
(* The window, where the map is exact.                                     *)

LEMMA InitMirror == Init => Mirror
  BY DEF Init, Mirror

\* A byte is written over when its address is.
LEMMA WrittenOver ==
    ASSUME Exact, NEW a \in Addrs, NEW over \in SUBSET Addrs
    PROVE  /\ CellAt[a] \in Cells
           /\ (\E b \in over : CellAt[b] = CellAt[a] /\ CellAt[a] \notin ReadOnly) <=> a \in over
  BY MemoryAssumption DEF Exact

\* What the runner answers is what the window comes to.
LEMMA AnswerSettles ==
    ASSUME Exact, Types, NEW ok \in BOOLEAN, NEW m \in [Cells -> Values],
           Changed(op, ok, m), op.kind # "create",
           op.kind \in {"advance", "load"} => ~valid,
           valid => held = Bytes(DOMAIN held, memory)
    PROVE  /\ op.kind = "advance" /\ ok => Carried(op, ok, m) = Bytes(op.at, m)
           /\ valid => Wrote(op, ok) = Bytes(DOMAIN held, m)
<1>1. op \in Ops /\ op.at \in SUBSET Addrs
  BY DEF Types, Ops
<1>2. op.kind = "advance" /\ ok => Carried(op, ok, m) = Bytes(op.at, m)
  BY DEF Carried
<1>3. ASSUME valid PROVE Wrote(op, ok) = Bytes(DOMAIN held, m)
  <2>1. held = Bytes(DOMAIN held, memory) /\ op.kind \notin {"advance", "load", "create"}
    BY <1>3
  <2>2. DOMAIN held \in SUBSET Addrs
    <3>1. held \in Byteses
      BY DEF Types
    <3>2. PICK at \in SUBSET Addrs : held \in [at -> Values]
      BY <3>1 DEF Byteses
    <3> QED BY <3>2
  <2>3. CASE op.kind = "write"
    <3>1. m = [c \in Cells |-> IF \E a \in op.at : CellAt[a] = c /\ c \notin ReadOnly
                               THEN op.value ELSE memory[c]]
      BY <2>3 DEF Changed
    <3>2. ok = (\A a \in op.at : CellAt[a] \notin ReadOnly)
      BY <2>3 DEF Changed
    <3>3. ok
      BY <3>2 DEF Exact
    <3>4. Wrote(op, ok) = [a \in DOMAIN held |-> IF a \in op.at THEN op.value ELSE held[a]]
      BY <2>3, <3>3 DEF Wrote
    <3>5. ASSUME NEW a \in DOMAIN held
          PROVE  (IF a \in op.at THEN op.value ELSE held[a]) = m[CellAt[a]]
      <4>1. held[a] = memory[CellAt[a]] /\ a \in Addrs
        BY <2>1, <2>2, <3>5 DEF Bytes
      <4>2. m[CellAt[a]] = IF a \in op.at THEN op.value ELSE memory[CellAt[a]]
        <5>1. /\ CellAt[a] \in Cells
              /\ (\E b \in op.at : CellAt[b] = CellAt[a] /\ CellAt[a] \notin ReadOnly)
                 <=> a \in op.at
          BY <1>1, <4>1, WrittenOver
        <5> QED BY <3>1, <5>1
      <4> QED BY <4>1, <4>2
    <3> QED BY <3>4, <3>5 DEF Bytes
  <2>4. CASE op.kind # "write"
    <3>1. m = memory
      BY <2>1, <2>4 DEF Changed
    <3> QED BY <2>1, <2>4, <3>1 DEF Wrote
  <2> QED BY <2>3, <2>4
<1> QED BY <1>2, <1>3

LEMMA WriteHeadMirrors == ASSUME Exact, IInv, Mirror, WriteHead PROVE Mirror'
<1>1. PICK ok \in BOOLEAN, m \in [Cells -> Values] :
         /\ Changed(op, ok, m) /\ memory' = m
         /\ doing' = [doing EXCEPT !.ok = ok, !.got = Carried(op, ok, m)]
  BY DEF WriteHead
<1>2. /\ process = "busy" /\ process' = "answering"
      /\ replies' = Append(replies, [part |-> "head", of |-> doing.of])
      /\ UNCHANGED <<handle, pc, op, dead, held, valid>>
  BY DEF WriteHead, link, window
<1>3. handle' = "starting" => ~valid'
  BY <1>2, Zenon DEF Mirror
<1>4. CASE handle = "made" /\ dead = "no" /\ pc = "waiting"
  <2>1. Len(replies) = 0 /\ op.kind \notin {"hello", "create"}
    BY <1>2, <1>4 DEF IInv, Pipe, InHand
  <2>2. /\ op.kind \in {"advance", "load"} => ~valid
        /\ valid => held = Bytes(DOMAIN held, memory)
    BY <1>4, <2>1, Zenon DEF Mirror
  <2>3. Types /\ op.kind # "create"
    BY <2>1 DEF IInv
  <2>4. /\ op.kind = "advance" /\ ok => Carried(op, ok, m) = Bytes(op.at, m)
        /\ valid => Wrote(op, ok) = Bytes(DOMAIN held, m)
    BY <1>1, <2>2, <2>3, AnswerSettles
  <2>5. doing'.ok = ok /\ doing'.got = Carried(op, ok, m)
    <3> DEFINE c == Carried(op, ok, m)
    <3> HIDE DEF c
    <3>1. doing' = [doing EXCEPT !.ok = ok, !.got = c]
      BY <1>1 DEF c
    <3>2. doing \in [of : Nat, ok : BOOLEAN, got : Byteses]
      BY DEF IInv, Types
    <3> QED BY <3>1, <3>2 DEF c
  <2>6. Settles(doing.ok, doing.got)'
    <3>1. Bytes(op.at, m) = Bytes(op.at, memory)' /\ Bytes(DOMAIN held, m) = Bytes(DOMAIN held, memory)'
      BY <1>1, <1>2 DEF Bytes
    <3>2. Wrote(op, ok) = Wrote(op, doing.ok)'
      BY <1>2, <2>5 DEF Wrote
    <3> QED BY <1>2, <2>4, <2>5, <3>1, <3>2, Zenon DEF Settles
  <2>7. Len(replies') = 1
    <3>1. replies \in Seq(Replies) /\ [part |-> "head", of |-> doing.of] \in Replies
      BY DEF IInv, Types, Replies
    <3> QED BY <1>2, <2>1, <3>1
  <2>8. pc' = "waiting" /\ Len(replies') # 0 /\ Len(replies') # 2
    BY <1>2, <1>4, <2>7
  <2> QED BY <1>2, <1>3, <2>2, <2>6, <2>8, Zenon DEF Mirror
<1>5. CASE ~(handle = "made" /\ dead = "no" /\ pc = "waiting")
  <2>1. ~(handle = "made" /\ dead = "no" /\ pc \in {"idle", "waiting", "head"})
    BY <1>2, <1>5 DEF IInv, Pipe
  <2> QED BY <1>2, <1>3, <2>1, Zenon DEF Mirror
<1> QED BY <1>4, <1>5

LEMMA WriteRestMirrors == ASSUME IInv, Mirror, WriteRest PROVE Mirror'
<1> DEFINE rest == [part |-> "rest", of |-> doing.of, ok |-> doing.ok, got |-> doing.got]
<1>1. /\ process = "answering" /\ process' # "answering" /\ replies' = Append(replies, rest)
      /\ UNCHANGED <<handle, pc, op, dead, memory, held, valid>>
  BY DEF WriteRest, link, window
<1>2. replies \in Seq(Replies) /\ rest \in Replies
  BY DEF IInv, Types, Replies
<1>3. rest.ok = doing.ok /\ rest.got = doing.got
  OBVIOUS
<1> HIDE DEF rest
<1>4. Len(replies') = Len(replies) + 1 /\ replies'[Len(replies) + 1] = rest
  BY <1>1, <1>2
<1>5. handle' = "starting" => ~valid'
  BY <1>1, Zenon DEF Mirror
<1>6. \A ok, got : Settles(ok, got)' <=> Settles(ok, got)
  BY <1>1, Zenon DEF Settles, Wrote, Bytes
<1>7. CASE handle = "made" /\ dead = "no" /\ pc = "waiting"
  <2>1. Len(replies) = 1
    BY <1>1, <1>7 DEF IInv, Pipe
  <2>2. Len(replies') = 2 /\ Len(replies') # 0 /\ Len(replies') # 1 /\ replies'[2] = rest
    BY <1>4, <2>1
  <2>3. Settles(doing.ok, doing.got) /\ (op.kind \in {"advance", "load"} => ~valid)
    BY <1>1, <1>7, <2>1, Zenon DEF Mirror
  <2>4. Settles(replies[2].ok, replies[2].got)'
    <3>1. Settles(rest.ok, rest.got)
      BY <1>3, <2>3
    <3> QED BY <1>1, <2>2, <3>1, Zenon DEF Settles, Wrote, Bytes
  <2> QED BY <1>1, <1>5, <1>7, <2>2, <2>3, <2>4, Zenon DEF Mirror
<1>8. CASE handle = "made" /\ dead = "no" /\ pc = "head"
  <2>1. Len(replies) = 0
    BY <1>1, <1>8 DEF IInv, Pipe
  <2>2. Len(replies') = 1 /\ Len(replies') # 0 /\ replies'[1] = rest
    BY <1>4, <2>1
  <2>3. Settles(doing.ok, doing.got) /\ (op.kind \in {"advance", "load"} => ~valid)
    BY <1>1, <1>8, <2>1, Zenon DEF Mirror
  <2>4. Settles(replies[1].ok, replies[1].got)'
    <3>1. Settles(rest.ok, rest.got)
      BY <1>3, <2>3
    <3> QED BY <1>1, <2>2, <3>1, Zenon DEF Settles, Wrote, Bytes
  <2> QED BY <1>1, <1>5, <1>8, <2>2, <2>3, <2>4, Zenon DEF Mirror
<1>9. CASE ~(handle = "made" /\ dead = "no" /\ pc \in {"waiting", "head"})
  <2>1. ~(handle = "made" /\ dead = "no" /\ pc = "idle")
    BY <1>1 DEF IInv, Pipe
  <2> QED BY <1>1, <1>5, <1>9, <2>1, Zenon DEF Mirror
<1> QED BY <1>7, <1>8, <1>9

LEMMA TakeHeadMirrors == ASSUME IInv, Mirror, TakeHead PROVE Mirror'
<1>1. /\ pc = "waiting" /\ pc' = "head" /\ replies # <<>> /\ replies' = Tail(replies)
      /\ UNCHANGED <<handle, op, dead, process, doing, memory, held, valid>>
  BY DEF TakeHead, link, serving, window
<1>2. /\ replies \in Seq(Replies) /\ Len(replies) # 0 /\ Len(replies) \in {0, 1, 2}
      /\ Len(replies') = Len(replies) - 1
      /\ Len(replies) = 2 => replies'[1] = replies[2]
  BY <1>1 DEF IInv, Types, Pipe
<1>3. handle' = "starting" => ~valid'
  BY <1>1, Zenon DEF Mirror
<1>4. CASE handle = "made" /\ dead = "no"
  <2>1. op.kind \in {"advance", "load"} => ~valid
    BY <1>1, <1>4, Zenon DEF Mirror
  <2>2. CASE Len(replies) = 1
    <3>1. Len(replies') = 0 /\ Len(replies') # 1
      BY <1>2, <2>2
    <3>2. process = "answering" => Settles(doing.ok, doing.got)
      BY <1>1, <1>4, <2>2, Zenon DEF Mirror
    <3>3. process' = "answering" => Settles(doing.ok, doing.got)'
      BY <1>1, <3>2, Zenon DEF Settles, Wrote, Bytes
    <3> QED BY <1>1, <1>3, <2>1, <3>1, <3>3, Zenon DEF Mirror
  <2>3. CASE Len(replies) = 2
    <3>1. Len(replies') = 1 /\ Len(replies') # 0 /\ replies'[1] = replies[2]
      BY <1>2, <2>3
    <3>2. Settles(replies[2].ok, replies[2].got)
      BY <1>1, <1>4, <2>3, Zenon DEF Mirror
    <3>3. Settles(replies[1].ok, replies[1].got)'
      BY <1>1, <3>1, <3>2, Zenon DEF Settles, Wrote, Bytes
    <3> QED BY <1>1, <1>3, <2>1, <3>1, <3>3, Zenon DEF Mirror
  <2> QED BY <1>2, <2>2, <2>3
<1>5. CASE ~(handle = "made" /\ dead = "no")
  BY <1>1, <1>3, <1>5, Zenon DEF Mirror
<1> QED BY <1>4, <1>5

LEMMA SendMirrors ==
    ASSUME IInv, Mirror, Ready, NEW o \in Ops, Send(o), held' = held,
           valid' = valid \/ valid' = FALSE,
           o.kind \in {"advance", "load"} => valid' = FALSE
    PROVE  Mirror'
<1>1. /\ handle = "made" /\ pc = "idle" /\ dead = "no" /\ op' = o
      /\ UNCHANGED <<handle, dead, memory, replies>>
  BY DEF Ready, Send, link
<1>2. pc' = "waiting" \/ pc' = "reaping"
  BY DEF Send
<1>3. replies = <<>>
  BY <1>1 DEF IInv, Pipe
<1>4. Len(replies') = 0 /\ Len(replies') # 1 /\ Len(replies') # 2
  BY <1>1, <1>3
<1>5. valid' => held = Bytes(DOMAIN held, memory)
  BY <1>1, Zenon DEF Mirror
<1>6. valid' => held' = Bytes(DOMAIN held, memory)'
  BY <1>1, <1>5, Zenon DEF Bytes
<1>7. handle' # "starting" /\ pc' # "idle" /\ pc' # "head"
  BY <1>1, <1>2
<1>8. op'.kind \in {"advance", "load"} => ~valid'
  BY <1>1, Zenon
<1> QED BY <1>4, <1>6, <1>7, <1>8, Zenon DEF Mirror

LEMMA CallMirrors ==
    ASSUME IInv, Mirror, Advance \/ Load \/ Look \/ SpaceRead \/ SpaceWrite PROVE Mirror'
<1>1. wanted \subseteq Addrs
  BY DEF IInv, Types
<1>2. CASE Advance
  <2>1. [kind |-> "advance", at |-> wanted, value |-> 0] \in Ops
    BY <1>1 DEF Ops
  <2>2. /\ Ready /\ held' = held /\ valid' = FALSE
        /\ Send([kind |-> "advance", at |-> wanted, value |-> 0])
    BY <1>2 DEF Advance
  <2> QED BY <2>1, <2>2, SendMirrors, Zenon
<1>3. CASE Load
  <2>1. [kind |-> "load", at |-> {}, value |-> 0] \in Ops
    BY DEF Ops
  <2>2. /\ Ready /\ held' = held /\ valid' = FALSE
        /\ Send([kind |-> "load", at |-> {}, value |-> 0])
    BY <1>3 DEF Load
  <2> QED BY <2>1, <2>2, SendMirrors, Zenon
<1>4. CASE Look
  <2>1. /\ [kind |-> "look", at |-> {}, value |-> 0] \in Ops
        /\ [kind |-> "look", at |-> {}, value |-> 0].kind \notin {"advance", "load"}
    BY DEF Ops
  <2>2. /\ Ready /\ held' = held /\ valid' = valid
        /\ Send([kind |-> "look", at |-> {}, value |-> 0])
    BY <1>4 DEF Look, window
  <2> QED BY <2>1, <2>2, SendMirrors, Zenon
<1>5. CASE SpaceRead
  <2>1. PICK a \in Addrs : Send([kind |-> "read", at |-> {a}, value |-> 0])
    BY <1>5 DEF SpaceRead
  <2>2. /\ [kind |-> "read", at |-> {a}, value |-> 0] \in Ops
        /\ [kind |-> "read", at |-> {a}, value |-> 0].kind \notin {"advance", "load"}
    BY DEF Ops
  <2>3. Ready /\ held' = held /\ valid' = valid
    BY <1>5 DEF SpaceRead
  <2> QED BY <2>1, <2>2, <2>3, SendMirrors, Zenon
<1>6. CASE SpaceWrite
  <2>1. PICK at \in SUBSET Addrs, v \in Values : Send([kind |-> "write", at |-> at, value |-> v])
    BY <1>6 DEF SpaceWrite
  <2>2. /\ [kind |-> "write", at |-> at, value |-> v] \in Ops
        /\ [kind |-> "write", at |-> at, value |-> v].kind \notin {"advance", "load"}
    BY DEF Ops
  <2>3. Ready /\ held' = held /\ valid' = valid
    BY <1>6 DEF SpaceWrite, window
  <2> QED BY <2>1, <2>2, <2>3, SendMirrors, Zenon
<1> QED BY <1>2, <1>3, <1>4, <1>5, <1>6

LEMMA TakeRestMirrors == ASSUME IInv, Mirror, TakeRest PROVE Mirror'
<1> DEFINE r == Head(replies)
<1>1. /\ Len(replies) = 1 /\ replies[1] = r /\ pc = "head" /\ handle # "none" /\ dead = "no"
      /\ (handle = "starting" <=> op.kind \in {"hello", "create"})
      /\ (handle = "freeing" <=> op.kind = "free")
      /\ r.got \in Byteses /\ dead' = "no" /\ memory' = memory
  BY ReplyTaken
<1>2. handle = "starting" => ~valid
  BY Zenon DEF Mirror
<1>3. CASE op.kind = "hello" /\ r.ok
  <2>1. handle' = "starting" /\ valid' = valid
    BY <1>1, <1>3 DEF TakeRest, window
  <2> QED BY <1>1, <1>2, <1>3, <2>1, Zenon DEF Mirror
<1>4. CASE op.kind = "create" /\ r.ok
  <2>1. handle' = "made" /\ pc' = "idle" /\ valid' = valid
    BY <1>4 DEF TakeRest, window
  <2>2. ~valid'
    BY <1>1, <1>2, <1>4, <2>1, Zenon
  <2> QED BY <2>1, <2>2, Zenon DEF Mirror
<1>5. CASE op.kind = "free" \/ (op.kind \in {"hello", "create"} /\ ~r.ok)
  <2>1. pc' = "dropping" /\ handle' = handle /\ valid' = valid
    BY <1>5 DEF TakeRest, window
  <2> QED BY <1>2, <2>1, Zenon DEF Mirror
<1>6. CASE op.kind \notin {"hello", "create", "free"}
  <2>1. /\ pc' = "idle" /\ handle' = handle
        /\ IF op.kind = "advance" /\ r.ok THEN held' = r.got /\ valid' = TRUE
                                         ELSE held' = Wrote(op, r.ok) /\ valid' = valid
    BY <1>6 DEF TakeRest
  <2>2. handle = "made"
    BY <1>1, <1>6 DEF IInv, Types
  <2>3. Settles(r.ok, r.got)
    BY <1>1, <2>2, Zenon DEF Mirror
  <2>4. CASE op.kind = "advance" /\ r.ok
    <3>1. held' = Bytes(op.at, memory) /\ op.at \in SUBSET Addrs /\ memory \in [Cells -> Values]
      BY <2>1, <2>3, <2>4 DEF Settles, IInv, Types, Ops
    <3>2. DOMAIN held' = op.at
      BY <3>1, BytesType
    <3>3. held' = Bytes(DOMAIN held, memory)'
      BY <1>1, <3>1, <3>2, Zenon DEF Bytes
    <3> QED BY <2>1, <2>2, <3>3, Zenon DEF Mirror
  <2>5. CASE ~(op.kind = "advance" /\ r.ok)
    <3>1. held' = Wrote(op, r.ok) /\ valid' = valid
      BY <2>1, <2>5, Zenon
    <3>2. DOMAIN Wrote(op, r.ok) = DOMAIN held
      <4>1. CASE op.kind = "write" /\ r.ok
        BY <4>1 DEF Wrote
      <4>2. CASE ~(op.kind = "write" /\ r.ok)
        BY <4>2, Zenon DEF Wrote
      <4> QED BY <4>1, <4>2
    <3>3. valid => held' = Bytes(DOMAIN held, memory)
      BY <2>3, <3>1, Zenon DEF Settles
    <3>4. DOMAIN held' = DOMAIN held
      BY <3>1, <3>2
    <3>5. valid' => held' = Bytes(DOMAIN held, memory)'
      BY <1>1, <3>1, <3>3, <3>4, Zenon DEF Bytes
    <3> QED BY <2>1, <2>2, <3>5, Zenon DEF Mirror
  <2> QED BY <2>4, <2>5
<1> QED BY <1>3, <1>4, <1>5, <1>6

\* The steps that leave what the window is, and what is on its way, alone.
LEMMA OthersMirror ==
    ASSUME IInv, Mirror,
           \/ Read \/ Crash \/ SeesClose \/ TimeOut \/ SeesEnd \/ Stop \/ Reap
           \/ Shut \/ Bury \/ HostEnds \/ Start \/ Free
    PROVE  Mirror'
<1> USE DEF link, serving, window
<1>1. CASE Read \/ Crash \/ SeesClose
  <2>1. /\ process' # "answering"
        /\ UNCHANGED <<handle, pc, op, dead, replies, memory, held, valid>>
    BY <1>1 DEF Read, Crash, SeesClose
  <2> QED BY <2>1, Zenon DEF Mirror, Settles, Wrote, Bytes
<1>2. CASE TimeOut \/ SeesEnd \/ HostEnds
  <2>1. pc' \notin {"idle", "waiting", "head"} /\ UNCHANGED <<handle, valid>>
    BY <1>2 DEF TimeOut, SeesEnd, HostEnds
  <2> QED BY <2>1, Zenon DEF Mirror
<1>3. CASE Stop \/ Reap
  <2>1. dead' # "no" /\ UNCHANGED <<handle, valid>>
    BY <1>3 DEF Stop, Reap, Failed
  <2> QED BY <2>1, Zenon DEF Mirror
<1>4. CASE Shut
  <2>1. pc' \notin {"idle", "waiting", "head"} /\ UNCHANGED <<handle, valid>>
    BY <1>4 DEF Shut
  <2> QED BY <2>1, Zenon DEF Mirror
<1>5. CASE Bury
  <2>1. handle' = "none"
    BY <1>5 DEF Bury
  <2> QED BY <2>1, Zenon DEF Mirror
<1>6. CASE Start
  <2>1. handle' = "starting" /\ valid' = FALSE
    BY <1>6 DEF Start
  <2> QED BY <2>1, Zenon DEF Mirror
<1>7. CASE Free
  <2>1. handle' = "freeing"
    BY <1>7 DEF Free
  <2> QED BY <2>1, Zenon DEF Mirror
<1> QED BY <1>1, <1>2, <1>3, <1>4, <1>5, <1>6, <1>7

\* Where no two addresses show one byte and every byte may be written, a read
\* the window answers is what the runner would answer (proxy.rs: Window), for
\* any memory and any calls.
THEOREM WindowIsExact == Spec => [](Exact => WindowIsTheMemory)
<1>1. IInv /\ WInv /\ [Next]_vars => WInv'
  <2> SUFFICES ASSUME IInv, WInv, [Next]_vars, Exact PROVE Mirror'
    BY DEF WInv, Exact
  <2>1. Mirror
    BY DEF WInv
  <2>2. CASE UNCHANGED vars
    BY <2>1, <2>2, Zenon DEF vars, link, serving, window, Mirror, Settles, Wrote, Bytes
  <2>3. CASE Next
    BY <2>1, <2>3, WriteHeadMirrors, WriteRestMirrors, TakeHeadMirrors, CallMirrors,
       TakeRestMirrors, OthersMirror DEF Next, Runner, Receive, Host
  <2> QED BY <2>2, <2>3
<1>2. Init => WInv
  BY InitMirror DEF WInv
<1>3. WInv => (Exact => WindowIsTheMemory)
  BY Zenon DEF WInv, Mirror, WindowIsTheMemory
<1> QED BY <1>1, <1>2, <1>3, AlwaysIInv, PTL DEF Spec
=============================================================================
