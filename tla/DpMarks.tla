------------------------------- MODULE DpMarks -------------------------------
(***************************************************************************)
(* How the Nintendo 64's machine thread keeps off the memory its display   *)
(* list is drawing into (MarsRT - N64/src/memory/dp_threads.rs).  Each     *)
(* word is marked for before it is published: the pages it reaches carry   *)
(* the count that frees them, one for a writer and one for a reader; a     *)
(* ring of ranges says which bytes; the images drawn into stay idle, due   *)
(* with everything, until their batch ends; and a ring of boxes says what  *)
(* each draw can reach, for a read to wait for no more than it must.       *)
(*                                                                         *)
(* The drain is the count of words every worker has run.  A worker may be  *)
(* at any word past it, and its verifier looks each byte up in the marks,  *)
(* the ranges and, for a write, the boxes while the machine changes them.  *)
(* The range a worker remembers of its last look-up is left out: it        *)
(* accepts what the look-up did.                                           *)
(*                                                                         *)
(* Memory is cells of eight bytes, the least a read is narrowed to; a draw *)
(* reaches all of its box, in the colour image; a command is one word.     *)
(***************************************************************************)
EXTENDS Integers, Sequences, FiniteSets, FiniteSetsExt

CONSTANTS
    Cells,          \* the cells of the memory
    PageCells,      \* the cells of a page
    Spans,          \* what a command may reach, and an access touch: <<from, to>>
    RangeCount,     \* the ring of ranges
    IdleRanges,     \* the idle ranges a batch lists
    BoxCount,       \* the ring of boxes
    Overflows,      \* whether a batch draws again to an image it has not listed
    MaxWords,       \* bound: the words of the list
    MaxAccesses     \* bound: the accesses made

ASSUME MarksAssumption ==
    /\ Cells \in Nat \ {0}
    /\ PageCells \in Nat \ {0}
    /\ Spans \subseteq {s \in (0 .. Cells) \X (0 .. Cells) : s[1] < s[2]}
    /\ RangeCount \in Nat \ {0}
    /\ IdleRanges \in Nat \ {0}
    /\ BoxCount \in Nat \ {0}
    /\ Overflows \in BOOLEAN
    /\ MaxWords \in Nat
    /\ MaxAccesses \in Nat

VARIABLES
    words,              \* the words shadowed: what each does, and to what
    issued, completed,  \* the words published, and those every worker has run
    marks, write_marks, \* the count a writer, and a reader, of a page waits for
    ranges, appended,   \* the ring of ranges, and the ranges appended
    idle, unlisted,     \* the open batch's ranges, and whether one found no room
    boxes, boxed,       \* the ring of boxes, and the boxes appended
    extent,             \* the batch's range of the image: its index, its span
    batch_start,
    machine,            \* where the machine's thread stands
    taking,             \* whether it is inside a batch
    access,             \* the access it makes, and how far it has come
    accesses,
    check,              \* the verifier's look-up
    faulted

list == <<words, issued, completed>>
pages == <<marks, write_marks>>
ring == <<ranges, appended>>
batch == <<idle, unlisted, extent, batch_start, taking>>
box == <<boxes, boxed>>
reading == <<access, accesses>>
verifier == <<check, faulted>>
vars == <<list, pages, ring, batch, box, machine, reading, verifier>>

\* An image's mark while its batch is open: more than any count.
IDLE == MaxWords + 1

Pages == 0 .. (Cells - 1) \div PageCells
PagesOf(from, to) == {p \in Pages : from < (p + 1) * PageCells /\ to > p * PageCells}
Overlap(a, b, from, to) == a < to /\ b > from

NoRange == [from |-> 0, to |-> 0, start |-> 0, mark |-> 0, write |-> FALSE]
NoBox == [end |-> 0, from |-> 0, to |-> 0]
NoExtent == [index |-> -1, from |-> 0, to |-> 0]
NoAccess == [from |-> 0, to |-> 0, write |-> FALSE, narrow |-> FALSE,
             page |-> 0, goal |-> 0, found |-> -1]
NoCheck == [word |-> 0, cell |-> 0, write |-> FALSE, at |-> "off", next |-> 0,
            slot |-> NoRange]

Init ==
    /\ words = <<>>
    /\ issued = 0 /\ completed = 0
    /\ marks = [p \in Pages |-> 0]
    /\ write_marks = [p \in Pages |-> 0]
    /\ ranges = [s \in 0 .. RangeCount - 1 |-> NoRange]
    /\ appended = 0
    /\ idle = <<>> /\ unlisted = FALSE
    /\ boxes = [s \in 0 .. BoxCount - 1 |-> NoBox]
    /\ boxed = 0
    /\ extent = NoExtent
    /\ batch_start = 0
    /\ machine = "free" /\ taking = FALSE
    /\ access = NoAccess /\ accesses = 0
    /\ check = NoCheck /\ faulted = FALSE

-----------------------------------------------------------------------------
(* Marking.                                                                *)

Larger(a, b) == IF a < b THEN b ELSE a

\* A later mark is never smaller.
MarkPages(from, to, after, write) ==
    /\ marks' = [p \in Pages |-> IF p \in PagesOf(from, to)
                                 THEN Larger(marks[p], after) ELSE marks[p]]
    /\ write_marks' = [p \in Pages |-> IF write /\ p \in PagesOf(from, to)
                                       THEN Larger(write_marks[p], after)
                                       ELSE write_marks[p]]

\* Except at a batch's end, which writes its count over the idle marks.
Downgrade(from, to, after) ==
    /\ marks' = [p \in Pages |-> IF p \in PagesOf(from, to) THEN after ELSE marks[p]]
    /\ write_marks' = [p \in Pages |-> IF p \in PagesOf(from, to) THEN after
                                       ELSE write_marks[p]]

\* A range is written whole before its count moves, as a draw's box is.
WriteRange(from, to, start, mark, write) ==
    ranges' = [ranges EXCEPT ![appended % RangeCount] =
                 [from |-> from, to |-> to, start |-> start, mark |-> mark, write |-> write]]

BeginBatch ==
    /\ machine = "free" /\ ~taking /\ issued < MaxWords
    /\ taking' = TRUE
    /\ batch_start' = issued
    /\ extent' = NoExtent
    /\ UNCHANGED <<list, pages, ring, idle, unlisted, box, machine, reading, verifier>>

\* The word given, shadowed and marked for, and not yet published.
Take(word) ==
    /\ machine = "free" /\ taking /\ issued < MaxWords
    /\ words' = Append(words, word)
    /\ machine' = "publish"
    /\ UNCHANGED <<issued, completed, appended, batch_start, taking, reading, verifier>>

SetImage ==
    /\ Take([does |-> "image", from |-> 0, to |-> 0])
    /\ extent' = NoExtent
    /\ UNCHANGED <<pages, ranges, idle, unlisted, box>>

Load(s) ==
    /\ Take([does |-> "load", from |-> s[1], to |-> s[2]])
    /\ MarkPages(s[1], s[2], issued + 1, FALSE)
    /\ WriteRange(s[1], s[2], issued + 1, issued + 1, FALSE)
    /\ UNCHANGED <<idle, unlisted, extent, box>>

\* The batch's extent grown in place over what the draw reaches, or a first one
\* listed; one the list had no room for stands for the whole memory.
Grow(from, to, start) ==
    CASE extent.index = -2
            -> UNCHANGED <<pages, idle, unlisted, extent>>
      [] extent.index >= 0 /\ from >= extent.from /\ to <= extent.to
            -> UNCHANGED <<pages, idle, unlisted, extent>>
      [] extent.index >= 0 /\ ~(from >= extent.from /\ to <= extent.to)
            -> LET low == Min({from, extent.from})
                   high == Max({to, extent.to})
               IN /\ MarkPages(low, high, IDLE, TRUE)
                  /\ idle' = [idle EXCEPT ![extent.index].from = low,
                                          ![extent.index].to = high]
                  /\ extent' = [extent EXCEPT !.from = low, !.to = high]
                  /\ UNCHANGED unlisted
      [] extent.index = -1
            -> LET room == ~unlisted /\ Len(idle) < IdleRanges
               IN /\ MarkPages(from, to, IDLE, TRUE)
                  /\ idle' = IF room
                             THEN Append(idle, [from |-> from, to |-> to, start |-> start])
                             ELSE idle
                  /\ unlisted' = ~room
                  /\ extent' = [index |-> IF room THEN Len(idle) + 1 ELSE -2,
                                from |-> from, to |-> to]

Draw(s) ==
    /\ extent.index = -2 => Overflows
    /\ Take([does |-> "draw", from |-> s[1], to |-> s[2]])
    /\ boxes' = [boxes EXCEPT ![boxed % BoxCount] =
                    [end |-> issued + 1, from |-> s[1], to |-> s[2]]]
    /\ Grow(s[1], s[2], issued + 1)
    /\ UNCHANGED <<ranges, boxed>>

\* A load's range and a draw's box are written when the word is shadowed and
\* counted here: the count of either (append, append_box) is its last store.
Publish ==
    /\ machine = "publish"
    /\ issued' = issued + 1
    /\ appended' = appended + IF words[issued + 1].does = "load" THEN 1 ELSE 0
    /\ boxed' = boxed + IF words[issued + 1].does = "draw" THEN 1 ELSE 0
    /\ machine' = "free"
    /\ UNCHANGED <<words, completed, pages, ranges, batch, boxes, reading, verifier>>

-----------------------------------------------------------------------------
(* The end of a batch: each idle range downgraded and appended, one range  *)
(* of everything where the list overflowed, and the list emptied last.     *)

EndBatch ==
    /\ machine = "free" /\ taking
    /\ taking' = FALSE
    /\ machine' = "end"
    /\ UNCHANGED <<list, pages, ring, idle, unlisted, extent, batch_start, box, verifier>>
    /\ access' = [access EXCEPT !.page = 1]     \* the range it is at
    /\ UNCHANGED accesses

EndRange ==
    /\ machine = "end"
    /\ IF unlisted
       THEN /\ access.page = 1
            /\ WriteRange(0, Cells, batch_start, issued, TRUE)
            /\ UNCHANGED pages
       ELSE /\ access.page <= Len(idle)
            /\ LET i == idle[access.page]
               IN /\ Downgrade(i.from, i.to, issued)
                  /\ WriteRange(i.from, i.to, i.start, issued, TRUE)
    /\ machine' = "append"
    /\ UNCHANGED <<list, appended, batch, box, reading, verifier>>

EndAppend ==
    /\ machine = "append"
    /\ appended' = appended + 1
    /\ access' = [access EXCEPT !.page = @ + 1]
    /\ machine' = "end"
    /\ UNCHANGED <<list, pages, ranges, batch, box, accesses, verifier>>

EndIdle ==
    /\ machine = "end"
    /\ access.page > IF unlisted THEN 1 ELSE Len(idle)
    /\ idle' = <<>> /\ unlisted' = FALSE
    /\ access' = NoAccess
    /\ machine' = "free"
    /\ UNCHANGED <<list, pages, ring, extent, batch_start, taking, box, accesses, verifier>>

\* Everything has run: marks and ranges are forgotten.  A fault found is raised
\* here and where a page is waited for, and the machine goes no further.
Join ==
    /\ machine = "free" /\ ~taking
    /\ completed = issued /\ ~faulted
    /\ marks' = [p \in Pages |-> 0]
    /\ write_marks' = [p \in Pages |-> 0]
    /\ appended' = 0
    /\ UNCHANGED <<list, ranges, batch, box, machine, reading, verifier>>

-----------------------------------------------------------------------------
(* An access of the machine's: page by page, each marked one waited for.   *)

\* A faulty Reaches: a ring that is full of ranges still due says no more than
\* what it holds.
ReachesTheRing(from, to, write) ==
    LET oldest == Larger(appended - RangeCount, 0)
        Slot(i) == ranges[i % RangeCount]
        due == {i \in oldest .. appended - 1 :
                    \A j \in i .. appended - 1 : Slot(j).mark > completed}
    IN \/ unlisted
       \/ \E i \in DOMAIN idle : Overlap(from, to, idle[i].from, idle[i].to)
       \/ \E i \in due : /\ Overlap(from, to, Slot(i).from, Slot(i).to)
                         /\ write \/ Slot(i).write

\* Whether a range still due overlaps: any for a writer, one the processor
\* writes for a reader.  The ring is read from its newest, and given up at the
\* first that has run.
Reaches(from, to, write) ==
    LET oldest == Larger(appended - RangeCount, 0)
        Slot(i) == ranges[i % RangeCount]
        due == {i \in oldest .. appended - 1 :
                    \A j \in i .. appended - 1 : Slot(j).mark > completed}
    IN \/ unlisted
       \/ \E i \in DOMAIN idle : Overlap(from, to, idle[i].from, idle[i].to)
       \/ \E i \in due : /\ Overlap(from, to, Slot(i).from, Slot(i).to)
                         /\ write \/ Slot(i).write
       \/ due = oldest .. appended - 1 /\ appended - oldest >= RangeCount

\* The last draw due that can reach the cells, 0 where none can, IDLE where
\* the ring of boxes no longer says.
LastHolding(from, to) ==
    LET oldest == Larger(boxed - BoxCount, 0)
        Slot(i) == boxes[i % BoxCount]
        due == {i \in oldest .. boxed - 1 : Slot(i).end > completed}
        reach == {i \in due : Overlap(from, to, Slot(i).from, Slot(i).to)}
    IN CASE reach # {} -> Slot(Max(reach)).end
         [] reach = {} /\ due = oldest .. boxed - 1 /\ oldest > 0 -> IDLE
         [] OTHER -> 0

\* A faulty Clear: whatever marks the page is taken away.
ClearAll(page, mark) ==
    /\ marks' = [marks EXCEPT ![page] = 0]
    /\ write_marks' = [write_marks EXCEPT ![page] = 0]

\* A mark no greater than the one that has run is taken away.
Clear(page, mark) ==
    /\ marks' = [marks EXCEPT ![page] = IF @ <= mark THEN 0 ELSE @]
    /\ write_marks' = [write_marks EXCEPT ![page] = IF @ <= mark THEN 0 ELSE @]

\* A range is waited for with its boxes or, for a capture at a multiple, whole.
\* Inside a batch the machine only reads, the list's own words.
Begin ==
    /\ machine = "free"
    /\ accesses < MaxAccesses
    /\ accesses' = accesses + 1
    /\ \E s \in Spans, write, narrow \in BOOLEAN :
           /\ taking => ~write
           /\ write => ~narrow
           /\ access' = [NoAccess EXCEPT !.from = s[1], !.to = s[2], !.write = write,
                            !.narrow = narrow, !.page = Min(PagesOf(s[1], s[2]))]
    /\ machine' = "page"
    /\ UNCHANGED <<list, pages, ring, batch, box, verifier>>

Page == access.page
Mark == IF access.write THEN marks[Page] ELSE write_marks[Page]
From == Larger(access.from, Page * PageCells)
To == Min({access.to, (Page + 1) * PageCells})
Due == Mark = IDLE \/ completed < Mark

\* What the page's bytes wait for: the mark, or less where the boxes say so.
\* A small read asks by its cell; a range asks once for all of its pages.
Narrowed ==
    CASE access.write -> IDLE
      [] ~access.write /\ To - From = 1 -> LastHolding(From, To)
      [] ~access.write /\ To - From > 1 /\ access.narrow ->
            IF access.found # -1 THEN access.found ELSE LastHolding(access.from, access.to)
      [] OTHER -> IDLE
Goal == Min({IF Mark = IDLE THEN issued ELSE Mark, Narrowed})
Found ==
    IF ~access.write /\ To - From > 1 /\ access.narrow THEN Narrowed ELSE access.found

Onward(a) ==
    IF Page + 1 \in PagesOf(access.from, access.to)
    THEN machine' = "page" /\ access' = [a EXCEPT !.page = @ + 1]
    ELSE machine' = "through" /\ access' = a

\* An unmarked page, one whose mark has run, one no due range reaches, one
\* whose last draw that reaches it has run: nothing to wait for.
Pass ==
    /\ machine = "page"
    /\ \/ Mark = 0 /\ Onward(access) /\ UNCHANGED pages
       \/ Mark # 0 /\ ~Due /\ Clear(Page, Mark) /\ Onward(access)
       \/ /\ Mark # 0 /\ Due /\ ~Reaches(From, To, access.write)
          /\ Onward(access) /\ UNCHANGED pages
       \/ /\ Mark # 0 /\ Due /\ Reaches(From, To, access.write)
          /\ Goal = Narrowed /\ Narrowed <= completed
          /\ Onward([access EXCEPT !.found = Found])
          /\ UNCHANGED pages
    /\ UNCHANGED <<list, ring, batch, box, accesses, verifier>>

Wait ==
    /\ machine = "page"
    /\ Mark # 0 /\ Due /\ Reaches(From, To, access.write)
    /\ ~(Goal = Narrowed /\ Narrowed <= completed)
    /\ access' = [access EXCEPT !.goal = Goal, !.found = Found]
    /\ machine' = "wait"
    /\ UNCHANGED <<list, pages, ring, batch, box, accesses, verifier>>

Waited ==
    /\ machine = "wait"
    /\ completed >= access.goal /\ ~faulted
    /\ IF Mark # IDLE /\ access.goal >= Mark THEN Clear(Page, Mark) ELSE UNCHANGED pages
    /\ Onward([access EXCEPT !.goal = 0])
    /\ UNCHANGED <<list, ring, batch, box, accesses, verifier>>

\* The bytes touched.
Touch ==
    /\ machine = "through"
    /\ machine' = "free"
    /\ access' = NoAccess
    /\ UNCHANGED <<list, pages, ring, batch, box, accesses, verifier>>

-----------------------------------------------------------------------------
(* The workers: the least of their counts, and one that verifies.          *)

Run ==
    /\ completed < issued
    /\ check.word # completed + 1
    /\ completed' = completed + 1
    /\ UNCHANGED <<words, issued, pages, ring, batch, box, machine, reading, verifier>>

Verifies(there) == check' = [check EXCEPT !.at = there]
Object == faulted' = TRUE /\ check' = NoCheck
Accept == check' = NoCheck /\ UNCHANGED faulted
VerifierOnly == UNCHANGED <<list, pages, ring, batch, box, machine, reading>>

\* A byte is touched: its page must be marked to the word at least.
VerifyMark ==
    /\ check.at = "off" /\ ~faulted
    /\ \E n \in completed + 1 .. issued : \E c \in words[n].from .. words[n].to - 1 :
           LET write == words[n].does = "draw"
               mark == IF write THEN write_marks[c \div PageCells] ELSE marks[c \div PageCells]
           IN IF mark < n THEN Object
              ELSE /\ check' = [NoCheck EXCEPT !.word = n, !.cell = c, !.write = write, !.at = "idle"]
                   /\ UNCHANGED faulted
    /\ VerifierOnly

Within(r) == check.cell >= r.from /\ check.cell < r.to

\* A read that was marked for is as it should be; a write has its box to keep to.
Covered ==
    /\ check' = IF check.write
                THEN [check EXCEPT !.at = "box", !.next = 0, !.slot = NoRange]
                ELSE NoCheck
    /\ UNCHANGED faulted

\* The open batch read whole under its sequence.
VerifyIdle ==
    /\ check.at = "idle"
    /\ IF unlisted \/ \E i \in DOMAIN idle : idle[i].start <= check.word /\ Within(idle[i])
       THEN Covered
       ELSE Verifies("ring") /\ UNCHANGED faulted
    /\ VerifierOnly

\* Then the ring, newest first.
Oldest == Larger(appended - RangeCount, 0)

VerifyRing ==
    /\ check.at = "ring"
    /\ IF appended = 0 THEN Object
       ELSE check' = [check EXCEPT !.at = "slot", !.next = appended - 1] /\ UNCHANGED faulted
    /\ VerifierOnly

VerifySlot ==
    /\ check.at = "slot"
    /\ check' = [check EXCEPT !.at = "look", !.slot = ranges[check.next % RangeCount]]
    /\ UNCHANGED faulted
    /\ VerifierOnly

\* A faulty Overrun: the slot the machine is writing is still taken for the old.
OverrunLate(i) == appended - i > RangeCount

\* Whether the ring has come round on the slot while it was read.
Overrun(i) == appended - i >= RangeCount

\* A slot written over judges nothing; below the word there is nothing to find.
VerifyLook ==
    /\ check.at = "look"
    /\ LET r == check.slot
       IN CASE Overrun(check.next) -> Covered
            [] ~Overrun(check.next) /\ r.mark < check.word -> Object
            [] ~Overrun(check.next) /\ r.mark >= check.word ->
                  IF r.start <= check.word /\ Within(r) /\ (check.write => r.write)
                  THEN Covered
                  ELSE IF check.next = 0 THEN Object
                  ELSE /\ check' = [check EXCEPT !.at = "slot", !.next = @ - 1, !.slot = NoRange]
                       /\ UNCHANGED faulted
    /\ VerifierOnly

\* The box of the draw that ends at the word, found by its end; a draw whose box
\* is gone is not the boxes' to judge.
VerifyBox ==
    /\ check.at = "box"
    /\ LET named == {i \in Larger(boxed - BoxCount, 0) .. boxed - 1 :
                         boxes[i % BoxCount].end = check.word}
       IN \/ named = {} /\ Accept
          \/ \E i \in named : /\ check' = [check EXCEPT !.at = "fields", !.next = i]
                               /\ UNCHANGED faulted
    /\ VerifierOnly

\* Whether the ring of boxes has come round on the box while it was read: not
\* yet while the machine is still writing the next over it.
BoxOverrun(i) == boxed - i > BoxCount

\* The box is read and kept for the word's other bytes: it judges them all.
VerifyFields ==
    /\ check.at = "fields"
    /\ LET b == boxes[check.next % BoxCount]
           w == words[check.word]
       IN IF BoxOverrun(check.next) \/ (b.from <= w.from /\ w.to <= b.to)
          THEN Accept
          ELSE Object
    /\ VerifierOnly

-----------------------------------------------------------------------------

Next ==
    \/ BeginBatch \/ SetImage \/ Publish
    \/ \E s \in Spans : Load(s) \/ Draw(s)
    \/ EndBatch \/ EndRange \/ EndAppend \/ EndIdle \/ Join
    \/ Begin \/ Pass \/ Wait \/ Waited \/ Touch
    \/ Run
    \/ VerifyMark \/ VerifyIdle \/ VerifyRing \/ VerifySlot \/ VerifyLook
    \/ VerifyBox \/ VerifyFields

Spec == Init /\ [][Next]_vars

-----------------------------------------------------------------------------

\* A word not run by every worker.
Unrun == completed + 1 .. issued
Touches(n, from, to) == Overlap(from, to, words[n].from, words[n].to)

\* The module's rule: the machine touches bytes only when no word still to run
\* writes them, and writes none that such a word reads (wait, reaches,
\* last_holding).
TouchedInTurn ==
    machine = "through" =>
        \A n \in Unrun : Touches(n, access.from, access.to) =>
            /\ words[n].does = "draw" => FALSE
            /\ words[n].does = "load" => ~access.write

\* Every page a word still to run reaches carries a mark of at least that word,
\* and every page it writes one a reader sees.
MarkedFor ==
    \A n \in Unrun : \A p \in PagesOf(words[n].from, words[n].to) :
        /\ words[n].does \in {"draw", "load"} => marks[p] >= n
        /\ words[n].does = "draw" => write_marks[p] >= n

\* The verifier, reading marks, ranges and boxes as the machine changes them,
\* objects to nothing the list does but one: a write whose box the machine is
\* writing the box of a draw BoxCount later over, as it is read (verify_with,
\* covers, box_for against append_box).
ObjectsOnlyToTheTorn ==
    [][~faulted /\ faulted' =>
          /\ check.at = "fields" /\ boxed = check.next + BoxCount
          /\ machine = "publish" /\ words[issued + 1].does = "draw"]_vars

\* What the verifier is for: it objects to nothing of what the list does, since
\* all of it is marked for.
NothingObjected == ~faulted

=============================================================================
