--------------------------- MODULE DpMarks_proofs ---------------------------
(***************************************************************************)
(* The machine's thread keeps off the memory its display list draws into   *)
(* (module DpMarks), for a memory, pages, rings and a list of any size:    *)
(* the three properties its run checks, for a list in which no batch draws *)
(* again to an image it had no room to list.                               *)
(*                                                                         *)
(* The argument follows a word that is out.  Its pages stay marked for it; *)
(* a range holds it, in the ring or in the open batch, or the ring is full *)
(* of ranges no older and answers for everything; a box says what a draw   *)
(* reaches, or the ring of boxes is full of later ones.  An access that    *)
(* lets a page pass has then seen that no such word reaches it, or waited  *)
(* for the last that does.  A verifier that looks down the ring meets the  *)
(* word's range or one written over before it can object; the box it then  *)
(* finds stays the word's until a draw BoxCount later is marked for, and   *)
(* it takes the box for gone once that draw is published: only in between  *)
(* can it object.                                                          *)
(***************************************************************************)
EXTENDS DpMarks, SequenceTheorems, WellFoundedInduction, TLAPS

-----------------------------------------------------------------------------
(* Types.                                                                  *)

Word == [does : {"image", "load", "draw"}, from : Nat, to : Nat]
RingRange == [from : Nat, to : Nat, start : Nat, mark : Nat, write : BOOLEAN]
IdleRange == [from : Nat, to : Nat, start : Nat]
Box == [end : Nat, from : Nat, to : Nat]
Access == [from : Nat, to : Nat, write : BOOLEAN, narrow : BOOLEAN,
           page : Nat, goal : Nat, found : Nat \cup {-1}]
Check == [word : Nat, cell : Nat, write : BOOLEAN,
          at : {"off", "idle", "ring", "slot", "look", "box", "fields"}, next : Nat, slot : RingRange]

ListTypes ==
    /\ issued \in Nat /\ completed \in Nat
    /\ completed <= issued
    /\ words \in Seq(Word)
    /\ Len(words) = IF machine = "publish" THEN issued + 1 ELSE issued
    /\ Len(words) <= MaxWords
    /\ \A n \in 1 .. Len(words) :
          IF words[n].does = "image" THEN words[n].from = 0 /\ words[n].to = 0
          ELSE words[n].from < words[n].to /\ words[n].to <= Cells
MarkTypes ==
    /\ marks \in [Pages -> 0 .. IDLE]
    /\ write_marks \in [Pages -> 0 .. IDLE]
RingTypes ==
    /\ ranges \in [0 .. RangeCount - 1 -> RingRange]
    /\ appended \in Nat
BatchTypes ==
    /\ idle \in Seq(IdleRange) /\ unlisted \in BOOLEAN
    /\ extent \in [index : Int, from : Nat, to : Nat] /\ extent.index >= -2
    /\ batch_start \in Nat /\ batch_start <= issued
    /\ taking \in BOOLEAN
BoxTypes ==
    /\ boxes \in [0 .. BoxCount - 1 -> Box]
    /\ boxed \in Nat
MachineTypes ==
    /\ machine \in {"free", "publish", "end", "append", "page", "wait", "through"}
    /\ access \in Access
    /\ check \in Check
    /\ faulted \in BOOLEAN

-----------------------------------------------------------------------------
(* The open batch.                                                         *)

Ending == machine \in {"end", "append"}

\* The idle ranges are those of a batch open or being ended, and begin in it;
\* an image being drawn into is one of them, its pages marked as idle.
BatchHolds ==
    /\ taking => ~Ending
    /\ machine = "publish" => taking
    /\ ~taking /\ ~Ending => idle = <<>> /\ ~unlisted
    /\ \A i \in DOMAIN idle : idle[i].start > batch_start /\ idle[i].start <= Len(words)
    /\ Ending => access.page >= 1
    /\ machine = "append" => IF unlisted THEN access.page = 1 ELSE access.page <= Len(idle)

ExtentIsIdle ==
    taking /\ extent.index >= 0 =>
        /\ extent.index \in DOMAIN idle
        /\ idle[extent.index].from = extent.from
        /\ idle[extent.index].to = extent.to
        /\ \A p \in PagesOf(extent.from, extent.to) :
              marks[p] = IDLE /\ write_marks[p] = IDLE

\* A word is marked for before it is published.
MarkedTo(n) ==
    \A p \in PagesOf(words[n].from, words[n].to) :
        /\ words[n].does \in {"draw", "load"} => marks[p] >= n
        /\ words[n].does = "draw" => write_marks[p] >= n
AllMarked == \A n \in completed + 1 .. Len(words) : MarkedTo(n)

-----------------------------------------------------------------------------
(* The ring of ranges.                                                     *)

\* A range is being written over the oldest.
Pending == machine = "append" \/ (machine = "publish" /\ words[issued + 1].does = "load")

Slot(k) == ranges[k % RangeCount]
Low == Larger(appended - RangeCount + (IF Pending THEN 1 ELSE 0), 0)
Window == Low .. appended - 1

\* The ranges still in the ring were marked in the order they came.
RingInOrder ==
    /\ \A k \in Window : Slot(k).mark <= issued
    /\ \A j, k \in Window : j < k => Slot(j).mark <= Slot(k).mark

Holds(r, n) ==
    r.start <= n /\ r.from <= words[n].from /\ words[n].to <= r.to

\* The ring answers for a word: a range in it holds the word, or the ring is
\* full of ranges no older than the word, and answers for everything.
RingFull(n) == appended >= RangeCount /\ \A k \in Window : Slot(k).mark >= n
RingHas(n, write) ==
    \/ \E k \in Window : /\ Holds(Slot(k), n) /\ n <= Slot(k).mark
                         /\ write => Slot(k).write
    \/ RingFull(n)

\* The open batch answers for a word.
IdleHas(n) ==
    \/ unlisted /\ n > batch_start
    \/ \E i \in DOMAIN idle : Holds(idle[i], n)

\* The ring or the batch answers for each word that is out.
Answered ==
    /\ \A n \in completed + 1 .. issued :
          /\ words[n].does = "load" => RingHas(n, FALSE)
          /\ words[n].does = "draw" => RingHas(n, TRUE) \/ IdleHas(n)
    /\ machine = "publish" /\ words[issued + 1].does = "draw" => IdleHas(issued + 1)

\* At a batch's end the ring answers for all that its ranges gone over hold.
GoneOver(n) ==
    IF unlisted THEN access.page > 1 /\ IdleHas(n)
    ELSE \E i \in DOMAIN idle : i < access.page /\ Holds(idle[i], n)
EndAnswered ==
    Ending => \A n \in completed + 1 .. issued :
                 words[n].does = "draw" /\ GoneOver(n) => RingHas(n, TRUE)

\* What is being written to the ring.
PendingIsDue ==
    /\ machine = "publish" /\ words[issued + 1].does = "load" =>
          /\ Slot(appended).mark = issued + 1
          /\ Holds(Slot(appended), issued + 1)
    /\ machine = "append" =>
          /\ Slot(appended).mark = issued /\ Slot(appended).write
          /\ IF unlisted
             THEN /\ Slot(appended).start = batch_start
                  /\ Slot(appended).from = 0 /\ Slot(appended).to = Cells
             ELSE /\ Slot(appended).start = idle[access.page].start
                  /\ Slot(appended).from = idle[access.page].from
                  /\ Slot(appended).to = idle[access.page].to

-----------------------------------------------------------------------------
(* The ring of boxes.                                                      *)

\* A box is in its slot from the draw's marking, and counted with the word.
Boxed == boxed + IF machine = "publish" /\ words[issued + 1].does = "draw" THEN 1 ELSE 0

BoxAt(k) == boxes[k % BoxCount]
BoxLow == Larger(Boxed - BoxCount, 0)
BoxWindow == BoxLow .. Boxed - 1

BoxesInOrder ==
    /\ \A k \in BoxWindow : BoxAt(k).end <= Len(words)
    /\ \A j, k \in BoxWindow : j < k => BoxAt(j).end < BoxAt(k).end

BoxOf(k, n) ==
    BoxAt(k).end = n /\ BoxAt(k).from = words[n].from /\ BoxAt(k).to = words[n].to
BoxesAnswer ==
    \A n \in completed + 1 .. Len(words) : words[n].does = "draw" =>
        \/ \E k \in BoxWindow : BoxOf(k, n)
        \/ Boxed > BoxCount /\ \A k \in BoxWindow : BoxAt(k).end > n

-----------------------------------------------------------------------------
(* The access.                                                             *)

\* A word the access may not go ahead of.
Ahead(n) == words[n].does = "draw" \/ (words[n].does = "load" /\ access.write)

Accessing == machine \in {"page", "wait", "through"}

\* Below the cell no such word is out.
ClearBelow(cell) ==
    \A n \in Unrun :
        Ahead(n) /\ Touches(n, access.from, access.to) =>
            words[n].from >= cell \/ access.from >= cell

AccessHolds ==
    Accessing =>
        /\ access.from < access.to /\ access.to <= Cells
        /\ access.page \in PagesOf(access.from, access.to)
        /\ machine \in {"page", "wait"} => ClearBelow(access.page * PageCells)
        /\ machine = "through" => ClearBelow(access.to)
        /\ machine = "wait" =>
              \A n \in Unrun : Ahead(n) /\ Touches(n, From, To) => n <= access.goal
        /\ access.found # -1 =>
              \A n \in Unrun : words[n].does = "draw" /\ Touches(n, access.from, access.to) =>
                  n <= access.found

-----------------------------------------------------------------------------
(* The verifier.                                                           *)

\* A range of the ring from where the verifier looks down is what it looks for.
CheckHas(bound) ==
    \/ \E k \in Window : /\ k <= bound
                         /\ Slot(k).start <= check.word /\ check.word <= Slot(k).mark
                         /\ Within(Slot(k)) /\ (check.write => Slot(k).write)
    \/ RingFull(check.word)

\* The box a verifier found is the word's until a later one is in its slot.
FieldsHold ==
    check.at = "fields" =>
        /\ check.next < boxed
        /\ Boxed - check.next <= BoxCount => BoxOf(check.next, check.word)

CheckHolds ==
    /\ check.at # "off" =>
          /\ completed < check.word /\ check.word <= issued
          /\ words[check.word].from <= check.cell /\ check.cell < words[check.word].to
          /\ words[check.word].does \in {"load", "draw"}
          /\ check.write <=> words[check.word].does = "draw"
    /\ check.at = "ring" => CheckHas(appended)
    /\ check.at \in {"slot", "look"} => check.next < appended /\ CheckHas(check.next)
    /\ check.at = "look" /\ appended - check.next < RangeCount =>
          check.slot = Slot(check.next)
    /\ check.at = "box" => check.write
    /\ FieldsHold

MarksTypes == /\ ListTypes /\ MarkTypes /\ RingTypes /\ BatchTypes /\ BoxTypes
              /\ MachineTypes
MarksInv ==
    /\ MarksTypes /\ BatchHolds /\ ExtentIsIdle /\ AllMarked
    /\ RingInOrder /\ Answered /\ EndAnswered /\ PendingIsDue
    /\ BoxesInOrder /\ BoxesAnswer /\ AccessHolds /\ CheckHolds

-----------------------------------------------------------------------------
(* Numbers.                                                                *)

LEMMA Sizes ==
    /\ Cells \in Nat /\ Cells > 0 /\ PageCells \in Nat /\ PageCells > 0
    /\ RangeCount \in Nat /\ RangeCount > 0
    /\ IdleRanges \in Nat /\ IdleRanges > 0
    /\ BoxCount \in Nat /\ BoxCount > 0
    /\ MaxWords \in Nat /\ MaxAccesses \in Nat
    /\ IDLE \in Nat /\ IDLE = MaxWords + 1
BY MarksAssumption DEF MarksAssumption, IDLE

LEMMA SpanIs ==
    ASSUME NEW s \in Spans
    PROVE  s[1] \in Nat /\ s[2] \in Nat /\ s[1] < s[2] /\ s[2] <= Cells
BY MarksAssumption DEF MarksAssumption

LEMMA LargerIs ==
    ASSUME NEW a \in Int, NEW b \in Int
    PROVE  /\ Larger(a, b) \in Int /\ Larger(a, b) \in {a, b}
           /\ Larger(a, b) >= a /\ Larger(a, b) >= b
BY DEF Larger

LEMMA LeastOf ==
    ASSUME NEW S \in SUBSET Nat, S # {}
    PROVE  Min(S) \in S /\ \A j \in S : Min(S) <= j
<1> DEFINE Less == {ss \in Nat \X Nat : ss[1] < ss[2]}
<1>1. IsWellFoundedOn(Less, Nat)
  BY NatLessThanWellFounded, Zenon DEF OpToRel
<1>2. PICK k \in S : \A j \in S : <<j, k>> \notin Less
  <2> HIDE DEF Less
  <2> QED
    BY <1>1, WFMin, Zenon
<1>3. ASSUME NEW j \in S PROVE k <= j
  <2>1. j < k => <<j, k>> \in Less
    OBVIOUS
  <2>2. <<j, k>> \notin Less
    BY <1>2
  <2> QED
    BY <2>1, <2>2
<1> QED
  BY <1>3, Zenon DEF Min

LEMMA MinOfTwo ==
    ASSUME NEW a \in Nat, NEW b \in Nat
    PROVE  /\ Min({a, b}) \in {a, b} /\ Min({a, b}) \in Nat
           /\ Min({a, b}) <= a /\ Min({a, b}) <= b
BY LeastOf

\* A set of numbers below a bound has a largest.
LEMMA LargestOf ==
    ASSUME NEW S \in SUBSET Nat, S # {}, NEW b \in Nat, \A k \in S : k <= b
    PROVE  Max(S) \in S /\ \A j \in S : j <= Max(S)
<1> DEFINE Below == {b - k : k \in S}
<1> DEFINE Less == {ss \in Nat \X Nat : ss[1] < ss[2]}
<1>1. \A k \in S : b - k \in Nat /\ b - k \in Below
  OBVIOUS
<1>2. Below \in SUBSET Nat /\ Below # {}
  BY <1>1
<1>3. PICK k \in S : b - k = Min(Below)
  <2>1. Min(Below) \in Below
    <3> HIDE DEF Below
    <3> QED
      BY <1>2, LeastOf
  <2> QED
    BY <2>1
<1>4. \A j \in S : b - k <= b - j
  <2> HIDE DEF Below
  <2> QED
    BY <1>1, <1>2, <1>3, LeastOf
<1>5. \A j \in S : k >= j
  BY <1>4
<1> QED
  BY <1>5, Zenon DEF Max

\* Slots of the ring fewer apart than it is long are different ones.
LEMMA SlotsDiffer ==
    ASSUME NEW R \in Nat \ {0}, NEW a \in Nat, NEW b \in Nat, a < b, b - a < R
    PROVE  a % R # b % R
<1>1. a = R * (a \div R) + (a % R) /\ a \div R \in Int /\ a % R \in Int
  OBVIOUS
<1>2. b = R * (b \div R) + (b % R) /\ b \div R \in Int /\ b % R \in Int
  OBVIOUS
<1>3. PICK d \in Int : d = (b \div R) - (a \div R)
  <2>1. a \div R \in Int /\ b \div R \in Int
    OBVIOUS
  <2> QED
    BY <2>1
<1>4. SUFFICES ASSUME a % R = b % R PROVE FALSE
  OBVIOUS
<1>5. b - a = R * d
  BY <1>1, <1>2, <1>3, <1>4
<1>6. d <= 0 => R * d <= 0
  OBVIOUS
<1>7. d >= 1 => R * d >= R
  OBVIOUS
<1> QED
  BY <1>3, <1>5, <1>6, <1>7

-----------------------------------------------------------------------------
(* Pages.                                                                  *)

\* A cell lies in its page.
LEMMA PageOfCell ==
    ASSUME NEW c \in Nat, c < Cells
    PROVE  /\ c \div PageCells \in Pages /\ c \div PageCells \in Nat
           /\ (c \div PageCells) * PageCells <= c
           /\ c < (c \div PageCells + 1) * PageCells
<1>1. PageCells \in Nat \ {0} /\ Cells - 1 \in Nat
  BY Sizes
<1>2. /\ c = PageCells * (c \div PageCells) + (c % PageCells)
      /\ c % PageCells \in 0 .. PageCells - 1 /\ c \div PageCells \in Int
  BY <1>1
<1>3. /\ Cells - 1 = PageCells * ((Cells - 1) \div PageCells) + ((Cells - 1) % PageCells)
      /\ (Cells - 1) % PageCells \in 0 .. PageCells - 1 /\ (Cells - 1) \div PageCells \in Int
  BY <1>1
<1>4. PICK q \in Int, r \in Int : q = c \div PageCells /\ r = c % PageCells
  BY <1>2
<1>5. PICK m \in Int, s \in Int : m = (Cells - 1) \div PageCells /\ s = (Cells - 1) % PageCells
  BY <1>3
<1>6. q >= 0
  <2>1. q <= -1 => PageCells * q <= -PageCells
    BY <1>1
  <2> QED
    BY <1>1, <1>2, <1>4, <2>1
<1>7. q <= m
  <2>1. q >= m + 1 => PageCells * q >= PageCells * m + PageCells
    BY <1>1
  <2>2. c = PageCells * q + r /\ r >= 0
    BY <1>1, <1>2, <1>4
  <2>3. Cells - 1 = PageCells * m + s /\ s <= PageCells - 1
    BY <1>1, <1>3, <1>5
  <2>4. c <= Cells - 1
    BY Sizes
  <2>5. PageCells * q \in Int /\ PageCells * m \in Int
    BY <1>1
  <2> QED
    BY <1>1, <2>1, <2>2, <2>3, <2>4, <2>5, Sizes
<1>8. q * PageCells = PageCells * q /\ (q + 1) * PageCells = PageCells * q + PageCells
  BY <1>1
<1> QED
  BY <1>1, <1>2, <1>4, <1>5, <1>6, <1>7, <1>8 DEF Pages

LEMMA PagesAreNumbers ==
    /\ Pages \subseteq Nat
    /\ \A p \in Pages : p * PageCells \in Nat /\ (p + 1) * PageCells \in Nat
                        /\ (p + 1) * PageCells = p * PageCells + PageCells
                        /\ (p + 2) * PageCells = p * PageCells + PageCells + PageCells
<1>1. \A p \in Pages : p \in Nat
  BY Sizes DEF Pages
<1> QED
  BY <1>1, Sizes

LEMMA MorePages ==
    ASSUME NEW a \in Nat, NEW b \in Nat, NEW c \in Nat, NEW d \in Nat, c <= a, b <= d
    PROVE  PagesOf(a, b) \subseteq PagesOf(c, d)
<1> SUFFICES ASSUME NEW p \in PagesOf(a, b) PROVE p \in PagesOf(c, d)
  OBVIOUS
<1>1. p \in Pages /\ a < (p + 1) * PageCells /\ b > p * PageCells
  BY DEF PagesOf
<1>2. p * PageCells \in Nat /\ (p + 1) * PageCells \in Nat
  BY <1>1, PagesAreNumbers
<1>3. c < (p + 1) * PageCells /\ d > p * PageCells
  BY <1>1, <1>2
<1> QED
  BY <1>1, <1>3 DEF PagesOf

LEMMA NoPages == PagesOf(0, 0) = {}
<1>1. \A p \in Pages : ~(0 > p * PageCells)
  <2>1. \A p \in Pages : p * PageCells \in Nat
    BY PagesAreNumbers
  <2> QED
    BY <2>1
<1> QED
  BY <1>1 DEF PagesOf

\* The page of a cell is one of the span's that has it.
LEMMA PageOfSpan ==
    ASSUME NEW a \in Nat, NEW b \in Nat, b <= Cells, NEW c \in Nat, a <= c, c < b
    PROVE  c \div PageCells \in PagesOf(a, b)
BY PageOfCell, PagesAreNumbers, Sizes DEF PagesOf

\* An access starts with the page of its first cell.
LEMMA FirstPage ==
    ASSUME NEW a \in Nat, NEW b \in Nat, a < b, b <= Cells
    PROVE  /\ Min(PagesOf(a, b)) \in PagesOf(a, b)
           /\ Min(PagesOf(a, b)) \in Nat
           /\ Min(PagesOf(a, b)) * PageCells <= a
<1>1. a \div PageCells \in PagesOf(a, b)
  BY PageOfSpan
<1>2. PagesOf(a, b) \in SUBSET Nat
  BY PagesAreNumbers DEF PagesOf
<1>3. /\ Min(PagesOf(a, b)) \in PagesOf(a, b)
      /\ Min(PagesOf(a, b)) <= a \div PageCells
  BY <1>1, <1>2, LeastOf
<1>4. PICK m \in Nat : m = Min(PagesOf(a, b))
  BY <1>2, <1>3
<1>5. a \div PageCells \in Nat /\ (a \div PageCells) * PageCells <= a
  BY PageOfCell, Sizes
<1>6. m * PageCells <= (a \div PageCells) * PageCells
  BY <1>3, <1>4, <1>5, Sizes
<1>7. m * PageCells \in Nat /\ (a \div PageCells) * PageCells \in Nat
  BY <1>4, <1>5, Sizes
<1> QED
  BY <1>3, <1>4, <1>5, <1>6, <1>7

\* And is through where no page of its is left.
LEMMA LastPage ==
    ASSUME NEW a \in Nat, NEW b \in Nat, b <= Cells, NEW p \in PagesOf(a, b),
           p + 1 \notin PagesOf(a, b)
    PROVE  b <= (p + 1) * PageCells
<1>1. /\ p \in Pages /\ p \in Nat /\ a < (p + 1) * PageCells
      /\ (p + 1) * PageCells \in Nat
      /\ (p + 2) * PageCells = (p + 1) * PageCells + PageCells
  BY PagesAreNumbers DEF PagesOf
<1>2. CASE p + 1 \in Pages
  <2>1. (p + 1) + 1 = p + 2
    BY <1>1
  <2>2. a < (p + 2) * PageCells
    BY <1>1, Sizes
  <2> QED
    BY <1>1, <1>2, <2>1, <2>2 DEF PagesOf
<1>3. CASE p + 1 \notin Pages
  <2>1. Cells - 1 \in Nat /\ Cells - 1 < Cells
    BY Sizes
  <2>2. PICK m \in Nat : m = (Cells - 1) \div PageCells
    BY <2>1, PageOfCell
  <2>3. p = m
    BY <1>1, <1>3, <2>2 DEF Pages
  <2>4. Cells - 1 < (p + 1) * PageCells
    BY <2>1, <2>2, <2>3, PageOfCell
  <2> QED
    BY <1>1, <2>4, Sizes
<1> QED
  BY <1>2, <1>3

-----------------------------------------------------------------------------
(* What a step leaves alone.                                               *)

LEMMA InvIs ==
    ASSUME MarksInv
    PROVE  /\ ListTypes /\ MarkTypes /\ RingTypes /\ BatchTypes /\ BoxTypes /\ MachineTypes
           /\ BatchHolds /\ ExtentIsIdle /\ AllMarked
           /\ RingInOrder /\ Answered /\ EndAnswered /\ PendingIsDue
           /\ BoxesInOrder /\ BoxesAnswer /\ AccessHolds /\ CheckHolds
BY DEF MarksInv, MarksTypes

\* The numbers of a state that a step's arithmetic needs.
LEMMA Counts ==
    ASSUME MarksInv
    PROVE  /\ issued \in Nat /\ completed \in Nat /\ completed <= issued
           /\ Len(words) \in Nat /\ issued <= Len(words) /\ Len(words) <= MaxWords
           /\ DOMAIN words = 1 .. Len(words)
           /\ appended \in Nat /\ boxed \in Nat
           /\ Unrun = completed + 1 .. issued
           /\ \A n \in 1 .. Len(words) :
                 /\ words[n] \in Word /\ words[n].from \in Nat /\ words[n].to \in Nat
                 /\ words[n].does \in {"image", "load", "draw"}
<1>1. ListTypes /\ RingTypes /\ BoxTypes
  BY InvIs
<1>2. words \in Seq(Word) /\ DOMAIN words = 1 .. Len(words) /\ Len(words) \in Nat
  BY <1>1 DEF ListTypes
<1>3. \A n \in 1 .. Len(words) : words[n] \in Word
  BY <1>2
<1>4. \A n \in 1 .. Len(words) : words[n].from \in Nat /\ words[n].to \in Nat
                                 /\ words[n].does \in {"image", "load", "draw"}
  BY <1>3 DEF Word
<1>5. issued <= Len(words)
  BY <1>1 DEF ListTypes
<1> QED
  BY <1>1, <1>2, <1>3, <1>4, <1>5 DEF ListTypes, RingTypes, BoxTypes, Unrun

\* Where the ring stands: its window is of numbers, and within the ring.
LEMMA WindowIs ==
    ASSUME appended \in Nat
    PROVE  /\ Low \in Nat /\ Low <= appended
           /\ Low >= appended - RangeCount
           /\ Pending => Low > appended - RangeCount
           /\ Low = 0 \/ Low = appended - RangeCount + (IF Pending THEN 1 ELSE 0)
           /\ \A k \in Window : k \in Nat /\ k >= Low /\ k < appended
           /\ \A k \in Nat : k >= Low /\ k < appended => k \in Window
<1>1. PICK d \in {0, 1} : d = IF Pending THEN 1 ELSE 0
  OBVIOUS
<1>2. Low = Larger(appended - RangeCount + d, 0)
  BY <1>1 DEF Low
<1>3. /\ Low \in Nat /\ Low <= appended /\ Low >= appended - RangeCount + d
      /\ Low = 0 \/ Low = appended - RangeCount + d
  BY <1>1, <1>2, Sizes DEF Larger
<1>4. Low = 0 \/ Low = appended - RangeCount + (IF Pending THEN 1 ELSE 0)
  BY <1>1, <1>3
<1>5. Pending => Low > appended - RangeCount
  BY <1>1, <1>3, Sizes
<1> QED
  BY <1>3, <1>4, <1>5, Sizes DEF Window

LEMMA FewerLeft ==
    ASSUME NEW a \in Nat, NEW b \in Nat, a <= b, NEW c \in Nat
    PROVE  \A n \in b + 1 .. c : n \in a + 1 .. c
OBVIOUS

\* The boxes in the ring, that of a draw being published among them.
LEMMA BoxedIs ==
    ASSUME MarksInv
    PROVE  /\ boxed \in Nat /\ Boxed \in Nat /\ boxed <= Boxed /\ Boxed <= boxed + 1
           /\ machine # "publish" => Boxed = boxed
           /\ Boxed # boxed => machine = "publish" /\ words[issued + 1].does = "draw"
BY Counts DEF Boxed

LEMMA BoxedStays ==
    ASSUME UNCHANGED <<words, issued, boxed>>,
           machine' = "publish" <=> machine = "publish"
    PROVE  Boxed' = Boxed
BY Zenon DEF Boxed

LEMMA FieldsStay ==
    ASSUME MarksInv, UNCHANGED <<boxes, check>>, Boxed' = Boxed,
           boxed' \in Nat, boxed <= boxed',
           check.at = "fields" => words'[check.word] = words[check.word]
    PROVE  FieldsHold'
<1>1. /\ FieldsHold /\ boxed \in Nat /\ boxes' = boxes /\ check' = check
      /\ check.next \in Nat
  BY InvIs, Counts DEF CheckHolds, MachineTypes, Check
<1>2. \A k : BoxAt(k)' = BoxAt(k)
  BY <1>1, Zenon DEF BoxAt
<1>3. check.at = "fields" => check.next < boxed'
  BY <1>1 DEF FieldsHold
<1>4. check.at = "fields" /\ BoxOf(check.next, check.word) => BoxOf(check.next, check.word)'
  BY <1>1, <1>2, Zenon DEF BoxOf
<1> QED
  BY <1>1, <1>3, <1>4, Zenon DEF FieldsHold

\* The words, the ring and the boxes untouched, whatever has run meanwhile.
LEMMA ListStays ==
    ASSUME MarksInv, UNCHANGED <<words, issued, ranges, appended, boxes, boxed>>,
           completed' \in Nat, completed <= completed', completed' <= issued,
           machine' = "publish" <=> machine = "publish",
           machine' = "append" <=> machine = "append"
    PROVE  /\ ListTypes' /\ RingTypes' /\ BoxTypes'
           /\ RingInOrder' /\ BoxesInOrder' /\ BoxesAnswer'
           /\ Pending' <=> Pending
           /\ Window' = Window
           /\ \A n, write : RingHas(n, write)' <=> RingHas(n, write)
           /\ \A n : RingFull(n)' <=> RingFull(n)
           /\ \A n \in completed' + 1 .. issued : n \in completed + 1 .. issued
           /\ \A n \in completed' + 1 .. Len(words) : n \in completed + 1 .. Len(words)
           /\ Boxed' = Boxed
<1>1. /\ ListTypes /\ RingTypes /\ BoxTypes
      /\ RingInOrder /\ BoxesInOrder /\ BoxesAnswer
  BY InvIs
<1>b. Boxed' = Boxed
  BY BoxedStays
<1>2. /\ words' = words /\ issued' = issued /\ ranges' = ranges /\ appended' = appended
      /\ boxes' = boxes /\ boxed' = boxed
  OBVIOUS
<1>3. ListTypes'
  BY <1>1, <1>2 DEF ListTypes
<1>4. RingTypes' /\ BoxTypes'
  BY <1>1, <1>2 DEF RingTypes, BoxTypes
<1>5. Pending' <=> Pending
  BY <1>2 DEF Pending
<1>6. Low' = Low
  BY <1>2, <1>5, Zenon DEF Low
<1>7. Window' = Window
  BY <1>2, <1>6, Zenon DEF Window
<1>8. \A n : RingFull(n)' <=> RingFull(n)
  BY <1>2, <1>7, Zenon DEF RingFull, Slot
<1>9. \A n, write : RingHas(n, write)' <=> RingHas(n, write)
  BY <1>2, <1>7, <1>8, Zenon DEF RingHas, Holds, Slot
<1>10. RingInOrder'
  BY <1>1, <1>2, <1>7, Zenon DEF RingInOrder, Slot
<1>11. BoxesInOrder'
  BY <1>1, <1>2, <1>b, Zenon DEF BoxesInOrder, BoxAt, BoxWindow, BoxLow
<1>12. /\ \A n \in completed' + 1 .. issued : n \in completed + 1 .. issued
       /\ \A n \in completed' + 1 .. Len(words) : n \in completed + 1 .. Len(words)
  <2>1. completed \in Nat /\ issued \in Nat /\ Len(words) \in Nat
    BY Counts
  <2> QED
    BY <2>1, FewerLeft, Zenon
<1>13. BoxesAnswer'
  <2> SUFFICES ASSUME NEW n \in completed' + 1 .. Len(words), words[n].does = "draw"
               PROVE  (\/ \E k \in BoxWindow : BoxOf(k, n)
                       \/ Boxed > BoxCount /\ \A k \in BoxWindow : BoxAt(k).end > n)'
    BY <1>2, Zenon DEF BoxesAnswer
  <2>1. \/ \E k \in BoxWindow : BoxOf(k, n)
        \/ Boxed > BoxCount /\ \A k \in BoxWindow : BoxAt(k).end > n
    BY <1>1, <1>12, Zenon DEF BoxesAnswer
  <2> QED
    BY <1>2, <1>b, <2>1, Zenon DEF BoxOf, BoxAt, BoxWindow, BoxLow
<1> QED
  BY <1>3, <1>4, <1>5, <1>7, <1>8, <1>9, <1>10, <1>11, <1>12, <1>13, <1>b

\* And the open batch and the place in it.
LEMMA AnswersStay ==
    ASSUME MarksInv, UNCHANGED <<words, issued, ranges, appended, boxes, boxed>>,
           completed' \in Nat, completed <= completed', completed' <= issued,
           UNCHANGED <<machine, idle, unlisted, batch_start, access>>
    PROVE  Answered' /\ EndAnswered' /\ PendingIsDue'
<1>1. Answered /\ EndAnswered /\ PendingIsDue
  BY InvIs
<1>2. /\ words' = words /\ issued' = issued /\ ranges' = ranges /\ appended' = appended
      /\ machine' = machine /\ idle' = idle /\ unlisted' = unlisted
      /\ batch_start' = batch_start /\ access' = access
  OBVIOUS
<1>3. /\ \A n, write : RingHas(n, write)' <=> RingHas(n, write)
      /\ \A n \in completed' + 1 .. issued : n \in completed + 1 .. issued
  BY ListStays, Zenon
<1>4. \A n : IdleHas(n)' <=> IdleHas(n)
  BY <1>2 DEF IdleHas, Holds
<1>5. Answered'
  BY <1>1, <1>2, <1>3, <1>4, Zenon DEF Answered
<1>6. EndAnswered'
  <2>1. \A n : GoneOver(n)' <=> GoneOver(n)
    BY <1>2, <1>4 DEF GoneOver, Holds
  <2>2. Ending' <=> Ending
    BY <1>2, Zenon DEF Ending
  <2> QED
    BY <1>1, <1>2, <1>3, <2>1, <2>2, Zenon DEF EndAnswered
<1>7. PendingIsDue'
  BY <1>1, <1>2 DEF PendingIsDue, Slot, Holds
<1> QED
  BY <1>5, <1>6, <1>7

LEMMA AccessStays ==
    ASSUME MarksInv, UNCHANGED <<words, issued, machine, access>>,
           completed' \in Nat, completed <= completed', completed' <= issued
    PROVE  AccessHolds'
<1>1. AccessHolds
  BY InvIs
<1>2. words' = words /\ issued' = issued /\ machine' = machine /\ access' = access
  OBVIOUS
<1>3. \A n \in Unrun' : n \in Unrun
  BY Counts DEF Unrun
<1>4. /\ \A n : Ahead(n)' <=> Ahead(n)
      /\ \A n, a, b : Touches(n, a, b)' <=> Touches(n, a, b)
      /\ From' = From /\ To' = To /\ (Accessing' <=> Accessing)
  BY <1>2, Zenon DEF Ahead, Touches, From, To, Page, Accessing
<1>5. \A cell : ClearBelow(cell) => ClearBelow(cell)'
  BY <1>2, <1>3, <1>4, Zenon DEF ClearBelow
<1>6. \A cell : ClearBelow(cell)' <=> \A n \in Unrun' :
          Ahead(n) /\ Touches(n, access.from, access.to) =>
            words[n].from >= cell \/ access.from >= cell
  BY <1>2, <1>4, Zenon DEF ClearBelow
<1> QED
  BY <1>1, <1>2, <1>3, <1>4, <1>5, Zenon DEF AccessHolds

LEMMA CheckStays ==
    ASSUME MarksInv, UNCHANGED <<words, issued, ranges, appended, boxes, boxed>>,
           completed' \in Nat, completed <= completed', completed' <= issued,
           machine' = "publish" <=> machine = "publish",
           machine' = "append" <=> machine = "append",
           UNCHANGED check,
           check.at # "off" => completed' < check.word
    PROVE  CheckHolds'
<1>1. CheckHolds
  BY InvIs
<1>2. /\ words' = words /\ issued' = issued /\ ranges' = ranges /\ appended' = appended
      /\ check' = check
  OBVIOUS
<1>3. Window' = Window /\ \A n : RingFull(n)' <=> RingFull(n)
  BY ListStays, Zenon
<1>4. \A b : CheckHas(b)' <=> CheckHas(b)
  BY <1>2, <1>3, Zenon DEF CheckHas, Slot, Within
<1>5. FieldsHold'
  <2>1. boxes' = boxes /\ boxed' = boxed /\ boxed \in Nat
    BY Counts
  <2>2. Boxed' = Boxed
    BY BoxedStays
  <2> QED
    BY <1>2, <2>1, <2>2, FieldsStay
<1> QED
  BY <1>1, <1>2, <1>4, <1>5 DEF CheckHolds, Slot

LEMMA MarksStay ==
    ASSUME MarksInv, UNCHANGED <<words, marks, write_marks>>,
           completed' \in Nat, completed <= completed', completed' <= issued
    PROVE  /\ MarkTypes' /\ AllMarked'
           /\ UNCHANGED <<extent, taking, idle>> => ExtentIsIdle'
<1>1. MarkTypes /\ AllMarked /\ ExtentIsIdle
  BY InvIs
<1>2. words' = words /\ marks' = marks /\ write_marks' = write_marks
  OBVIOUS
<1>3. \A n \in completed' + 1 .. Len(words) : n \in completed + 1 .. Len(words)
  <2>1. completed \in Nat /\ Len(words) \in Nat
    BY Counts
  <2> QED
    BY <2>1, FewerLeft, Zenon
<1>4. AllMarked'
  BY <1>1, <1>2, <1>3, Zenon DEF AllMarked, MarkedTo
<1>5. UNCHANGED <<extent, taking, idle>> => ExtentIsIdle'
  BY <1>1, <1>2, Zenon DEF ExtentIsIdle
<1> QED
  BY <1>1, <1>2, <1>4, <1>5 DEF MarkTypes

\* The batch and the machine's place untouched.
LEMMA BatchStays ==
    ASSUME MarksInv,
           UNCHANGED <<words, issued, idle, unlisted, extent, batch_start, taking>>
    PROVE  /\ BatchTypes'
           /\ UNCHANGED <<machine, access>> => BatchHolds'
<1>1. BatchTypes /\ BatchHolds
  BY InvIs
<1> QED
  BY <1>1, Zenon DEF BatchTypes, BatchHolds, Ending

-----------------------------------------------------------------------------
(* The workers and the verifier.                                           *)

LEMMA RunKeeps == ASSUME MarksInv, Run PROVE MarksInv'
<1>1. /\ UNCHANGED <<words, issued, ranges, appended, boxes, boxed>>
      /\ UNCHANGED <<machine, idle, unlisted, extent, batch_start, taking, access>>
      /\ UNCHANGED <<marks, write_marks, check, faulted>>
      /\ completed' = completed + 1 /\ completed < issued /\ check.word # completed + 1
  BY DEF Run, pages, ring, batch, box, reading, verifier
<1>2. completed' \in Nat /\ completed <= completed' /\ completed' <= issued
  BY <1>1, Counts
<1>3. check.at # "off" => completed' < check.word
  <2>1. check.at # "off" => completed < check.word /\ check.word \in Nat
    BY InvIs, Zenon DEF CheckHolds, MachineTypes, Check
  <2> QED
    BY <1>1, <2>1, Counts
<1>4. MachineTypes'
  BY <1>1, InvIs, Zenon DEF MachineTypes
<1> QED
  BY <1>1, <1>2, <1>3, <1>4, ListStays, AnswersStay, AccessStays, CheckStays, MarksStay,
     BatchStays, Zenon DEF MarksInv, MarksTypes

\* A step of the verifier's leaves all but its own.
LEMMA VerifierMoves ==
    ASSUME MarksInv, VerifierOnly, CheckHolds', check' \in Check, faulted' \in BOOLEAN
    PROVE  MarksInv'
<1>1. /\ UNCHANGED <<words, issued, ranges, appended, boxes, boxed>>
      /\ UNCHANGED <<machine, idle, unlisted, extent, batch_start, taking, access>>
      /\ UNCHANGED <<marks, write_marks>> /\ completed' = completed
  BY DEF VerifierOnly, list, pages, ring, batch, box, reading
<1>2. completed' \in Nat /\ completed <= completed' /\ completed' <= issued
  BY <1>1, Counts
<1>3. MachineTypes'
  BY <1>1, InvIs, Zenon DEF MachineTypes
<1> QED
  BY <1>1, <1>2, <1>3, ListStays, AnswersStay, AccessStays, MarksStay,
     BatchStays, Zenon DEF MarksInv, MarksTypes

\* The ranges of the ring, and of the open batch, are numbers.
LEMMA SlotTypes ==
    ASSUME RingTypes
    PROVE  \A k \in Nat : /\ Slot(k) \in RingRange
                          /\ Slot(k).from \in Nat /\ Slot(k).to \in Nat
                          /\ Slot(k).start \in Nat /\ Slot(k).mark \in Nat
<1> SUFFICES ASSUME NEW k \in Nat
             PROVE  /\ Slot(k) \in RingRange
                    /\ Slot(k).from \in Nat /\ Slot(k).to \in Nat
                    /\ Slot(k).start \in Nat /\ Slot(k).mark \in Nat
  OBVIOUS
<1>1. k % RangeCount \in 0 .. RangeCount - 1
  BY Sizes
<1>2. Slot(k) \in RingRange
  BY <1>1 DEF Slot, RingTypes
<1> QED
  BY <1>2 DEF RingRange

LEMMA IdleRangeTypes ==
    ASSUME BatchTypes
    PROVE  /\ Len(idle) \in Nat /\ DOMAIN idle = 1 .. Len(idle)
           /\ \A i \in DOMAIN idle : /\ idle[i] \in IdleRange
                                     /\ idle[i].from \in Nat /\ idle[i].to \in Nat
                                     /\ idle[i].start \in Nat
<1>1. /\ Len(idle) \in Nat /\ DOMAIN idle = 1 .. Len(idle)
      /\ \A i \in 1 .. Len(idle) : idle[i] \in IdleRange
  BY DEF BatchTypes
<1> QED
  BY <1>1 DEF IdleRange

LEMMA CheckTypes ==
    ASSUME MachineTypes
    PROVE  /\ check.word \in Nat /\ check.cell \in Nat /\ check.next \in Nat
           /\ check.at \in {"off", "idle", "ring", "slot", "look", "box", "fields"}
           /\ check.slot \in RingRange /\ check.write \in BOOLEAN
BY DEF MachineTypes, Check

LEMMA NoCheckIs == NoCheck \in Check /\ NoRange \in RingRange /\ NoCheck.at = "off"
<1>1. NoRange \in RingRange
  BY DEF NoRange, RingRange
<1> QED
  BY <1>1 DEF NoCheck, Check

\* The ring as the verifier sees it, its step changing nothing of it.
LEMMA VerifierSees ==
    ASSUME MarksInv, VerifierOnly
    PROVE  /\ words' = words /\ issued' = issued /\ completed' = completed
           /\ appended' = appended /\ Window' = Window
           /\ \A k : Slot(k)' = Slot(k)
           /\ \A n : RingFull(n)' <=> RingFull(n)
           /\ boxes' = boxes /\ boxed' = boxed /\ Boxed' = Boxed
<1>1. /\ UNCHANGED <<words, issued, ranges, appended, boxes, boxed>> /\ machine' = machine
      /\ completed' = completed
  BY DEF VerifierOnly, list, ring, box
<1>2. completed' \in Nat /\ completed <= completed' /\ completed' <= issued
  BY <1>1, Counts
<1>3. Window' = Window /\ Boxed' = Boxed /\ \A n : RingFull(n)' <=> RingFull(n)
  BY <1>1, <1>2, ListStays, Zenon
<1>4. \A k : Slot(k)' = Slot(k)
  BY <1>1, Zenon DEF Slot
<1> QED
  BY <1>1, <1>3, <1>4

LEMMA SameWordSought ==
    ASSUME MarksInv, VerifierOnly, check'.word = check.word, check'.cell = check.cell,
           check'.write = check.write
    PROVE  \A b : CheckHas(b)' <=> CheckHas(b)
<1>1. /\ Window' = Window /\ \A k : Slot(k)' = Slot(k)
      /\ \A n : RingFull(n)' <=> RingFull(n)
  BY VerifierSees
<1> QED
  BY <1>1 DEF CheckHas, Within

\* An answer taken, or an objection made: the verifier is done with the word.
LEMMA DoneKeeps ==
    ASSUME MarksInv, VerifierOnly, check' = NoCheck, faulted' \in BOOLEAN
    PROVE  MarksInv'
<1>1. check' \in Check /\ check'.at = "off"
  BY NoCheckIs
<1>2. CheckHolds'
  BY <1>1 DEF CheckHolds, FieldsHold
<1> QED
  BY <1>1, <1>2, VerifierMoves

LEMMA AcceptKeeps == ASSUME MarksInv, VerifierOnly, Accept PROVE MarksInv' /\ faulted' = faulted
<1>1. check' = NoCheck /\ faulted' = faulted /\ faulted \in BOOLEAN
  BY InvIs DEF Accept, MachineTypes
<1> QED
  BY <1>1, DoneKeeps

\* The marks' and the ranges' answer, which sends a write on to its box.
LEMMA CoveredKeeps ==
    ASSUME MarksInv, VerifierOnly, check.at # "off", Covered
    PROVE  MarksInv' /\ faulted' = faulted
<1>1. /\ CheckHolds /\ MachineTypes /\ check \in Check
      /\ faulted' = faulted /\ faulted' \in BOOLEAN
  BY InvIs DEF MachineTypes, Covered
<1>2. CASE ~check.write
  BY <1>1, <1>2, DoneKeeps DEF Covered
<1>3. CASE check.write
  <2>1. check' = [check EXCEPT !.at = "box", !.next = 0, !.slot = NoRange]
    BY <1>3 DEF Covered
  <2>2. /\ check' \in Check /\ check'.at = "box" /\ check'.word = check.word
        /\ check'.cell = check.cell /\ check'.write = check.write
    BY <1>1, <2>1, NoCheckIs DEF Check
  <2>3. words' = words /\ issued' = issued /\ completed' = completed
    BY VerifierSees
  <2>4. CheckHolds'
    BY <1>1, <1>3, <2>2, <2>3 DEF CheckHolds, FieldsHold
  <2> QED
    BY <1>1, <2>2, <2>4, VerifierMoves
<1> QED
  BY <1>2, <1>3

LEMMA VerifyMarkKeeps == ASSUME MarksInv, VerifyMark PROVE MarksInv' /\ faulted' = faulted
<1>1. /\ AllMarked /\ ListTypes /\ MarkTypes /\ faulted \in BOOLEAN
      /\ VerifierOnly
  BY InvIs DEF VerifyMark, MachineTypes
<1>a. PICK n \in completed + 1 .. issued :
        \E c \in words[n].from .. words[n].to - 1 :
           LET write == words[n].does = "draw"
               mark == IF write THEN write_marks[c \div PageCells]
                       ELSE marks[c \div PageCells]
           IN IF mark < n THEN Object
              ELSE /\ check' = [NoCheck EXCEPT !.word = n, !.cell = c,
                                               !.write = write, !.at = "idle"]
                   /\ UNCHANGED faulted
  BY DEF VerifyMark
<1>b. PICK c \in words[n].from .. words[n].to - 1 :
        LET mark == IF words[n].does = "draw" THEN write_marks[c \div PageCells]
                    ELSE marks[c \div PageCells]
        IN IF mark < n THEN Object
           ELSE /\ check' = [NoCheck EXCEPT !.word = n, !.cell = c,
                                            !.write = (words[n].does = "draw"), !.at = "idle"]
                /\ UNCHANGED faulted
  BY <1>a
<1>c. PICK mark : mark = IF words[n].does = "draw" THEN write_marks[c \div PageCells]
                         ELSE marks[c \div PageCells]
  OBVIOUS
<1>2. IF mark < n THEN Object
      ELSE /\ check' = [NoCheck EXCEPT !.word = n, !.cell = c,
                                       !.write = (words[n].does = "draw"), !.at = "idle"]
           /\ UNCHANGED faulted
  BY <1>b, <1>c
<1>3. /\ n \in 1 .. Len(words) /\ n \in Nat /\ n > completed /\ n <= issued
      /\ n \in completed + 1 .. Len(words)
      /\ words[n].from \in Nat /\ words[n].to \in Nat
      /\ words[n].does \in {"image", "load", "draw"}
  BY Counts
<1>4. c \in Nat /\ words[n].from <= c /\ c < words[n].to
  BY <1>3
<1>5. words[n].does # "image" /\ words[n].to <= Cells
  BY <1>1, <1>3, <1>4 DEF ListTypes
<1>6. c \div PageCells \in PagesOf(words[n].from, words[n].to)
  BY <1>3, <1>4, <1>5, PageOfSpan
<1>7. mark >= n /\ mark \in Nat
  <2>1. MarkedTo(n)
    BY <1>1, <1>3 DEF AllMarked
  <2>2. c \div PageCells \in Pages
    BY <1>6 DEF PagesOf
  <2>3. mark \in Nat
    BY <1>1, <1>c, <2>2, Sizes DEF MarkTypes
  <2> QED
    BY <1>c, <1>3, <1>5, <1>6, <2>1, <2>3 DEF MarkedTo
<1>8. /\ check' = [NoCheck EXCEPT !.word = n, !.cell = c,
                                  !.write = (words[n].does = "draw"), !.at = "idle"]
      /\ faulted' = faulted
  BY <1>2, <1>3, <1>7
<1>9. /\ check' \in Check /\ check'.at = "idle" /\ check'.word = n /\ check'.cell = c
      /\ check'.write <=> words[n].does = "draw"
  <2>1. NoCheck \in Check
    BY NoCheckIs
  <2>2. PICK w \in BOOLEAN : w = (words[n].does = "draw")
    OBVIOUS
  <2> QED
    BY <1>3, <1>4, <1>8, <2>1, <2>2 DEF Check
<1>10. CheckHolds'
  <2>1. words' = words /\ issued' = issued /\ completed' = completed
    BY <1>1, VerifierSees
  <2> QED
    BY <1>1, <1>3, <1>4, <1>5, <1>8, <1>9, <2>1 DEF CheckHolds, FieldsHold
<1> QED
  BY <1>1, <1>8, <1>9, <1>10, VerifierMoves

\* What a range that holds the word has of its cells.
LEMMA HoldsTheCell ==
    ASSUME NEW a \in Nat, NEW b \in Nat, NEW from \in Nat, NEW to \in Nat, NEW c \in Nat,
           from <= a, b <= to, a <= c, c < b
    PROVE  c >= from /\ c < to
OBVIOUS

LEMMA VerifyIdleKeeps == ASSUME MarksInv, VerifyIdle PROVE MarksInv' /\ faulted' = faulted
<1>1. /\ CheckHolds /\ Answered /\ BatchTypes /\ RingTypes /\ MachineTypes
      /\ VerifierOnly /\ check.at = "idle" /\ faulted \in BOOLEAN
  BY InvIs DEF VerifyIdle, CheckHolds, MachineTypes
<1> DEFINE n == check.word
<1>2. /\ completed < n /\ n <= issued /\ n \in Nat /\ n \in completed + 1 .. issued
      /\ words[n].from <= check.cell /\ check.cell < words[n].to
      /\ words[n].does \in {"load", "draw"}
      /\ check.write <=> words[n].does = "draw"
      /\ words[n].from \in Nat /\ words[n].to \in Nat /\ check.cell \in Nat
  <2>1. n \in Nat /\ check.cell \in Nat
    BY <1>1, CheckTypes
  <2>2. completed < n /\ n <= issued
    BY <1>1 DEF CheckHolds
  <2>3. n \in 1 .. Len(words) /\ n \in completed + 1 .. issued
    BY <2>1, <2>2, Counts
  <2> QED
    BY <1>1, <2>1, <2>2, <2>3, Counts DEF CheckHolds
<1>3. CASE Covered
  BY <1>1, <1>3, CoveredKeeps
<1>4. CASE /\ ~(unlisted \/ \E i \in DOMAIN idle : idle[i].start <= n /\ Within(idle[i]))
           /\ Verifies("ring") /\ UNCHANGED faulted
  <2>1. ~IdleHas(n)
    <3>1. ASSUME NEW i \in DOMAIN idle, Holds(idle[i], n)
          PROVE  idle[i].start <= n /\ Within(idle[i])
      <4>1. idle[i].from \in Nat /\ idle[i].to \in Nat
        BY <1>1, IdleRangeTypes
      <4>2. /\ idle[i].start <= n /\ idle[i].from <= words[n].from
            /\ words[n].to <= idle[i].to
        BY <3>1 DEF Holds
      <4> QED
        BY <1>2, <4>1, <4>2, HoldsTheCell DEF Within
    <3> QED
      BY <1>4, <3>1 DEF IdleHas
  <2>2. PICK write \in BOOLEAN : RingHas(n, write) /\ (check.write => write)
    BY <1>1, <1>2, <2>1 DEF Answered
  <2>3. CheckHas(appended)
    <3>1. CASE RingFull(n)
      BY <3>1 DEF CheckHas
    <3>2. ASSUME NEW k \in Window, Holds(Slot(k), n), n <= Slot(k).mark,
                 write => Slot(k).write
          PROVE  CheckHas(appended)
      <4>1. k \in Nat /\ k <= appended
        BY Counts, WindowIs
      <4>2. Slot(k).from \in Nat /\ Slot(k).to \in Nat
        BY <1>1, <4>1, SlotTypes
      <4>3. /\ Slot(k).start <= n /\ Slot(k).from <= words[n].from
            /\ words[n].to <= Slot(k).to
        BY <3>2 DEF Holds
      <4>4. Within(Slot(k))
        BY <1>2, <4>2, <4>3, HoldsTheCell DEF Within
      <4> QED
        BY <2>2, <3>2, <4>1, <4>3, <4>4 DEF CheckHas
    <3> QED
      BY <2>2, <3>1, <3>2 DEF RingHas
  <2>4. /\ check' = [check EXCEPT !.at = "ring"] /\ check \in Check /\ faulted' = faulted
    BY <1>1, <1>4 DEF Verifies, MachineTypes
  <2>5. /\ check' \in Check /\ check'.at = "ring" /\ check'.word = n
        /\ check'.cell = check.cell /\ check'.write = check.write
    BY <2>4 DEF Check
  <2>6. CheckHas(appended)'
    BY <1>1, <2>3, <2>5, SameWordSought, VerifierSees
  <2>7. words' = words /\ issued' = issued /\ completed' = completed
    BY <1>1, VerifierSees
  <2>8. CheckHolds'
    BY <1>1, <1>2, <2>4, <2>5, <2>6, <2>7 DEF CheckHolds, FieldsHold
  <2> QED
    BY <1>1, <2>4, <2>5, <2>8, VerifierMoves
<1> QED
  BY <1>3, <1>4 DEF VerifyIdle

LEMMA VerifyRingKeeps == ASSUME MarksInv, VerifyRing PROVE MarksInv' /\ faulted' = faulted
<1>1. /\ CheckHolds /\ MachineTypes /\ VerifierOnly /\ check.at = "ring"
      /\ faulted \in BOOLEAN /\ check \in Check
  BY InvIs DEF VerifyRing, CheckHolds, MachineTypes
<1>2. CheckHas(appended)
  BY <1>1 DEF CheckHolds
<1>3. appended # 0
  <2>1. ASSUME appended = 0 PROVE FALSE
    <3>1. ~RingFull(check.word)
      BY <2>1, Sizes DEF RingFull
    <3>2. PICK k \in Window : k <= appended
      BY <1>2, <3>1 DEF CheckHas
    <3> QED
      BY <2>1, <3>2, Counts, WindowIs
  <2> QED
    BY <2>1
<1>4. /\ check' = [check EXCEPT !.at = "slot", !.next = appended - 1] /\ faulted' = faulted
      /\ appended - 1 \in Nat /\ appended - 1 < appended
  BY <1>3, Counts DEF VerifyRing
<1>5. /\ check' \in Check /\ check'.at = "slot" /\ check'.next = appended - 1
      /\ check'.word = check.word /\ check'.cell = check.cell /\ check'.write = check.write
  BY <1>1, <1>4 DEF Check
<1>6. CheckHas(appended - 1)
  <2>1. CASE RingFull(check.word)
    BY <2>1 DEF CheckHas
  <2>2. ASSUME NEW k \in Window, Slot(k).start <= check.word, check.word <= Slot(k).mark,
               Within(Slot(k)), check.write => Slot(k).write
        PROVE  CheckHas(appended - 1)
    <3>1. k <= appended - 1
      BY Counts, WindowIs
    <3> QED
      BY <2>2, <3>1 DEF CheckHas
  <2> QED
    BY <1>2, <2>1, <2>2 DEF CheckHas
<1>7. /\ words' = words /\ issued' = issued /\ completed' = completed /\ appended' = appended
  BY <1>1, VerifierSees
<1>8. CheckHas(check.next)'
  <2>1. CheckHas(appended - 1)'
    BY <1>1, <1>5, <1>6, <1>7, SameWordSought
  <2> QED
    BY <1>5, <1>7, <2>1
<1>9. CheckHolds'
  BY <1>1, <1>4, <1>5, <1>7, <1>8 DEF CheckHolds, FieldsHold
<1> QED
  BY <1>1, <1>4, <1>5, <1>9, VerifierMoves

LEMMA VerifySlotKeeps == ASSUME MarksInv, VerifySlot PROVE MarksInv' /\ faulted' = faulted
<1>1. /\ CheckHolds /\ MachineTypes /\ RingTypes /\ VerifierOnly /\ check.at = "slot"
      /\ faulted \in BOOLEAN /\ check \in Check /\ check.next \in Nat
  BY InvIs, CheckTypes DEF VerifySlot, CheckHolds, MachineTypes
<1>2. CheckHas(check.next) /\ check.next < appended
  BY <1>1 DEF CheckHolds
<1>3. /\ check' = [check EXCEPT !.at = "look", !.slot = Slot(check.next)]
      /\ faulted' = faulted /\ Slot(check.next) \in RingRange
  BY <1>1, SlotTypes DEF VerifySlot, Slot
<1>4. /\ check' \in Check /\ check'.at = "look" /\ check'.next = check.next
      /\ check'.slot = Slot(check.next)
      /\ check'.word = check.word /\ check'.cell = check.cell /\ check'.write = check.write
  BY <1>1, <1>3 DEF Check
<1>5. /\ words' = words /\ issued' = issued /\ completed' = completed /\ appended' = appended
      /\ \A k : Slot(k)' = Slot(k)
  BY <1>1, VerifierSees
<1>6. CheckHas(check.next)'
  <2>1. \A b : CheckHas(b)' <=> CheckHas(b)
    BY <1>1, <1>4, SameWordSought
  <2> QED
    BY <1>2, <1>4, <2>1
<1>7. check'.slot = Slot(check.next)'
  BY <1>4, <1>5
<1>8. CheckHolds'
  BY <1>1, <1>2, <1>3, <1>4, <1>5, <1>6, <1>7 DEF CheckHolds, FieldsHold
<1> QED
  BY <1>1, <1>3, <1>4, <1>8, VerifierMoves

LEMMA VerifyLookKeeps == ASSUME MarksInv, VerifyLook PROVE MarksInv' /\ faulted' = faulted
<1>1. /\ CheckHolds /\ MachineTypes /\ RingTypes /\ RingInOrder /\ VerifierOnly
      /\ check.at = "look" /\ faulted \in BOOLEAN /\ check \in Check
      /\ check.next \in Nat /\ check.word \in Nat
  BY InvIs, CheckTypes DEF VerifyLook, CheckHolds, MachineTypes
<1>2. CheckHas(check.next) /\ check.next < appended
  BY <1>1 DEF CheckHolds
<1>3. CASE Overrun(check.next)
  BY <1>1, <1>3, CoveredKeeps DEF VerifyLook
<1>4. CASE ~Overrun(check.next)
  <2>1. appended - check.next < RangeCount
    BY <1>1, <1>4, Counts, Sizes DEF Overrun
  <2>2. check.slot = Slot(check.next)
    BY <1>1, <2>1 DEF CheckHolds
  <2>3. check.next \in Window
    BY <1>1, <1>2, <2>1, Counts, Sizes, WindowIs
  <2>4. Slot(check.next).mark \in Nat
    BY <1>1, SlotTypes
  <2>5. Slot(check.next).mark >= check.word
    <3>1. CASE RingFull(check.word)
      BY <2>3, <3>1 DEF RingFull
    <3>2. ASSUME NEW k \in Window, k <= check.next, check.word <= Slot(k).mark
          PROVE  Slot(check.next).mark >= check.word
      <4>1. k \in Nat /\ Slot(k).mark \in Nat
        BY <1>1, Counts, WindowIs, SlotTypes
      <4>2. Slot(k).mark <= Slot(check.next).mark
        BY <1>1, <2>3, <2>4, <3>2, <4>1 DEF RingInOrder
      <4> QED
        BY <1>1, <2>4, <3>2, <4>1, <4>2
    <3> QED
      BY <1>2, <3>1, <3>2 DEF CheckHas
  <2>6. CASE Covered
    BY <1>1, <2>6, CoveredKeeps
  <2>7. CASE ~(/\ Slot(check.next).start <= check.word /\ Within(Slot(check.next))
               /\ check.write => Slot(check.next).write)
    <3>1. check.next # 0 /\ CheckHas(check.next - 1)
      <4>1. CASE RingFull(check.word)
        BY <1>1, <2>1, <4>1, Counts, Sizes DEF RingFull, CheckHas
      <4>2. ASSUME NEW k \in Window, k <= check.next,
                   Slot(k).start <= check.word, check.word <= Slot(k).mark,
                   Within(Slot(k)), check.write => Slot(k).write
            PROVE  check.next # 0 /\ CheckHas(check.next - 1)
        <5>1. k # check.next
          BY <2>7, <4>2
        <5>2. k <= check.next - 1 /\ check.next # 0
          BY <1>1, <4>2, <5>1, Counts, WindowIs
        <5> QED
          BY <4>2, <5>2 DEF CheckHas
      <4> QED
        BY <1>2, <4>1, <4>2 DEF CheckHas
    <3>2. \/ Covered
          \/ /\ check' = [check EXCEPT !.at = "slot", !.next = @ - 1, !.slot = NoRange]
             /\ UNCHANGED faulted
      <4>1. ~(check.slot.mark < check.word)
        BY <1>1, <2>2, <2>4, <2>5
      <4> QED
        BY <1>4, <2>2, <2>5, <3>1, <4>1 DEF VerifyLook
    <3>3. CASE /\ check' = [check EXCEPT !.at = "slot", !.next = @ - 1, !.slot = NoRange]
               /\ UNCHANGED faulted
      <4>1. check.next - 1 \in Nat /\ check.next - 1 < appended
        BY <1>1, <1>2, <3>1, Counts
      <4>2. /\ check' \in Check /\ check'.at = "slot" /\ check'.next = check.next - 1
            /\ check'.word = check.word /\ check'.cell = check.cell
            /\ check'.write = check.write
        BY <1>1, <3>3, <4>1, NoCheckIs DEF Check
      <4>3. /\ words' = words /\ issued' = issued /\ completed' = completed
            /\ appended' = appended
        BY <1>1, VerifierSees
      <4>4. CheckHas(check.next)'
        <5>1. PICK m \in Nat : m = check.next - 1
          BY <4>1
        <5>2. CheckHas(m)
          BY <3>1, <5>1
        <5>3. CheckHas(m)'
          BY <1>1, <4>2, <5>2, SameWordSought
        <5>4. check'.next = m
          BY <4>2, <5>1
        <5> QED
          BY <5>3, <5>4
      <4>5. CheckHolds'
        BY <1>1, <3>3, <4>1, <4>2, <4>3, <4>4 DEF CheckHolds, FieldsHold
      <4> QED
        BY <1>1, <3>3, <4>2, <4>5, VerifierMoves
    <3> QED
      BY <1>1, <3>2, <3>3, CoveredKeeps
  <2>8. CASE /\ Slot(check.next).start <= check.word /\ Within(Slot(check.next))
             /\ check.write => Slot(check.next).write
    <3>1. ~(check.slot.mark < check.word)
      BY <1>1, <2>2, <2>4, <2>5
    <3>2. Covered
      BY <1>4, <2>2, <2>5, <2>8, <3>1 DEF VerifyLook
    <3> QED
      BY <1>1, <3>2, CoveredKeeps
  <2> QED
    BY <2>7, <2>8
<1> QED
  BY <1>3, <1>4

LEMMA VerifyBoxKeeps == ASSUME MarksInv, VerifyBox PROVE MarksInv' /\ faulted' = faulted
<1>1. /\ CheckHolds /\ BoxesAnswer /\ BoxesInOrder /\ BoxTypes
      /\ VerifierOnly /\ check.at = "box" /\ check.write /\ faulted \in BOOLEAN
      /\ check \in Check /\ check.word \in Nat
  BY InvIs, CheckTypes DEF VerifyBox, CheckHolds, MachineTypes
<1> DEFINE n == check.word
<1>2. /\ completed < n /\ n <= issued /\ words[n].does = "draw"
      /\ n \in completed + 1 .. Len(words)
  BY <1>1, Counts DEF CheckHolds
<1>3. CASE Accept
  BY <1>1, <1>3, AcceptKeeps
<1>4. ASSUME NEW i \in Larger(boxed - BoxCount, 0) .. boxed - 1,
             boxes[i % BoxCount].end = n,
             check' = [check EXCEPT !.at = "fields", !.next = i], faulted' = faulted
      PROVE  MarksInv' /\ faulted' = faulted
  <2>1. i \in Nat /\ i < boxed /\ i >= boxed - BoxCount
    BY Counts, Sizes DEF Larger
  <2>2. /\ check' \in Check /\ check'.at = "fields" /\ check'.word = n
        /\ check'.cell = check.cell /\ check'.write = check.write /\ check'.next = i
    BY <1>1, <1>4, <2>1 DEF Check
  <2>3. ASSUME Boxed - i <= BoxCount PROVE BoxOf(i, n)
    <3>1. i \in BoxWindow
      BY <2>1, <2>3, BoxedIs, Sizes DEF BoxWindow, BoxLow, Larger
    <3>2. BoxAt(i).end = n
      BY <1>4 DEF BoxAt
    <3>3. PICK k \in BoxWindow : BoxOf(k, n)
      <4>1. ~(\A k \in BoxWindow : BoxAt(k).end > n)
        BY <1>1, <3>1, <3>2
      <4> QED
        BY <1>1, <1>2, <4>1, Zenon DEF BoxesAnswer
    <3>4. k = i
      <4>1. BoxAt(k).end = n
        BY <3>3 DEF BoxOf
      <4>2. ~(k < i) /\ ~(i < k)
        BY <1>1, <3>1, <3>2, <4>1 DEF BoxesInOrder
      <4>3. k \in Int
        BY BoxedIs, Sizes DEF BoxWindow, BoxLow, Larger
      <4> QED
        BY <2>1, <4>2, <4>3
    <3> QED
      BY <3>3, <3>4
  <2>4. /\ words' = words /\ issued' = issued /\ completed' = completed
        /\ boxes' = boxes /\ boxed' = boxed /\ Boxed' = Boxed
    BY <1>1, VerifierSees
  <2>5. FieldsHold'
    <3>1. BoxOf(i, n)' <=> BoxOf(i, n)
      BY <2>2, <2>4 DEF BoxOf, BoxAt
    <3>2. BoxOf(check.next, check.word)' <=> BoxOf(i, n)
      BY <2>2, <2>4 DEF BoxOf, BoxAt
    <3> QED
      BY <2>1, <2>2, <2>3, <2>4, <3>2 DEF FieldsHold
  <2>6. CheckHolds'
    BY <1>1, <2>2, <2>4, <2>5 DEF CheckHolds
  <2> QED
    BY <1>1, <1>4, <2>2, <2>6, VerifierMoves
<1> QED
  BY <1>3, <1>4 DEF VerifyBox

\* The one objection: the box judged by is being written over.
LEMMA VerifyFieldsKeeps ==
    ASSUME MarksInv, VerifyFields
    PROVE  /\ MarksInv'
           /\ faulted' # faulted =>
                 /\ check.at = "fields" /\ boxed = check.next + BoxCount
                 /\ machine = "publish" /\ words[issued + 1].does = "draw"
<1>1. /\ CheckHolds /\ VerifierOnly /\ check.at = "fields" /\ faulted \in BOOLEAN
      /\ check.word \in Nat /\ check.next \in Nat
  BY InvIs, CheckTypes DEF VerifyFields, MachineTypes
<1>2. CASE Accept
  BY <1>1, <1>2, AcceptKeeps
<1>3. ASSUME Object, ~BoxOverrun(check.next),
             ~(/\ boxes[check.next % BoxCount].from <= words[check.word].from
               /\ words[check.word].to <= boxes[check.next % BoxCount].to)
      PROVE  /\ MarksInv' /\ boxed = check.next + BoxCount
             /\ machine = "publish" /\ words[issued + 1].does = "draw"
  <2>1. MarksInv'
    BY <1>1, <1>3, DoneKeeps DEF Object
  <2>2. boxed - check.next <= BoxCount
    BY <1>1, <1>3, Counts, Sizes DEF BoxOverrun
  <2>3. ~BoxOf(check.next, check.word)
    <3>1. /\ words[check.word].from \in Nat /\ words[check.word].to \in Nat
      <4>1. check.word \in 1 .. Len(words)
        BY <1>1, Counts DEF CheckHolds
      <4> QED
        BY <4>1, Counts
    <3> QED
      BY <1>3, <3>1 DEF BoxOf, BoxAt
  <2>4. ~(Boxed - check.next <= BoxCount)
    BY <1>1, <2>3 DEF CheckHolds, FieldsHold
  <2>5. Boxed # boxed /\ boxed = check.next + BoxCount
    BY <1>1, <2>2, <2>4, BoxedIs, Sizes
  <2> QED
    BY <2>1, <2>5, BoxedIs
<1> QED
  BY <1>1, <1>2, <1>3, Zenon DEF VerifyFields

-----------------------------------------------------------------------------
(* The access.                                                             *)

\* A page the access is at, in cells.
LEMMA PageIs ==
    ASSUME MarksInv, machine \in {"page", "wait"}
    PROVE  /\ access.from \in Nat /\ access.to \in Nat /\ access.page \in Nat
           /\ access.from < access.to /\ access.to <= Cells
           /\ access.page \in PagesOf(access.from, access.to) /\ access.page \in Pages
           /\ access.page * PageCells \in Nat /\ (access.page + 1) * PageCells \in Nat
           /\ From \in Nat /\ From >= access.from /\ From >= access.page * PageCells
           /\ From = access.from \/ From = access.page * PageCells
           /\ To \in Nat /\ To <= access.to /\ To <= (access.page + 1) * PageCells
           /\ To = access.to \/ To = (access.page + 1) * PageCells
           /\ From < To
<1>1. AccessHolds /\ access \in Access /\ Accessing
  BY InvIs DEF MachineTypes, Accessing
<1>2. /\ access.from \in Nat /\ access.to \in Nat /\ access.page \in Nat
      /\ access.from < access.to /\ access.to <= Cells
      /\ access.page \in PagesOf(access.from, access.to)
  BY <1>1 DEF AccessHolds, Access
<1>3. /\ access.page \in Pages
      /\ access.from < (access.page + 1) * PageCells
      /\ access.to > access.page * PageCells
  BY <1>2 DEF PagesOf
<1>4. /\ access.page * PageCells \in Nat /\ (access.page + 1) * PageCells \in Nat
      /\ (access.page + 1) * PageCells = access.page * PageCells + PageCells
  BY <1>3, PagesAreNumbers
<1>5. PICK a \in Nat, b \in Nat, c \in Nat, d \in Nat :
        /\ a = access.from /\ b = access.to
        /\ c = access.page * PageCells /\ d = (access.page + 1) * PageCells
  BY <1>2, <1>4
<1>6. From = Larger(a, c) /\ To = Min({b, d})
  BY <1>5 DEF From, To, Page
<1>7. From \in Nat /\ From >= a /\ From >= c /\ From \in {a, c}
  <2>1. Larger(a, c) \in Nat /\ Larger(a, c) >= a /\ Larger(a, c) >= c /\ Larger(a, c) \in {a, c}
    BY LargerIs
  <2> QED
    BY <1>6, <2>1
<1>8. To \in Nat /\ To <= b /\ To <= d /\ To \in {b, d}
  BY <1>6, MinOfTwo
<1>9. a < b /\ a < d /\ b > c /\ c < d
  BY <1>2, <1>3, <1>4, <1>5, Sizes
<1> QED
  BY <1>2, <1>3, <1>4, <1>5, <1>7, <1>8, <1>9

\* What a word still to run has.
LEMMA UnrunIs ==
    ASSUME MarksInv, NEW n \in Unrun
    PROVE  /\ n \in Nat /\ n > completed /\ n <= issued /\ n <= MaxWords
           /\ n \in completed + 1 .. issued /\ n \in completed + 1 .. Len(words)
           /\ words[n].from \in Nat /\ words[n].to \in Nat
           /\ words[n].does \in {"draw", "load"} =>
                 words[n].from < words[n].to /\ words[n].to <= Cells
<1>1. n \in completed + 1 .. issued /\ n \in 1 .. Len(words)
  BY Counts
<1>2. words[n].does # "image" => words[n].from < words[n].to /\ words[n].to <= Cells
  BY <1>1, InvIs DEF ListTypes
<1>3. words[n].from \in Nat /\ words[n].to \in Nat
  BY <1>1, Counts
<1>4. /\ issued \in Nat /\ completed \in Nat /\ Len(words) \in Nat
      /\ issued <= Len(words) /\ Len(words) <= MaxWords /\ MaxWords \in Nat
  BY Counts, Sizes
<1>5. PICK len \in Nat : len = Len(words)
  BY <1>4
<1>6. n \in Nat /\ n > completed /\ n <= issued /\ n <= MaxWords /\ n \in completed + 1 .. len
  BY <1>1, <1>4, <1>5
<1>7. words[n].does \in {"draw", "load"} => words[n].from < words[n].to /\ words[n].to <= Cells
  BY <1>2
<1> QED
  BY <1>1, <1>3, <1>5, <1>6, <1>7

\* A word that reaches the bytes of the page is marked for there.
LEMMA TouchedIsMarked ==
    ASSUME MarksInv, machine \in {"page", "wait"},
           NEW n \in Unrun, Ahead(n), Touches(n, From, To)
    PROVE  Mark >= n
<1>1. /\ words[n].from \in Nat /\ words[n].to \in Nat
      /\ From < words[n].to /\ To > words[n].from
  BY UnrunIs DEF Touches, Overlap
<1>2. Page \in PagesOf(words[n].from, words[n].to)
  BY <1>1, PageIs DEF PagesOf, Page
<1>3. MarkedTo(n)
  BY UnrunIs, InvIs, Zenon DEF AllMarked
<1> QED
  BY <1>2, <1>3, Zenon DEF MarkedTo, Mark, Ahead

LEMMA MarkIs ==
    ASSUME MarksInv, machine \in {"page", "wait"}
    PROVE  Mark \in 0 .. IDLE /\ Mark \in Nat
<1>1. Page \in Pages /\ MarkTypes
  BY PageIs, InvIs DEF Page
<1>2. Mark \in 0 .. IDLE
  BY <1>1 DEF MarkTypes, Mark
<1> QED
  BY <1>2, Sizes

\* A word the access may not go ahead of reaches the bytes, and the ring or the
\* batch says that it may.
LEMMA ReachesIsSound ==
    ASSUME MarksInv, ~Pending, NEW n \in Unrun, Ahead(n),
           NEW from \in Nat, NEW to \in Nat, Touches(n, from, to)
    PROVE  Reaches(from, to, access.write)
<1>1. /\ RingTypes /\ BatchTypes /\ RingInOrder /\ Answered
  BY InvIs
<1>2. /\ n \in Nat /\ n > completed /\ n \in completed + 1 .. issued
      /\ words[n].from \in Nat /\ words[n].to \in Nat
      /\ from < words[n].to /\ to > words[n].from
  BY UnrunIs DEF Touches, Overlap
<1>3. appended \in Nat /\ completed \in Nat
  BY Counts
<1> DEFINE oldest == Larger(appended - RangeCount, 0)
           due == {i \in oldest .. appended - 1 :
                      \A j \in i .. appended - 1 : Slot(j).mark > completed}
<1>4. /\ Reaches(from, to, access.write) <=>
            \/ unlisted
            \/ \E i \in DOMAIN idle : Overlap(from, to, idle[i].from, idle[i].to)
            \/ \E i \in due : /\ Overlap(from, to, Slot(i).from, Slot(i).to)
                              /\ access.write \/ Slot(i).write
            \/ due = oldest .. appended - 1 /\ appended - oldest >= RangeCount
  BY DEF Reaches, Slot
<1>5. Window = oldest .. appended - 1 /\ oldest \in Nat
  <2>1. Low = Larger(appended - RangeCount + 0, 0)
    BY DEF Low
  <2>2. appended - RangeCount + 0 = appended - RangeCount /\ appended - RangeCount \in Int
    BY <1>3, Sizes
  <2> QED
    BY <2>1, <2>2, <1>3, WindowIs, Zenon DEF Window
<1>6. \A k \in Window : /\ k \in Nat /\ Slot(k).mark \in Nat
                        /\ Slot(k).from \in Nat /\ Slot(k).to \in Nat
  BY <1>1, <1>3, WindowIs, SlotTypes
<1>7. CASE IdleHas(n)
  <2>1. ASSUME NEW i \in DOMAIN idle, Holds(idle[i], n)
        PROVE  Overlap(from, to, idle[i].from, idle[i].to)
    <3>1. idle[i].from \in Nat /\ idle[i].to \in Nat
      BY <1>1, IdleRangeTypes
    <3> QED
      BY <1>2, <2>1, <3>1 DEF Holds, Overlap
  <2> QED
    BY <1>4, <1>7, <2>1, Zenon DEF IdleHas
<1>8. CASE RingFull(n)
  <2>1. \A k \in Window : Slot(k).mark > completed
    BY <1>2, <1>3, <1>6, <1>8 DEF RingFull
  <2>2. ASSUME NEW i \in Window, NEW j \in i .. appended - 1 PROVE j \in Window
    <3>1. i \in Nat /\ i >= oldest
      BY <1>3, <1>5, <1>6
    <3> QED
      BY <1>3, <1>5, <3>1
  <2>3. due = oldest .. appended - 1
    BY <1>5, <2>1, <2>2
  <2>4. appended - oldest >= RangeCount
    BY <1>3, <1>8, Sizes DEF RingFull, Larger
  <2> QED
    BY <1>4, <2>3, <2>4
<1>9. ASSUME NEW k \in Window, Holds(Slot(k), n), n <= Slot(k).mark,
             access.write \/ Slot(k).write
      PROVE  Reaches(from, to, access.write)
  <2>1. Overlap(from, to, Slot(k).from, Slot(k).to)
    BY <1>2, <1>6, <1>9 DEF Holds, Overlap
  <2>2. ASSUME NEW j \in k .. appended - 1 PROVE Slot(j).mark > completed
    <3>1. k \in Nat /\ k >= oldest /\ j \in Window /\ (j = k \/ k < j)
      BY <1>3, <1>5, <1>6
    <3>2. Slot(k).mark <= Slot(j).mark
      BY <1>1, <1>6, <3>1 DEF RingInOrder
    <3> QED
      BY <1>2, <1>3, <1>6, <1>9, <3>1, <3>2
  <2>3. k \in due
    BY <1>5, <2>2
  <2> QED
    BY <1>4, <1>9, <2>1, <2>3, Zenon
<1>10. CASE words[n].does = "draw"
  <2>1. RingHas(n, TRUE) \/ IdleHas(n)
    BY <1>1, <1>2, <1>10 DEF Answered
  <2> QED
    BY <1>7, <1>8, <1>9, <2>1 DEF RingHas
<1>11. CASE words[n].does = "load" /\ access.write
  <2>1. RingHas(n, FALSE)
    BY <1>1, <1>2, <1>11 DEF Answered
  <2> QED
    BY <1>8, <1>9, <1>11, <2>1 DEF RingHas
<1> QED
  BY <1>10, <1>11 DEF Ahead

\* The last draw that can reach the cells is no earlier than any that does.
LEMMA LastHoldingIsSound ==
    ASSUME MarksInv, machine # "publish", NEW from \in Nat, NEW to \in Nat
    PROVE  /\ LastHolding(from, to) \in Nat
           /\ \A n \in Unrun : words[n].does = "draw" /\ Touches(n, from, to) =>
                n <= LastHolding(from, to)
<1>1. /\ BoxTypes /\ BoxesInOrder /\ BoxesAnswer /\ boxed \in Nat /\ completed \in Nat
      /\ Boxed = boxed
  BY InvIs, Counts, BoxedIs
<1> DEFINE due == {i \in BoxWindow : BoxAt(i).end > completed}
           reach == {i \in due : Overlap(from, to, BoxAt(i).from, BoxAt(i).to)}
<1>2. LastHolding(from, to) =
        CASE reach # {} -> BoxAt(Max(reach)).end
          [] reach = {} /\ due = BoxWindow /\ BoxLow > 0 -> IDLE
          [] OTHER -> 0
  BY <1>1, Zenon DEF LastHolding, BoxAt, BoxWindow, BoxLow
<1>3. BoxLow \in Nat /\ (boxed > BoxCount => BoxLow > 0)
  BY <1>1, Sizes DEF BoxLow, Larger
<1>4. \A k \in BoxWindow : /\ k \in Nat /\ k <= boxed
                           /\ BoxAt(k).end \in Nat /\ BoxAt(k).from \in Nat
                           /\ BoxAt(k).to \in Nat
  <2> SUFFICES ASSUME NEW k \in BoxWindow
               PROVE  /\ k \in Nat /\ k <= boxed
                      /\ BoxAt(k).end \in Nat /\ BoxAt(k).from \in Nat
                      /\ BoxAt(k).to \in Nat
    OBVIOUS
  <2>1. k \in Nat /\ k <= boxed
    BY <1>1, <1>3 DEF BoxWindow
  <2>2. k % BoxCount \in 0 .. BoxCount - 1
    BY <2>1, Sizes
  <2>3. BoxAt(k) \in Box
    BY <1>1, <2>2 DEF BoxAt, BoxTypes
  <2> QED
    BY <2>1, <2>3 DEF Box
<1>5. reach # {} => /\ Max(reach) \in reach /\ \A j \in reach : j <= Max(reach)
  <2>1. reach \in SUBSET Nat /\ \A k \in reach : k <= boxed
    BY <1>4
  <2> HIDE DEF reach
  <2> QED
    BY <1>1, <2>1, LargestOf
<1>6. LastHolding(from, to) \in Nat
  <2>1. reach # {} => BoxAt(Max(reach)).end \in Nat
    BY <1>4, <1>5
  <2> QED
    BY <1>2, <2>1, Sizes
<1>7. ASSUME NEW n \in Unrun, words[n].does = "draw", Touches(n, from, to)
      PROVE  n <= LastHolding(from, to)
  <2>1. /\ n \in Nat /\ n > completed /\ n <= MaxWords /\ n \in completed + 1 .. Len(words)
    BY UnrunIs
  <2>2. CASE reach # {}
    <3>1. PICK m \in reach : m = Max(reach)
      BY <1>5, <2>2
    <3>2. LastHolding(from, to) = BoxAt(m).end
      BY <1>2, <2>2, <3>1
    <3>3. m \in BoxWindow /\ m \in Nat /\ BoxAt(m).end \in Nat
      BY <1>4
    <3>4. CASE \E k \in BoxWindow : BoxOf(k, n)
      <4>1. PICK k \in BoxWindow : BoxOf(k, n)
        BY <3>4
      <4>2. k \in reach
        BY <1>7, <2>1, <4>1 DEF BoxOf, Touches
      <4>3. k = m \/ k < m
        BY <1>4, <1>5, <3>1, <3>3, <4>2
      <4>4. BoxAt(k).end <= BoxAt(m).end
        BY <1>1, <1>4, <3>3, <4>3 DEF BoxesInOrder
      <4> QED
        BY <3>2, <4>1, <4>4 DEF BoxOf
    <3>5. CASE \A k \in BoxWindow : BoxAt(k).end > n
      BY <2>1, <3>2, <3>3, <3>5
    <3> QED
      BY <1>1, <1>7, <2>1, <3>4, <3>5 DEF BoxesAnswer
  <2>3. CASE reach = {}
    <3>1. ~\E k \in BoxWindow : BoxOf(k, n)
      BY <1>7, <2>1, <2>3 DEF BoxOf, Touches
    <3>2. boxed > BoxCount /\ \A k \in BoxWindow : BoxAt(k).end > n
      BY <1>1, <1>7, <2>1, <3>1 DEF BoxesAnswer
    <3>3. due = BoxWindow
      BY <1>1, <1>4, <2>1, <3>2
    <3>4. LastHolding(from, to) = IDLE
      BY <1>2, <1>3, <2>3, <3>2, <3>3
    <3> QED
      BY <2>1, <3>4, Sizes
  <2> QED
    BY <2>2, <2>3
<1> QED
  BY <1>6, <1>7

\* A step of the access's leaves the list, the rings and the verifier alone.
LEMMA AccessMoves ==
    ASSUME MarksInv, machine \in {"free", "page", "wait", "through"},
           machine' \in {"free", "page", "wait", "through"},
           UNCHANGED <<list, ring, batch, box, verifier>>,
           MarkTypes', AllMarked', ExtentIsIdle', access' \in Access, AccessHolds'
    PROVE  MarksInv'
<1>1. /\ UNCHANGED <<words, issued, ranges, appended, boxes, boxed>> /\ completed' = completed
      /\ UNCHANGED <<idle, unlisted, extent, batch_start, taking, check, faulted>>
  BY DEF list, ring, batch, box, verifier
<1>2. completed' \in Nat /\ completed <= completed' /\ completed' <= issued
  BY <1>1, Counts
<1>3. /\ machine' = "publish" <=> machine = "publish"
      /\ machine' = "append" <=> machine = "append"
      /\ machine # "publish" /\ machine' # "publish" /\ machine # "append" /\ machine' # "append"
      /\ ~Ending /\ ~Ending'
  BY DEF Ending
<1>4. check.at # "off" => completed' < check.word
  BY <1>1, InvIs DEF CheckHolds
<1>5. /\ ListTypes' /\ RingTypes' /\ BoxTypes'
      /\ RingInOrder' /\ BoxesInOrder' /\ BoxesAnswer' /\ CheckHolds'
      /\ \A n, write : RingHas(n, write)' <=> RingHas(n, write)
      /\ \A n \in completed' + 1 .. issued : n \in completed + 1 .. issued
  BY <1>1, <1>2, <1>3, <1>4, ListStays, CheckStays, Zenon
<1>6. MachineTypes'
  BY <1>1, InvIs DEF MachineTypes
<1>7. BatchTypes' /\ BatchHolds'
  <2>1. BatchTypes /\ BatchHolds
    BY InvIs
  <2> QED
    BY <1>1, <1>3, <2>1, Zenon DEF BatchTypes, BatchHolds
<1>8. Answered'
  <2>1. Answered
    BY InvIs
  <2>2. \A n : IdleHas(n)' <=> IdleHas(n)
    BY <1>1 DEF IdleHas, Holds
  <2> QED
    BY <1>1, <1>3, <1>5, <2>1, <2>2, Zenon DEF Answered
<1>9. EndAnswered' /\ PendingIsDue'
  BY <1>3, Zenon DEF EndAnswered, PendingIsDue
<1> QED
  BY <1>5, <1>6, <1>7, <1>8, <1>9 DEF MarksInv, MarksTypes

\* Only a mark that has run is taken away, and no word waits for that.
LEMMA ClearKeeps ==
    ASSUME MarksInv, NEW page \in Pages, NEW mark \in Nat, mark <= completed,
           Clear(page, mark), UNCHANGED <<list, batch>>
    PROVE  MarkTypes' /\ AllMarked' /\ ExtentIsIdle'
<1>1. /\ MarkTypes /\ AllMarked /\ ExtentIsIdle
      /\ words' = words /\ completed' = completed /\ idle' = idle
      /\ extent' = extent /\ taking' = taking
  BY InvIs DEF list, batch
<1>2. /\ marks' = [marks EXCEPT ![page] = IF marks[page] <= mark THEN 0 ELSE marks[page]]
      /\ write_marks' = [write_marks EXCEPT ![page] =
                            IF write_marks[page] <= mark THEN 0 ELSE write_marks[page]]
  BY DEF Clear
<1>3. \A p \in Pages : /\ marks[p] \in 0 .. IDLE /\ marks[p] \in Nat
                       /\ write_marks[p] \in 0 .. IDLE /\ write_marks[p] \in Nat
  BY <1>1, Sizes DEF MarkTypes
<1>4. \A p \in Pages : /\ marks'[p] = marks[p] \/ (marks'[p] = 0 /\ marks[p] <= completed)
                       /\ write_marks'[p] = write_marks[p]
                            \/ (write_marks'[p] = 0 /\ write_marks[p] <= completed)
  BY <1>1, <1>2, <1>3, Counts DEF MarkTypes
<1>5. MarkTypes'
  BY <1>1, <1>2, <1>3, Sizes DEF MarkTypes
<1>6. AllMarked'
  <2> SUFFICES ASSUME NEW n \in completed + 1 .. Len(words) PROVE MarkedTo(n)'
    BY <1>1, Zenon DEF AllMarked
  <2>1. MarkedTo(n) /\ n \in Nat /\ n > completed
    BY <1>1, Counts DEF AllMarked
  <2>2. ASSUME NEW p \in PagesOf(words[n].from, words[n].to)
        PROVE  /\ words[n].does \in {"draw", "load"} => marks'[p] >= n
               /\ words[n].does = "draw" => write_marks'[p] >= n
    <3>1. p \in Pages
      BY DEF PagesOf
    <3>2. /\ words[n].does \in {"draw", "load"} => marks[p] >= n
          /\ words[n].does = "draw" => write_marks[p] >= n
      BY <2>1 DEF MarkedTo
    <3>3. words[n].does \in {"draw", "load"} => marks'[p] = marks[p]
      BY <1>3, <1>4, <2>1, <3>1, <3>2, Counts
    <3>4. words[n].does = "draw" => write_marks'[p] = write_marks[p]
      BY <1>3, <1>4, <2>1, <3>1, <3>2, Counts
    <3> QED
      BY <3>2, <3>3, <3>4
  <2> QED
    BY <1>1, <2>2 DEF MarkedTo
<1>7. ExtentIsIdle'
  <2>1. \A p \in Pages : /\ marks[p] = IDLE => marks'[p] = IDLE
                         /\ write_marks[p] = IDLE => write_marks'[p] = IDLE
    <3>1. ~(IDLE <= completed)
      BY Counts, Sizes
    <3> QED
      BY <1>4, <3>1
  <2>2. \A a, b : PagesOf(a, b) \subseteq Pages
    BY DEF PagesOf
  <2> QED
    BY <1>1, <2>1, <2>2, Zenon DEF ExtentIsIdle
<1> QED
  BY <1>5, <1>6, <1>7

\* The pages left alone.
LEMMA PagesStay ==
    ASSUME MarksInv, UNCHANGED <<list, pages, batch>>
    PROVE  MarkTypes' /\ AllMarked' /\ ExtentIsIdle'
<1>1. /\ UNCHANGED <<words, marks, write_marks>> /\ completed' = completed
      /\ UNCHANGED <<extent, taking, idle>>
  BY DEF list, pages, batch
<1>2. completed' \in Nat /\ completed <= completed' /\ completed' <= issued
  BY <1>1, Counts
<1> QED
  BY <1>1, <1>2, MarksStay, Zenon

\* The access goes on from a page that no word it may not go ahead of reaches.
LEMMA OnwardHolds ==
    ASSUME MarksInv, machine \in {"page", "wait"}, UNCHANGED <<list>>,
           \A n \in Unrun : Ahead(n) => ~Touches(n, From, To),
           NEW a \in Access, Onward(a), a.from = access.from, a.to = access.to,
           a.write = access.write, a.page = access.page,
           a.found # -1 =>
              \A n \in Unrun : words[n].does = "draw" /\ Touches(n, access.from, access.to) =>
                  n <= a.found
    PROVE  /\ AccessHolds' /\ access' \in Access
           /\ machine' \in {"free", "page", "wait", "through"}
<1>1. /\ words' = words /\ Unrun' = Unrun
  BY DEF list, Unrun
<1>2. AccessHolds /\ Accessing /\ access \in Access
  BY InvIs DEF Accessing, MachineTypes
<1>3. PICK f \in Nat, t \in Nat, c \in Nat, d \in Nat, g \in Nat :
        /\ f = access.from /\ t = access.to /\ g = access.page
        /\ c = access.page * PageCells /\ d = (access.page + 1) * PageCells
  BY PageIs
<1>4. /\ f < t /\ t <= Cells
      /\ From >= f /\ From >= c /\ (From = f \/ From = c) /\ From \in Nat
      /\ To <= t /\ To <= d /\ (To = t \/ To = d) /\ To \in Nat
      /\ g \in PagesOf(f, t)
  BY <1>3, PageIs
<1>5. ClearBelow(c)
  BY <1>2, <1>3, Zenon DEF AccessHolds
\* A word's first cell in the access is in no page up to this one.
<1>6. ASSUME NEW n \in Unrun, Ahead(n), Touches(n, f, t)
      PROVE  words[n].from >= d \/ f >= d
  <2>1. words[n].from \in Nat /\ words[n].to \in Nat
    BY UnrunIs
  <2>2. words[n].from < words[n].to
    BY <1>6, UnrunIs DEF Ahead
  <2>3. f < words[n].to /\ t > words[n].from
    BY <1>6 DEF Touches, Overlap
  <2>4. words[n].from >= c \/ f >= c
    BY <1>3, <1>5, <1>6 DEF ClearBelow
  <2>5. ~(From < words[n].to /\ To > words[n].from)
    BY <1>6 DEF Touches, Overlap
  <2>6. SUFFICES ASSUME words[n].from < d, f < d PROVE FALSE
    BY <2>1, <1>3
  <2>7. From < words[n].to
    BY <1>4, <2>1, <2>2, <2>3, <2>4
  <2>8. To > words[n].from
    BY <1>4, <2>1, <2>3, <2>6
  <2> QED
    BY <2>5, <2>7, <2>8
<1>7. CASE /\ Page + 1 \in PagesOf(access.from, access.to)
           /\ machine' = "page" /\ access' = [a EXCEPT !.page = @ + 1]
  <2>1. /\ access' \in Access /\ access'.page = g + 1 /\ access'.from = f /\ access'.to = t
        /\ access'.write = access.write /\ access'.found = a.found
    BY <1>3, <1>7 DEF Access
  <2>2. g + 1 \in PagesOf(f, t)
    BY <1>3, <1>7 DEF Page
  <2>3. ClearBelow(d)'
    BY <1>1, <1>6, <2>1 DEF ClearBelow, Ahead, Touches
  <2>4. /\ (access.page * PageCells)' = d
    BY <1>3, <2>1
  <2>5. ClearBelow(access.page * PageCells)'
    BY <2>3, <2>4
  <2>6. access'.found # -1 =>
          \A n \in Unrun' : (words[n].does = "draw" /\ Touches(n, access.from, access.to))' =>
              n <= access'.found
    BY <1>1, <1>3, <2>1 DEF Touches
  <2>7. AccessHolds'
    BY <1>1, <1>4, <1>7, <2>1, <2>2, <2>5, <2>6 DEF AccessHolds
  <2> QED
    BY <1>7, <2>1, <2>7
<1>8. CASE /\ Page + 1 \notin PagesOf(access.from, access.to)
           /\ machine' = "through" /\ access' = a
  <2>1. t <= d
    BY <1>3, <1>4, <1>8, LastPage DEF Page
  <2>2. ClearBelow(t)'
    <3>1. ASSUME NEW n \in Unrun, Ahead(n), Touches(n, f, t) PROVE words[n].from >= t \/ f >= t
      <4>1. words[n].from \in Nat
        BY UnrunIs
      <4> QED
        BY <1>3, <1>6, <2>1, <3>1, <4>1
    <3> QED
      BY <1>1, <1>3, <1>8, <3>1 DEF ClearBelow, Ahead, Touches
  <2>3. access'.found # -1 =>
          \A n \in Unrun' : (words[n].does = "draw" /\ Touches(n, access.from, access.to))' =>
              n <= access'.found
    BY <1>1, <1>8 DEF Touches
  <2>4. AccessHolds'
    BY <1>1, <1>3, <1>4, <1>8, <2>2, <2>3 DEF AccessHolds
  <2> QED
    BY <1>8, <2>4
<1> QED
  BY <1>7, <1>8 DEF Onward

LEMMA BeginKeeps == ASSUME MarksInv, Begin PROVE MarksInv'
<1>1. /\ machine = "free" /\ machine' = "page"
      /\ UNCHANGED <<list, pages, ring, batch, box, verifier>>
  BY DEF Begin
<1>2. PICK s \in Spans, write \in BOOLEAN, narrow \in BOOLEAN :
        access' = [NoAccess EXCEPT !.from = s[1], !.to = s[2], !.write = write,
                      !.narrow = narrow, !.page = Min(PagesOf(s[1], s[2]))]
  BY DEF Begin
<1>3. s[1] \in Nat /\ s[2] \in Nat /\ s[1] < s[2] /\ s[2] <= Cells
  BY SpanIs
<1>4. PICK p \in Nat : p = Min(PagesOf(s[1], s[2])) /\ p \in PagesOf(s[1], s[2])
                       /\ p * PageCells <= s[1]
  BY <1>3, FirstPage
<1>5. /\ access' \in Access /\ access'.from = s[1] /\ access'.to = s[2]
      /\ access'.page = p /\ access'.found = -1
  BY <1>2, <1>3, <1>4 DEF Access, NoAccess
<1>6. ClearBelow(access.page * PageCells)'
  <2>1. (access.page * PageCells)' = p * PageCells /\ p * PageCells \in Nat
    BY <1>4, <1>5, Sizes
  <2>2. access'.from >= p * PageCells
    BY <1>3, <1>4, <1>5, <2>1
  <2> QED
    BY <2>1, <2>2 DEF ClearBelow
<1>7. AccessHolds'
  BY <1>1, <1>3, <1>4, <1>5, <1>6 DEF AccessHolds
<1>8. MarkTypes' /\ AllMarked' /\ ExtentIsIdle'
  BY <1>1, PagesStay
<1> QED
  BY <1>1, <1>5, <1>7, <1>8, AccessMoves

LEMMA TouchKeeps == ASSUME MarksInv, Touch PROVE MarksInv'
<1>1. /\ machine = "through" /\ machine' = "free" /\ access' = NoAccess
      /\ UNCHANGED <<list, pages, ring, batch, box, verifier>>
  BY DEF Touch
<1>2. NoAccess \in Access
  BY DEF NoAccess, Access
<1>3. AccessHolds'
  BY <1>1 DEF AccessHolds, Accessing
<1>4. MarkTypes' /\ AllMarked' /\ ExtentIsIdle'
  BY <1>1, PagesStay
<1> QED
  BY <1>1, <1>2, <1>3, <1>4, AccessMoves

\* A word that reaches the page's bytes reaches the access's.
LEMMA TouchesAll ==
    ASSUME MarksInv, machine \in {"page", "wait"}, NEW n \in Unrun, Touches(n, From, To)
    PROVE  Touches(n, access.from, access.to)
<1>1. words[n].from \in Nat /\ words[n].to \in Nat
  BY UnrunIs
<1>2. From < words[n].to /\ To > words[n].from
  BY DEF Touches, Overlap
<1>3. access.from < words[n].to /\ access.to > words[n].from
  BY <1>1, <1>2, PageIs
<1> QED
  BY <1>3 DEF Touches, Overlap

\* What the boxes say is no less than any word that the bytes wait for.
LEMMA NarrowedIsSound ==
    ASSUME MarksInv, machine = "page"
    PROVE  /\ Narrowed \in Nat
           /\ \A n \in Unrun : Ahead(n) /\ Touches(n, From, To) => n <= Narrowed
           /\ ~access.write /\ To - From > 1 /\ access.narrow =>
                \A n \in Unrun :
                   words[n].does = "draw" /\ Touches(n, access.from, access.to) => n <= Narrowed
<1>1. /\ access \in Access /\ access.from \in Nat /\ access.to \in Nat
      /\ From \in Nat /\ To \in Nat /\ From < To
      /\ access.found \in Nat \cup {-1} /\ access.write \in BOOLEAN /\ access.narrow \in BOOLEAN
  BY InvIs, PageIs DEF MachineTypes, Access
<1>2. IDLE \in Nat /\ \A n \in Unrun : n <= IDLE
  BY Sizes, UnrunIs
<1>3. CASE access.write
  <2>1. Narrowed = IDLE
    BY <1>3 DEF Narrowed
  <2> QED
    BY <1>2, <1>3, <2>1, Zenon
<1>4. CASE ~access.write
  <2>1. \A n \in Unrun : Ahead(n) <=> words[n].does = "draw"
    BY <1>4 DEF Ahead
  <2>2. CASE To - From = 1
    <3>1. Narrowed = LastHolding(From, To)
      BY <1>4, <2>2 DEF Narrowed
    <3>2. ~(To - From > 1)
      BY <1>1, <2>2
    <3> QED
      BY <1>1, <2>1, <3>1, <3>2, LastHoldingIsSound, Zenon
  <2>3. CASE To - From > 1 /\ access.narrow
    <3>1. To - From # 1
      BY <1>1, <2>3
    <3>2. Narrowed = IF access.found # -1 THEN access.found
                     ELSE LastHolding(access.from, access.to)
      BY <1>4, <2>3, <3>1 DEF Narrowed
    <3>3. /\ Narrowed \in Nat
          /\ \A n \in Unrun :
                words[n].does = "draw" /\ Touches(n, access.from, access.to) => n <= Narrowed
      <4>1. CASE access.found # -1
        <5>1. Narrowed = access.found /\ Narrowed \in Nat
          BY <1>1, <3>2, <4>1
        <5>2. AccessHolds /\ Accessing
          BY InvIs DEF Accessing
        <5> QED
          BY <4>1, <5>1, <5>2, Zenon DEF AccessHolds
      <4>2. CASE access.found = -1
        BY <1>1, <3>2, <4>2, LastHoldingIsSound
      <4> QED
        BY <4>1, <4>2
    <3> QED
      BY <2>1, <3>3, TouchesAll
  <2>4. CASE To - From # 1 /\ ~(To - From > 1 /\ access.narrow)
    <3>1. Narrowed = IDLE
      BY <1>4, <2>4 DEF Narrowed
    <3> QED
      BY <1>2, <2>4, <3>1, Zenon
  <2> QED
    BY <1>1, <2>2, <2>3, <2>4
<1> QED
  BY <1>3, <1>4

\* The drain awaited is no less than any word that the bytes wait for.
LEMMA GoalIsSound ==
    ASSUME MarksInv, machine = "page"
    PROVE  /\ Goal \in Nat /\ Goal <= Narrowed
           /\ \A n \in Unrun : Ahead(n) /\ Touches(n, From, To) => n <= Goal
<1>1. PICK whole \in Nat : whole = IF Mark = IDLE THEN issued ELSE Mark
  BY MarkIs, Counts
<1>2. /\ Narrowed \in Nat
      /\ \A n \in Unrun : Ahead(n) /\ Touches(n, From, To) => n <= Narrowed
  BY NarrowedIsSound
<1>3. Goal = Min({whole, Narrowed})
  BY <1>1 DEF Goal
<1>4. Goal \in {whole, Narrowed} /\ Goal \in Nat /\ Goal <= Narrowed
  BY <1>2, <1>3, MinOfTwo
<1>5. ASSUME NEW n \in Unrun, Ahead(n), Touches(n, From, To) PROVE n <= whole
  <2>1. n <= issued
    BY UnrunIs
  <2>2. Mark >= n /\ Mark \in Nat /\ n \in Nat
    BY <1>5, TouchedIsMarked, UnrunIs, MarkIs
  <2> QED
    BY <1>1, <2>1, <2>2
<1> QED
  BY <1>2, <1>4, <1>5

\* What is found is no less than any draw that reaches the access.
LEMMA FoundIsSound ==
    ASSUME MarksInv, machine = "page"
    PROVE  /\ Found \in Nat \cup {-1}
           /\ Found # -1 =>
                \A n \in Unrun :
                   words[n].does = "draw" /\ Touches(n, access.from, access.to) => n <= Found
<1>1. access.found \in Nat \cup {-1}
  BY InvIs DEF MachineTypes, Access
<1>2. AccessHolds /\ Accessing
  BY InvIs DEF Accessing
<1>3. CASE ~access.write /\ To - From > 1 /\ access.narrow
  <2>1. Found = Narrowed
    BY <1>3 DEF Found
  <2>2. Narrowed \in Nat
    BY NarrowedIsSound
  <2> QED
    BY <1>3, <2>1, <2>2, NarrowedIsSound
<1>4. CASE ~(~access.write /\ To - From > 1 /\ access.narrow)
  <2>1. Found = access.found
    BY <1>4, Zenon DEF Found
  <2> QED
    BY <1>1, <1>2, <2>1, Zenon DEF AccessHolds
<1> QED
  BY <1>3, <1>4

LEMMA PassKeeps == ASSUME MarksInv, Pass PROVE MarksInv'
<1>1. /\ machine = "page" /\ UNCHANGED <<list, ring, batch, box, verifier>>
  BY DEF Pass
<1>2. /\ access \in Access /\ AccessHolds /\ Accessing
  BY <1>1, InvIs DEF MachineTypes, Accessing
<1>3. Mark \in Nat /\ completed \in Nat /\ Page \in Pages
  BY <1>1, MarkIs, Counts, PageIs DEF Page
<1>4. access.found # -1 =>
        \A n \in Unrun : words[n].does = "draw" /\ Touches(n, access.from, access.to) =>
            n <= access.found
  BY <1>2 DEF AccessHolds
<1>5. \A n \in Unrun : n \in Nat /\ n > completed
  BY UnrunIs
\* The access itself going on, whatever is done with its marks.
<1>6. ASSUME \A n \in Unrun : Ahead(n) => ~Touches(n, From, To), Onward(access),
             MarkTypes', AllMarked', ExtentIsIdle'
      PROVE  MarksInv'
  <2>1. /\ AccessHolds' /\ access' \in Access
        /\ machine' \in {"free", "page", "wait", "through"}
    BY <1>1, <1>2, <1>4, <1>6, OnwardHolds
  <2> QED
    BY <1>1, <1>6, <2>1, AccessMoves
<1>7. CASE Mark = 0 /\ Onward(access) /\ UNCHANGED pages
  <2>1. ASSUME NEW n \in Unrun, Ahead(n), Touches(n, From, To) PROVE FALSE
    BY <1>1, <1>3, <1>5, <1>7, <2>1, TouchedIsMarked
  <2>2. MarkTypes' /\ AllMarked' /\ ExtentIsIdle'
    BY <1>1, <1>7, PagesStay
  <2> QED
    BY <1>6, <1>7, <2>1, <2>2
<1>8. CASE Mark # 0 /\ ~Due /\ Clear(Page, Mark) /\ Onward(access)
  <2>1. Mark <= completed
    BY <1>3, <1>8 DEF Due
  <2>2. ASSUME NEW n \in Unrun, Ahead(n), Touches(n, From, To) PROVE FALSE
    BY <1>1, <1>3, <1>5, <2>1, <2>2, TouchedIsMarked
  <2>3. MarkTypes' /\ AllMarked' /\ ExtentIsIdle'
    BY <1>1, <1>3, <1>8, <2>1, ClearKeeps
  <2> QED
    BY <1>6, <1>8, <2>2, <2>3
<1>9. CASE /\ Mark # 0 /\ Due /\ ~Reaches(From, To, access.write)
           /\ Onward(access) /\ UNCHANGED pages
  <2>1. ~Pending /\ From \in Nat /\ To \in Nat
    BY <1>1, PageIs DEF Pending
  <2>2. ASSUME NEW n \in Unrun, Ahead(n), Touches(n, From, To) PROVE FALSE
    BY <1>9, <2>1, <2>2, ReachesIsSound
  <2>3. MarkTypes' /\ AllMarked' /\ ExtentIsIdle'
    BY <1>1, <1>9, PagesStay
  <2> QED
    BY <1>6, <1>9, <2>2, <2>3
<1>10. CASE /\ Mark # 0 /\ Due /\ Reaches(From, To, access.write)
            /\ Goal = Narrowed /\ Narrowed <= completed
            /\ Onward([access EXCEPT !.found = Found])
            /\ UNCHANGED pages
  <2>1. ASSUME NEW n \in Unrun, Ahead(n), Touches(n, From, To) PROVE FALSE
    <3>1. n <= Narrowed /\ Narrowed \in Nat
      BY <1>1, <2>1, NarrowedIsSound
    <3> QED
      BY <1>3, <1>5, <1>10, <3>1
  <2>2. MarkTypes' /\ AllMarked' /\ ExtentIsIdle'
    BY <1>1, <1>10, PagesStay
  <2>3. PICK a : a = [access EXCEPT !.found = Found]
    OBVIOUS
  <2>4. /\ a \in Access /\ a.from = access.from /\ a.to = access.to
        /\ a.write = access.write /\ a.page = access.page /\ a.found = Found
    BY <1>1, <1>2, <2>3, FoundIsSound DEF Access
  <2>5. Onward(a)
    BY <1>10, <2>3
  <2>6. a.found # -1 =>
          \A n \in Unrun : words[n].does = "draw" /\ Touches(n, access.from, access.to) =>
              n <= a.found
    BY <1>1, <2>4, FoundIsSound
  <2>7. /\ AccessHolds' /\ access' \in Access
        /\ machine' \in {"free", "page", "wait", "through"}
    BY <1>1, <2>1, <2>4, <2>5, <2>6, OnwardHolds
  <2> QED
    BY <1>1, <2>2, <2>7, AccessMoves
<1> QED
  BY <1>7, <1>8, <1>9, <1>10 DEF Pass

LEMMA WaitKeeps == ASSUME MarksInv, Wait PROVE MarksInv'
<1>1. /\ machine = "page" /\ machine' = "wait"
      /\ UNCHANGED <<list, pages, ring, batch, box, verifier>>
      /\ access' = [access EXCEPT !.goal = Goal, !.found = Found]
  BY DEF Wait
<1>2. /\ access \in Access /\ AccessHolds /\ Accessing
  BY <1>1, InvIs DEF MachineTypes, Accessing
<1>3. PICK goal \in Nat, found \in Nat \cup {-1} : goal = Goal /\ found = Found
  BY <1>1, GoalIsSound, FoundIsSound
<1>4. /\ access' \in Access /\ access'.from = access.from /\ access'.to = access.to
      /\ access'.write = access.write /\ access'.page = access.page
      /\ access'.goal = goal /\ access'.found = found
  BY <1>1, <1>2, <1>3 DEF Access
<1>5. /\ words' = words /\ Unrun' = Unrun /\ From' = From /\ To' = To
      /\ \A n : Ahead(n)' <=> Ahead(n)
      /\ \A n, a, b : Touches(n, a, b)' <=> Touches(n, a, b)
  BY <1>1, <1>4, Zenon DEF list, Unrun, From, To, Page, Ahead, Touches
<1>6. /\ access.from < access.to /\ access.to <= Cells
      /\ access.page \in PagesOf(access.from, access.to)
      /\ ClearBelow(access.page * PageCells)
  BY <1>1, <1>2, Zenon DEF AccessHolds
<1>7. ClearBelow(access.page * PageCells)'
  <2>1. (access.page * PageCells)' = access.page * PageCells
    BY <1>4
  <2> QED
    BY <1>4, <1>5, <1>6, <2>1, Zenon DEF ClearBelow
<1>8. \A n \in Unrun : Ahead(n) /\ Touches(n, From, To) => n <= goal
  BY <1>1, <1>3, GoalIsSound
<1>9. found # -1 =>
        \A n \in Unrun : words[n].does = "draw" /\ Touches(n, access.from, access.to) =>
            n <= found
  BY <1>1, <1>3, FoundIsSound
<1>10. AccessHolds'
  BY <1>1, <1>4, <1>5, <1>6, <1>7, <1>8, <1>9, Zenon DEF AccessHolds
<1>11. MarkTypes' /\ AllMarked' /\ ExtentIsIdle'
  BY <1>1, PagesStay
<1> QED
  BY <1>1, <1>4, <1>10, <1>11, AccessMoves

LEMMA WaitedKeeps == ASSUME MarksInv, Waited PROVE MarksInv'
<1>1. /\ machine = "wait" /\ completed >= access.goal
      /\ UNCHANGED <<list, ring, batch, box, verifier>>
      /\ IF Mark # IDLE /\ access.goal >= Mark THEN Clear(Page, Mark) ELSE UNCHANGED pages
      /\ Onward([access EXCEPT !.goal = 0])
  BY DEF Waited
<1>2. /\ access \in Access /\ AccessHolds /\ Accessing
  BY <1>1, InvIs DEF MachineTypes, Accessing
<1>3. Mark \in Nat /\ completed \in Nat /\ Page \in Pages /\ access.goal \in Nat
  BY <1>1, <1>2, MarkIs, Counts, PageIs DEF Page, Access
<1>4. ASSUME NEW n \in Unrun, Ahead(n), Touches(n, From, To) PROVE FALSE
  <2>1. n <= access.goal
    BY <1>1, <1>2, <1>4 DEF AccessHolds
  <2>2. n \in Nat /\ n > completed
    BY UnrunIs
  <2> QED
    BY <1>1, <1>3, <2>1, <2>2
<1>5. PICK a : a = [access EXCEPT !.goal = 0]
  OBVIOUS
<1>6. /\ a \in Access /\ a.from = access.from /\ a.to = access.to
      /\ a.write = access.write /\ a.page = access.page /\ a.found = access.found
  BY <1>2, <1>5 DEF Access
<1>7. Onward(a)
  BY <1>1, <1>5
<1>8. a.found # -1 =>
        \A n \in Unrun : words[n].does = "draw" /\ Touches(n, access.from, access.to) =>
            n <= a.found
  BY <1>2, <1>6 DEF AccessHolds
<1>9. /\ AccessHolds' /\ access' \in Access
      /\ machine' \in {"free", "page", "wait", "through"}
  BY <1>1, <1>4, <1>6, <1>7, <1>8, OnwardHolds
<1>10. MarkTypes' /\ AllMarked' /\ ExtentIsIdle'
  <2>1. CASE Mark # IDLE /\ access.goal >= Mark
    <3>1. Mark <= completed
      BY <1>1, <1>3, <2>1
    <3> QED
      BY <1>1, <1>3, <2>1, <3>1, ClearKeeps
  <2>2. CASE ~(Mark # IDLE /\ access.goal >= Mark)
    BY <1>1, <2>2, PagesStay
  <2> QED
    BY <2>1, <2>2
<1> QED
  BY <1>1, <1>9, <1>10, AccessMoves

-----------------------------------------------------------------------------
(* The ring written and its count moved.                                   *)

\* A range written over the oldest leaves the rest, and what the oldest held
\* the full ring answers for.
LEMMA RingWritten ==
    ASSUME MarksInv, ~Pending, Pending', NEW r \in RingRange,
           ranges' = [ranges EXCEPT ![appended % RangeCount] = r],
           appended' = appended, issued' = issued
    PROVE  /\ RingTypes' /\ RingInOrder'
           /\ Slot(appended)' = r
           /\ \A k \in Window' : k \in Window /\ Slot(k)' = Slot(k)
           /\ \A n : RingFull(n) => RingFull(n)'
           /\ \A n \in Nat : \A k \in Window :
                 n <= Slot(k).mark => k \in Window' \/ RingFull(n)'
           /\ \A k \in Nat : k < appended /\ appended - k < RangeCount => Slot(k)' = Slot(k)
<1>1. RingTypes /\ RingInOrder /\ appended \in Nat
  BY InvIs DEF RingTypes
<1>2. /\ appended % RangeCount \in 0 .. RangeCount - 1
      /\ ranges \in [0 .. RangeCount - 1 -> RingRange]
  BY <1>1, Sizes DEF RingTypes
<1>3. Slot(appended)' = r
  BY <1>2 DEF Slot
<1>4. \A k \in Nat : k < appended /\ appended - k < RangeCount => Slot(k)' = Slot(k)
  <2> SUFFICES ASSUME NEW k \in Nat, k < appended, appended - k < RangeCount
               PROVE  Slot(k)' = Slot(k)
    OBVIOUS
  <2>1. k % RangeCount # appended % RangeCount
    <3>1. RangeCount \in Nat \ {0} /\ appended \in Nat
      BY <1>1, Sizes
    <3> QED
      BY <3>1, SlotsDiffer
  <2>2. k % RangeCount \in 0 .. RangeCount - 1
    BY Sizes
  <2> QED
    BY <1>2, <2>1, <2>2 DEF Slot
<1>5. /\ Low \in Nat /\ Low <= appended
      /\ Low = 0 \/ Low = appended - RangeCount
      /\ Low >= appended - RangeCount
      /\ Low' \in Nat /\ Low' <= appended
      /\ Low' = 0 \/ Low' = appended - RangeCount + 1
      /\ Low' > appended - RangeCount
  <2>1. PICK a \in Nat : a = appended /\ a = appended'
    BY <1>1
  <2>2. Low = Larger(a - RangeCount + 0, 0)
    BY <2>1 DEF Low
  <2>3. Low' = Larger(a - RangeCount + 1, 0)
    BY <2>1 DEF Low
  <2> QED
    BY <2>1, <2>2, <2>3, Sizes DEF Larger
<1>6. PICK low \in Nat, next \in Nat : low = Low /\ next = Low'
  BY <1>5
<1>7. Window = low .. appended - 1 /\ Window' = next .. appended - 1
  BY <1>6 DEF Window
<1>8. low <= next
  BY <1>1, <1>5, <1>6, Sizes
<1>9. \A k \in Window' : k \in Window /\ k \in Nat /\ Slot(k)' = Slot(k)
  <2> SUFFICES ASSUME NEW k \in Window'
               PROVE  k \in Window /\ k \in Nat /\ Slot(k)' = Slot(k)
    OBVIOUS
  <2>1. k \in Nat /\ k >= next /\ k < appended
    BY <1>1, <1>7
  <2>2. appended - k < RangeCount
    BY <1>1, <1>5, <1>6, <2>1, Sizes
  <2> QED
    BY <1>1, <1>4, <1>7, <1>8, <2>1, <2>2
<1>10. RingTypes'
  BY <1>1, <1>2 DEF RingTypes
<1>11. RingInOrder'
  BY <1>1, <1>9 DEF RingInOrder
<1>12. \A n : RingFull(n) => RingFull(n)'
  BY <1>9 DEF RingFull
<1>13. ASSUME NEW n \in Nat, NEW k \in Window, n <= Slot(k).mark, k \notin Window'
       PROVE  RingFull(n)'
  <2>1. k \in Nat /\ k < next /\ k < appended
    BY <1>1, <1>7, <1>13
  <2>2. appended >= RangeCount
    BY <1>1, <1>5, <1>6, <2>1, Sizes
  <2>3. ASSUME NEW j \in Window' PROVE Slot(j)'.mark >= n
    <3>1. j \in Window /\ j \in Nat /\ Slot(j)' = Slot(j) /\ k < j
      BY <1>1, <1>7, <1>9, <2>1
    <3>2. Slot(k).mark <= Slot(j).mark /\ Slot(k).mark \in Nat /\ Slot(j).mark \in Nat
      BY <1>1, <2>1, <3>1, SlotTypes DEF RingInOrder
    <3> QED
      BY <1>13, <3>1, <3>2
  <2> QED
    BY <2>2, <2>3 DEF RingFull
<1> QED
  BY <1>3, <1>4, <1>9, <1>10, <1>11, <1>12, <1>13

\* And so it still answers for each word.
LEMMA WrittenAnswers ==
    ASSUME MarksInv, ~Pending, Pending', NEW r \in RingRange,
           ranges' = [ranges EXCEPT ![appended % RangeCount] = r],
           appended' = appended, issued' = issued,
           \A n \in 1 .. issued : words'[n] = words[n]
    PROVE  \A n \in 1 .. issued, write \in BOOLEAN : RingHas(n, write) => RingHas(n, write)'
<1> SUFFICES ASSUME NEW n \in 1 .. issued, NEW write \in BOOLEAN, RingHas(n, write)
             PROVE  RingHas(n, write)'
  OBVIOUS
<1>1. n \in Nat /\ words'[n] = words[n]
  BY Counts
<1>2. CASE RingFull(n)
  BY <1>2, RingWritten DEF RingHas
<1>3. ASSUME NEW k \in Window, Holds(Slot(k), n), n <= Slot(k).mark, write => Slot(k).write
      PROVE  RingHas(n, write)'
  <2>1. CASE RingFull(n)'
    BY <2>1 DEF RingHas
  <2>2. CASE k \in Window'
    <3>1. Slot(k)' = Slot(k)
      BY <2>2, RingWritten
    <3>2. Holds(Slot(k), n)'
      BY <1>1, <1>3, <3>1 DEF Holds
    <3> QED
      BY <1>3, <2>2, <3>1, <3>2 DEF RingHas
  <2> QED
    BY <1>1, <1>3, <2>1, <2>2, RingWritten
<1> QED
  BY <1>2, <1>3 DEF RingHas

\* And the verifier meets the word's range yet, or one written over.
LEMMA WrittenChecks ==
    ASSUME MarksInv, ~Pending, Pending', NEW r \in RingRange,
           ranges' = [ranges EXCEPT ![appended % RangeCount] = r],
           appended' = appended, issued' = issued, completed' = completed,
           \A n \in 1 .. issued : words'[n] = words[n],
           UNCHANGED verifier, FieldsHold'
    PROVE  CheckHolds'
<1>1. /\ CheckHolds /\ MachineTypes /\ check' = check /\ faulted' = faulted
      /\ appended \in Nat
  BY InvIs, Counts DEF verifier
<1>2. /\ check.word \in Nat /\ check.next \in Nat
      /\ check.at \in {"off", "idle", "ring", "slot", "look", "box", "fields"}
  BY <1>1, CheckTypes
<1>3. \A b : CheckHas(b) => CheckHas(b)'
  <2> SUFFICES ASSUME NEW b, CheckHas(b) PROVE CheckHas(b)'
    OBVIOUS
  <2>1. CASE RingFull(check.word)
    <3>1. RingFull(check.word)'
      <4>1. \A n : RingFull(n) => RingFull(n)'
        BY RingWritten
      <4>2. PICK w : w = check.word
        OBVIOUS
      <4>3. RingFull(w)' /\ check'.word = w
        BY <1>1, <2>1, <4>1, <4>2
      <4> QED
        BY <4>3
    <3> QED
      BY <3>1 DEF CheckHas
  <2>2. ASSUME NEW k \in Window, k <= b,
               Slot(k).start <= check.word, check.word <= Slot(k).mark,
               Within(Slot(k)), check.write => Slot(k).write
        PROVE  CheckHas(b)'
    <3>1. CASE k \in Window'
      <4>1. Slot(k)' = Slot(k)
        BY <3>1, RingWritten
      <4> QED
        BY <1>1, <2>2, <3>1, <4>1 DEF CheckHas, Within
    <3>2. CASE k \notin Window'
      <4>1. PICK w \in Nat : w = check.word
        BY <1>2
      <4>2. RingFull(w)' /\ check'.word = w
        BY <1>1, <2>2, <3>2, <4>1, RingWritten
      <4>3. RingFull(check.word)'
        BY <4>2
      <4> QED
        BY <4>3 DEF CheckHas
    <3> QED
      BY <3>1, <3>2
  <2> QED
    BY <2>1, <2>2 DEF CheckHas
<1>4. check.at # "off" => check.word \in 1 .. issued
  BY <1>1, <1>2, Counts DEF CheckHolds
<1>5. check.at # "off" => words'[check.word] = words[check.word]
  BY <1>4
<1>6. check.at = "ring" => CheckHas(appended)'
  <2>1. PICK a \in Nat : a = appended /\ a = appended'
    BY <1>1
  <2>2. check.at = "ring" => CheckHas(a)'
    BY <1>1, <1>3, <2>1 DEF CheckHolds
  <2> QED
    BY <2>1, <2>2
<1>7. check.at \in {"slot", "look"} => CheckHas(check.next)' /\ check.next < appended
  <2>1. PICK b \in Nat : b = check.next /\ b = check'.next
    BY <1>1, <1>2
  <2>2. check.at \in {"slot", "look"} => CheckHas(b)' /\ check.next < appended
    BY <1>1, <1>3, <2>1 DEF CheckHolds
  <2> QED
    BY <2>1, <2>2
<1>8. check.at = "look" /\ appended - check.next < RangeCount =>
        check.slot = Slot(check.next)'
  <2>1. SUFFICES ASSUME check.at = "look", appended - check.next < RangeCount
                 PROVE  check.slot = Slot(check.next)'
    OBVIOUS
  <2>2. PICK b \in Nat : b = check.next /\ b = check'.next
    BY <1>1, <1>2
  <2>3. check.slot = Slot(b) /\ b < appended
    BY <1>1, <2>1, <2>2 DEF CheckHolds
  <2>4. Slot(b)' = Slot(b)
    BY <2>1, <2>2, <2>3, RingWritten
  <2> QED
    BY <2>2, <2>3, <2>4
<1> QED
  BY <1>1, <1>2, <1>4, <1>5, <1>6, <1>7, <1>8 DEF CheckHolds

\* A range counted joins the ring's, the newest.
LEMMA RingAppended ==
    ASSUME MarksInv, Pending, ~Pending', UNCHANGED <<words, ranges>>,
           appended' = appended + 1, issued' \in Nat, issued' >= issued,
           Slot(appended).mark >= issued, Slot(appended).mark <= issued'
    PROVE  /\ RingTypes' /\ RingInOrder'
           /\ \A k \in Window : k \in Window'
           /\ appended \in Window'
           /\ \A k : Slot(k)' = Slot(k)
           /\ \A n \in 1 .. issued : RingFull(n) => RingFull(n)'
           /\ \A n \in 1 .. issued : \A write : RingHas(n, write) => RingHas(n, write)'
<1>1. RingTypes /\ RingInOrder /\ appended \in Nat /\ issued \in Nat
  BY InvIs, Counts DEF RingTypes
<1>2. \A k : Slot(k)' = Slot(k)
  BY DEF Slot
<1>3. PICK low \in Nat : low = Low /\ low = Low' /\ low <= appended
  <2>1. PICK a \in Nat : a = appended /\ appended' = a + 1
    BY <1>1
  <2>2. Low = Larger(a - RangeCount + 1, 0)
    BY <2>1 DEF Low
  <2>3. Low' = Larger((a + 1) - RangeCount + 0, 0)
    BY <2>1 DEF Low
  <2>4. (a + 1) - RangeCount + 0 = a - RangeCount + 1
    BY <2>1, Sizes
  <2>5. Low' = Low
    BY <2>2, <2>3, <2>4
  <2> QED
    BY <1>1, <2>5, WindowIs
<1>4. Window = low .. appended - 1 /\ Window' = low .. appended
  <2>1. Window' = low .. appended' - 1 /\ appended' - 1 = appended
    BY <1>1, <1>3 DEF Window
  <2> QED
    BY <1>3, <2>1 DEF Window
<1>5. /\ \A k \in Window : k \in Window'
      /\ appended \in Window'
      /\ \A k \in Window' : k \in Nat /\ (k \in Window \/ k = appended)
      /\ \A k \in Window : k < appended /\ k \in Nat
  BY <1>1, <1>3, <1>4
<1>6. \A k \in Nat : Slot(k).mark \in Nat
  BY <1>1, SlotTypes
<1>7. RingTypes'
  BY <1>1 DEF RingTypes
<1>8. RingInOrder'
  <2>1. ASSUME NEW k \in Window' PROVE Slot(k)'.mark <= issued'
    <3>1. k \in Window => Slot(k).mark <= issued
      BY <1>1 DEF RingInOrder
    <3> QED
      BY <1>1, <1>2, <1>5, <1>6, <3>1
  <2>2. ASSUME NEW j \in Window', NEW k \in Window', j < k
        PROVE  Slot(j)'.mark <= Slot(k)'.mark
    <3>1. j \in Window
      BY <1>1, <1>5, <2>2
    <3>2. CASE k \in Window
      BY <1>1, <1>2, <2>2, <3>1, <3>2 DEF RingInOrder
    <3>3. CASE k = appended
      <4>1. Slot(j).mark <= issued
        BY <1>1, <3>1 DEF RingInOrder
      <4> QED
        BY <1>1, <1>2, <1>5, <1>6, <3>1, <3>3, <4>1
    <3> QED
      BY <1>5, <3>2, <3>3
  <2> QED
    BY <2>1, <2>2 DEF RingInOrder
<1>9. ASSUME NEW n \in 1 .. issued, RingFull(n) PROVE RingFull(n)'
  <2>1. appended' >= RangeCount
    BY <1>1, <1>9, Sizes DEF RingFull
  <2>2. ASSUME NEW k \in Window' PROVE Slot(k)'.mark >= n
    <3>1. k \in Window => Slot(k).mark >= n
      BY <1>9 DEF RingFull
    <3> QED
      BY <1>1, <1>2, <1>5, <1>6, <3>1
  <2> QED
    BY <2>1, <2>2 DEF RingFull
<1>10. \A n \in 1 .. issued : \A write : RingHas(n, write) => RingHas(n, write)'
  BY <1>2, <1>5, <1>9 DEF RingHas, Holds
<1> QED
  BY <1>2, <1>5, <1>7, <1>8, <1>9, <1>10

LEMMA AppendedChecks ==
    ASSUME MarksInv, Pending, ~Pending', UNCHANGED <<words, ranges>>,
           appended' = appended + 1, issued' \in Nat, issued' >= issued,
           Slot(appended).mark >= issued, Slot(appended).mark <= issued',
           completed' = completed, UNCHANGED verifier, FieldsHold'
    PROVE  CheckHolds'
<1>1. /\ CheckHolds /\ MachineTypes /\ check' = check /\ faulted' = faulted
      /\ appended \in Nat /\ issued \in Nat /\ completed \in Nat
  BY InvIs, Counts DEF verifier
<1>2. /\ check.word \in Nat /\ check.next \in Nat
      /\ check.at \in {"off", "idle", "ring", "slot", "look", "box", "fields"}
  BY <1>1, CheckTypes
<1>3. check.at # "off" => check.word \in 1 .. issued
  BY <1>1, <1>2, Counts DEF CheckHolds
<1>4. ASSUME check.at # "off", NEW b \in Nat, NEW d \in Nat, b <= d, CheckHas(b)
      PROVE  CheckHas(d)'
  <2>1. PICK w \in 1 .. issued : w = check.word /\ w = check'.word
    BY <1>1, <1>3, <1>4
  <2>2. CASE RingFull(check.word)
    <3>1. RingFull(w)'
      BY <2>1, <2>2, RingAppended
    <3>2. RingFull(check.word)'
      BY <2>1, <3>1
    <3> QED
      BY <3>2 DEF CheckHas
  <2>3. ASSUME NEW k \in Window, k <= b,
               Slot(k).start <= check.word, check.word <= Slot(k).mark,
               Within(Slot(k)), check.write => Slot(k).write
        PROVE  CheckHas(d)'
    <3>1. k \in Nat /\ k <= d
      BY <1>1, <1>4, <2>3, WindowIs
    <3>2. k \in Window' /\ Slot(k)' = Slot(k)
      BY RingAppended
    <3> QED
      BY <1>1, <2>3, <3>1, <3>2 DEF CheckHas, Within
  <2> QED
    BY <1>4, <2>2, <2>3 DEF CheckHas
<1>5. check.at = "ring" => CheckHas(appended)'
  <2>1. PICK a \in Nat : a = appended /\ a + 1 = appended'
    BY <1>1
  <2>2. a <= a + 1 /\ a + 1 \in Nat
    BY <2>1
  <2>3. check.at = "ring" => CheckHas(a + 1)'
    BY <1>1, <1>4, <2>1, <2>2 DEF CheckHolds
  <2> QED
    BY <2>1, <2>3
<1>6. check.at \in {"slot", "look"} => CheckHas(check.next)' /\ check.next < appended'
  <2>1. PICK b \in Nat : b = check.next /\ b = check'.next
    BY <1>1, <1>2
  <2>2. check.at \in {"slot", "look"} => CheckHas(b)' /\ b < appended
    BY <1>1, <1>4, <2>1 DEF CheckHolds
  <2> QED
    BY <1>1, <2>1, <2>2
<1>7. check.at = "look" /\ appended' - check.next < RangeCount =>
        check.slot = Slot(check.next)'
  <2>1. SUFFICES ASSUME check.at = "look", appended' - check.next < RangeCount
                 PROVE  check.slot = Slot(check.next)'
    OBVIOUS
  <2>2. PICK b \in Nat : b = check.next /\ b = check'.next
    BY <1>1, <1>2
  <2>3. appended - check.next < RangeCount
    BY <1>1, <1>2, <2>1, Sizes
  <2>4. check.slot = Slot(b)
    BY <1>1, <2>1, <2>2, <2>3 DEF CheckHolds
  <2>5. Slot(b)' = Slot(b)
    BY RingAppended
  <2> QED
    BY <2>2, <2>4, <2>5
<1>8. check.at # "off" => check.word <= issued'
  BY <1>1, <1>3
<1> QED
  BY <1>1, <1>2, <1>5, <1>6, <1>7, <1>8 DEF CheckHolds

-----------------------------------------------------------------------------
(* A batch begun, ended, and everything joined.                            *)

\* The list, the rings and the verifier alone, the machine at no access.
LEMMA BeginBatchKeeps == ASSUME MarksInv, BeginBatch PROVE MarksInv'
<1>1. /\ machine = "free" /\ ~taking /\ taking' = TRUE /\ batch_start' = issued
      /\ extent' = NoExtent /\ machine' = machine
      /\ UNCHANGED <<words, issued, ranges, appended, boxes, boxed>> /\ completed' = completed
      /\ UNCHANGED <<idle, unlisted, access, check, faulted, marks, write_marks>>
  BY DEF BeginBatch, list, pages, ring, box, reading, verifier
<1>2. completed' \in Nat /\ completed <= completed' /\ completed' <= issued
  BY <1>1, Counts
<1>3. check.at # "off" => completed' < check.word
  BY <1>1, InvIs DEF CheckHolds
<1>4. ~Ending /\ ~Ending' /\ idle = <<>> /\ ~unlisted
  BY <1>1, InvIs DEF Ending, BatchHolds
<1>5. /\ ListTypes' /\ RingTypes' /\ BoxTypes'
      /\ RingInOrder' /\ BoxesInOrder' /\ BoxesAnswer'
      /\ \A n, write : RingHas(n, write)' <=> RingHas(n, write)
  BY <1>1, <1>2, ListStays, Zenon
<1>6. CheckHolds' /\ AccessHolds' /\ MarkTypes' /\ AllMarked'
  BY <1>1, <1>2, <1>3, CheckStays, AccessStays, MarksStay, Zenon
<1>7. MachineTypes'
  BY <1>1, InvIs, Zenon DEF MachineTypes
<1>8. BatchTypes'
  <2>1. NoExtent \in [index : Int, from : Nat, to : Nat] /\ NoExtent.index >= -2
    BY DEF NoExtent
  <2> QED
    BY <1>1, <2>1, InvIs, Counts DEF BatchTypes
<1>9. BatchHolds'
  <2>1. DOMAIN idle = {}
    BY <1>4
  <2> QED
    BY <1>1, <1>4, <2>1 DEF BatchHolds
<1>10. ExtentIsIdle'
  BY <1>1 DEF ExtentIsIdle, NoExtent
<1>11. Answered'
  <2>1. \A n : IdleHas(n) => IdleHas(n)'
    BY <1>1, <1>4 DEF IdleHas, Holds
  <2> QED
    BY <1>1, <1>5, <2>1, InvIs, Zenon DEF Answered
<1>12. EndAnswered' /\ PendingIsDue'
  BY <1>1, <1>4 DEF EndAnswered, PendingIsDue
<1> QED
  BY <1>5, <1>6, <1>7, <1>8, <1>9, <1>10, <1>11, <1>12 DEF MarksInv, MarksTypes

LEMMA EndBatchKeeps == ASSUME MarksInv, EndBatch PROVE MarksInv'
<1>1. /\ machine = "free" /\ taking /\ taking' = FALSE /\ machine' = "end"
      /\ access' = [access EXCEPT !.page = 1]
      /\ UNCHANGED <<words, issued, ranges, appended, boxes, boxed>> /\ completed' = completed
      /\ UNCHANGED <<idle, unlisted, extent, batch_start, check, faulted>>
      /\ UNCHANGED <<marks, write_marks>>
  BY DEF EndBatch, list, pages, ring, box, verifier
<1>2. completed' \in Nat /\ completed <= completed' /\ completed' <= issued
  BY <1>1, Counts
<1>3. check.at # "off" => completed' < check.word
  BY <1>1, InvIs DEF CheckHolds
<1>4. access' \in Access /\ access'.page = 1
  BY <1>1, InvIs DEF MachineTypes, Access
<1>5. /\ machine' = "publish" <=> machine = "publish"
      /\ machine' = "append" <=> machine = "append"
  BY <1>1
<1>6. /\ ListTypes' /\ RingTypes' /\ BoxTypes'
      /\ RingInOrder' /\ BoxesInOrder' /\ BoxesAnswer'
      /\ \A n, write : RingHas(n, write)' <=> RingHas(n, write)
  BY <1>1, <1>2, <1>5, ListStays, Zenon
<1>7. CheckHolds' /\ MarkTypes' /\ AllMarked'
  BY <1>1, <1>2, <1>3, <1>5, CheckStays, MarksStay, Zenon
<1>8. AccessHolds' /\ PendingIsDue' /\ ExtentIsIdle'
  BY <1>1 DEF AccessHolds, Accessing, PendingIsDue, ExtentIsIdle
<1>9. MachineTypes'
  BY <1>1, <1>4, InvIs DEF MachineTypes
<1>10. BatchTypes'
  BY <1>1, InvIs DEF BatchTypes
<1>11. BatchHolds'
  <2>1. \A i \in DOMAIN idle : idle[i].start > batch_start /\ idle[i].start <= Len(words)
    BY InvIs DEF BatchHolds
  <2> QED
    BY <1>1, <1>4, <2>1 DEF BatchHolds, Ending
<1>12. Answered'
  <2>1. \A n : IdleHas(n) => IdleHas(n)'
    BY <1>1 DEF IdleHas, Holds
  <2>2. machine' # "publish" /\ Answered
    BY <1>1, InvIs
  <2> QED
    BY <1>1, <1>6, <2>1, <2>2, Zenon DEF Answered
<1>13. EndAnswered'
  <2>1. \A n : ~GoneOver(n)'
    <3>1. \A i \in DOMAIN idle : ~(i < 1)
      BY InvIs, IdleRangeTypes
    <3> QED
      BY <1>1, <1>4, <3>1 DEF GoneOver
  <2> QED
    BY <2>1, Zenon DEF EndAnswered
<1> QED
  BY <1>6, <1>7, <1>8, <1>9, <1>10, <1>11, <1>12, <1>13 DEF MarksInv, MarksTypes

LEMMA JoinKeeps == ASSUME MarksInv, Join PROVE MarksInv'
<1>1. /\ machine = "free" /\ ~taking /\ completed = issued /\ appended' = 0
      /\ marks' = [p \in Pages |-> 0] /\ write_marks' = [p \in Pages |-> 0]
      /\ UNCHANGED <<words, issued, completed, ranges, boxes, boxed>>
      /\ UNCHANGED <<idle, unlisted, extent, batch_start, taking>>
      /\ UNCHANGED <<machine, access, check, faulted>>
  BY DEF Join, list, batch, box, reading, verifier
<1>2. issued \in Nat /\ Len(words) = issued
  BY <1>1, InvIs, Counts DEF ListTypes
<1>3. completed' + 1 .. issued' = {} /\ completed' + 1 .. Len(words') = {}
  BY <1>1, <1>2
<1>4. ListTypes'
  BY <1>1, InvIs, Zenon DEF ListTypes
<1>5. MarkTypes'
  BY <1>1, Sizes DEF MarkTypes
<1>6. RingTypes' /\ BoxTypes'
  BY <1>1, InvIs DEF RingTypes, BoxTypes
<1>7. MachineTypes' /\ BatchTypes' /\ BatchHolds'
  BY <1>1, InvIs, Zenon DEF MachineTypes, BatchTypes, BatchHolds, Ending
<1>8. ExtentIsIdle' /\ AllMarked' /\ Answered' /\ EndAnswered' /\ PendingIsDue' /\ BoxesAnswer'
  BY <1>1, <1>3 DEF ExtentIsIdle, AllMarked, Answered, EndAnswered, PendingIsDue, BoxesAnswer,
     Ending
<1>9. RingInOrder'
  <2>1. Window' = {}
    <3>1. Low' \in Nat
      BY <1>1, Sizes DEF Low, Larger
    <3>2. Window' = Low' .. 0 - 1
      BY <1>1 DEF Window
    <3> QED
      BY <3>1, <3>2
  <2> QED
    BY <2>1 DEF RingInOrder
<1>10. BoxesInOrder'
  <2>1. Boxed' = Boxed
    BY <1>1, BoxedStays
  <2> QED
    BY <1>1, <2>1, InvIs, Zenon DEF BoxesInOrder, BoxAt, BoxWindow, BoxLow
<1>11. AccessHolds'
  BY <1>1 DEF AccessHolds, Accessing
<1>12. CheckHolds'
  <2>1. check.at = "off"
    <3>1. check.at # "off" => completed < check.word /\ check.word <= issued /\ check.word \in Nat
      BY InvIs, CheckTypes DEF CheckHolds
    <3> QED
      BY <1>1, <1>2, <3>1
  <2> QED
    BY <1>1, <2>1, InvIs DEF CheckHolds, FieldsHold
<1> QED
  BY <1>4, <1>5, <1>6, <1>7, <1>8, <1>9, <1>10, <1>11, <1>12 DEF MarksInv, MarksTypes

LEMMA BoxesStay ==
    ASSUME MarksInv, UNCHANGED <<words, completed, boxes>>, Boxed' = Boxed,
           boxed' \in Nat, boxed <= boxed'
    PROVE  /\ BoxTypes' /\ BoxesInOrder' /\ BoxesAnswer'
           /\ UNCHANGED check => FieldsHold'
<1>1. BoxTypes /\ BoxesInOrder /\ BoxesAnswer
  BY InvIs
<1>2. words' = words /\ completed' = completed /\ boxes' = boxes /\ Boxed' = Boxed
  OBVIOUS
<1>3. \A k : BoxAt(k)' = BoxAt(k)
  BY <1>2, Zenon DEF BoxAt
<1>4. BoxWindow' = BoxWindow
  BY <1>2, Zenon DEF BoxWindow, BoxLow
<1>5. \A k, n : BoxOf(k, n)' <=> BoxOf(k, n)
  BY <1>2, <1>3, Zenon DEF BoxOf
<1>6. BoxTypes'
  BY <1>1, <1>2, Zenon DEF BoxTypes
<1>7. BoxesInOrder'
  BY <1>1, <1>2, <1>3, <1>4, Zenon DEF BoxesInOrder
<1>8. BoxesAnswer'
  BY <1>1, <1>2, <1>3, <1>4, <1>5, Zenon DEF BoxesAnswer
<1>9. UNCHANGED check => FieldsHold'
  BY <1>2, FieldsStay
<1> QED
  BY <1>6, <1>7, <1>8, <1>9

\* The marks of an ending batch's range become the count of what is published.
LEMMA DowngradeKeeps ==
    ASSUME MarksInv, machine = "end", NEW from, NEW to, Downgrade(from, to, issued),
           UNCHANGED <<words, completed>>
    PROVE  MarkTypes' /\ AllMarked'
<1>1. /\ MarkTypes /\ AllMarked /\ words' = words /\ completed' = completed
      /\ issued \in Nat /\ issued <= MaxWords /\ Len(words) = issued
  BY InvIs, Counts DEF ListTypes
<1>2. issued \in 0 .. IDLE
  BY <1>1, Sizes
<1>3. /\ marks' = [p \in Pages |-> IF p \in PagesOf(from, to) THEN issued ELSE marks[p]]
      /\ write_marks' = [p \in Pages |-> IF p \in PagesOf(from, to) THEN issued
                                         ELSE write_marks[p]]
  BY DEF Downgrade
<1>4. MarkTypes'
  BY <1>1, <1>2, <1>3 DEF MarkTypes
<1>5. ASSUME NEW n \in completed + 1 .. Len(words) PROVE MarkedTo(n)'
  <2>1. MarkedTo(n) /\ n <= issued
    BY <1>1, Counts DEF AllMarked
  <2>2. \A p \in PagesOf(words[n].from, words[n].to) : p \in Pages
    BY DEF PagesOf
  <2> QED
    BY <1>1, <1>3, <2>1, <2>2 DEF MarkedTo
<1>6. AllMarked'
  BY <1>1, <1>5 DEF AllMarked
<1> QED
  BY <1>4, <1>6

LEMMA EndRangeKeeps == ASSUME MarksInv, EndRange PROVE MarksInv'
<1>1. /\ machine = "end" /\ machine' = "append"
      /\ UNCHANGED <<words, issued, completed, appended>>
      /\ UNCHANGED <<idle, unlisted, extent, batch_start, taking>>
      /\ UNCHANGED <<boxes, boxed, access, check, faulted>>
  BY DEF EndRange, list, batch, box, reading, verifier
<1>2. /\ BatchHolds /\ BatchTypes /\ Ending /\ ~taking /\ issued \in Nat
  BY <1>1, InvIs, Counts DEF BatchHolds, Ending
<1>3. ~Pending /\ Pending'
  BY <1>1 DEF Pending
<1>4. PICK r \in RingRange :
        /\ ranges' = [ranges EXCEPT ![appended % RangeCount] = r]
        /\ r.mark = issued /\ r.write
        /\ IF unlisted
           THEN /\ access.page = 1 /\ r.start = batch_start /\ r.from = 0 /\ r.to = Cells
           ELSE /\ access.page <= Len(idle) /\ r.start = idle[access.page].start
                /\ r.from = idle[access.page].from /\ r.to = idle[access.page].to
  <2>1. CASE unlisted
    <3>1. PICK r : r = [from |-> 0, to |-> Cells, start |-> batch_start, mark |-> issued,
                        write |-> TRUE]
      OBVIOUS
    <3>2. /\ ranges' = [ranges EXCEPT ![appended % RangeCount] = r] /\ access.page = 1
      BY <2>1, <3>1 DEF EndRange, WriteRange
    <3>3. batch_start \in Nat /\ Cells \in Nat
      BY <1>2, Sizes DEF BatchTypes
    <3>4. r \in RingRange
      BY <1>2, <3>1, <3>3 DEF RingRange
    <3> QED
      BY <2>1, <3>1, <3>2, <3>4
  <2>2. CASE ~unlisted
    <3>1. PICK i : i = idle[access.page]
      OBVIOUS
    <3>2. PICK r : r = [from |-> i.from, to |-> i.to, start |-> i.start, mark |-> issued,
                        write |-> TRUE]
      OBVIOUS
    <3>3. /\ ranges' = [ranges EXCEPT ![appended % RangeCount] = r]
          /\ access.page <= Len(idle)
      BY <2>2, <3>1, <3>2 DEF EndRange, WriteRange
    <3>4. access.page \in DOMAIN idle
      <4>1. access.page >= 1 /\ access.page \in Nat
        BY <1>2, InvIs DEF BatchHolds, MachineTypes, Access
      <4> QED
        BY <1>2, <3>3, <4>1, IdleRangeTypes
    <3>5. i.from \in Nat /\ i.to \in Nat /\ i.start \in Nat
      BY <1>2, <3>1, <3>4, IdleRangeTypes
    <3>6. r \in RingRange
      BY <1>2, <3>2, <3>5 DEF RingRange
    <3> QED
      BY <2>2, <3>1, <3>2, <3>3, <3>6
  <2> QED
    BY <2>1, <2>2
<1>5. /\ RingTypes' /\ RingInOrder' /\ Slot(appended)' = r
  BY <1>1, <1>3, <1>4, RingWritten
<1>6. \A n \in 1 .. issued, write \in BOOLEAN : RingHas(n, write) => RingHas(n, write)'
  BY <1>1, <1>3, <1>4, WrittenAnswers
<1>8. BoxTypes' /\ BoxesInOrder' /\ BoxesAnswer' /\ FieldsHold'
  <2>1. Boxed' = Boxed /\ boxed \in Nat /\ boxed' = boxed
    BY <1>1, Counts DEF Boxed
  <2> QED
    BY <1>1, <2>1, BoxesStay
<1>7. CheckHolds'
  BY <1>1, <1>3, <1>4, <1>8, WrittenChecks DEF verifier
<1>9. MarkTypes' /\ AllMarked'
  <2>1. CASE unlisted
    <3>1. UNCHANGED pages
      BY <2>1 DEF EndRange
    <3> QED
      BY <1>1, <3>1, MarksStay, Counts DEF pages
  <2>2. CASE ~unlisted
    <3>1. PICK from, to : from = idle[access.page].from /\ to = idle[access.page].to
      OBVIOUS
    <3>2. Downgrade(from, to, issued)
      BY <2>2, <3>1 DEF EndRange
    <3> QED
      BY <1>1, <3>2, DowngradeKeeps
  <2> QED
    BY <2>1, <2>2
<1>10. ListTypes'
  BY <1>1, InvIs DEF ListTypes
<1>11. MachineTypes' /\ BatchTypes'
  BY <1>1, InvIs DEF MachineTypes, BatchTypes
<1>12. BatchHolds'
  <2>1. /\ \A i \in DOMAIN idle : idle[i].start > batch_start /\ idle[i].start <= Len(words)
        /\ access.page >= 1
    BY <1>2 DEF BatchHolds
  <2>2. machine' # "publish" /\ Ending'
    BY <1>1 DEF Ending
  <2>3. IF unlisted THEN access.page = 1 ELSE access.page <= Len(idle)
    BY <1>4
  <2> QED
    BY <1>1, <1>2, <2>1, <2>2, <2>3, Zenon DEF BatchHolds
<1>13. ExtentIsIdle' /\ AccessHolds'
  BY <1>1, <1>2 DEF ExtentIsIdle, AccessHolds, Accessing
<1>14. \A n \in completed + 1 .. issued : n \in 1 .. issued
  BY Counts
<1>15. Answered'
  <2>1. \A n : IdleHas(n) => IdleHas(n)'
    BY <1>1 DEF IdleHas, Holds
  <2>2. Answered
    BY InvIs
  <2> QED
    BY <1>1, <1>6, <1>14, <2>1, <2>2 DEF Answered
<1>16. EndAnswered'
  <2>1. \A n : GoneOver(n)' => GoneOver(n)
    BY <1>1 DEF GoneOver, IdleHas, Holds
  <2>2. EndAnswered
    BY InvIs
  <2> QED
    BY <1>1, <1>2, <1>6, <1>14, <2>1, <2>2 DEF EndAnswered
<1>17. PendingIsDue'
  <2>1. Slot(appended)' = r /\ appended' = appended
    BY <1>1, <1>5
  <2> QED
    BY <1>1, <1>4, <2>1 DEF PendingIsDue, Slot
<1> QED
  BY <1>5, <1>7, <1>8, <1>9, <1>10, <1>11, <1>12, <1>13, <1>15, <1>16, <1>17
     DEF MarksInv, MarksTypes

LEMMA EndAppendKeeps == ASSUME MarksInv, EndAppend PROVE MarksInv'
<1>1. /\ machine = "append" /\ machine' = "end" /\ appended' = appended + 1
      /\ access' = [access EXCEPT !.page = @ + 1]
      /\ UNCHANGED <<words, issued, completed, ranges, marks, write_marks>>
      /\ UNCHANGED <<idle, unlisted, extent, batch_start, taking>>
      /\ UNCHANGED <<boxes, boxed, check, faulted>>
  BY DEF EndAppend, list, pages, batch, box, verifier
<1>2. /\ BatchHolds /\ BatchTypes /\ Ending /\ ~taking /\ access.page >= 1 /\ issued \in Nat
  BY <1>1, InvIs, Counts DEF BatchHolds, Ending
<1>3. PICK g \in Nat : /\ g = access.page /\ access'.page = g + 1 /\ access' \in Access
                       /\ g >= 1
  BY <1>1, <1>2, InvIs DEF MachineTypes, Access
<1>4. Pending /\ ~Pending'
  BY <1>1 DEF Pending
<1>5. /\ Slot(appended).mark = issued /\ Slot(appended).write
      /\ IF unlisted
         THEN /\ Slot(appended).start = batch_start
              /\ Slot(appended).from = 0 /\ Slot(appended).to = Cells
         ELSE /\ Slot(appended).start = idle[g].start
              /\ Slot(appended).from = idle[g].from
              /\ Slot(appended).to = idle[g].to
  BY <1>1, <1>3, InvIs DEF PendingIsDue
<1>6. /\ RingTypes' /\ RingInOrder' /\ appended \in Window'
      /\ \A k : Slot(k)' = Slot(k)
      /\ \A n \in 1 .. issued : \A write : RingHas(n, write) => RingHas(n, write)'
  BY <1>1, <1>2, <1>4, <1>5, RingAppended
<1>8. BoxTypes' /\ BoxesInOrder' /\ BoxesAnswer' /\ FieldsHold'
  <2>1. Boxed' = Boxed /\ boxed \in Nat /\ boxed' = boxed
    BY <1>1, Counts DEF Boxed
  <2> QED
    BY <1>1, <2>1, BoxesStay
<1>7. CheckHolds'
  BY <1>1, <1>2, <1>4, <1>5, <1>8, AppendedChecks DEF verifier
<1>9. MarkTypes' /\ AllMarked'
  BY <1>1, MarksStay, Counts
<1>10. ListTypes'
  BY <1>1, InvIs DEF ListTypes
<1>11. MachineTypes' /\ BatchTypes'
  BY <1>1, <1>3, InvIs DEF MachineTypes, BatchTypes
<1>12. BatchHolds'
  <2>1. \A i \in DOMAIN idle : idle[i].start > batch_start /\ idle[i].start <= Len(words)
    BY <1>2 DEF BatchHolds
  <2>2. machine' # "publish" /\ machine' # "append" /\ Ending'
    BY <1>1 DEF Ending
  <2>3. access'.page >= 1
    BY <1>3
  <2> QED
    BY <1>1, <1>2, <2>1, <2>2, <2>3, Zenon DEF BatchHolds
<1>13. ExtentIsIdle' /\ AccessHolds' /\ PendingIsDue'
  BY <1>1, <1>2 DEF ExtentIsIdle, AccessHolds, Accessing, PendingIsDue
<1>14. \A n \in completed + 1 .. issued : n \in 1 .. issued
  BY Counts
<1>15. Answered'
  <2>1. \A n : IdleHas(n) => IdleHas(n)'
    BY <1>1 DEF IdleHas, Holds
  <2>2. Answered
    BY InvIs
  <2> QED
    BY <1>1, <1>6, <1>14, <2>1, <2>2 DEF Answered
\* What the range appended holds, the ring has.
<1>16. ASSUME NEW n \in completed + 1 .. issued, Holds(Slot(appended), n)
       PROVE  RingHas(n, TRUE)'
  <2>1. n <= Slot(appended).mark
    BY <1>5, Counts
  <2>2. PICK a : a = appended
    OBVIOUS
  <2>3. /\ a \in Window' /\ Slot(a)' = Slot(a) /\ Holds(Slot(a), n) /\ n <= Slot(a).mark
        /\ Slot(a).write
    BY <1>5, <1>6, <1>16, <2>1, <2>2
  <2>4. Holds(Slot(a), n)'
    BY <1>1, <2>3 DEF Holds
  <2> QED
    BY <2>3, <2>4 DEF RingHas
<1>17. ASSUME NEW n \in completed + 1 .. issued, words[n].does = "draw", GoneOver(n)'
       PROVE  RingHas(n, TRUE)'
  <2>1. /\ n \in Nat /\ n \in 1 .. issued
        /\ words[n].from \in Nat /\ words[n].to \in Nat /\ words[n].to <= Cells
    <3>1. n \in Unrun
      BY Counts
    <3> QED
      BY <1>17, <3>1, <1>14, UnrunIs
  <2>2. CASE unlisted
    <3>1. IdleHas(n)
      BY <1>1, <1>17, <2>2 DEF GoneOver, IdleHas, Holds
    <3>2. batch_start <= n
      <4>1. batch_start \in Nat
        BY <1>2 DEF BatchTypes
      <4>2. ASSUME NEW i \in DOMAIN idle, idle[i].start <= n PROVE batch_start <= n
        <5>1. idle[i].start > batch_start /\ idle[i].start \in Nat
          BY <1>2, IdleRangeTypes DEF BatchHolds
        <5> QED
          BY <2>1, <4>1, <4>2, <5>1
      <4>3. n > batch_start => batch_start <= n
        BY <2>1, <4>1
      <4> QED
        BY <3>1, <4>2, <4>3 DEF IdleHas, Holds
    <3>3. Holds(Slot(appended), n)
      BY <1>5, <2>1, <2>2, <3>2 DEF Holds
    <3> QED
      BY <1>16, <3>3
  <2>3. CASE ~unlisted
    <3>1. PICK i \in DOMAIN idle : i < g + 1 /\ Holds(idle[i], n)
      BY <1>1, <1>3, <1>17, <2>3 DEF GoneOver, Holds
    <3>2. i \in Nat
      BY <1>2, IdleRangeTypes
    <3>3. CASE i < g
      <4>1. GoneOver(n)
        BY <1>3, <2>3, <3>1, <3>3 DEF GoneOver
      <4>2. RingHas(n, TRUE)
        BY <1>2, <1>17, <4>1, InvIs DEF EndAnswered
      <4> QED
        BY <1>6, <2>1, <4>2
    <3>4. CASE i = g
      <4>1. Holds(Slot(appended), n)
        BY <1>5, <2>3, <3>1, <3>4 DEF Holds
      <4> QED
        BY <1>16, <4>1
    <3> QED
      <4>1. i < g \/ i = g
        BY <1>3, <3>1, <3>2
      <4> QED
        BY <3>3, <3>4, <4>1
  <2> QED
    BY <2>2, <2>3
<1>18. EndAnswered'
  BY <1>1, <1>17 DEF EndAnswered
<1> QED
  BY <1>6, <1>7, <1>8, <1>9, <1>10, <1>11, <1>12, <1>13, <1>15, <1>18
     DEF MarksInv, MarksTypes

LEMMA EndIdleKeeps == ASSUME MarksInv, EndIdle PROVE MarksInv'
<1>1. /\ machine = "end" /\ machine' = "free" /\ access' = NoAccess
      /\ access.page > IF unlisted THEN 1 ELSE Len(idle)
      /\ idle' = <<>> /\ unlisted' = FALSE
      /\ UNCHANGED <<words, issued, ranges, appended, boxes, boxed>> /\ completed' = completed
      /\ UNCHANGED <<extent, batch_start, taking, check, faulted>>
      /\ UNCHANGED <<marks, write_marks>>
  BY DEF EndIdle, list, pages, ring, box, verifier
<1>2. completed' \in Nat /\ completed <= completed' /\ completed' <= issued
  BY <1>1, Counts
<1>3. check.at # "off" => completed' < check.word
  BY <1>1, InvIs DEF CheckHolds
<1>4. ~taking /\ Ending /\ BatchTypes /\ access.page \in Nat
  BY <1>1, InvIs DEF BatchHolds, Ending, MachineTypes, Access
<1>5. /\ machine' = "publish" <=> machine = "publish"
      /\ machine' = "append" <=> machine = "append"
  BY <1>1
<1>6. /\ ListTypes' /\ RingTypes' /\ BoxTypes'
      /\ RingInOrder' /\ BoxesInOrder' /\ BoxesAnswer'
      /\ \A n, write : RingHas(n, write)' <=> RingHas(n, write)
  BY <1>1, <1>2, <1>5, ListStays, Zenon
<1>7. CheckHolds' /\ MarkTypes' /\ AllMarked'
  BY <1>1, <1>2, <1>3, <1>5, CheckStays, MarksStay, Zenon
<1>8. AccessHolds' /\ PendingIsDue' /\ ExtentIsIdle' /\ EndAnswered'
  BY <1>1, <1>4 DEF AccessHolds, Accessing, PendingIsDue, ExtentIsIdle, EndAnswered, Ending
<1>9. MachineTypes'
  BY <1>1, InvIs DEF MachineTypes, NoAccess, Access
<1>10. BatchTypes'
  <2>1. <<>> \in Seq(IdleRange)
    BY EmptySeq
  <2>2. idle' \in Seq(IdleRange) /\ unlisted' \in BOOLEAN
    BY <1>1, <2>1, Zenon
  <2> QED
    BY <1>1, <1>4, <2>2, Zenon DEF BatchTypes
<1>11. BatchHolds'
  BY <1>1, <1>4 DEF BatchHolds, Ending
<1>12. \A n : IdleHas(n) => GoneOver(n)
  <2> SUFFICES ASSUME NEW n, IdleHas(n) PROVE GoneOver(n)
    OBVIOUS
  <2>1. CASE unlisted
    BY <1>1, <2>1 DEF GoneOver
  <2>2. CASE ~unlisted
    <3>1. PICK i \in DOMAIN idle : Holds(idle[i], n)
      BY <2>2 DEF IdleHas
    <3>2. i < access.page
      BY <1>1, <1>4, <2>2, IdleRangeTypes
    <3> QED
      BY <2>2, <3>1, <3>2 DEF GoneOver
  <2> QED
    BY <2>1, <2>2
<1>13. Answered'
  <2>1. Answered /\ EndAnswered
    BY InvIs
  <2>2. \A n \in completed + 1 .. issued : words[n].does = "draw" => RingHas(n, TRUE)
    BY <1>4, <1>12, <2>1, Zenon DEF Answered, EndAnswered
  <2>3. machine' # "publish"
    BY <1>1
  <2> QED
    BY <1>1, <1>6, <2>1, <2>2, <2>3, Zenon DEF Answered
<1> QED
  BY <1>6, <1>7, <1>8, <1>9, <1>10, <1>11, <1>13 DEF MarksInv, MarksTypes

-----------------------------------------------------------------------------
(* A word taken, and published.                                            *)

\* The ring untouched, and more words.
LEMMA RingStands ==
    ASSUME MarksInv, UNCHANGED <<ranges, appended>>, ~Pending, ~Pending',
           issued' \in Nat, issued' >= issued, \A n \in 1 .. issued : words'[n] = words[n]
    PROVE  /\ RingTypes' /\ RingInOrder'
           /\ \A n \in 1 .. issued : \A write : RingHas(n, write) => RingHas(n, write)'
           /\ completed' = completed /\ UNCHANGED verifier /\ FieldsHold' => CheckHolds'
<1>1. /\ RingTypes /\ RingInOrder /\ CheckHolds /\ MachineTypes
      /\ ranges' = ranges /\ appended' = appended /\ issued \in Nat /\ appended \in Nat
  BY InvIs, Counts
<1>2. \A k : Slot(k)' = Slot(k)
  BY <1>1, Zenon DEF Slot
<1>3. Window' = Window
  <2>1. Low' = Low
    BY <1>1, Zenon DEF Low
  <2> QED
    BY <1>1, <2>1, Zenon DEF Window
<1>4. \A n : RingFull(n)' <=> RingFull(n)
  BY <1>1, <1>2, <1>3, Zenon DEF RingFull
<1>5. RingTypes'
  BY <1>1 DEF RingTypes
<1>6. RingInOrder'
  <2>1. \A k \in Window : Slot(k).mark \in Nat
    BY <1>1, WindowIs, SlotTypes
  <2>2. \A k \in Window : Slot(k).mark <= issued'
    <3>1. \A k \in Window : Slot(k).mark <= issued
      BY <1>1 DEF RingInOrder
    <3> QED
      BY <1>1, <2>1, <3>1
  <2> QED
    BY <1>1, <1>2, <1>3, <2>2 DEF RingInOrder
<1>7. ASSUME NEW n \in 1 .. issued, NEW write, RingHas(n, write) PROVE RingHas(n, write)'
  <2>1. \A k : Holds(Slot(k), n)' <=> Holds(Slot(k), n)
    BY <1>2 DEF Holds
  <2> QED
    BY <1>2, <1>3, <1>4, <1>7, <2>1, Zenon DEF RingHas
<1>8. ASSUME completed' = completed, UNCHANGED verifier, FieldsHold' PROVE CheckHolds'
  <2>1. check' = check /\ faulted' = faulted
    BY <1>8 DEF verifier
  <2>2. \A b : CheckHas(b)' <=> CheckHas(b)
    BY <1>2, <1>3, <1>4, <2>1, Zenon DEF CheckHas, Within
  <2>3. check.at # "off" => check.word \in 1 .. issued /\ check.word <= issued'
    BY <1>1, CheckTypes, Counts DEF CheckHolds
  <2>4. check.at # "off" => words'[check.word] = words[check.word]
    BY <2>3
  <2> QED
    BY <1>1, <1>2, <1>8, <2>1, <2>2, <2>3, <2>4 DEF CheckHolds
<1> QED
  BY <1>5, <1>6, <1>7, <1>8

LEMMA TakeGrows ==
    ASSUME MarksInv, NEW word \in Word, Take(word),
           IF word.does = "image" THEN word.from = 0 /\ word.to = 0
           ELSE word.from < word.to /\ word.to <= Cells
    PROVE  /\ machine = "free" /\ machine' = "publish" /\ taking /\ taking' = taking
           /\ issued' = issued /\ completed' = completed /\ appended' = appended
           /\ batch_start' = batch_start
           /\ issued + 1 <= MaxWords /\ Len(words) = issued /\ Len(words') = issued + 1
           /\ \A n \in 1 .. issued : words'[n] = words[n]
           /\ words'[issued + 1] = word
           /\ ListTypes' /\ MachineTypes' /\ AccessHolds' /\ EndAnswered'
           /\ UNCHANGED verifier
<1>1. /\ machine = "free" /\ taking /\ issued < MaxWords
      /\ words' = Append(words, word) /\ machine' = "publish"
      /\ UNCHANGED <<issued, completed, appended, batch_start, taking, access, check, faulted>>
  BY DEF Take, reading, verifier
<1>2. /\ words \in Seq(Word) /\ Len(words) = issued /\ issued \in Nat /\ completed \in Nat
      /\ completed <= issued
      /\ \A n \in 1 .. Len(words) :
            IF words[n].does = "image" THEN words[n].from = 0 /\ words[n].to = 0
            ELSE words[n].from < words[n].to /\ words[n].to <= Cells
  BY <1>1, InvIs DEF ListTypes
<1>3. /\ words' \in Seq(Word) /\ Len(words') = issued + 1
      /\ \A n \in 1 .. issued : words'[n] = words[n]
      /\ words'[issued + 1] = word
  BY <1>1, <1>2
<1>4. issued + 1 <= MaxWords
  BY <1>1, <1>2, Sizes
<1>5. ASSUME NEW n \in 1 .. issued + 1
      PROVE  IF words'[n].does = "image" THEN words'[n].from = 0 /\ words'[n].to = 0
             ELSE words'[n].from < words'[n].to /\ words'[n].to <= Cells
  <2>1. CASE n \in 1 .. issued
    BY <1>2, <1>3, <2>1
  <2>2. CASE n = issued + 1
    BY <1>3, <2>2
  <2> QED
    BY <1>2, <2>1, <2>2
<1>6. ListTypes'
  BY <1>1, <1>2, <1>3, <1>4, <1>5 DEF ListTypes
<1>7. MachineTypes'
  BY <1>1, InvIs DEF MachineTypes
<1>8. AccessHolds' /\ EndAnswered'
  BY <1>1 DEF AccessHolds, Accessing, EndAnswered, Ending
<1> QED
  BY <1>1, <1>2, <1>3, <1>4, <1>6, <1>7, <1>8 DEF verifier

\* The words before the one taken keep their marks and their answers.
LEMMA EarlierAnswered ==
    ASSUME MarksInv, machine = "free",
           UNCHANGED <<issued, completed>>, Len(words') = issued + 1,
           \A n \in 1 .. issued : words'[n] = words[n],
           \A n \in 1 .. issued, write \in BOOLEAN : RingHas(n, write) => RingHas(n, write)',
           \A n \in 1 .. issued : IdleHas(n) => IdleHas(n)',
           words'[issued + 1].does = "draw" => IdleHas(issued + 1)'
    PROVE  Answered'
<1>1. Answered /\ issued \in Nat /\ completed \in Nat
  BY InvIs, Counts
<1>2. ASSUME NEW n \in completed + 1 .. issued
      PROVE  /\ words'[n].does = "load" => RingHas(n, FALSE)'
             /\ words'[n].does = "draw" => RingHas(n, TRUE)' \/ IdleHas(n)'
  <2>1. n \in 1 .. issued
    BY <1>1
  <2>2. words'[n] = words[n]
    BY <2>1
  <2>3. /\ words[n].does = "load" => RingHas(n, FALSE)
        /\ words[n].does = "draw" => RingHas(n, TRUE) \/ IdleHas(n)
    BY <1>1 DEF Answered
  <2> QED
    BY <2>1, <2>2, <2>3
<1>3. PICK next : next = issued + 1 /\ next = issued' + 1
  OBVIOUS
<1>4. words'[next].does = "draw" => IdleHas(next)'
  BY <1>3
<1>5. words'[issued' + 1].does = "draw" => IdleHas(issued + 1)'
  BY <1>3, <1>4
<1> QED
  BY <1>2, <1>5 DEF Answered

LEMMA EarlierMarked ==
    ASSUME MarksInv, machine = "free", completed' = completed, Len(words') = issued + 1,
           \A n \in 1 .. issued : words'[n] = words[n],
           \A p \in Pages : marks'[p] \in Nat /\ marks'[p] >= marks[p],
           \A p \in Pages : write_marks'[p] \in Nat /\ write_marks'[p] >= write_marks[p],
           \A p \in PagesOf(words'[issued + 1].from, words'[issued + 1].to) :
              /\ words'[issued + 1].does \in {"draw", "load"} => marks'[p] >= issued + 1
              /\ words'[issued + 1].does = "draw" => write_marks'[p] >= issued + 1
    PROVE  AllMarked'
<1>1. /\ AllMarked /\ MarkTypes /\ issued \in Nat /\ completed \in Nat /\ Len(words) = issued
  BY InvIs, Counts DEF ListTypes
<1>2. \A p \in Pages : marks[p] \in Nat /\ write_marks[p] \in Nat
  BY <1>1, Sizes DEF MarkTypes
<1>3. ASSUME NEW n \in completed + 1 .. issued + 1 PROVE MarkedTo(n)'
  <2>1. CASE n = issued + 1
    BY <2>1 DEF MarkedTo
  <2>2. CASE n \in 1 .. issued
    <3>1. n \in completed + 1 .. Len(words) /\ n \in Nat
      BY <1>1, <2>2
    <3>2. MarkedTo(n)
      BY <1>1, <3>1 DEF AllMarked
    <3>3. ASSUME NEW p \in PagesOf(words[n].from, words[n].to)
          PROVE  /\ words[n].does \in {"draw", "load"} => marks'[p] >= n
                 /\ words[n].does = "draw" => write_marks'[p] >= n
      <4>1. p \in Pages
        BY DEF PagesOf
      <4>2. /\ words[n].does \in {"draw", "load"} => marks[p] >= n
            /\ words[n].does = "draw" => write_marks[p] >= n
        BY <3>2 DEF MarkedTo
      <4> QED
        BY <1>2, <3>1, <4>1, <4>2
    <3>4. words'[n] = words[n]
      BY <2>2
    <3> QED
      BY <3>3, <3>4 DEF MarkedTo
  <2> QED
    BY <1>1, <2>1, <2>2
<1> QED
  BY <1>3 DEF AllMarked

\* A word that draws nothing brings no box.
LEMMA NoBoxKeeps ==
    ASSUME MarksInv, machine = "free", UNCHANGED <<issued, completed, boxes, boxed>>,
           Len(words') = issued + 1, \A n \in 1 .. issued : words'[n] = words[n],
           words'[issued + 1].does # "draw"
    PROVE  /\ BoxTypes' /\ BoxesInOrder' /\ BoxesAnswer'
           /\ UNCHANGED check => FieldsHold'
<1>1. /\ BoxTypes /\ BoxesInOrder /\ BoxesAnswer /\ issued \in Nat /\ completed \in Nat
      /\ Len(words) = issued /\ boxed \in Nat
  BY InvIs, Counts DEF ListTypes
<1>2. /\ \A k : BoxAt(k)' = BoxAt(k)
      /\ Boxed' = Boxed /\ BoxWindow' = BoxWindow
  <2>1. Boxed' = Boxed
    BY <1>1, BoxedIs DEF Boxed
  <2> QED
    BY <2>1, Zenon DEF BoxAt, BoxWindow, BoxLow
<1>3. \A k \in BoxWindow : BoxAt(k).end \in Nat
  <2> SUFFICES ASSUME NEW k \in BoxWindow PROVE BoxAt(k).end \in Nat
    OBVIOUS
  <2>1. k \in Nat
    BY <1>1, BoxedIs, Sizes DEF BoxWindow, BoxLow, Larger
  <2>2. k % BoxCount \in 0 .. BoxCount - 1
    BY <2>1, Sizes
  <2> QED
    BY <1>1, <2>2 DEF BoxAt, BoxTypes, Box
<1>4. BoxTypes'
  BY <1>1 DEF BoxTypes
<1>5. BoxesInOrder'
  BY <1>1, <1>2, <1>3 DEF BoxesInOrder
<1>6. BoxesAnswer'
  <2> SUFFICES ASSUME NEW n \in completed + 1 .. issued + 1, words'[n].does = "draw"
               PROVE  (\/ \E k \in BoxWindow : BoxOf(k, n)
                       \/ Boxed > BoxCount /\ \A k \in BoxWindow : BoxAt(k).end > n)'
    BY DEF BoxesAnswer
  <2>1. n \in 1 .. issued /\ n \in completed + 1 .. Len(words)
    BY <1>1
  <2>2. words'[n] = words[n]
    BY <2>1
  <2>3. \/ \E k \in BoxWindow : BoxOf(k, n)
        \/ Boxed > BoxCount /\ \A k \in BoxWindow : BoxAt(k).end > n
    BY <1>1, <2>1, <2>2 DEF BoxesAnswer
  <2> QED
    BY <1>2, <2>2, <2>3 DEF BoxOf
<1>7. UNCHANGED check => FieldsHold'
  <2>1. check.at # "off" => check.word \in 1 .. issued
    BY <1>1, InvIs, CheckTypes DEF CheckHolds
  <2> QED
    BY <1>1, <1>2, <2>1, FieldsStay
<1> QED
  BY <1>4, <1>5, <1>6, <1>7

LEMMA SetImageKeeps == ASSUME MarksInv, SetImage PROVE MarksInv'
<1>1. PICK word : word = [does |-> "image", from |-> 0, to |-> 0]
  OBVIOUS
<1>2. word \in Word /\ word.does = "image" /\ word.from = 0 /\ word.to = 0 /\ Take(word)
  BY <1>1 DEF Word, SetImage
<1>3. /\ machine = "free" /\ machine' = "publish" /\ taking /\ taking' = taking
      /\ issued' = issued /\ completed' = completed /\ appended' = appended
      /\ batch_start' = batch_start /\ issued + 1 <= MaxWords
      /\ Len(words) = issued /\ Len(words') = issued + 1
      /\ \A n \in 1 .. issued : words'[n] = words[n]
      /\ words'[issued + 1] = word
      /\ ListTypes' /\ MachineTypes' /\ AccessHolds' /\ EndAnswered'
      /\ UNCHANGED verifier
  BY <1>2, TakeGrows
<1>4. /\ UNCHANGED <<marks, write_marks, ranges, idle, unlisted, boxes, boxed>>
      /\ extent' = NoExtent
  BY DEF SetImage, pages, box
<1>5. ~Pending /\ ~Pending'
  BY <1>2, <1>3 DEF Pending
<1>7. BoxTypes' /\ BoxesInOrder' /\ BoxesAnswer' /\ FieldsHold'
  BY <1>2, <1>3, <1>4, NoBoxKeeps DEF verifier
<1>6. /\ RingTypes' /\ RingInOrder' /\ CheckHolds'
      /\ \A n \in 1 .. issued : \A write : RingHas(n, write) => RingHas(n, write)'
  BY <1>3, <1>4, <1>5, <1>7, RingStands, Counts
<1>8. MarkTypes'
  BY <1>4, InvIs DEF MarkTypes
<1>9. AllMarked'
  <2>1. \A p \in Pages : marks[p] \in Nat /\ write_marks[p] \in Nat
    BY InvIs, Sizes DEF MarkTypes
  <2>2. PagesOf(words'[issued + 1].from, words'[issued + 1].to) = {}
    BY <1>2, <1>3, NoPages
  <2> QED
    BY <1>3, <1>4, <2>1, <2>2, EarlierMarked
<1>10. \A i \in DOMAIN idle : /\ idle[i].start \in Nat /\ idle[i].start > batch_start
                              /\ idle[i].start <= issued + 1
  BY <1>3, InvIs, IdleRangeTypes, Counts DEF BatchHolds
<1>11. BatchTypes' /\ BatchHolds'
  <2>1. NoExtent \in [index : Int, from : Nat, to : Nat] /\ NoExtent.index >= -2
    BY DEF NoExtent
  <2>2. BatchTypes'
    BY <1>3, <1>4, <2>1, InvIs, Zenon DEF BatchTypes
  <2>3. ~Ending' /\ machine' # "append"
    BY <1>3 DEF Ending
  <2>4. \A i \in DOMAIN idle' : idle'[i].start > batch_start' /\ idle'[i].start <= Len(words')
    BY <1>3, <1>4, <1>10
  <2> QED
    BY <1>3, <2>2, <2>3, <2>4, Zenon DEF BatchHolds
<1>12. ExtentIsIdle'
  BY <1>4 DEF ExtentIsIdle, NoExtent
<1>13. Answered'
  <2>1. \A n \in 1 .. issued : IdleHas(n) => IdleHas(n)'
    BY <1>3, <1>4 DEF IdleHas, Holds
  <2> QED
    BY <1>2, <1>3, <1>6, <2>1, EarlierAnswered
<1>14. PendingIsDue'
  BY <1>2, <1>3 DEF PendingIsDue
<1> QED
  BY <1>3, <1>6, <1>7, <1>8, <1>9, <1>11, <1>12, <1>13, <1>14 DEF MarksInv, MarksTypes

\* Pages marked to a count at least keep what they were marked for.
LEMMA MarkedPages ==
    ASSUME MarkTypes, NEW from \in Nat, NEW to \in Nat, NEW after \in 0 .. IDLE,
           NEW write \in BOOLEAN, MarkPages(from, to, after, write)
    PROVE  /\ MarkTypes'
           /\ \A p \in Pages : marks'[p] \in Nat /\ marks'[p] >= marks[p]
           /\ \A p \in Pages : write_marks'[p] \in Nat /\ write_marks'[p] >= write_marks[p]
           /\ \A p \in PagesOf(from, to) : /\ marks'[p] >= after
                                           /\ write => write_marks'[p] >= after
           /\ \A p \in Pages : /\ marks[p] = IDLE => marks'[p] = IDLE
                               /\ write_marks[p] = IDLE => write_marks'[p] = IDLE
<1>1. \A p \in Pages : marks[p] \in 0 .. IDLE /\ write_marks[p] \in 0 .. IDLE
  BY DEF MarkTypes
<1>2. \A a \in 0 .. IDLE : Larger(a, after) \in 0 .. IDLE /\ Larger(a, after) >= a
                           /\ Larger(a, after) >= after
  BY Sizes DEF Larger
<1>3. /\ marks' = [p \in Pages |-> IF p \in PagesOf(from, to)
                                   THEN Larger(marks[p], after) ELSE marks[p]]
      /\ write_marks' = [p \in Pages |-> IF write /\ p \in PagesOf(from, to)
                                         THEN Larger(write_marks[p], after)
                                         ELSE write_marks[p]]
  BY DEF MarkPages
<1>4. \A p \in Pages : /\ marks'[p] \in 0 .. IDLE /\ marks'[p] >= marks[p]
                       /\ write_marks'[p] \in 0 .. IDLE /\ write_marks'[p] >= write_marks[p]
                       /\ p \in PagesOf(from, to) => marks'[p] >= after
                       /\ write /\ p \in PagesOf(from, to) => write_marks'[p] >= after
  <2> SUFFICES ASSUME NEW p \in Pages
               PROVE  /\ marks'[p] \in 0 .. IDLE /\ marks'[p] >= marks[p]
                      /\ write_marks'[p] \in 0 .. IDLE /\ write_marks'[p] >= write_marks[p]
                      /\ p \in PagesOf(from, to) => marks'[p] >= after
                      /\ write /\ p \in PagesOf(from, to) => write_marks'[p] >= after
    OBVIOUS
  <2>1. marks[p] \in 0 .. IDLE /\ write_marks[p] \in 0 .. IDLE
    BY <1>1
  <2>2. marks'[p] = IF p \in PagesOf(from, to) THEN Larger(marks[p], after) ELSE marks[p]
    BY <1>3
  <2>3. write_marks'[p] = IF write /\ p \in PagesOf(from, to)
                          THEN Larger(write_marks[p], after) ELSE write_marks[p]
    BY <1>3
  <2>4. /\ Larger(marks[p], after) \in 0 .. IDLE /\ Larger(marks[p], after) >= marks[p]
        /\ Larger(marks[p], after) >= after
        /\ Larger(write_marks[p], after) \in 0 .. IDLE
        /\ Larger(write_marks[p], after) >= write_marks[p]
        /\ Larger(write_marks[p], after) >= after
    BY <1>2, <2>1
  <2>5. marks'[p] \in 0 .. IDLE /\ marks'[p] >= marks[p]
    BY <2>1, <2>2, <2>4, Sizes
  <2>6. write_marks'[p] \in 0 .. IDLE /\ write_marks'[p] >= write_marks[p]
    BY <2>1, <2>3, <2>4, Sizes
  <2> QED
    BY <2>2, <2>3, <2>4, <2>5, <2>6
<1>5. MarkTypes'
  <2>1. DOMAIN marks' = Pages /\ DOMAIN write_marks' = Pages
    BY <1>3
  <2>2. /\ marks' = [p \in Pages |-> marks'[p]]
        /\ write_marks' = [p \in Pages |-> write_marks'[p]]
    BY <1>3
  <2> QED
    BY <1>4, <2>2 DEF MarkTypes
<1>6. \A p \in PagesOf(from, to) : p \in Pages
  BY DEF PagesOf
<1>7. \A p \in Pages : /\ marks[p] = IDLE => marks'[p] = IDLE
                       /\ write_marks[p] = IDLE => write_marks'[p] = IDLE
  BY <1>4, Sizes
<1> QED
  BY <1>4, <1>5, <1>6, <1>7, Sizes

LEMMA LoadKeeps == ASSUME MarksInv, NEW s \in Spans, Load(s) PROVE MarksInv'
<1>1. s[1] \in Nat /\ s[2] \in Nat /\ s[1] < s[2] /\ s[2] <= Cells
  BY SpanIs
<1>2. PICK word : word = [does |-> "load", from |-> s[1], to |-> s[2]]
  OBVIOUS
<1>3. word \in Word /\ word.does = "load" /\ word.from = s[1] /\ word.to = s[2] /\ Take(word)
  BY <1>1, <1>2 DEF Word, Load
<1>4. /\ machine = "free" /\ machine' = "publish" /\ taking /\ taking' = taking
      /\ issued' = issued /\ completed' = completed /\ appended' = appended
      /\ batch_start' = batch_start /\ issued + 1 <= MaxWords
      /\ Len(words) = issued /\ Len(words') = issued + 1
      /\ \A n \in 1 .. issued : words'[n] = words[n]
      /\ words'[issued + 1] = word
      /\ ListTypes' /\ MachineTypes' /\ AccessHolds' /\ EndAnswered'
      /\ UNCHANGED verifier
  BY <1>1, <1>3, TakeGrows
<1>5. PICK next \in Nat : next = issued + 1 /\ next = issued' + 1
  BY <1>4, Counts
<1>6. /\ UNCHANGED <<idle, unlisted, extent, boxes, boxed>>
      /\ MarkPages(s[1], s[2], next, FALSE)
      /\ WriteRange(s[1], s[2], next, next, FALSE)
  BY <1>5 DEF Load, box
<1>7. PICK r : r = [from |-> s[1], to |-> s[2], start |-> next, mark |-> next, write |-> FALSE]
  OBVIOUS
<1>8. r \in RingRange /\ ranges' = [ranges EXCEPT ![appended % RangeCount] = r]
  BY <1>1, <1>5, <1>6, <1>7 DEF RingRange, WriteRange
<1>9. ~Pending /\ Pending'
  BY <1>3, <1>4 DEF Pending
<1>10. /\ RingTypes' /\ RingInOrder' /\ Slot(appended)' = r
  BY <1>4, <1>8, <1>9, RingWritten
<1>11. \A n \in 1 .. issued, write \in BOOLEAN : RingHas(n, write) => RingHas(n, write)'
  BY <1>4, <1>8, <1>9, WrittenAnswers
<1>13. BoxTypes' /\ BoxesInOrder' /\ BoxesAnswer' /\ FieldsHold'
  BY <1>3, <1>4, <1>6, NoBoxKeeps DEF verifier
<1>12. CheckHolds'
  BY <1>4, <1>8, <1>9, <1>13, WrittenChecks
<1>14. /\ MarkTypes'
       /\ \A p \in Pages : marks'[p] \in Nat /\ marks'[p] >= marks[p]
       /\ \A p \in Pages : write_marks'[p] \in Nat /\ write_marks'[p] >= write_marks[p]
       /\ \A p \in PagesOf(s[1], s[2]) : marks'[p] >= next
       /\ \A p \in Pages : /\ marks[p] = IDLE => marks'[p] = IDLE
                           /\ write_marks[p] = IDLE => write_marks'[p] = IDLE
  <2>1. next \in 0 .. IDLE
    BY <1>4, <1>5, Sizes
  <2> QED
    BY <1>1, <1>6, <2>1, InvIs, MarkedPages
<1>15. AllMarked'
  BY <1>3, <1>4, <1>5, <1>14, EarlierMarked
<1>16. \A i \in DOMAIN idle : /\ idle[i].start \in Nat /\ idle[i].start > batch_start
                              /\ idle[i].start <= issued + 1
  BY <1>4, InvIs, IdleRangeTypes, Counts DEF BatchHolds
<1>17. BatchTypes' /\ BatchHolds'
  <2>1. BatchTypes'
    BY <1>4, <1>6, InvIs, Zenon DEF BatchTypes
  <2>2. ~Ending' /\ machine' # "append"
    BY <1>4 DEF Ending
  <2>3. \A i \in DOMAIN idle' : idle'[i].start > batch_start' /\ idle'[i].start <= Len(words')
    BY <1>4, <1>6, <1>16
  <2> QED
    BY <1>4, <2>1, <2>2, <2>3, Zenon DEF BatchHolds
<1>18. ExtentIsIdle'
  <2>1. ExtentIsIdle /\ \A a, b : PagesOf(a, b) \subseteq Pages
    BY InvIs DEF PagesOf
  <2> QED
    BY <1>4, <1>6, <1>14, <2>1, Zenon DEF ExtentIsIdle
<1>19. Answered'
  <2>1. \A n \in 1 .. issued : IdleHas(n) => IdleHas(n)'
    BY <1>4, <1>6 DEF IdleHas, Holds
  <2> QED
    BY <1>3, <1>4, <1>11, <2>1, EarlierAnswered
<1>20. PendingIsDue'
  <2>1. Slot(appended)' = r /\ words'[next] = word
    BY <1>4, <1>5, <1>10
  <2>2. Slot(appended)'.mark = next
    BY <1>7, <2>1
  <2>3. r.start <= next /\ r.from <= words'[next].from /\ words'[next].to <= r.to
    BY <1>1, <1>3, <1>5, <1>7, <2>1
  <2>4. Holds(Slot(appended), issued + 1)'
    BY <1>5, <2>1, <2>3 DEF Holds
  <2> QED
    BY <1>4, <1>5, <2>2, <2>4 DEF PendingIsDue
<1> QED
  BY <1>4, <1>10, <1>12, <1>13, <1>14, <1>15, <1>17, <1>18, <1>19, <1>20
     DEF MarksInv, MarksTypes

\* The box of a draw joins the ring's, over the oldest.
LEMMA BoxDrawn ==
    ASSUME MarksInv, machine = "free", UNCHANGED <<issued, completed>>,
           Len(words') = issued + 1, \A n \in 1 .. issued : words'[n] = words[n],
           NEW b \in Box, b.end = issued + 1, b.from = words'[issued + 1].from,
           b.to = words'[issued + 1].to,
           boxes' = [boxes EXCEPT ![boxed % BoxCount] = b], boxed' = boxed,
           Boxed' = boxed + 1
    PROVE  /\ BoxTypes' /\ BoxesInOrder' /\ BoxesAnswer'
           /\ UNCHANGED check => FieldsHold'
<1>1. /\ BoxTypes /\ BoxesInOrder /\ BoxesAnswer /\ issued \in Nat /\ completed \in Nat
      /\ Len(words) = issued /\ boxed \in Nat /\ Boxed = boxed
  BY InvIs, Counts, BoxedIs DEF ListTypes
<1>2. /\ boxed % BoxCount \in 0 .. BoxCount - 1
      /\ boxes \in [0 .. BoxCount - 1 -> Box]
  BY <1>1, Sizes DEF BoxTypes
<1>3. BoxTypes'
  BY <1>1, <1>2 DEF BoxTypes
<1>a. PICK last \in Nat : last = boxed
  BY <1>1
<1>4. BoxAt(last)' = b
  BY <1>2, <1>a DEF BoxAt
<1>5. \A k \in Nat : k < boxed /\ boxed - k < BoxCount => BoxAt(k)' = BoxAt(k)
  <2> SUFFICES ASSUME NEW k \in Nat, k < boxed, boxed - k < BoxCount
               PROVE  BoxAt(k)' = BoxAt(k)
    OBVIOUS
  <2>1. k % BoxCount # boxed % BoxCount
    <3>1. BoxCount \in Nat \ {0} /\ boxed \in Nat
      BY <1>1, Sizes
    <3> QED
      BY <3>1, SlotsDiffer
  <2>2. k % BoxCount \in 0 .. BoxCount - 1
    BY Sizes
  <2> QED
    BY <1>2, <2>1, <2>2 DEF BoxAt
<1>6. PICK low \in Nat, next \in Nat :
        /\ low = BoxLow /\ next = BoxLow'
        /\ low <= next /\ next <= last /\ (low = 0 \/ low = last - BoxCount)
        /\ low >= last - BoxCount
        /\ (next = 0 \/ next = last + 1 - BoxCount) /\ next >= last + 1 - BoxCount
  <2>1. BoxLow = Larger(last - BoxCount, 0)
    BY <1>1, <1>a DEF BoxLow
  <2>2. BoxLow' = Larger((last + 1) - BoxCount, 0)
    BY <1>a DEF BoxLow
  <2>3. last - BoxCount \in Int /\ (last + 1) - BoxCount \in Int
    BY <1>a, Sizes
  <2>4. PICK c \in Int, d \in Int : c = last - BoxCount /\ d = (last + 1) - BoxCount
    BY <2>3
  <2>5. BoxLow = Larger(c, 0) /\ BoxLow' = Larger(d, 0)
    BY <2>1, <2>2, <2>4
  <2>6. /\ BoxLow \in Nat /\ (BoxLow = 0 \/ BoxLow = c) /\ BoxLow >= c
        /\ BoxLow' \in Nat /\ (BoxLow' = 0 \/ BoxLow' = d) /\ BoxLow' >= d
    BY <2>5 DEF Larger
  <2>7. c < last /\ d <= last /\ c <= d
    BY <2>4, Sizes
  <2>8. BoxLow <= BoxLow' /\ BoxLow' <= last
    BY <1>a, <2>6, <2>7
  <2>9. /\ BoxLow = 0 \/ BoxLow = last - BoxCount
        /\ BoxLow >= last - BoxCount
        /\ BoxLow' = 0 \/ BoxLow' = last + 1 - BoxCount
        /\ BoxLow' >= last + 1 - BoxCount
    BY <2>4, <2>6, <1>a, Sizes
  <2> QED
    BY <2>6, <2>8, <2>9, Zenon
<1>7. BoxWindow = low .. last - 1 /\ BoxWindow' = next .. last
  <2>1. Boxed' - 1 = last /\ Boxed = last
    BY <1>1, <1>a
  <2> QED
    BY <1>6, <2>1 DEF BoxWindow
<1>8. /\ last \in BoxWindow'
      /\ \A k \in BoxWindow' :
            \/ k = last
            \/ k \in BoxWindow /\ k \in Nat /\ k < last /\ BoxAt(k)' = BoxAt(k)
      /\ \A k \in BoxWindow : k \in Nat /\ k < last
  <2>1. last \in BoxWindow'
    BY <1>a, <1>1, <1>6, <1>7
  <2>2. \A k \in BoxWindow : k \in Nat /\ k < last
    BY <1>a, <1>1, <1>6, <1>7
  <2>3. ASSUME NEW k \in BoxWindow', k # last
        PROVE  k \in BoxWindow /\ k \in Nat /\ k < last /\ BoxAt(k)' = BoxAt(k)
    <3>1. k \in Nat /\ k >= next /\ k < last
      BY <1>a, <1>1, <1>6, <1>7, <2>3
    <3>2. last - k < BoxCount
      BY <1>a, <1>1, <1>6, <3>1, Sizes
    <3> QED
      BY <1>a, <1>1, <1>5, <1>6, <1>7, <3>1, <3>2
  <2> QED
    BY <2>1, <2>2, <2>3
<1>9. \A k \in BoxWindow : BoxAt(k).end \in Nat /\ BoxAt(k).end <= issued
  <2> SUFFICES ASSUME NEW k \in BoxWindow PROVE BoxAt(k).end \in Nat /\ BoxAt(k).end <= issued
    OBVIOUS
  <2>1. k \in Nat /\ k % BoxCount \in 0 .. BoxCount - 1
    BY <1>8, Sizes
  <2>2. BoxAt(k).end \in Nat
    BY <1>a, <1>1, <2>1 DEF BoxAt, BoxTypes, Box
  <2> QED
    BY <1>a, <1>1, <2>2 DEF BoxesInOrder
<1>10. BoxesInOrder'
  <2>1. ASSUME NEW k \in BoxWindow' PROVE BoxAt(k)'.end <= Len(words')
    BY <1>a, <1>1, <1>4, <1>8, <1>9
  <2>2. ASSUME NEW j \in BoxWindow', NEW k \in BoxWindow', j < k
        PROVE  BoxAt(j)'.end < BoxAt(k)'.end
    <3>1. j # last
      BY <1>a, <1>1, <1>8, <2>2
    <3>2. j \in BoxWindow /\ BoxAt(j)' = BoxAt(j)
      BY <1>8, <3>1
    <3>3. CASE k = last
      BY <1>a, <1>1, <1>4, <1>9, <3>2, <3>3
    <3>4. CASE k # last
      <4>1. k \in BoxWindow /\ BoxAt(k)' = BoxAt(k)
        BY <1>8, <3>4
      <4> QED
        BY <1>a, <1>1, <2>2, <3>2, <4>1 DEF BoxesInOrder
    <3> QED
      BY <3>3, <3>4
  <2> QED
    BY <2>1, <2>2 DEF BoxesInOrder
<1>11. BoxesAnswer'
  <2> SUFFICES ASSUME NEW n \in completed + 1 .. issued + 1, words'[n].does = "draw"
               PROVE  (\/ \E k \in BoxWindow : BoxOf(k, n)
                       \/ Boxed > BoxCount /\ \A k \in BoxWindow : BoxAt(k).end > n)'
    BY DEF BoxesAnswer
  <2>1. CASE n = issued + 1
    <3>1. PICK k : k = last
      OBVIOUS
    <3>2. k \in BoxWindow' /\ BoxAt(k)' = b
      BY <1>a, <1>4, <1>8, <3>1
    <3>3. BoxOf(k, n)'
      BY <2>1, <3>2 DEF BoxOf
    <3> QED
      BY <3>2, <3>3
  <2>2. CASE n \in 1 .. issued
    <3>1. n \in completed + 1 .. Len(words) /\ n \in Nat /\ n < issued + 1 /\ words'[n] = words[n]
      BY <1>a, <1>1, <2>2
    <3>2. ASSUME \A k \in BoxWindow' : k = last \/ BoxAt(k).end > n
          PROVE  \A k \in BoxWindow' : BoxAt(k)'.end > n
      BY <1>a, <1>1, <1>4, <1>8, <3>1, <3>2
    <3>3. CASE Boxed > BoxCount /\ \A k \in BoxWindow : BoxAt(k).end > n
      <4>1. \A k \in BoxWindow' : BoxAt(k)'.end > n
        BY <1>8, <3>2, <3>3
      <4>2. Boxed' > BoxCount
        BY <1>a, <1>1, <3>3, Sizes
      <4> QED
        BY <4>1, <4>2
    <3>4. ASSUME NEW k \in BoxWindow, BoxOf(k, n)
          PROVE  (\/ \E k1 \in BoxWindow : BoxOf(k1, n)
                  \/ Boxed > BoxCount /\ \A k1 \in BoxWindow : BoxAt(k1).end > n)'
      <4>1. CASE k \in BoxWindow'
        <5>1. k # last
          BY <1>a, <1>1, <1>8
        <5>2. BoxAt(k)' = BoxAt(k)
          BY <1>8, <4>1, <5>1
        <5>3. BoxOf(k, n)'
          BY <3>1, <3>4, <5>2 DEF BoxOf
        <5> QED
          BY <4>1, <5>3
      <4>2. CASE k \notin BoxWindow'
        <5>1. k \in Nat /\ k < last /\ k < next
          BY <1>a, <1>1, <1>6, <1>7, <1>8, <4>2
        <5>2. Boxed' > BoxCount
          BY <1>a, <1>1, <1>6, <5>1, Sizes
        <5>3. ASSUME NEW j \in BoxWindow', j # last PROVE BoxAt(j).end > n
          <6>1. j \in BoxWindow /\ j \in Nat /\ k < j
            BY <1>a, <1>1, <1>6, <1>7, <1>8, <5>1, <5>3
          <6>2. BoxAt(k).end < BoxAt(j).end
            BY <1>a, <1>1, <6>1 DEF BoxesInOrder
          <6> QED
            BY <1>9, <3>1, <3>4, <6>1, <6>2 DEF BoxOf
        <5>4. \A j \in BoxWindow' : BoxAt(j)'.end > n
          BY <3>2, <5>3
        <5> QED
          BY <5>2, <5>4
      <4> QED
        BY <4>1, <4>2
    <3>5. \/ \E k \in BoxWindow : BoxOf(k, n)
          \/ Boxed > BoxCount /\ \A k \in BoxWindow : BoxAt(k).end > n
      BY <1>a, <1>1, <3>1 DEF BoxesAnswer
    <3> QED
      BY <3>3, <3>4, <3>5
  <2> QED
    BY <1>a, <1>1, <2>1, <2>2
<1>12. ASSUME UNCHANGED check, check.at = "fields"
       PROVE  check.next < boxed' /\ (Boxed' - check.next <= BoxCount =>
                                         BoxOf(check.next, check.word)')
  <2>1. /\ check.next \in Nat /\ check.next < boxed /\ check.word \in 1 .. issued
        /\ Boxed - check.next <= BoxCount => BoxOf(check.next, check.word)
    BY <1>1, <1>12, InvIs, CheckTypes DEF CheckHolds, FieldsHold
  <2>2. ASSUME Boxed' - check.next <= BoxCount PROVE BoxOf(check.next, check.word)'
    <3>1. boxed - check.next < BoxCount /\ BoxOf(check.next, check.word)
      BY <1>1, <2>1, <2>2, Sizes
    <3>2. PICK k \in Nat, n \in 1 .. issued : k = check.next /\ n = check.word
      BY <2>1
    <3>3. BoxAt(k)' = BoxAt(k) /\ words'[n] = words[n]
      BY <1>5, <2>1, <3>1, <3>2
    <3>4. BoxOf(k, n)'
      BY <3>1, <3>2, <3>3 DEF BoxOf
    <3> QED
      BY <1>12, <3>2, <3>4
  <2> QED
    BY <2>1, <2>2
<1>13. UNCHANGED check => FieldsHold'
  BY <1>12 DEF FieldsHold
<1> QED
  BY <1>3, <1>10, <1>11, <1>13

\* An open batch may have grown, and lists no less.
GrownBatch(next, from, to) ==
    /\ MarkTypes'
    /\ \A p \in Pages : marks'[p] \in Nat /\ marks'[p] >= marks[p]
    /\ \A p \in Pages : write_marks'[p] \in Nat /\ write_marks'[p] >= write_marks[p]
    /\ \A p \in PagesOf(from, to) : marks'[p] >= next /\ write_marks'[p] >= next
    /\ idle' \in Seq(IdleRange) /\ unlisted' \in BOOLEAN
    /\ extent' \in [index : Int, from : Nat, to : Nat] /\ extent'.index >= -2
    /\ \A i \in DOMAIN idle' : idle'[i].start > batch_start /\ idle'[i].start <= next
    /\ ExtentIsIdle'
    /\ \A n \in 1 .. issued : IdleHas(n) => IdleHas(n)'
    /\ IdleHas(next)'

\* A draw that its image's range already holds.
LEMMA DrawInside ==
    ASSUME MarksInv, taking, taking' = taking, batch_start' = batch_start,
           NEW next \in Nat, next = issued + 1, next <= MaxWords,
           \A n \in 1 .. issued : words'[n] = words[n],
           NEW from \in Nat, NEW to \in Nat, words'[next].from = from, words'[next].to = to,
           extent.index >= 0, from >= extent.from, to <= extent.to,
           UNCHANGED <<pages, idle, unlisted, extent>>
    PROVE  GrownBatch(next, from, to)
<1>1. /\ marks' = marks /\ write_marks' = write_marks /\ idle' = idle /\ unlisted' = unlisted
      /\ extent' = extent
      /\ MarkTypes /\ BatchTypes /\ BatchHolds /\ ExtentIsIdle
  BY InvIs DEF pages
<1>2. \A p \in Pages : marks[p] \in Nat /\ write_marks[p] \in Nat
  BY <1>1, Sizes DEF MarkTypes
<1>3. /\ extent.index \in DOMAIN idle /\ extent.from \in Nat /\ extent.to \in Nat
      /\ idle[extent.index].from = extent.from /\ idle[extent.index].to = extent.to
      /\ \A p \in PagesOf(extent.from, extent.to) :
            marks[p] = IDLE /\ write_marks[p] = IDLE
  BY <1>1 DEF ExtentIsIdle, BatchTypes
<1>4. \A p \in PagesOf(from, to) : marks[p] >= next /\ write_marks[p] >= next
  <2>1. \A p \in PagesOf(from, to) : p \in PagesOf(extent.from, extent.to)
    BY <1>3, MorePages
  <2> QED
    BY <1>3, <2>1, Sizes
<1>5. \A i \in DOMAIN idle : /\ idle[i].start \in Nat /\ idle[i].start > batch_start
                             /\ idle[i].start <= next
  BY <1>1, IdleRangeTypes, Counts, InvIs DEF BatchHolds, ListTypes
<1>6. ExtentIsIdle'
  BY <1>1, Zenon DEF ExtentIsIdle
<1>7. \A n \in 1 .. issued : IdleHas(n) => IdleHas(n)'
  BY <1>1 DEF IdleHas, Holds
<1>8. IdleHas(next)'
  <2>1. PICK i : i = extent.index
    OBVIOUS
  <2>2. i \in DOMAIN idle /\ idle[i].start <= next /\ idle[i].from <= from /\ to <= idle[i].to
    BY <1>3, <1>5, <2>1
  <2>3. Holds(idle[i], next)'
    BY <1>1, <2>2 DEF Holds
  <2> QED
    BY <1>1, <2>2, <2>3 DEF IdleHas
<1> QED
  BY <1>1, <1>2, <1>4, <1>5, <1>6, <1>7, <1>8 DEF GrownBatch, MarkTypes, BatchTypes

\* Pages marked as idle are, and keep what they were marked for.
LEMMA MarkedIdle ==
    ASSUME MarksInv, NEW from \in Nat, NEW to \in Nat, MarkPages(from, to, IDLE, TRUE)
    PROVE  /\ MarkTypes'
           /\ \A p \in Pages : marks'[p] \in Nat /\ marks'[p] >= marks[p]
           /\ \A p \in Pages : write_marks'[p] \in Nat /\ write_marks'[p] >= write_marks[p]
           /\ \A p \in PagesOf(from, to) : marks'[p] = IDLE /\ write_marks'[p] = IDLE
<1>1. MarkTypes /\ IDLE \in 0 .. IDLE
  BY InvIs, Sizes
<1>2. /\ MarkTypes'
      /\ \A p \in Pages : marks'[p] \in Nat /\ marks'[p] >= marks[p]
      /\ \A p \in Pages : write_marks'[p] \in Nat /\ write_marks'[p] >= write_marks[p]
      /\ \A p \in PagesOf(from, to) : marks'[p] >= IDLE /\ write_marks'[p] >= IDLE
  BY <1>1, MarkedPages
<1>3. \A p \in Pages : marks'[p] \in 0 .. IDLE /\ write_marks'[p] \in 0 .. IDLE
  BY <1>2 DEF MarkTypes
<1>4. \A p \in PagesOf(from, to) : p \in Pages
  BY DEF PagesOf
<1>5. \A p \in PagesOf(from, to) : marks'[p] = IDLE /\ write_marks'[p] = IDLE
  BY <1>2, <1>3, <1>4, Sizes
<1> QED
  BY <1>2, <1>5

\* A draw that grows it.
LEMMA DrawGrows ==
    ASSUME MarksInv, taking, taking' = taking, batch_start' = batch_start,
           NEW next \in Nat, next = issued + 1, next <= MaxWords,
           \A n \in 1 .. issued : words'[n] = words[n],
           NEW from \in Nat, NEW to \in Nat, words'[next].from = from, words'[next].to = to,
           extent.index >= 0,
           NEW low \in Nat, NEW high \in Nat,
           low <= from, low <= extent.from, high >= to, high >= extent.to,
           MarkPages(low, high, IDLE, TRUE),
           idle' = [idle EXCEPT ![extent.index].from = low, ![extent.index].to = high],
           extent' = [extent EXCEPT !.from = low, !.to = high], unlisted' = unlisted
    PROVE  GrownBatch(next, from, to)
<1>1. /\ MarkTypes /\ BatchTypes /\ BatchHolds /\ ExtentIsIdle
  BY InvIs
<1>2. PICK x \in DOMAIN idle :
        /\ x = extent.index /\ idle[x].from = extent.from /\ idle[x].to = extent.to
  BY <1>1 DEF ExtentIsIdle
<1>3. /\ MarkTypes'
      /\ \A p \in Pages : marks'[p] \in Nat /\ marks'[p] >= marks[p]
      /\ \A p \in Pages : write_marks'[p] \in Nat /\ write_marks'[p] >= write_marks[p]
      /\ \A p \in PagesOf(low, high) : marks'[p] = IDLE /\ write_marks'[p] = IDLE
  BY MarkedIdle, Zenon
<1>5. \A p \in PagesOf(from, to) : marks'[p] >= next /\ write_marks'[p] >= next
  <2>1. \A p \in PagesOf(from, to) : p \in PagesOf(low, high)
    BY MorePages
  <2> QED
    BY <1>3, <2>1, Sizes
<1>6. /\ Len(idle) \in Nat /\ DOMAIN idle = 1 .. Len(idle) /\ idle \in Seq(IdleRange)
      /\ \A i \in DOMAIN idle : /\ idle[i] \in IdleRange
                                /\ idle[i].from \in Nat /\ idle[i].to \in Nat
                                /\ idle[i].start \in Nat
  BY <1>1, IdleRangeTypes DEF BatchTypes
<1>7. PICK r : r = [idle[x] EXCEPT !.from = low, !.to = high]
  OBVIOUS
<1>8. /\ r \in IdleRange /\ r.from = low /\ r.to = high /\ r.start = idle[x].start
  BY <1>6, <1>7 DEF IdleRange
<1>9. idle' = [idle EXCEPT ![x] = r]
  BY <1>2, <1>7
<1>10. /\ idle' \in Seq(IdleRange) /\ DOMAIN idle' = DOMAIN idle
       /\ idle'[x] = r /\ \A i \in DOMAIN idle : i # x => idle'[i] = idle[i]
  <2>1. x \in 1 .. Len(idle) /\ idle \in Seq(IdleRange) /\ r \in IdleRange
    BY <1>2, <1>6, <1>8
  <2>2. /\ idle' \in Seq(IdleRange) /\ Len(idle') = Len(idle)
        /\ \A i \in 1 .. Len(idle) : idle'[i] = IF i = x THEN r ELSE idle[i]
    <3>1. /\ [idle EXCEPT ![x] = r] \in Seq(IdleRange)
          /\ Len([idle EXCEPT ![x] = r]) = Len(idle)
          /\ \A i \in 1 .. Len(idle) : [idle EXCEPT ![x] = r][i] = IF i = x THEN r ELSE idle[i]
      BY <2>1, ExceptSeq
    <3> QED
      BY <1>9, <3>1, Zenon
  <2>3. DOMAIN idle' = 1 .. Len(idle')
    BY <2>2
  <2> QED
    BY <1>6, <2>1, <2>2, <2>3
<1>11. /\ extent' \in [index : Int, from : Nat, to : Nat] /\ extent'.index = x
       /\ extent'.from = low /\ extent'.to = high /\ extent'.index >= -2
  BY <1>1, <1>2 DEF BatchTypes
<1>12. \A i \in DOMAIN idle' : idle'[i].start > batch_start /\ idle'[i].start <= next
  <2>1. \A i \in DOMAIN idle : idle[i].start > batch_start /\ idle[i].start <= Len(words)
    BY <1>1 DEF BatchHolds
  <2>2. \A i \in DOMAIN idle : idle'[i].start = idle[i].start
    BY <1>8, <1>10
  <2>3. Len(words) <= next /\ Len(words) \in Nat
    BY InvIs, Counts DEF ListTypes
  <2> QED
    BY <1>6, <1>10, <2>1, <2>2, <2>3
<1>13. ExtentIsIdle'
  BY <1>3, <1>8, <1>10, <1>11 DEF ExtentIsIdle
<1>14. \A n \in 1 .. issued : IdleHas(n) => IdleHas(n)'
  <2> SUFFICES ASSUME NEW n \in 1 .. issued, IdleHas(n) PROVE IdleHas(n)'
    OBVIOUS
  <2>1. words'[n] = words[n] /\ words[n].from \in Nat /\ words[n].to \in Nat /\ n \in Nat
    BY Counts
  <2>2. CASE unlisted /\ n > batch_start
    BY <2>2 DEF IdleHas
  <2>3. ASSUME NEW i \in DOMAIN idle, Holds(idle[i], n) PROVE IdleHas(n)'
    <3>1. idle[i].start <= n /\ idle[i].from <= words[n].from /\ words[n].to <= idle[i].to
      BY <2>3 DEF Holds
    <3>2. CASE i = x
      <4>1. extent.from \in Nat /\ extent.to \in Nat
        BY <1>1 DEF BatchTypes
      <4>2. r.start <= n /\ r.from <= words[n].from /\ words[n].to <= r.to
        BY <1>2, <1>8, <2>1, <3>1, <3>2, <4>1
      <4>3. Holds(idle[x], n)'
        BY <1>10, <2>1, <4>2 DEF Holds
      <4> QED
        BY <1>10, <4>3 DEF IdleHas
    <3>3. CASE i # x
      <4>1. Holds(idle[i], n)'
        BY <1>10, <2>1, <2>3, <3>3 DEF Holds
      <4> QED
        BY <1>10, <4>1 DEF IdleHas
    <3> QED
      BY <3>2, <3>3
  <2> QED
    BY <2>2, <2>3 DEF IdleHas
<1>15. IdleHas(next)'
  <2>1. r.start <= next
    BY <1>10, <1>12
  <2>2. Holds(idle[x], next)'
    BY <1>8, <1>10, <2>1 DEF Holds
  <2> QED
    BY <1>10, <2>2 DEF IdleHas
<1> QED
  BY <1>1, <1>3, <1>5, <1>10, <1>11, <1>12, <1>13, <1>14, <1>15 DEF GrownBatch, BatchTypes

\* The first draw of an image lists it, or finds no room.
LEMMA DrawLists ==
    ASSUME MarksInv, taking, taking' = taking, batch_start' = batch_start,
           NEW next \in Nat, next = issued + 1, next <= MaxWords,
           \A n \in 1 .. issued : words'[n] = words[n],
           NEW from \in Nat, NEW to \in Nat, words'[next].from = from, words'[next].to = to,
           NEW room \in BOOLEAN, room => ~unlisted,
           MarkPages(from, to, IDLE, TRUE),
           idle' = IF room THEN Append(idle, [from |-> from, to |-> to, start |-> next])
                   ELSE idle,
           unlisted' = ~room,
           extent' = [index |-> IF room THEN Len(idle) + 1 ELSE -2, from |-> from, to |-> to]
    PROVE  GrownBatch(next, from, to)
<1>1. /\ MarkTypes /\ BatchTypes /\ BatchHolds
  BY InvIs
<1>2. /\ MarkTypes'
      /\ \A p \in Pages : marks'[p] \in Nat /\ marks'[p] >= marks[p]
      /\ \A p \in Pages : write_marks'[p] \in Nat /\ write_marks'[p] >= write_marks[p]
      /\ \A p \in PagesOf(from, to) : marks'[p] = IDLE /\ write_marks'[p] = IDLE
  BY MarkedIdle, Zenon
<1>4. \A p \in PagesOf(from, to) : marks'[p] >= next /\ write_marks'[p] >= next
  BY <1>2, Sizes
<1>5. /\ Len(idle) \in Nat /\ DOMAIN idle = 1 .. Len(idle) /\ idle \in Seq(IdleRange)
      /\ \A i \in DOMAIN idle : idle[i].start \in Nat
  BY <1>1, IdleRangeTypes DEF BatchTypes
<1>6. \A i \in DOMAIN idle : idle[i].start > batch_start /\ idle[i].start <= next
  <2>1. Len(words) <= next /\ Len(words) \in Nat
    BY InvIs, Counts DEF ListTypes
  <2> QED
    BY <1>1, <1>5, <2>1 DEF BatchHolds
<1>7. next > batch_start /\ batch_start \in Nat
  BY <1>1, Counts DEF BatchTypes
<1>8. CASE room
  <2>1. PICK r : r = [from |-> from, to |-> to, start |-> next]
    OBVIOUS
  <2>2. r \in IdleRange /\ r.from = from /\ r.to = to /\ r.start = next
    BY <2>1 DEF IdleRange
  <2>3. PICK x \in Nat : x = Len(idle) + 1
    BY <1>5
  <2>4. idle' = Append(idle, r)
    BY <1>8, <2>1
  <2>5. /\ idle' \in Seq(IdleRange) /\ DOMAIN idle' = 1 .. x
        /\ idle'[x] = r /\ \A i \in DOMAIN idle : idle'[i] = idle[i]
        /\ x \in DOMAIN idle' /\ \A i \in DOMAIN idle : i \in DOMAIN idle'
        /\ \A i \in DOMAIN idle' : i \in DOMAIN idle \/ i = x
    BY <1>5, <2>2, <2>3, <2>4
  <2>6. /\ extent' = [index |-> x, from |-> from, to |-> to]
        /\ extent' \in [index : Int, from : Nat, to : Nat] /\ extent'.index = x
        /\ extent'.from = from /\ extent'.to = to /\ extent'.index >= -2
    BY <1>8, <2>3
  <2>7. \A i \in DOMAIN idle' : idle'[i].start > batch_start /\ idle'[i].start <= next
    <3>1. \A i \in DOMAIN idle' : i # x => idle'[i].start > batch_start /\ idle'[i].start <= next
      BY <1>6, <2>5
    <3>2. idle'[x].start > batch_start /\ idle'[x].start <= next
      BY <1>7, <2>2, <2>5
    <3> QED
      BY <3>1, <3>2
  <2>8. ExtentIsIdle'
    BY <1>2, <2>2, <2>5, <2>6 DEF ExtentIsIdle
  <2>9. \A n \in 1 .. issued : IdleHas(n) => IdleHas(n)'
    <3> SUFFICES ASSUME NEW n \in 1 .. issued, IdleHas(n) PROVE IdleHas(n)'
      OBVIOUS
    <3>1. words'[n] = words[n]
      OBVIOUS
    <3>2. PICK i \in DOMAIN idle : Holds(idle[i], n)
      BY <1>8 DEF IdleHas
    <3>3. Holds(idle[i], n)'
      BY <2>5, <3>1, <3>2 DEF Holds
    <3> QED
      BY <2>5, <3>3 DEF IdleHas
  <2>10. IdleHas(next)'
    <3>1. Holds(idle[x], next)'
      BY <2>2, <2>5 DEF Holds
    <3> QED
      BY <2>5, <3>1 DEF IdleHas
  <2>11. unlisted' \in BOOLEAN
    OBVIOUS
  <2> QED
    BY <1>2, <1>4, <2>5, <2>6, <2>7, <2>8, <2>9, <2>10, <2>11 DEF GrownBatch
<1>9. CASE ~room
  <2>1. idle' = idle /\ unlisted' = TRUE
        /\ extent' = [index |-> -2, from |-> from, to |-> to]
    BY <1>9
  <2>2. /\ extent' \in [index : Int, from : Nat, to : Nat] /\ extent'.index >= -2
        /\ ExtentIsIdle'
    BY <2>1 DEF ExtentIsIdle
  <2>3. \A n \in 1 .. issued : IdleHas(n) => IdleHas(n)'
    BY <2>1 DEF IdleHas, Holds
  <2>4. IdleHas(next)'
    BY <1>7, <2>1 DEF IdleHas
  <2> QED
    BY <1>2, <1>4, <1>5, <1>6, <2>1, <2>2, <2>3, <2>4 DEF GrownBatch
<1> QED
  BY <1>8, <1>9

\* What a draw does to the open batch.
LEMMA DrawBatch ==
    ASSUME MarksInv, taking, taking' = taking, batch_start' = batch_start, ~Overflows,
           NEW next \in Nat, next = issued + 1, next <= MaxWords,
           \A n \in 1 .. issued : words'[n] = words[n],
           NEW from \in Nat, NEW to \in Nat, words'[next].from = from, words'[next].to = to,
           extent.index = -2 => Overflows, Grow(from, to, next)
    PROVE  GrownBatch(next, from, to)
<1>1. /\ extent.index \in Int /\ extent.index >= -2 /\ extent.index # -2
      /\ extent.from \in Nat /\ extent.to \in Nat
  BY InvIs DEF BatchTypes
<1>2. CASE extent.index >= 0 /\ from >= extent.from /\ to <= extent.to
  <2>1. extent.index # -2 /\ extent.index # -1
    BY <1>1, <1>2
  <2>2. UNCHANGED <<pages, idle, unlisted, extent>>
    BY <1>2, <2>1 DEF Grow
  <2> QED
    BY <1>2, <2>2, DrawInside
<1>3. CASE extent.index >= 0 /\ ~(from >= extent.from /\ to <= extent.to)
  <2>1. extent.index # -2 /\ extent.index # -1
    BY <1>1, <1>3
  <2>2. PICK low \in Nat : /\ low = Min({from, extent.from})
                           /\ low <= from /\ low <= extent.from
    BY <1>1, MinOfTwo
  <2>3. PICK high \in Nat : /\ high = Max({to, extent.to})
                            /\ high >= to /\ high >= extent.to
    <3>1. PICK b \in Nat : to <= b /\ extent.to <= b
      <4>1. CASE to <= extent.to
        BY <1>1, <4>1
      <4>2. CASE extent.to <= to
        BY <1>1, <4>2
      <4> QED
        BY <1>1, <4>1, <4>2
    <3>2. PICK S \in SUBSET Nat : S = {to, extent.to}
      BY <1>1
    <3>3. S # {} /\ \A k \in S : k <= b
      BY <3>1, <3>2
    <3>4. Max(S) \in S /\ \A j \in S : j <= Max(S)
      BY <3>3, LargestOf
    <3> QED
      BY <1>1, <3>2, <3>4
  <2>4. /\ MarkPages(low, high, IDLE, TRUE)
        /\ idle' = [idle EXCEPT ![extent.index].from = low, ![extent.index].to = high]
        /\ extent' = [extent EXCEPT !.from = low, !.to = high]
        /\ unlisted' = unlisted
    BY <1>3, <2>1, <2>2, <2>3 DEF Grow
  <2> QED
    BY <1>3, <2>2, <2>3, <2>4, DrawGrows
<1>4. CASE extent.index = -1
  <2>1. PICK room \in BOOLEAN : room = (~unlisted /\ Len(idle) < IdleRanges)
    OBVIOUS
  <2>2. /\ MarkPages(from, to, IDLE, TRUE)
        /\ idle' = IF room THEN Append(idle, [from |-> from, to |-> to, start |-> next])
                   ELSE idle
        /\ unlisted' = ~room
        /\ extent' = [index |-> IF room THEN Len(idle) + 1 ELSE -2, from |-> from, to |-> to]
    <3>1. extent.index # -2 /\ ~(extent.index >= 0)
      BY <1>4
    <3>2. /\ MarkPages(from, to, IDLE, TRUE)
          /\ idle' = IF ~unlisted /\ Len(idle) < IdleRanges
                     THEN Append(idle, [from |-> from, to |-> to, start |-> next]) ELSE idle
          /\ unlisted' = ~(~unlisted /\ Len(idle) < IdleRanges)
          /\ extent' = [index |-> IF ~unlisted /\ Len(idle) < IdleRanges
                                  THEN Len(idle) + 1 ELSE -2,
                        from |-> from, to |-> to]
      BY <1>4, <3>1 DEF Grow
    <3> QED
      BY <2>1, <3>2, Zenon
  <2>3. room => ~unlisted
    BY <2>1
  <2> QED
    BY <2>2, <2>3, DrawLists
<1>5. extent.index >= 0 \/ extent.index = -1
  BY <1>1
<1> QED
  BY <1>2, <1>3, <1>4, <1>5

LEMMA DrawKeeps == ASSUME MarksInv, ~Overflows, NEW s \in Spans, Draw(s) PROVE MarksInv'
<1>1. s[1] \in Nat /\ s[2] \in Nat /\ s[1] < s[2] /\ s[2] <= Cells
  BY SpanIs
<1>2. PICK word : word = [does |-> "draw", from |-> s[1], to |-> s[2]]
  OBVIOUS
<1>3. word \in Word /\ word.does = "draw" /\ word.from = s[1] /\ word.to = s[2] /\ Take(word)
  BY <1>1, <1>2 DEF Word, Draw
<1>4. /\ machine = "free" /\ machine' = "publish" /\ taking /\ taking' = taking
      /\ issued' = issued /\ completed' = completed /\ appended' = appended
      /\ batch_start' = batch_start /\ issued + 1 <= MaxWords
      /\ Len(words) = issued /\ Len(words') = issued + 1
      /\ \A n \in 1 .. issued : words'[n] = words[n]
      /\ words'[issued + 1] = word
      /\ ListTypes' /\ MachineTypes' /\ AccessHolds' /\ EndAnswered'
      /\ UNCHANGED verifier
  BY <1>1, <1>3, TakeGrows
<1>5. PICK next \in Nat : next = issued + 1 /\ next = issued' + 1 /\ next = Len(words')
  BY <1>4, Counts
<1>6. /\ ranges' = ranges /\ boxed' = boxed
      /\ extent.index = -2 => Overflows
      /\ Grow(s[1], s[2], next)
  BY <1>5 DEF Draw
<1>7. PICK b : b = [end |-> next, from |-> s[1], to |-> s[2]]
  OBVIOUS
<1>8. b \in Box /\ boxes' = [boxes EXCEPT ![boxed % BoxCount] = b]
  BY <1>1, <1>5, <1>7 DEF Box, Draw
<1>9. BoxTypes' /\ BoxesInOrder' /\ BoxesAnswer' /\ FieldsHold'
  <2>1. b.end = issued + 1 /\ b.from = words'[issued + 1].from /\ b.to = words'[issued + 1].to
    BY <1>3, <1>4, <1>5, <1>7
  <2>2. Boxed' = boxed + 1
    BY <1>3, <1>4, <1>6 DEF Boxed
  <2>3. UNCHANGED check
    BY <1>4 DEF verifier
  <2> QED
    BY <1>4, <1>6, <1>8, <2>1, <2>2, <2>3, BoxDrawn
<1>10. ~Pending /\ ~Pending'
  BY <1>3, <1>4 DEF Pending
<1>11. /\ RingTypes' /\ RingInOrder' /\ CheckHolds'
       /\ \A n \in 1 .. issued : \A write : RingHas(n, write) => RingHas(n, write)'
  BY <1>4, <1>6, <1>9, <1>10, RingStands, Counts
<1>12. GrownBatch(next, s[1], s[2])
  BY <1>1, <1>3, <1>4, <1>5, <1>6, DrawBatch
<1>13. /\ MarkTypes'
       /\ \A p \in Pages : marks'[p] \in Nat /\ marks'[p] >= marks[p]
       /\ \A p \in Pages : write_marks'[p] \in Nat /\ write_marks'[p] >= write_marks[p]
       /\ \A p \in PagesOf(s[1], s[2]) : marks'[p] >= next /\ write_marks'[p] >= next
       /\ ExtentIsIdle'
       /\ \A n \in 1 .. issued : IdleHas(n) => IdleHas(n)'
       /\ IdleHas(next)'
  BY <1>12, Zenon DEF GrownBatch
<1>14. AllMarked'
  BY <1>3, <1>4, <1>5, <1>13, EarlierMarked
<1>15. BatchTypes'
  <2>1. batch_start \in Nat /\ batch_start <= issued
    BY InvIs DEF BatchTypes
  <2> QED
    BY <1>4, <1>12, <2>1, Zenon DEF GrownBatch, BatchTypes
<1>16. BatchHolds'
  <2>1. ~Ending' /\ machine' # "append"
    BY <1>4 DEF Ending
  <2>2. \A i \in DOMAIN idle' : idle'[i].start > batch_start' /\ idle'[i].start <= Len(words')
    BY <1>4, <1>5, <1>12, Zenon DEF GrownBatch
  <2> QED
    BY <1>4, <2>1, <2>2, Zenon DEF BatchHolds
<1>17. Answered'
  <2>1. IdleHas(issued + 1)'
    BY <1>4, <1>5, <1>13
  <2> QED
    BY <1>4, <1>11, <1>13, <2>1, EarlierAnswered
<1>18. PendingIsDue'
  <2>1. words'[issued' + 1].does = "draw"
    BY <1>3, <1>4
  <2> QED
    BY <1>4, <2>1 DEF PendingIsDue
<1> QED
  BY <1>4, <1>9, <1>11, <1>13, <1>14, <1>15, <1>16, <1>17, <1>18 DEF MarksInv, MarksTypes

LEMMA PublishKeeps == ASSUME MarksInv, Publish PROVE MarksInv'
<1>1. /\ machine = "publish" /\ machine' = "free" /\ issued' = issued + 1
      /\ appended' = appended + IF words[issued + 1].does = "load" THEN 1 ELSE 0
      /\ UNCHANGED <<words, completed, marks, write_marks, ranges>>
      /\ UNCHANGED <<idle, unlisted, extent, batch_start, taking>>
      /\ boxed' = boxed + IF words[issued + 1].does = "draw" THEN 1 ELSE 0
      /\ UNCHANGED <<boxes, access, check, faulted>>
  BY DEF Publish, pages, batch, box, reading, verifier
<1>2. PICK next \in Nat : next = issued + 1 /\ next = issued'
  BY <1>1, Counts
<1>3. /\ taking /\ ~Ending /\ ~Ending' /\ Len(words) = next /\ issued \in Nat
      /\ completed \in Nat /\ completed <= issued /\ next \in 1 .. Len(words)
      /\ appended \in Nat /\ BatchTypes /\ BatchHolds /\ Answered
  BY <1>1, <1>2, InvIs, Counts DEF BatchHolds, Ending, ListTypes
<1>4. ListTypes'
  BY <1>1, <1>2, <1>3, InvIs DEF ListTypes
<1>5. BoxTypes' /\ BoxesInOrder' /\ BoxesAnswer' /\ FieldsHold'
  <2>1. Boxed' = Boxed
    BY <1>1 DEF Boxed
  <2>2. boxed' \in Nat /\ boxed <= boxed'
    BY <1>1, Counts
  <2> QED
    BY <1>1, <2>1, <2>2, BoxesStay
<1>6. MarkTypes' /\ AllMarked' /\ ExtentIsIdle'
  BY <1>1, <1>3, MarksStay
<1>7. MachineTypes'
  BY <1>1, InvIs DEF MachineTypes
<1>8. BatchTypes'
  <2>1. batch_start <= issued'
    BY <1>1, <1>3 DEF BatchTypes
  <2> QED
    BY <1>1, <1>3, <2>1, Zenon DEF BatchTypes
<1>9. BatchHolds'
  <2>1. machine' # "publish" /\ machine' # "append"
    BY <1>1
  <2> QED
    BY <1>1, <1>3, <2>1, Zenon DEF BatchHolds
<1>10. AccessHolds' /\ EndAnswered' /\ PendingIsDue'
  BY <1>1, <1>3 DEF AccessHolds, Accessing, EndAnswered, PendingIsDue
\* The ring with its range, where the word is a load, and as it was where not.
<1>11. /\ RingTypes' /\ RingInOrder' /\ CheckHolds'
       /\ \A n \in 1 .. issued : \A write : RingHas(n, write) => RingHas(n, write)'
       /\ words[next].does = "load" => RingHas(next, FALSE)'
  <2>1. CASE words[next].does = "load"
    <3>1. Pending /\ ~Pending' /\ appended' = appended + 1
      BY <1>1, <1>2, <2>1 DEF Pending
    <3>2. PICK a \in Nat : a = appended
      BY <1>3
    <3>3. Slot(a).mark = next /\ Holds(Slot(a), next)
      BY <1>1, <1>2, <2>1, <3>2, InvIs DEF PendingIsDue
    <3>4. issued' \in Nat /\ issued' >= issued /\ next >= issued /\ next <= issued'
      BY <1>1, <1>2, <1>3
    <3>5. Slot(appended).mark >= issued /\ Slot(appended).mark <= issued'
      BY <3>2, <3>3, <3>4
    <3>6. /\ RingTypes' /\ RingInOrder' /\ a \in Window' /\ Slot(a)' = Slot(a)
          /\ \A n \in 1 .. issued : \A write : RingHas(n, write) => RingHas(n, write)'
      BY <1>1, <3>1, <3>2, <3>4, <3>5, RingAppended
    <3>7. CheckHolds'
      BY <1>1, <1>5, <3>1, <3>4, <3>5, AppendedChecks DEF verifier
    <3>8. Holds(Slot(a), next)'
      BY <1>1, <3>3, <3>6 DEF Holds
    <3>9. RingHas(next, FALSE)'
      BY <1>2, <3>3, <3>6, <3>8 DEF RingHas
    <3> QED
      BY <3>6, <3>7, <3>9
  <2>2. CASE words[next].does # "load"
    <3>1. ~Pending /\ ~Pending' /\ appended' = appended
      BY <1>1, <1>2, <1>3, <2>2 DEF Pending
    <3>2. issued' \in Nat /\ issued' >= issued
      BY <1>1, <1>3
    <3> QED
      BY <1>1, <1>5, <2>2, <3>1, <3>2, RingStands DEF verifier
  <2> QED
    BY <2>1, <2>2
<1>12. \A n : IdleHas(n) => IdleHas(n)'
  BY <1>1 DEF IdleHas, Holds
<1>13. Answered'
  <2>1. ASSUME NEW n \in completed + 1 .. next
        PROVE  /\ words[n].does = "load" => RingHas(n, FALSE)'
               /\ words[n].does = "draw" => RingHas(n, TRUE)' \/ IdleHas(n)'
    <3>1. CASE n = next
      <4>1. words[next].does = "draw" => IdleHas(next)
        BY <1>1, <1>2, <1>3 DEF Answered
      <4> QED
        BY <1>11, <1>12, <3>1, <4>1
    <3>2. CASE n \in completed + 1 .. issued
      <4>1. n \in 1 .. issued
        BY <1>3, <3>2
      <4>2. /\ words[n].does = "load" => RingHas(n, FALSE)
            /\ words[n].does = "draw" => RingHas(n, TRUE) \/ IdleHas(n)
        BY <1>3, <3>2 DEF Answered
      <4> QED
        BY <1>11, <1>12, <4>1, <4>2
    <3>3. n = next \/ n \in completed + 1 .. issued
      BY <1>2, <1>3
    <3> QED
      BY <3>1, <3>2, <3>3, Zenon
  <2> QED
    BY <1>1, <1>2, <2>1 DEF Answered
<1> QED
  BY <1>4, <1>5, <1>6, <1>7, <1>8, <1>9, <1>10, <1>11, <1>13 DEF MarksInv, MarksTypes

-----------------------------------------------------------------------------

LEMMA InitKeeps == Init => MarksInv
<1> SUFFICES ASSUME Init PROVE MarksInv
  OBVIOUS
<1>1. Len(words) = 0 /\ DOMAIN idle = {} /\ 1 .. 0 = {}
  BY DEF Init
<1>2. Window = {} /\ BoxWindow = {}
  <2>1. Low = 0 /\ BoxLow = 0
    <3>1. ~Pending
      BY DEF Init, Pending
    <3> QED
      BY <3>1, Sizes DEF Init, Low, BoxLow, Boxed, Larger
  <2> QED
    BY <2>1 DEF Init, Window, BoxWindow, Boxed
<1>3. ListTypes
  BY <1>1, Sizes DEF Init, ListTypes
<1>4. MarkTypes
  BY Sizes DEF Init, MarkTypes
<1>5. RingTypes
  <2>1. NoRange \in RingRange
    BY NoCheckIs
  <2> QED
    BY <2>1 DEF Init, RingTypes
<1>6. BoxTypes
  <2>1. NoBox \in Box
    BY DEF NoBox, Box
  <2> QED
    BY <2>1 DEF Init, BoxTypes
<1>7. BatchTypes
  <2>1. <<>> \in Seq(IdleRange)
    BY EmptySeq
  <2>2. NoExtent \in [index : Int, from : Nat, to : Nat] /\ NoExtent.index >= -2
    BY DEF NoExtent
  <2>3. issued = 0 /\ batch_start = 0 /\ 0 \in Nat /\ 0 <= 0
    BY DEF Init
  <2> QED
    BY <2>1, <2>2, <2>3, Zenon DEF Init, BatchTypes
<1>8. MachineTypes
  <2>1. NoAccess \in Access
    BY DEF NoAccess, Access
  <2>2. NoCheck \in Check
    BY NoCheckIs
  <2> QED
    BY <2>1, <2>2 DEF Init, MachineTypes
<1>9. BatchHolds /\ ExtentIsIdle
  BY <1>1 DEF Init, BatchHolds, ExtentIsIdle, Ending
<1>10. AllMarked /\ Answered /\ EndAnswered /\ PendingIsDue
  BY <1>1 DEF Init, AllMarked, Answered, EndAnswered, PendingIsDue, Ending
<1>11. RingInOrder /\ BoxesInOrder
  BY <1>2 DEF RingInOrder, BoxesInOrder
<1>12. BoxesAnswer /\ AccessHolds
  BY <1>1 DEF Init, BoxesAnswer, AccessHolds, Accessing
<1>13. CheckHolds
  BY DEF Init, CheckHolds, FieldsHold, NoCheck
<1> QED
  BY <1>3, <1>4, <1>5, <1>6, <1>7, <1>8, <1>9, <1>10, <1>11, <1>12, <1>13
     DEF MarksInv, MarksTypes

LEMMA StutterKeeps == ASSUME MarksInv, UNCHANGED vars PROVE MarksInv'
<1>1. /\ UNCHANGED <<words, issued, ranges, appended, boxes, boxed>>
      /\ UNCHANGED <<machine, idle, unlisted, extent, batch_start, taking, access>>
      /\ UNCHANGED <<marks, write_marks, check, faulted>> /\ completed' = completed
  BY DEF vars, list, pages, ring, batch, box, reading, verifier
<1>2. CheckHolds'
  <2>1. completed' \in Nat /\ completed <= completed' /\ completed' <= issued
    BY <1>1, Counts
  <2>2. check.at # "off" => completed' < check.word
    BY <1>1, InvIs DEF CheckHolds
  <2> QED
    BY <1>1, <2>1, <2>2, CheckStays, Zenon
<1>3. VerifierOnly /\ check' \in Check /\ faulted' \in BOOLEAN
  <2>1. VerifierOnly
    BY DEF VerifierOnly, vars
  <2> QED
    BY <1>1, <2>1, InvIs DEF MachineTypes
<1> QED
  BY <1>2, <1>3, VerifierMoves

LEMMA StepKeeps == ASSUME MarksInv, ~Overflows, [Next]_vars PROVE MarksInv'
<1>1. CASE BeginBatch
  BY <1>1, BeginBatchKeeps
<1>2. CASE SetImage
  BY <1>2, SetImageKeeps
<1>3. CASE Publish
  BY <1>3, PublishKeeps
<1>4. ASSUME NEW s \in Spans, Load(s) PROVE MarksInv'
  BY <1>4, LoadKeeps
<1>5. ASSUME NEW s \in Spans, Draw(s) PROVE MarksInv'
  BY <1>5, DrawKeeps
<1>6. CASE EndBatch
  BY <1>6, EndBatchKeeps
<1>7. CASE EndRange
  BY <1>7, EndRangeKeeps
<1>8. CASE EndAppend
  BY <1>8, EndAppendKeeps
<1>9. CASE EndIdle
  BY <1>9, EndIdleKeeps
<1>10. CASE Join
  BY <1>10, JoinKeeps
<1>11. CASE Begin
  BY <1>11, BeginKeeps
<1>12. CASE Pass
  BY <1>12, PassKeeps
<1>13. CASE Wait
  BY <1>13, WaitKeeps
<1>14. CASE Waited
  BY <1>14, WaitedKeeps
<1>15. CASE Touch
  BY <1>15, TouchKeeps
<1>16. CASE Run
  BY <1>16, RunKeeps
<1>17. CASE VerifyMark
  BY <1>17, VerifyMarkKeeps
<1>18. CASE VerifyIdle
  BY <1>18, VerifyIdleKeeps
<1>19. CASE VerifyRing
  BY <1>19, VerifyRingKeeps
<1>20. CASE VerifySlot
  BY <1>20, VerifySlotKeeps
<1>21. CASE VerifyLook
  BY <1>21, VerifyLookKeeps
<1>22. CASE VerifyBox
  BY <1>22, VerifyBoxKeeps
<1>23. CASE VerifyFields
  BY <1>23, VerifyFieldsKeeps
<1>24. CASE UNCHANGED vars
  BY <1>24, StutterKeeps
<1> QED
  BY <1>1, <1>2, <1>3, <1>4, <1>5, <1>6, <1>7, <1>8, <1>9, <1>10, <1>11, <1>12, <1>13,
     <1>14, <1>15, <1>16, <1>17, <1>18, <1>19, <1>20, <1>21, <1>22, <1>23, <1>24 DEF Next

\* Nobody but the verifier at a box's fields objects.
LEMMA StepObjects ==
    ASSUME MarksInv, [Next]_vars, faulted' # faulted
    PROVE  /\ check.at = "fields" /\ boxed = check.next + BoxCount
           /\ machine = "publish" /\ words[issued + 1].does = "draw"
<1>1. CASE BeginBatch \/ SetImage \/ Publish \/ \E s \in Spans : Load(s) \/ Draw(s)
  BY <1>1 DEF BeginBatch, SetImage, Publish, Load, Draw, Take, verifier
<1>2. CASE EndBatch \/ EndRange \/ EndAppend \/ EndIdle \/ Join
  BY <1>2 DEF EndBatch, EndRange, EndAppend, EndIdle, Join, verifier
<1>3. CASE Begin \/ Pass \/ Wait \/ Waited \/ Touch \/ Run
  BY <1>3 DEF Begin, Pass, Wait, Waited, Touch, Run, verifier
<1>4. CASE VerifyMark \/ VerifyIdle \/ VerifyRing \/ VerifySlot \/ VerifyLook \/ VerifyBox
  BY <1>4, VerifyMarkKeeps, VerifyIdleKeeps, VerifyRingKeeps, VerifySlotKeeps,
     VerifyLookKeeps, VerifyBoxKeeps
<1>5. CASE VerifyFields
  BY <1>5, VerifyFieldsKeeps
<1>6. CASE UNCHANGED vars
  BY <1>6 DEF vars, verifier
<1> QED
  BY <1>1, <1>2, <1>3, <1>4, <1>5, <1>6 DEF Next

-----------------------------------------------------------------------------
(* The properties the run checks.                                          *)

\* Where no batch draws again to an image it had no room to list, the marks, the
\* ranges and the boxes say of each word that is out what they should, whatever
\* the machine, the workers and the verifier do.
THEOREM AlwaysMarksInv == ASSUME ~Overflows PROVE Spec => []MarksInv
<1>1. Init => MarksInv
  BY InitKeeps
<1>2. MarksInv /\ [Next]_vars => MarksInv'
  BY StepKeeps
<1> QED
  BY <1>1, <1>2, PTL DEF Spec

\* And so the machine touches no byte that a word still to run writes, nor writes
\* one that such a word reads (wait, reaches, last_holding).
THEOREM TouchedOnlyInTurn == ASSUME ~Overflows PROVE Spec => []TouchedInTurn
<1>1. MarksInv => TouchedInTurn
  <2> SUFFICES ASSUME MarksInv, machine = "through", NEW n \in Unrun,
                      Touches(n, access.from, access.to)
               PROVE  /\ words[n].does = "draw" => FALSE
                      /\ words[n].does = "load" => ~access.write
    BY Zenon DEF TouchedInTurn
  <2>1. AccessHolds /\ Accessing /\ access \in Access
    BY InvIs DEF Accessing, MachineTypes
  <2>2. /\ access.from < access.to /\ access.from \in Nat /\ access.to \in Nat
        /\ ClearBelow(access.to)
    BY <2>1 DEF AccessHolds, Access
  <2>3. words[n].from \in Nat /\ access.to > words[n].from
    BY UnrunIs DEF Touches, Overlap
  <2>4. ~Ahead(n)
    <3>1. ~(words[n].from >= access.to) /\ ~(access.from >= access.to)
      BY <2>2, <2>3
    <3> QED
      BY <2>2, <3>1, Zenon DEF ClearBelow
  <2> QED
    BY <2>4, Zenon DEF Ahead
<1> QED
  BY <1>1, AlwaysMarksInv, PTL

\* Every page a word still to run reaches carries a mark of at least that word.
THEOREM MarkedAlways == ASSUME ~Overflows PROVE Spec => []MarkedFor
<1>1. MarksInv => MarkedFor
  <2> SUFFICES ASSUME MarksInv, NEW n \in Unrun PROVE MarkedTo(n)
    BY DEF MarkedFor, MarkedTo
  <2> QED
    BY UnrunIs, InvIs, Zenon DEF AllMarked
<1> QED
  BY <1>1, AlwaysMarksInv, PTL

\* And the verifier objects to nothing but a write whose box is being written
\* over as it is read (verify_with, covers, box_for against append_box).
THEOREM ObjectsOnlyToTheTornAlways == ASSUME ~Overflows PROVE Spec => ObjectsOnlyToTheTorn
<1>1. MarksInv /\ [Next]_vars =>
        [~faulted /\ faulted' =>
            /\ check.at = "fields" /\ boxed = check.next + BoxCount
            /\ machine = "publish" /\ words[issued + 1].does = "draw"]_vars
  BY StepObjects
<1> QED
  BY <1>1, AlwaysMarksInv, PTL DEF Spec, ObjectsOnlyToTheTorn
=============================================================================
