---------------------------- MODULE Rewind_proofs ----------------------------
(***************************************************************************)
(* The rewind history, for any snapshots, intervals, budgets and number of *)
(* frames: the chain and what is counted of it hold together, one job is   *)
(* out while a delta is encoding, a chain settled fits the budget, and the *)
(* deltas implement a history of whole snapshots (RewindHistory).          *)
(*                                                                         *)
(* The argument: there are whole snapshots, one for each moment, of which  *)
(* each delta is the difference of two neighbours and the newest is the    *)
(* chain's own or the job's (Keeps).  Each change of the chain is one of   *)
(* theirs: the oldest gone, the newest gone, one more, or none.            *)
(***************************************************************************)
EXTENDS Rewind, FiniteSetTheorems, SequenceTheorems, WellFoundedInduction, TLAPS

-----------------------------------------------------------------------------
(* Numbers and cardinals.                                                  *)

\* A set of numbers that is not empty has a least.
LEMMA LeastNat ==
    ASSUME NEW S \in SUBSET Nat, S # {}
    PROVE  \E k \in S : \A j \in S : k <= j
<1> DEFINE Less == {ss \in Nat \X Nat : ss[1] < ss[2]}
<1>1. IsWellFoundedOn(Less, Nat)
  BY NatLessThanWellFounded, Zenon DEF OpToRel
<1>2. PICK k \in S : \A j \in S : <<j, k>> \notin Less
  <2> HIDE DEF Less
  <2> QED
    BY <1>1, WFMin, Zenon
<1>3. ASSUME NEW j \in S PROVE k <= j
  <2>1. j < k => <<j, k>> \in Less
    OBVIOUS
  <2> QED
    BY <1>2, <2>1
<1> QED BY <1>3

LEMMA MinIsLeast ==
    ASSUME NEW S \in SUBSET Nat, S # {}
    PROVE  Min(S) \in S /\ \A j \in S : Min(S) <= j
BY LeastNat, Zenon DEF Min

\* What holds of 0, and of a number's successor when it holds of it, holds of
\* all up to a bound.
LEMMA UpTo ==
    ASSUME NEW n \in Nat, NEW T \in SUBSET Nat, 0 \in T,
           \A k \in 0 .. n - 1 : k \in T => k + 1 \in T
    PROVE  \A k \in 0 .. n : k \in T
<1> SUFFICES ASSUME NEW m \in 0 .. n, m \notin T PROVE FALSE
  OBVIOUS
<1> DEFINE S == {k \in 0 .. n : k \notin T}
<1>1. PICK k \in S : \A j \in S : k <= j
  <2>1. S \in SUBSET Nat /\ S # {}
    OBVIOUS
  <2> HIDE DEF S
  <2> QED BY <2>1, LeastNat
<1>2. k # 0 /\ k - 1 \in 0 .. n - 1
  OBVIOUS
<1>3. k - 1 \in T
  BY <1>1, <1>2
<1>4. (k - 1) + 1 = k
  OBVIOUS
<1> QED BY <1>2, <1>3, <1>4

\* Two sets whose elements go over into one another are of one size.
LEMMA SameSize ==
    ASSUME NEW S, NEW T, IsFiniteSet(S), NEW f,
           f \in [S -> T],
           \A x, y \in S : f[x] = f[y] => x = y,
           \A t \in T : \E x \in S : f[x] = t
    PROVE  IsFiniteSet(T) /\ Cardinality(T) = Cardinality(S)
<1>1. f \in Bijection(S, T)
  BY DEF Bijection, Injection, Surjection, IsInjective
<1>2. ExistsBijection(S, T)
  BY <1>1 DEF ExistsBijection
<1> QED BY <1>2, FS_Bijection

-----------------------------------------------------------------------------
(* Snapshots and deltas.                                                   *)

LEMMA Snapshots ==
    ASSUME NEW s \in States
    PROVE  /\ s \in [length : Nat, bits : Deltas]
           /\ s.bits \in Deltas
           /\ s # NoState
BY StatesAssumption

LEMMA DeltaType ==
    ASSUME NEW s \in States, NEW t \in States
    PROVE  Delta(s, t) \in Deltas
BY Snapshots DEF Delta, SymDiff, Deltas

LEMMA DeltasAreFinite ==
    ASSUME NEW d \in Deltas
    PROVE  IsFiniteSet(d) /\ Size(d) \in Nat
BY StatesAssumption, FS_Subset, FS_CardinalityType DEF Deltas, Size

LEMMA SnapshotEqual ==
    ASSUME NEW s \in [length : Nat, bits : Deltas], NEW t \in [length : Nat, bits : Deltas],
           s.length = t.length, s.bits = t.bits
    PROVE  s = t
OBVIOUS

\* A delta takes the newer of its two snapshots to the older.
LEMMA DeltaUndoes ==
    ASSUME NEW s \in States, NEW t \in States, s.length = t.length
    PROVE  Apply(t, Delta(s, t)) = s
<1> DEFINE u == [t EXCEPT !.bits = SymDiff(@, SymDiff(s.bits, t.bits))]
<1>1. /\ s \in [length : Nat, bits : Deltas] /\ t \in [length : Nat, bits : Deltas]
  BY Snapshots
<1>2. SymDiff(t.bits, SymDiff(s.bits, t.bits)) = s.bits
  BY DEF SymDiff
<1>3. u \in [length : Nat, bits : Deltas] /\ u.length = s.length /\ u.bits = s.bits
  BY <1>1, <1>2
<1> QED BY <1>1, <1>3, SnapshotEqual DEF Apply, Delta

LEMMA ApplyNothing ==
    ASSUME NEW s \in States
    PROVE  Apply(s, {}) = s
<1>1. SymDiff(s.bits, {}) = s.bits
  BY DEF SymDiff
<1> QED BY <1>1, Snapshots DEF Apply

LEMMA ApplyTwice ==
    ASSUME NEW s \in States, NEW d, NEW e
    PROVE  Apply(Apply(s, d), e) = Apply(s, SymDiff(d, e))
<1>1. SymDiff(SymDiff(s.bits, d), e) = SymDiff(s.bits, SymDiff(d, e))
  BY DEF SymDiff
<1> QED BY <1>1, Snapshots DEF Apply

-----------------------------------------------------------------------------
(* What deltas take.                                                       *)

Span(ds, a, b) == {p \in (a .. b) \X Bits : p[2] \in ds[p[1]]}

LEMMA SpanIsFinite ==
    ASSUME NEW ds, NEW a \in Int, NEW b \in Int
    PROVE  IsFiniteSet(Span(ds, a, b)) /\ Cardinality(Span(ds, a, b)) \in Nat
<1>1. IsFiniteSet((a .. b) \X Bits)
  BY FS_Interval, FS_Product, StatesAssumption
<1>2. Span(ds, a, b) \in SUBSET ((a .. b) \X Bits)
  BY DEF Span
<1> QED BY <1>1, <1>2, FS_Subset, FS_CardinalityType

LEMMA SizeOfAll ==
    ASSUME NEW ds \in Seq(Deltas)
    PROVE  /\ SizeOf(ds) = Cardinality(Span(ds, 1, Len(ds)))
           /\ SizeOf(ds) \in Nat
<1>1. Len(ds) \in Nat /\ DOMAIN ds = 1 .. Len(ds)
  BY LenProperties
<1>2. SizeOf(ds) = Cardinality(Span(ds, 1, Len(ds)))
  BY <1>1 DEF SizeOf, Span
<1> QED BY <1>1, <1>2, SpanIsFinite

LEMMA SubSeqOf ==
    ASSUME NEW S, NEW seq \in Seq(S), NEW a \in Nat, NEW b \in Nat,
           1 <= a, a <= b + 1, b <= Len(seq)
    PROVE  /\ SubSeq(seq, a, b) \in Seq(S)
           /\ Len(SubSeq(seq, a, b)) = b - a + 1
           /\ \A i \in 1 .. b - a + 1 : SubSeq(seq, a, b)[i] = seq[a + i - 1]
<1>1. Len(seq) \in Nat /\ \A i \in 1 .. Len(seq) : seq[i] \in S
  BY LenProperties, ElementOfSeq
<1>2. \A i \in a .. b : seq[i] \in S
  BY <1>1
<1> QED BY <1>2, SubSeqProperties

LEMMA SizeOfPart ==
    ASSUME NEW ds \in Seq(Deltas), NEW a \in Nat, NEW b \in Nat,
           1 <= a, a <= b + 1, b <= Len(ds)
    PROVE  SizeOf(SubSeq(ds, a, b)) = Cardinality(Span(ds, a, b))
<1> DEFINE sub == SubSeq(ds, a, b)
           n == b - a + 1
           S == Span(ds, a, b)
           T == Span(sub, 1, n)
           f == [p \in S |-> <<p[1] - a + 1, p[2]>>]
<1>1. /\ sub \in Seq(Deltas) /\ Len(sub) = n /\ n \in Nat
      /\ \A i \in 1 .. n : sub[i] = ds[a + i - 1]
  BY SubSeqOf
<1>2. ASSUME NEW p \in S
      PROVE  /\ p[1] \in a .. b /\ p[2] \in Bits /\ p[2] \in ds[p[1]] /\ p = <<p[1], p[2]>>
             /\ p[1] - a + 1 \in 1 .. n /\ a + (p[1] - a + 1) - 1 = p[1]
  BY DEF Span
<1>3. ASSUME NEW p \in S PROVE f[p] \in T
  <2>1. p[2] \in sub[p[1] - a + 1]
    BY <1>1, <1>2
  <2> QED BY <1>2, <2>1 DEF Span
<1>4. ASSUME NEW p \in S, NEW q \in S, f[p] = f[q] PROVE p = q
  <2>1. p[1] - a + 1 = q[1] - a + 1 /\ p[2] = q[2]
    BY <1>4
  <2>2. p[1] = q[1]
    BY <1>2, <2>1
  <2> QED BY <1>2, <2>1, <2>2
<1>5. ASSUME NEW t \in T PROVE \E p \in S : f[p] = t
  <2>1. t[1] \in 1 .. n /\ t[2] \in Bits /\ t[2] \in sub[t[1]] /\ t = <<t[1], t[2]>>
    BY DEF Span
  <2> DEFINE p == <<a + t[1] - 1, t[2]>>
  <2>2. t[2] \in ds[a + t[1] - 1]
    BY <1>1, <2>1
  <2>3. a + t[1] - 1 \in a .. b /\ (a + t[1] - 1) - a + 1 = t[1]
    BY <2>1
  <2>4. p \in S
    BY <2>1, <2>2, <2>3 DEF Span
  <2> QED BY <2>1, <2>3, <2>4
<1>6. IsFiniteSet(S)
  BY SpanIsFinite
<1>7. Cardinality(T) = Cardinality(S)
  <2> HIDE DEF S, T
  <2>1. f \in [S -> T]
    BY <1>3
  <2> HIDE DEF f
  <2> QED BY <1>4, <1>5, <1>6, <2>1, SameSize
<1> QED BY <1>1, <1>7, SizeOfAll

LEMMA SpanSplit ==
    ASSUME NEW ds, NEW a \in Int, NEW m \in Int, NEW b \in Int, a <= m + 1, m <= b
    PROVE  Cardinality(Span(ds, a, b))
              = Cardinality(Span(ds, a, m)) + Cardinality(Span(ds, m + 1, b))
<1> DEFINE A == Span(ds, a, m)
           B == Span(ds, m + 1, b)
<1>1. IsFiniteSet(A) /\ IsFiniteSet(B) /\ Cardinality(A) \in Nat /\ Cardinality(B) \in Nat
  BY SpanIsFinite
<1>2. Span(ds, a, b) = A \cup B
  BY DEF Span
<1>3. A \cap B = {}
  BY DEF Span
<1>4. Cardinality(A \cap B) = 0
  BY <1>3, FS_EmptySet
<1>5. Cardinality(A \cup B) = Cardinality(A) + Cardinality(B) - Cardinality(A \cap B)
  BY <1>1, FS_Union
<1> HIDE DEF A, B
<1>6. Cardinality(A \cup B) = Cardinality(A) + Cardinality(B)
  BY <1>1, <1>4, <1>5
<1> QED BY <1>2, <1>6 DEF A, B

\* What is dropped of the oldest, or of the newest, is what the rest lacks.
LEMMA SizeSplit ==
    ASSUME NEW ds \in Seq(Deltas), NEW n \in 0 .. Len(ds)
    PROVE  /\ SizeOf(Oldest(ds, n)) \in Nat
           /\ SizeOf(SubSeq(ds, n + 1, Len(ds))) \in Nat
           /\ SizeOf(ds) = SizeOf(Oldest(ds, n)) + SizeOf(SubSeq(ds, n + 1, Len(ds)))
<1> DEFINE l == Len(ds)
<1>1. l \in Nat
  BY LenProperties
<1>2. Oldest(ds, n) \in Seq(Deltas) /\ SubSeq(ds, n + 1, l) \in Seq(Deltas)
  BY <1>1, SubSeqOf DEF Oldest
<1>3. /\ SizeOf(Oldest(ds, n)) = Cardinality(Span(ds, 1, n))
      /\ SizeOf(SubSeq(ds, n + 1, l)) = Cardinality(Span(ds, n + 1, l))
      /\ SizeOf(ds) = Cardinality(Span(ds, 1, l))
  BY <1>1, SizeOfPart, SizeOfAll DEF Oldest
<1>4. Cardinality(Span(ds, 1, l)) = Cardinality(Span(ds, 1, n)) + Cardinality(Span(ds, n + 1, l))
  <2>1. n \in Int /\ l \in Int /\ 1 \in Int /\ 1 <= n + 1 /\ n <= l
    BY <1>1
  <2> HIDE DEF l
  <2> QED BY <2>1, SpanSplit, Zenon
<1> QED BY <1>2, <1>3, <1>4, SizeOfAll

LEMMA SizeOfNone == SizeOf(<<>>) = 0
<1>1. Span(<<>>, 1, 0) = {}
  BY DEF Span
<1> QED BY <1>1, SizeOfAll, EmptySeq, FS_EmptySet

LEMMA SizeOfOneMore ==
    ASSUME NEW ds \in Seq(Deltas), NEW d \in Deltas
    PROVE  SizeOf(Append(ds, d)) = SizeOf(ds) + Size(d)
<1> DEFINE l == Len(ds)
           more == Append(ds, d)
<1>1. /\ l \in Nat /\ more \in Seq(Deltas) /\ Len(more) = l + 1
      /\ \A i \in 1 .. l : more[i] = ds[i]
      /\ more[l + 1] = d
  BY LenProperties, AppendProperties
<1>2. Span(more, 1, l) = Span(ds, 1, l)
  <2> HIDE DEF more
  <2> QED BY <1>1 DEF Span
<1>3. Cardinality(Span(more, l + 1, l + 1)) = Size(d)
  <2> DEFINE f == [b \in d |-> <<l + 1, b>>]
             T == Span(more, l + 1, l + 1)
  <2> HIDE DEF more, l
  <2>0. d \subseteq Bits
    BY DEF Deltas
  <2>1. ASSUME NEW b \in d PROVE f[b] \in T
    <3>1. b \in Bits /\ b \in more[l + 1] /\ l + 1 \in (l + 1) .. (l + 1)
      BY <1>1, <2>0
    <3> QED BY <3>1 DEF Span
  <2>2. \A b, c \in d : f[b] = f[c] => b = c
    OBVIOUS
  <2>3. ASSUME NEW t \in T PROVE \E b \in d : f[b] = t
    <3>1. t[1] \in (l + 1) .. (l + 1) /\ t[2] \in more[t[1]] /\ t = <<t[1], t[2]>>
      BY DEF Span
    <3>2. t[1] = l + 1
      BY <1>1, <3>1
    <3> QED BY <1>1, <3>1, <3>2
  <2>4. IsFiniteSet(d)
    BY DeltasAreFinite
  <2>5. f \in [d -> T]
    BY <2>1
  <2>6. \A t \in T : \E b \in d : f[b] = t
    BY <2>3
  <2> HIDE DEF f, T
  <2>7. Cardinality(T) = Cardinality(d)
    BY <2>2, <2>4, <2>5, <2>6, SameSize
  <2> QED BY <2>7 DEF Size, T
<1>4. Cardinality(Span(more, 1, l + 1))
        = Cardinality(Span(more, 1, l)) + Cardinality(Span(more, l + 1, l + 1))
  <2> HIDE DEF more, l
  <2> QED BY <1>1, SpanSplit
<1> QED BY <1>1, <1>2, <1>3, <1>4, SizeOfAll

-----------------------------------------------------------------------------
(* What deltas come to together.                                           *)

\* In which of the newest n deltas a bit is.
Changing(ds, b, n) == {i \in Len(ds) - n + 1 .. Len(ds) : b \in ds[i]}

LEMMA ChangingIsFinite ==
    ASSUME NEW ds \in Seq(Deltas), NEW b, NEW n \in 0 .. Len(ds)
    PROVE  IsFiniteSet(Changing(ds, b, n)) /\ Cardinality(Changing(ds, b, n)) \in Nat
<1> DEFINE l == Len(ds)
<1>1. l \in Nat
  BY LenProperties
<1>2. IsFiniteSet(l - n + 1 .. l)
  <2> HIDE DEF l
  <2> QED BY <1>1, FS_Interval
<1>3. Changing(ds, b, n) \in SUBSET (l - n + 1 .. l)
  BY DEF Changing
<1> QED BY <1>2, <1>3, FS_Subset, FS_CardinalityType

LEMMA TogetherIs ==
    ASSUME NEW ds \in Seq(Deltas), NEW n \in 0 .. Len(ds)
    PROVE  Together(Newest(ds, n)) = {b \in Bits : Cardinality(Changing(ds, b, n)) % 2 = 1}
<1> DEFINE l == Len(ds)
           new == Newest(ds, n)
<1>1. l \in Nat /\ n \in Nat
  BY LenProperties
<1>2. /\ Len(new) = n /\ DOMAIN new = 1 .. n
      /\ \A i \in 1 .. n : new[i] = ds[l - n + i]
  <2>1. /\ new \in Seq(Deltas) /\ Len(new) = l - (l - n + 1) + 1
        /\ \A i \in 1 .. l - (l - n + 1) + 1 : new[i] = ds[(l - n + 1) + i - 1]
    BY <1>1, SubSeqOf DEF Newest
  <2>2. l - (l - n + 1) + 1 = n /\ \A i \in 1 .. n : (l - n + 1) + i - 1 = l - n + i
    BY <1>1
  <2> HIDE DEF new, l
  <2> QED BY <2>1, <2>2, LenProperties
<1>3. ASSUME NEW b \in Bits
      PROVE  Cardinality({i \in DOMAIN new : b \in new[i]}) = Cardinality(Changing(ds, b, n))
  <2> DEFINE S == {i \in DOMAIN new : b \in new[i]}
             T == Changing(ds, b, n)
             f == [i \in S |-> l - n + i]
  <2> HIDE DEF new, l
  <2>1. S \in SUBSET (1 .. n)
    BY <1>2
  <2>2. IsFiniteSet(S)
    <3>1. IsFiniteSet(1 .. n)
      BY <1>1, FS_Interval
    <3> HIDE DEF S
    <3> QED BY <2>1, <3>1, FS_Subset, Zenon
  <2>3. ASSUME NEW i \in S PROVE f[i] \in T
    <3>1. i \in 1 .. n /\ b \in ds[l - n + i]
      BY <1>2
    <3>2. l - n + i \in l - n + 1 .. l
      BY <1>1, <3>1
    <3> QED BY <3>1, <3>2 DEF Changing, l
  <2>4. \A i, j \in S : f[i] = f[j] => i = j
    BY <1>1, <2>1
  <2>5. ASSUME NEW t \in T PROVE \E i \in S : f[i] = t
    <3>1. t \in l - n + 1 .. l /\ b \in ds[t]
      BY DEF Changing, l
    <3>2. t - (l - n) \in 1 .. n /\ l - n + (t - (l - n)) = t
      BY <1>1, <3>1
    <3>3. t - (l - n) \in S
      BY <1>2, <3>1, <3>2
    <3> QED BY <3>2, <3>3
  <2>6. f \in [S -> T]
    BY <2>3
  <2> HIDE DEF f, S, T
  <2>7. Cardinality(T) = Cardinality(S)
    BY <2>2, <2>4, <2>5, <2>6, SameSize
  <2> QED BY <2>7 DEF S, T
<1> QED BY <1>3 DEF Together

LEMMA Parity ==
    ASSUME NEW k \in Nat
    PROVE  (k + 1) % 2 = 1 <=> k % 2 # 1
OBVIOUS

\* One more undone changes what is in it, and what the others change but it.
LEMMA TogetherOneMore ==
    ASSUME NEW ds \in Seq(Deltas), NEW n \in 0 .. Len(ds) - 1
    PROVE  Together(Newest(ds, n + 1)) = SymDiff(Together(Newest(ds, n)), ds[Len(ds) - n])
<1> DEFINE l == Len(ds)
           d == ds[l - n]
<1>1. l \in Nat /\ n \in Nat /\ n \in 0 .. l /\ n + 1 \in 0 .. l /\ l - n \in 1 .. l
  BY LenProperties
<1>2. d \subseteq Bits
  BY <1>1, ElementOfSeq DEF Deltas
<1>3. ASSUME NEW b \in Bits
      PROVE  Cardinality(Changing(ds, b, n + 1)) % 2 = 1
               <=> (Cardinality(Changing(ds, b, n)) % 2 = 1 /\ b \notin d)
                   \/ (Cardinality(Changing(ds, b, n)) % 2 # 1 /\ b \in d)
  <2> DEFINE C == Changing(ds, b, n)
  <2>1. IsFiniteSet(C) /\ Cardinality(C) \in Nat
    BY <1>1, ChangingIsFinite
  <2>2. l - n \notin C
    BY <1>1 DEF Changing
  <2>3. Changing(ds, b, n + 1) = IF b \in d THEN C \cup {l - n} ELSE C
    <3>1. l - (n + 1) + 1 .. l = (l - n + 1 .. l) \cup {l - n}
      <4> HIDE DEF l
      <4> QED BY <1>1
    <3> QED BY <3>1 DEF Changing
  <2>4. Cardinality(C \cup {l - n}) = Cardinality(C) + 1
    <3> HIDE DEF C
    <3> QED BY <2>1, <2>2, FS_AddElement
  <2> HIDE DEF C, d, l
  <2>5. CASE b \in d
    BY <2>1, <2>3, <2>4, <2>5, Parity DEF C
  <2>6. CASE b \notin d
    BY <2>3, <2>6 DEF C
  <2> QED BY <2>5, <2>6
<1>4. /\ Together(Newest(ds, n + 1)) = {b \in Bits : Cardinality(Changing(ds, b, n + 1)) % 2 = 1}
      /\ Together(Newest(ds, n)) = {b \in Bits : Cardinality(Changing(ds, b, n)) % 2 = 1}
  BY <1>1, TogetherIs
<1> HIDE DEF d, l
<1> QED BY <1>2, <1>3, <1>4 DEF SymDiff, d, l

LEMMA TogetherNone ==
    ASSUME NEW ds \in Seq(Deltas)
    PROVE  Together(Newest(ds, 0)) = {}
<1>1. Len(ds) \in Nat
  BY LenProperties
<1>2. \A b : Changing(ds, b, 0) = {}
  BY <1>1 DEF Changing
<1>3. Cardinality({}) = 0 /\ 0 % 2 # 1
  BY FS_EmptySet
<1>4. Together(Newest(ds, 0)) = {b \in Bits : Cardinality(Changing(ds, b, 0)) % 2 = 1}
  BY <1>1, TogetherIs
<1> QED BY <1>2, <1>3, <1>4

-----------------------------------------------------------------------------
(* The whole snapshots behind a chain.                                     *)

\* Each delta takes the snapshot after it to the one before.
Linked(w, ds) == \A i \in 1 .. Len(ds) : w[i] = Apply(w[i + 1], ds[i])

\* The newest deltas undone from the snapshot they start at come to the one
\* as many before it.
LEMMA Unwinding ==
    ASSUME NEW ds \in Seq(Deltas), NEW w \in Seq(States),
           Len(ds) + 1 <= Len(w), Linked(w, ds)
    PROVE  \A n \in 0 .. Len(ds) :
              Apply(w[Len(ds) + 1], Together(Newest(ds, n))) = w[Len(ds) + 1 - n]
<1> DEFINE l == Len(ds)
           Back(n) == Apply(w[l + 1], Together(Newest(ds, n)))
           T == {n \in Nat : Back(n) = w[l + 1 - n]}
<1>1. l \in Nat /\ l + 1 \in 1 .. Len(w) /\ Len(w) \in Nat
  BY LenProperties
<1>2. w[l + 1] \in States
  BY <1>1, ElementOfSeq
<1>3. 0 \in T
  <2>1. Back(0) = w[l + 1]
    BY <1>2, TogetherNone, ApplyNothing
  <2>2. l + 1 - 0 = l + 1
    BY <1>1
  <2> QED BY <2>1, <2>2
<1>4. ASSUME NEW k \in 0 .. l - 1, k \in T PROVE k + 1 \in T
  <2>1. Together(Newest(ds, k + 1)) = SymDiff(Together(Newest(ds, k)), ds[l - k])
    BY TogetherOneMore
  <2>2. Back(k + 1) = Apply(Back(k), ds[l - k])
    BY <1>2, <2>1, ApplyTwice
  <2>3. /\ l - k \in 1 .. l /\ (l - k) + 1 = l + 1 - k /\ l - k = l + 1 - (k + 1)
        /\ k + 1 \in Nat
    <3> HIDE DEF l
    <3> QED BY <1>1
  <2>4. w[l - k] = Apply(w[(l - k) + 1], ds[l - k])
    BY <2>3 DEF Linked
  <2>5. Back(k) = w[l + 1 - k]
    BY <1>4
  <2> HIDE DEF Back, l
  <2>6. Back(k + 1) = w[l + 1 - (k + 1)]
    BY <2>2, <2>3, <2>4, <2>5
  <2> QED BY <2>3, <2>6
<1>5. T \in SUBSET Nat
  OBVIOUS
<1>6. \A n \in 0 .. l : n \in T
  <2> HIDE DEF T, l
  <2> QED BY <1>1, <1>3, <1>4, <1>5, UpTo
<1> QED BY <1>6

\* What is held, snapshot by snapshot, for the frames of some moments.
Rising(m) == \A i, j \in DOMAIN m : i < j => m[i] < m[j]
Record(m, w) ==
    [f \in {m[i] : i \in DOMAIN m} |-> w[CHOOSE i \in DOMAIN m : m[i] = f]]

LEMMA RecordAt ==
    ASSUME NEW m \in Seq(Nat), NEW w, Rising(m)
    PROVE  /\ DOMAIN Record(m, w) = {m[i] : i \in 1 .. Len(m)}
           /\ \A i \in 1 .. Len(m) : Record(m, w)[m[i]] = w[i]
<1>1. DOMAIN m = 1 .. Len(m) /\ Len(m) \in Nat /\ \A i \in 1 .. Len(m) : m[i] \in Nat
  BY LenProperties, ElementOfSeq
<1>2. ASSUME NEW i \in 1 .. Len(m), NEW j \in 1 .. Len(m), m[i] = m[j] PROVE i = j
  <2>1. ~(i < j) /\ ~(j < i)
    BY <1>1, <1>2 DEF Rising
  <2> QED BY <1>1, <2>1
<1>3. ASSUME NEW i \in 1 .. Len(m)
      PROVE  (CHOOSE j \in DOMAIN m : m[j] = m[i]) = i
  BY <1>1, <1>2
<1> QED BY <1>1, <1>3 DEF Record

LEMMA RecordIsFunction ==
    ASSUME NEW m, NEW w, NEW D, DOMAIN Record(m, w) = D
    PROVE  Record(m, w) = [f \in D |-> Record(m, w)[f]]
BY DEF Record

LEMMA RecordNone == Record(<<>>, <<>>) = <<>>
<1>1. <<>> \in Seq({}) /\ Len(<<>>) = 0
  BY EmptySeq
<1>2. DOMAIN <<>> = {}
  BY <1>1, LenProperties
<1>3. Record(<<>>, <<>>) \in [{} -> {}]
  BY <1>2 DEF Record
<1>4. <<>> \in [{} -> {}]
  BY <1>1, <1>2, LenProperties
<1> QED BY <1>3, <1>4

\* The oldest of a record gone, the newest gone, and one more.
LEMMA RecordTrim ==
    ASSUME NEW m \in Seq(Nat), NEW w \in Seq(States), Len(w) = Len(m), Rising(m),
           NEW n \in 0 .. Len(m)
    PROVE  Record(SubSeq(m, n + 1, Len(m)), SubSeq(w, n + 1, Len(m)))
              \in History!Trimmed(Record(m, w))
<1> DEFINE l == Len(m)
           mm == SubSeq(m, n + 1, l)
           ww == SubSeq(w, n + 1, l)
           h == Record(m, w)
<1>1. l \in Nat /\ n \in Nat /\ \A i \in 1 .. l : m[i] \in Nat
  BY LenProperties, ElementOfSeq
<1>2. /\ mm \in Seq(Nat) /\ Len(mm) = l - n /\ \A i \in 1 .. l - n : mm[i] = m[n + i]
      /\ ww \in Seq(States) /\ Len(ww) = l - n /\ \A i \in 1 .. l - n : ww[i] = w[n + i]
  <2>1. /\ mm \in Seq(Nat) /\ Len(mm) = l - (n + 1) + 1
        /\ \A i \in 1 .. l - (n + 1) + 1 : mm[i] = m[(n + 1) + i - 1]
        /\ ww \in Seq(States) /\ Len(ww) = l - (n + 1) + 1
        /\ \A i \in 1 .. l - (n + 1) + 1 : ww[i] = w[(n + 1) + i - 1]
    BY <1>1, SubSeqOf
  <2>2. l - (n + 1) + 1 = l - n /\ \A i \in 1 .. l - n : (n + 1) + i - 1 = n + i
    BY <1>1
  <2> HIDE DEF mm, ww, l
  <2> QED BY <2>1, <2>2
<1>3. Rising(mm)
  <2>1. DOMAIN mm = 1 .. l - n /\ DOMAIN m = 1 .. l
    BY <1>2, LenProperties
  <2> HIDE DEF mm, l
  <2>2. ASSUME NEW i \in 1 .. l - n, NEW j \in 1 .. l - n, i < j PROVE mm[i] < mm[j]
    <3>1. n + i \in 1 .. l /\ n + j \in 1 .. l /\ n + i < n + j
      BY <1>1, <2>2
    <3> QED BY <1>2, <2>1, <3>1 DEF Rising
  <2> QED BY <2>1, <2>2 DEF Rising
<1>4. /\ DOMAIN h = {m[i] : i \in 1 .. l} /\ \A i \in 1 .. l : h[m[i]] = w[i]
      /\ DOMAIN Record(mm, ww) = {mm[i] : i \in 1 .. l - n}
      /\ \A i \in 1 .. l - n : Record(mm, ww)[mm[i]] = ww[i]
  <2>1. Rising(m)
    OBVIOUS
  <2>2. DOMAIN h = {m[i] : i \in 1 .. l} /\ \A i \in 1 .. l : h[m[i]] = w[i]
    BY <2>1, RecordAt
  <2> HIDE DEF mm, ww, h
  <2>3. /\ DOMAIN Record(mm, ww) = {mm[i] : i \in 1 .. Len(mm)}
        /\ \A i \in 1 .. Len(mm) : Record(mm, ww)[mm[i]] = ww[i]
    BY <1>2, <1>3, RecordAt
  <2> QED BY <1>2, <2>2, <2>3
<1>5. CASE n = l
  <2>1. mm = <<>> /\ ww = <<>>
    BY <1>1, <1>5, SubSeqEmpty
  <2> QED BY <2>1, RecordNone DEF History!Trimmed
<1>6. CASE n < l
  <2> DEFINE r == Record(mm, ww)
             D == {f \in DOMAIN h : f >= m[n + 1]}
  <2>0. DOMAIN m = 1 .. l
    BY LenProperties
  <2>1. n + 1 \in 1 .. l
    BY <1>1, <1>6
  <2> HIDE DEF mm, ww, h, l
  <2>2. DOMAIN r = D
    <3>1. ASSUME NEW f \in DOMAIN r PROVE f \in D
      <4>1. PICK i \in 1 .. l - n : f = mm[i]
        BY <1>4
      <4>2. n + i \in 1 .. l /\ f = m[n + i]
        BY <1>1, <1>2, <4>1
      <4>3. i = 1 \/ n + 1 < n + i
        BY <1>1, <4>1
      <4>4. m[n + i] >= m[n + 1]
        <5>1. n + 1 < n + i => m[n + 1] < m[n + i]
          BY <2>0, <2>1, <4>2 DEF Rising
        <5>2. m[n + 1] \in Nat /\ m[n + i] \in Nat
          BY <1>1, <2>1, <4>2
        <5> QED BY <4>3, <5>1, <5>2
      <4> QED BY <1>4, <4>2, <4>4
    <3>2. ASSUME NEW f \in D PROVE f \in DOMAIN r
      <4>1. PICK i \in 1 .. l : f = m[i]
        BY <1>4
      <4>2. i >= n + 1
        <5>2. i < n + 1 => m[i] < m[n + 1]
          BY <2>0, <2>1 DEF Rising
        <5>3. m[i] >= m[n + 1] /\ m[i] \in Nat /\ m[n + 1] \in Nat
          BY <1>1, <2>1, <4>1
        <5> QED BY <1>1, <4>1, <5>2, <5>3
      <4>3. i - n \in 1 .. l - n /\ n + (i - n) = i
        BY <1>1, <4>1, <4>2
      <4> QED BY <1>2, <1>4, <4>1, <4>3
    <3> QED BY <3>1, <3>2
  <2>3. ASSUME NEW f \in D PROVE r[f] = h[f]
    <3>0. f \in DOMAIN Record(mm, ww)
      BY <2>2
    <3> HIDE DEF r, D
    <3>1. PICK i \in 1 .. l - n : f = mm[i]
      BY <1>4, <3>0
    <3>2. n + i \in 1 .. l /\ mm[i] = m[n + i] /\ ww[i] = w[n + i]
      BY <1>1, <1>2, <3>1
    <3> QED BY <1>4, <3>1, <3>2 DEF r
  <2>4. r = History!Restrict(h, D)
    <3>1. r = [f \in D |-> r[f]]
      <4> HIDE DEF mm, ww, D
      <4> QED BY <2>2, RecordIsFunction
    <3> HIDE DEF r, D, h
    <3> QED BY <2>3, <3>1 DEF History!Restrict
  <2>5. m[n + 1] \in DOMAIN h
    BY <1>4, <2>1
  <2> QED BY <2>4, <2>5 DEF History!Trimmed, h, mm, ww, l
<1>7. n <= l
  BY <1>1
<1> QED BY <1>1, <1>5, <1>6, <1>7

LEMMA RecordAll ==
    ASSUME NEW m \in Seq(Nat), NEW w \in Seq(States), Len(w) = Len(m), Rising(m)
    PROVE  Record(m, w) \in History!Trimmed(Record(m, w))
<1>1. Len(m) \in Nat /\ 0 \in 0 .. Len(m) /\ 0 + 1 = 1
  BY LenProperties
<1>2. SubSeq(m, 1, Len(m)) = m /\ SubSeq(w, 1, Len(m)) = w
  BY SubSeqFull
<1> QED BY <1>1, <1>2, RecordTrim

LEMMA RecordPrefix ==
    ASSUME NEW m \in Seq(Nat), NEW w \in Seq(States), Len(w) = Len(m), Rising(m),
           NEW k \in 1 .. Len(m)
    PROVE  /\ Record(SubSeq(m, 1, k), SubSeq(w, 1, k))
                = History!Restrict(Record(m, w), {f \in DOMAIN Record(m, w) : f <= m[k]})
           /\ Rising(SubSeq(m, 1, k))
<1> DEFINE l == Len(m)
           mm == SubSeq(m, 1, k)
           ww == SubSeq(w, 1, k)
           h == Record(m, w)
           r == Record(mm, ww)
           D == {f \in DOMAIN h : f <= m[k]}
<1>1. l \in Nat /\ k \in Nat /\ DOMAIN m = 1 .. l /\ \A i \in 1 .. l : m[i] \in Nat
  BY LenProperties, ElementOfSeq
<1>2. /\ mm \in Seq(Nat) /\ Len(mm) = k /\ \A i \in 1 .. k : mm[i] = m[i]
      /\ ww \in Seq(States) /\ Len(ww) = k /\ \A i \in 1 .. k : ww[i] = w[i]
  <2>1. /\ mm \in Seq(Nat) /\ Len(mm) = k - 1 + 1
        /\ \A i \in 1 .. k - 1 + 1 : mm[i] = m[1 + i - 1]
        /\ ww \in Seq(States) /\ Len(ww) = k - 1 + 1
        /\ \A i \in 1 .. k - 1 + 1 : ww[i] = w[1 + i - 1]
    BY <1>1, SubSeqOf
  <2>2. k - 1 + 1 = k /\ \A i \in 1 .. k : 1 + i - 1 = i
    BY <1>1
  <2> HIDE DEF mm, ww
  <2> QED BY <2>1, <2>2
<1>3. DOMAIN mm = 1 .. k
  BY <1>2, LenProperties
<1>4. DOMAIN h = {m[i] : i \in 1 .. l} /\ \A i \in 1 .. l : h[m[i]] = w[i]
  <2>1. Rising(m)
    OBVIOUS
  <2> QED BY <2>1, RecordAt
<1>5. \A i, j \in 1 .. l : i < j => m[i] < m[j]
  BY <1>1 DEF Rising
<1> HIDE DEF mm, ww, h, l
<1>6. Rising(mm)
  <2>1. 1 .. k \subseteq 1 .. l
    BY <1>1 DEF l
  <2> QED BY <1>2, <1>3, <1>5, <2>1 DEF Rising
<1>7. /\ DOMAIN r = {mm[i] : i \in 1 .. Len(mm)}
      /\ \A i \in 1 .. Len(mm) : r[mm[i]] = ww[i]
  <2>1. /\ DOMAIN Record(mm, ww) = {mm[i] : i \in 1 .. Len(mm)}
        /\ \A i \in 1 .. Len(mm) : Record(mm, ww)[mm[i]] = ww[i]
    <3> HIDE DEF r, D
    <3>1. mm \in Seq(Nat) /\ Rising(mm)
      BY <1>2, <1>6
    <3> QED BY <3>1, RecordAt
  <2> QED BY <2>1, Zenon
<1> HIDE DEF r
<1>8. \A i \in 1 .. l : m[i] <= m[k] <=> i <= k
  <2> SUFFICES ASSUME NEW i \in 1 .. l PROVE m[i] <= m[k] <=> i <= k
    OBVIOUS
  <2>1. k \in 1 .. l /\ m[i] \in Nat /\ m[k] \in Nat /\ i \in Nat
    BY <1>1 DEF l
  <2>2. i < k => m[i] < m[k]
    BY <1>5, <2>1
  <2>3. k < i => m[k] < m[i]
    BY <1>5, <2>1
  <2> QED BY <1>1, <2>1, <2>2, <2>3
<1>9. DOMAIN r = D
  <2>1. ASSUME NEW f \in DOMAIN r PROVE f \in D
    <3>1. PICK i \in 1 .. k : f = mm[i]
      BY <1>2, <1>7
    <3>2. i \in 1 .. l /\ i <= k /\ f = m[i]
      BY <1>1, <1>2, <3>1 DEF l
    <3> QED BY <1>4, <1>8, <3>2
  <2>2. ASSUME NEW f \in D PROVE f \in DOMAIN r
    <3>1. PICK i \in 1 .. l : f = m[i]
      BY <1>4
    <3>2. i \in 1 .. k
      BY <1>1, <1>8, <3>1 DEF l
    <3> QED BY <1>2, <1>7, <3>1, <3>2
  <2> QED BY <2>1, <2>2
<1>10. ASSUME NEW f \in D PROVE r[f] = h[f]
  <2>0. f \in DOMAIN r
    BY <1>9
  <2> HIDE DEF D
  <2>1. PICK i \in 1 .. k : f = mm[i]
    BY <1>2, <1>7, <2>0
  <2>2. i \in 1 .. l /\ f = m[i] /\ mm[i] = m[i] /\ ww[i] = w[i] /\ i \in 1 .. Len(mm)
    BY <1>1, <1>2, <2>1 DEF l
  <2> QED BY <1>4, <1>7, <2>1, <2>2
<1>11. r = [f \in D |-> r[f]]
  <2> HIDE DEF D
  <2> QED BY <1>9, RecordIsFunction DEF r
<1>12. r = History!Restrict(h, D)
  <2> HIDE DEF D
  <2> QED BY <1>10, <1>11 DEF History!Restrict
<1> QED BY <1>6, <1>12 DEF r, h, mm, ww

LEMMA RecordMore ==
    ASSUME NEW m \in Seq(Nat), NEW w \in Seq(States), Len(w) = Len(m), Rising(m),
           NEW f \in Nat, NEW s \in States, \A i \in 1 .. Len(m) : m[i] < f
    PROVE  /\ Record(Append(m, f), Append(w, s)) = History!With(Record(m, w), f, s)
           /\ Rising(Append(m, f))
           /\ \A g \in DOMAIN Record(m, w) : f > g
           /\ f \in DOMAIN Record(Append(m, f), Append(w, s))
<1> DEFINE l == Len(m)
           mm == Append(m, f)
           ww == Append(w, s)
           h == Record(m, w)
           r == Record(mm, ww)
           D == DOMAIN h \union {f}
<1>1. l \in Nat /\ DOMAIN m = 1 .. l /\ \A i \in 1 .. l : m[i] \in Nat
  BY LenProperties, ElementOfSeq
<1>2. /\ mm \in Seq(Nat) /\ Len(mm) = l + 1
      /\ \A i \in 1 .. l : mm[i] = m[i]
      /\ mm[l + 1] = f
      /\ ww \in Seq(States) /\ Len(ww) = l + 1
      /\ \A i \in 1 .. l : ww[i] = w[i]
      /\ ww[l + 1] = s
  BY AppendProperties
<1>3. DOMAIN mm = 1 .. l + 1
  BY <1>2, LenProperties
<1>4. DOMAIN h = {m[i] : i \in 1 .. l} /\ \A i \in 1 .. l : h[m[i]] = w[i]
  <2>1. Rising(m)
    OBVIOUS
  <2> QED BY <2>1, RecordAt
<1>5. \A i, j \in 1 .. l : i < j => m[i] < m[j]
  BY <1>1 DEF Rising
<1>6. \A i \in 1 .. l : m[i] < f
  OBVIOUS
<1> HIDE DEF mm, ww, h, l
<1>7. Rising(mm)
  <2>1. ASSUME NEW i \in 1 .. l + 1, NEW j \in 1 .. l + 1, i < j PROVE mm[i] < mm[j]
    <3>1. i \in 1 .. l
      BY <1>1, <2>1
    <3>2. CASE j = l + 1
      BY <1>2, <1>6, <3>1, <3>2
    <3>3. CASE j # l + 1
      <4>1. j \in 1 .. l
        BY <1>1, <3>3
      <4> QED BY <1>2, <1>5, <2>1, <3>1, <4>1
    <3> QED BY <3>2, <3>3
  <2> QED BY <1>3, <2>1 DEF Rising
<1>8. /\ DOMAIN r = {mm[i] : i \in 1 .. Len(mm)}
      /\ \A i \in 1 .. Len(mm) : r[mm[i]] = ww[i]
  <2>1. /\ DOMAIN Record(mm, ww) = {mm[i] : i \in 1 .. Len(mm)}
        /\ \A i \in 1 .. Len(mm) : Record(mm, ww)[mm[i]] = ww[i]
    <3> HIDE DEF r, D
    <3>1. mm \in Seq(Nat) /\ Rising(mm)
      BY <1>2, <1>7
    <3> QED BY <3>1, RecordAt
  <2> QED BY <2>1, Zenon
<1> HIDE DEF r
<1>9. \A g \in DOMAIN h : f > g
  BY <1>1, <1>4, <1>6
<1>10. 1 .. l + 1 = (1 .. l) \cup {l + 1}
  BY <1>1
<1>11. DOMAIN r = D
  <2>1. \A i \in 1 .. l : mm[i] \in D
    BY <1>2, <1>4
  <2>2. \A g \in D : \E i \in 1 .. l + 1 : mm[i] = g
    BY <1>2, <1>4, <1>10
  <2>3. DOMAIN r = {mm[i] : i \in 1 .. l + 1}
    BY <1>2, <1>8
  <2>4. f \in D /\ mm[l + 1] = f
    BY <1>2
  <2> HIDE DEF D
  <2>5. \A i \in 1 .. l + 1 : mm[i] \in D
    BY <1>10, <2>1, <2>4
  <2> QED BY <2>2, <2>3, <2>5
<1>12. ASSUME NEW g \in D PROVE r[g] = IF g = f THEN s ELSE h[g]
  <2>1. CASE g = f
    <3>1. l + 1 \in 1 .. Len(mm) /\ mm[l + 1] = f /\ ww[l + 1] = s
      BY <1>1, <1>2
    <3> QED BY <1>8, <2>1, <3>1
  <2>2. CASE g # f
    <3>1. PICK i \in 1 .. l : g = m[i]
      BY <1>4, <2>2
    <3>2. i \in 1 .. Len(mm) /\ mm[i] = m[i] /\ ww[i] = w[i]
      BY <1>1, <1>2
    <3> QED BY <1>4, <1>8, <2>2, <3>1, <3>2
  <2> QED BY <2>1, <2>2
<1>13. r = [g \in D |-> r[g]]
  <2> HIDE DEF D
  <2> QED BY <1>11, RecordIsFunction DEF r
<1>14. r = History!With(h, f, s)
  <2>1. History!With(h, f, s) = [g \in D |-> IF g = f THEN s ELSE h[g]]
    BY DEF History!With
  <2> HIDE DEF D
  <2> QED BY <1>12, <1>13, <2>1
<1>15. f \in DOMAIN r
  BY <1>11
<1> QED BY <1>7, <1>9, <1>14, <1>15 DEF r, h, mm, ww

-----------------------------------------------------------------------------
(* Chains.                                                                 *)

Chains == [newest : States \union {NoState}, deltas : Seq(Deltas),
           delta_bytes : Nat, moments : Seq(Nat), encoding : BOOLEAN]

\* A chain with its newest snapshot whole, and one whose last pair is encoding.
Whole(c) == c.newest \in States /\ ~c.encoding /\ Len(c.moments) = Len(c.deltas) + 1
Out(c) == c.newest = NoState /\ c.encoding /\ Len(c.moments) = Len(c.deltas) + 2

ChainInv(c) ==
    /\ c \in Chains
    /\ c = EmptyChain \/ Whole(c) \/ Out(c)
    /\ c.delta_bytes = SizeOf(c.deltas)
    /\ Rising(c.moments)

\* w is the whole snapshots behind chain c, with the job j out.
LastOf(c, j) == IF c.encoding THEN j.previous ELSE c.newest
Keeps(w, c, j) ==
    /\ w \in Seq(States) /\ Len(w) = Len(c.moments)
    /\ Linked(w, c.deltas)
    /\ c.moments # <<>> => w[Len(c.deltas) + 1] = LastOf(c, j)
    /\ c.encoding => w[Len(c.deltas) + 2] = j.state

UnwoundOf(c, j, n) == Apply(LastOf(c, j), Together(Newest(c.deltas, n)))
HeldAtOf(c, j, i) ==
    LET fromNewest == Len(c.moments) - i
    IN  IF ~c.encoding THEN UnwoundOf(c, j, fromNewest)
        ELSE IF fromNewest = 0 THEN j.state
        ELSE UnwoundOf(c, j, fromNewest - 1)
HeldOf(c, j) == [f \in {c.moments[i] : i \in DOMAIN c.moments} |->
                    HeldAtOf(c, j, CHOOSE i \in DOMAIN c.moments : c.moments[i] = f)]

LEMMA ChainParts ==
    ASSUME NEW c \in Chains
    PROVE  /\ c.newest \in States \union {NoState} /\ c.deltas \in Seq(Deltas)
           /\ c.delta_bytes \in Nat /\ c.moments \in Seq(Nat) /\ c.encoding \in BOOLEAN
           /\ Len(c.deltas) \in Nat /\ Len(c.moments) \in Nat
BY LenProperties DEF Chains

LEMMA EmptyParts ==
    /\ EmptyChain.moments = <<>> /\ EmptyChain.deltas = <<>> /\ EmptyChain.newest = NoState
    /\ EmptyChain.encoding = FALSE /\ EmptyChain.delta_bytes = 0
    /\ Len(EmptyChain.moments) = 0 /\ Len(EmptyChain.deltas) = 0
BY EmptySeq DEF EmptyChain

LEMMA EmptyIsAChain ==
    /\ ChainInv(EmptyChain)
    /\ \A j : Keeps(<<>>, EmptyChain, j)
<1>1. EmptyChain \in Chains
  <2>1. <<>> \in Seq(Deltas) /\ <<>> \in Seq(Nat)
    BY EmptySeq
  <2> QED BY <2>1 DEF EmptyChain, Chains
<1>2. DOMAIN <<>> = {}
  <2>1. <<>> \in Seq({}) /\ Len(<<>>) = 0
    BY EmptySeq
  <2> QED BY <2>1, LenProperties
<1>3. Rising(<<>>)
  BY <1>2 DEF Rising
<1>4. ChainInv(EmptyChain)
  BY <1>1, <1>3, EmptyParts, SizeOfNone DEF ChainInv
<1>5. ASSUME NEW j PROVE Keeps(<<>>, EmptyChain, j)
  <2>1. <<>> \in Seq(States) /\ Len(<<>>) = 0
    BY EmptySeq
  <2>2. Linked(<<>>, EmptyChain.deltas)
    BY EmptyParts DEF Linked
  <2> QED BY <2>1, <2>2, EmptyParts DEF Keeps
<1> QED BY <1>4, <1>5

\* What the chain holds for a moment is the snapshot behind it.
LEMMA HeldAtIs ==
    ASSUME NEW c, NEW w, NEW j, ChainInv(c), Keeps(w, c, j),
           NEW i \in 1 .. Len(c.moments)
    PROVE  HeldAtOf(c, j, i) = w[i]
<1> DEFINE l == Len(c.deltas)
           x == Len(c.moments)
<1>1. c \in Chains /\ c.deltas \in Seq(Deltas) /\ l \in Nat /\ x \in Nat
  BY ChainParts DEF ChainInv
<1>2. c.moments # <<>>
  <2>1. Len(c.moments) # 0
    OBVIOUS
  <2> QED BY <2>1, EmptySeq
<1>3. Whole(c) \/ Out(c)
  BY <1>2, EmptyParts DEF ChainInv
<1>4. w \in Seq(States) /\ Len(w) = x /\ Linked(w, c.deltas) /\ w[l + 1] = LastOf(c, j)
  BY <1>2 DEF Keeps
<1>5. l + 1 <= x
  BY <1>1, <1>3 DEF Whole, Out
<1>6. \A n \in 0 .. l : UnwoundOf(c, j, n) = w[l + 1 - n]
  <2>1. \A n \in 0 .. l : Apply(w[l + 1], Together(Newest(c.deltas, n))) = w[l + 1 - n]
    BY <1>1, <1>4, <1>5, Unwinding
  <2> HIDE DEF l
  <2> QED BY <1>4, <2>1 DEF UnwoundOf
<1> HIDE DEF l, x
<1>7. CASE Whole(c)
  <2>1. x = l + 1 /\ ~c.encoding
    BY <1>7 DEF Whole, l, x
  <2>2. x - i \in 0 .. l /\ l + 1 - (x - i) = i
    BY <1>1, <2>1 DEF x
  <2>3. UnwoundOf(c, j, x - i) = w[i]
    BY <1>6, <2>2
  <2> QED BY <2>1, <2>3 DEF HeldAtOf, x
<1>8. CASE Out(c)
  <2>1. x = l + 2 /\ c.encoding /\ w[l + 2] = j.state
    BY <1>8 DEF Out, l, x, Keeps
  <2>2. CASE x - i = 0
    <3>1. i = l + 2
      BY <1>1, <2>1, <2>2 DEF x
    <3> QED BY <2>1, <2>2, <3>1 DEF HeldAtOf, x
  <2>3. CASE x - i # 0
    <3>1. x - i - 1 \in 0 .. l /\ l + 1 - (x - i - 1) = i
      BY <1>1, <2>1, <2>3 DEF x
    <3>2. UnwoundOf(c, j, x - i - 1) = w[i]
      BY <1>6, <3>1
    <3> QED BY <2>1, <2>3, <3>2 DEF HeldAtOf, x
  <2> QED BY <2>2, <2>3
<1> QED BY <1>3, <1>7, <1>8

LEMMA HeldIsRecord ==
    ASSUME NEW c, NEW w, NEW j, ChainInv(c), Keeps(w, c, j)
    PROVE  HeldOf(c, j) = Record(c.moments, w)
<1> DEFINE m == c.moments
<1>1. DOMAIN m = 1 .. Len(m)
  BY LenProperties, ChainParts DEF ChainInv
<1>2. ASSUME NEW f \in {m[i] : i \in DOMAIN m}
      PROVE  HeldAtOf(c, j, CHOOSE i \in DOMAIN m : m[i] = f) = w[CHOOSE i \in DOMAIN m : m[i] = f]
  <2>1. (CHOOSE i \in DOMAIN m : m[i] = f) \in DOMAIN m
    OBVIOUS
  <2> QED BY <1>1, <2>1, HeldAtIs
<1> QED BY <1>2 DEF HeldOf, Record

\* The job given back joined to the chain.
JoinedWith(c, j) == [c EXCEPT !.encoding = FALSE,
                              !.newest = j.state,
                              !.deltas = Append(@, j.delta),
                              !.delta_bytes = @ + Size(j.delta)]

LEMMA JobParts ==
    ASSUME NEW j \in Jobs
    PROVE  j.previous \in States /\ j.state \in States /\ j.delta \in Deltas
BY DEF Jobs

LEMMA JoinedParts ==
    ASSUME NEW c \in Chains, NEW j \in Jobs
    PROVE  /\ JoinedWith(c, j).encoding = FALSE
           /\ JoinedWith(c, j).newest = j.state
           /\ JoinedWith(c, j).deltas = Append(c.deltas, j.delta)
           /\ JoinedWith(c, j).delta_bytes = c.delta_bytes + Size(j.delta)
           /\ JoinedWith(c, j).moments = c.moments
           /\ JoinedWith(c, j) \in Chains
<1>1. /\ c.deltas \in Seq(Deltas) /\ c.delta_bytes \in Nat
      /\ j.state \in States /\ j.delta \in Deltas /\ Size(j.delta) \in Nat
  BY ChainParts, JobParts, DeltasAreFinite
<1>2. Append(c.deltas, j.delta) \in Seq(Deltas) /\ c.delta_bytes + Size(j.delta) \in Nat
  BY <1>1, AppendProperties
<1>3. JoinedWith(c, j) \in Chains
  BY <1>1, <1>2 DEF JoinedWith, Chains
<1> QED BY <1>3 DEF JoinedWith, Chains

LEMMA JoinKeeps ==
    ASSUME NEW c, NEW w, NEW j \in Jobs, ChainInv(c), Out(c), Keeps(w, c, j),
           j.previous.length = j.state.length, j.delta = Delta(j.previous, j.state)
    PROVE  /\ ChainInv(JoinedWith(c, j)) /\ Whole(JoinedWith(c, j))
           /\ \A k : Keeps(w, JoinedWith(c, j), k)
<1> DEFINE d == JoinedWith(c, j)
           l == Len(c.deltas)
<1>1. c \in Chains /\ c.deltas \in Seq(Deltas) /\ l \in Nat /\ c.moments \in Seq(Nat)
  BY ChainParts DEF ChainInv
<1>2. /\ d.encoding = FALSE /\ d.newest = j.state /\ d.deltas = Append(c.deltas, j.delta)
      /\ d.delta_bytes = c.delta_bytes + Size(j.delta) /\ d.moments = c.moments
      /\ d \in Chains
  BY <1>1, JoinedParts
<1>3. j.previous \in States /\ j.state \in States /\ j.delta \in Deltas
  BY JobParts
<1>4. /\ Len(d.deltas) = l + 1 /\ \A i \in 1 .. l : d.deltas[i] = c.deltas[i]
      /\ d.deltas[l + 1] = j.delta
  BY <1>1, <1>2, <1>3, AppendProperties
<1>5. Len(c.moments) = l + 2 /\ c.encoding
  BY DEF Out
<1>6. /\ w \in Seq(States) /\ Len(w) = Len(c.moments) /\ Linked(w, c.deltas)
      /\ w[l + 1] = j.previous /\ w[l + 2] = j.state
  <2>1. c.moments # <<>>
    <3>1. Len(c.moments) # 0
      BY <1>1, <1>5
    <3> QED BY <3>1, EmptySeq
  <2> QED BY <1>5, <2>1 DEF Keeps, LastOf
<1>7. Whole(d)
  <2>1. Len(d.moments) = (l + 1) + 1
    BY <1>1, <1>2, <1>5
  <2> QED BY <1>2, <1>3, <1>4, <2>1 DEF Whole
<1>8. d.delta_bytes = SizeOf(d.deltas)
  BY <1>1, <1>2, <1>3, SizeOfOneMore DEF ChainInv
<1>9. ChainInv(d)
  BY <1>2, <1>7, <1>8 DEF ChainInv
<1>10. Linked(w, d.deltas)
  <2>1. w[l + 1] = Apply(w[(l + 1) + 1], d.deltas[l + 1])
    <3>1. Apply(j.state, Delta(j.previous, j.state)) = j.previous
      BY <1>3, DeltaUndoes
    <3>2. (l + 1) + 1 = l + 2
      BY <1>1
    <3> QED BY <1>4, <1>6, <3>1, <3>2
  <2>2. \A i \in 1 .. l : w[i] = Apply(w[i + 1], d.deltas[i])
    BY <1>4, <1>6 DEF Linked
  <2>3. 1 .. l + 1 = (1 .. l) \cup {l + 1}
    BY <1>1
  <2> HIDE DEF d, l
  <2>4. \A i \in 1 .. l + 1 : w[i] = Apply(w[i + 1], d.deltas[i])
    BY <2>1, <2>2, <2>3
  <2> QED BY <1>4, <2>4 DEF Linked
<1>11. ASSUME NEW k PROVE Keeps(w, d, k)
  <2>1. w[Len(d.deltas) + 1] = LastOf(d, k)
    <3>1. (l + 1) + 1 = l + 2
      BY <1>1
    <3> QED BY <1>2, <1>4, <1>6, <3>1 DEF LastOf
  <2> QED BY <1>2, <1>6, <1>10, <2>1 DEF Keeps
<1> QED BY <1>7, <1>9, <1>11

-----------------------------------------------------------------------------
(* The oldest dropped.                                                     *)

LEMMA RisingPart ==
    ASSUME NEW m \in Seq(Nat), Rising(m), NEW a \in Nat, NEW b \in Nat,
           1 <= a, a <= b + 1, b <= Len(m)
    PROVE  Rising(SubSeq(m, a, b))
<1> DEFINE mm == SubSeq(m, a, b)
<1>1. Len(m) \in Nat /\ DOMAIN m = 1 .. Len(m)
  BY LenProperties
<1>2. /\ mm \in Seq(Nat) /\ Len(mm) = b - a + 1
      /\ \A i \in 1 .. b - a + 1 : mm[i] = m[a + i - 1]
  BY SubSeqOf
<1>3. DOMAIN mm = 1 .. b - a + 1
  BY <1>2, LenProperties
<1> HIDE DEF mm
<1>4. ASSUME NEW i \in 1 .. b - a + 1, NEW j \in 1 .. b - a + 1, i < j PROVE mm[i] < mm[j]
  <2>1. a + i - 1 \in DOMAIN m /\ a + j - 1 \in DOMAIN m /\ a + i - 1 < a + j - 1
    BY <1>1, <1>4
  <2> QED BY <1>2, <2>1 DEF Rising
<1>5. Rising(mm)
  BY <1>3, <1>4 DEF Rising
<1> QED BY <1>5 DEF mm

LEMMA DropParts ==
    ASSUME NEW c \in Chains, c.delta_bytes = SizeOf(c.deltas), NEW n \in 0 .. Len(c.deltas)
    PROVE  LET d == DropOldest(c, n)
           IN  /\ d.newest = c.newest /\ d.encoding = c.encoding
               /\ d.deltas = SubSeq(c.deltas, n + 1, Len(c.deltas))
               /\ d.moments = SubSeq(c.moments, n + 1, Len(c.moments))
               /\ d.delta_bytes = c.delta_bytes - SizeOf(Oldest(c.deltas, n))
               /\ d.delta_bytes = SizeOf(d.deltas) /\ d.delta_bytes \in Nat
<1> DEFINE d == DropOldest(c, n)
<1>1. /\ d.newest = c.newest /\ d.encoding = c.encoding
      /\ d.deltas = SubSeq(c.deltas, n + 1, Len(c.deltas))
      /\ d.moments = SubSeq(c.moments, n + 1, Len(c.moments))
      /\ d.delta_bytes = c.delta_bytes - SizeOf(Oldest(c.deltas, n))
  BY DEF DropOldest, Chains
<1>2. /\ SizeOf(Oldest(c.deltas, n)) \in Nat
      /\ SizeOf(SubSeq(c.deltas, n + 1, Len(c.deltas))) \in Nat
      /\ SizeOf(c.deltas) = SizeOf(Oldest(c.deltas, n)) + SizeOf(SubSeq(c.deltas, n + 1, Len(c.deltas)))
  BY ChainParts, SizeSplit
<1> HIDE DEF d
<1>3. d.delta_bytes = SizeOf(d.deltas) /\ d.delta_bytes \in Nat
  BY <1>1, <1>2
<1> QED BY <1>1, <1>3 DEF d

LEMMA DropKeeps ==
    ASSUME NEW c, NEW w, NEW j, ChainInv(c), Whole(c), Keeps(w, c, j),
           NEW n \in 0 .. Len(c.deltas)
    PROVE  LET d == DropOldest(c, n)
           IN  /\ ChainInv(d) /\ Whole(d)
               /\ \A k : Keeps(SubSeq(w, n + 1, Len(w)), d, k)
               /\ d.newest = c.newest
               /\ d.moments # <<>> /\ Last(d.moments) = Last(c.moments)
<1> DEFINE d == DropOldest(c, n)
           l == Len(c.deltas)
           v == SubSeq(w, n + 1, Len(w))
           x == Len(c.moments)
<1>1. /\ c \in Chains /\ c.deltas \in Seq(Deltas) /\ l \in Nat /\ c.moments \in Seq(Nat)
      /\ c.newest \in States \union {NoState} /\ c.delta_bytes = SizeOf(c.deltas)
      /\ Rising(c.moments)
  BY ChainParts DEF ChainInv
<1>2. x = l + 1 /\ ~c.encoding /\ c.newest \in States
  BY DEF Whole
<1>3. /\ w \in Seq(States) /\ Len(w) = x /\ Linked(w, c.deltas) /\ w[l + 1] = c.newest
  <2>1. c.moments # <<>>
    BY <1>1, <1>2, EmptySeq
  <2> QED BY <1>2, <2>1 DEF Keeps, LastOf
<1>4. /\ d.newest = c.newest /\ d.encoding = c.encoding
      /\ d.deltas = SubSeq(c.deltas, n + 1, l)
      /\ d.moments = SubSeq(c.moments, n + 1, x)
      /\ d.delta_bytes = SizeOf(d.deltas) /\ d.delta_bytes \in Nat
  BY <1>1, DropParts
<1>5. n \in Nat /\ n <= l /\ n + 1 \in Nat /\ x \in Nat /\ l - (n + 1) + 1 = l - n /\ x - (n + 1) + 1 = x - n
  BY <1>1, <1>2
<1> HIDE DEF d, l, x
<1>6. /\ d.deltas \in Seq(Deltas) /\ Len(d.deltas) = l - n
      /\ \A i \in 1 .. l - n : d.deltas[i] = c.deltas[(n + 1) + i - 1]
  <2>1. 1 <= n + 1 /\ n + 1 <= l + 1 /\ l <= Len(c.deltas)
    BY <1>1, <1>5 DEF l
  <2> QED BY <1>1, <1>4, <1>5, <2>1, SubSeqOf
<1>7. /\ d.moments \in Seq(Nat) /\ Len(d.moments) = x - n
      /\ \A i \in 1 .. x - n : d.moments[i] = c.moments[(n + 1) + i - 1]
      /\ Rising(d.moments)
  <2>1. 1 <= n + 1 /\ n + 1 <= x + 1 /\ x <= Len(c.moments)
    BY <1>1, <1>2, <1>5 DEF x
  <2>2. Rising(SubSeq(c.moments, n + 1, x))
    BY <1>1, <1>5, <2>1, RisingPart
  <2> QED BY <1>1, <1>4, <1>5, <2>1, <2>2, SubSeqOf
<1>8. /\ v \in Seq(States) /\ Len(v) = x - n
      /\ \A i \in 1 .. x - n : v[i] = w[(n + 1) + i - 1]
  <2>1. 1 <= n + 1 /\ n + 1 <= x + 1 /\ x <= Len(w)
    BY <1>1, <1>2, <1>3, <1>5
  <2> QED BY <1>3, <1>5, <2>1, SubSeqOf
<1> HIDE DEF v
<1>9. Whole(d)
  BY <1>1, <1>2, <1>4, <1>5, <1>6, <1>7 DEF Whole
<1>10. d \in Chains
  <2>1. SubSeq(c.deltas, n + 1, Len(c.deltas)) \in Seq(Deltas)
    BY <1>4, <1>6 DEF l
  <2>2. SubSeq(c.moments, n + 1, Len(c.moments)) \in Seq(Nat)
    BY <1>4, <1>7 DEF x
  <2>3. c.delta_bytes - SizeOf(Oldest(c.deltas, n)) \in Nat
    BY <1>1, DropParts DEF l
  <2> QED BY <1>1, <2>1, <2>2, <2>3 DEF d, DropOldest, Chains
<1>11. ChainInv(d)
  BY <1>4, <1>7, <1>9, <1>10 DEF ChainInv
<1>12. Linked(v, d.deltas)
  <2>1. ASSUME NEW i \in 1 .. l - n PROVE v[i] = Apply(v[i + 1], d.deltas[i])
    <3>1. /\ i \in 1 .. x - n /\ i + 1 \in 1 .. x - n /\ n + i \in 1 .. l
          /\ (n + 1) + i - 1 = n + i /\ (n + 1) + (i + 1) - 1 = (n + i) + 1
      BY <1>1, <1>2, <1>5
    <3>2. w[n + i] = Apply(w[(n + i) + 1], c.deltas[n + i])
      BY <1>3, <3>1 DEF Linked, l
    <3>3. v[i] = w[n + i] /\ v[i + 1] = w[(n + i) + 1]
      BY <1>8, <3>1
    <3>4. d.deltas[i] = c.deltas[n + i]
      BY <1>6, <3>1
    <3> QED BY <3>2, <3>3, <3>4
  <2> QED BY <1>6, <2>1 DEF Linked
<1>13. v[Len(d.deltas) + 1] = c.newest
  <2>1. l - n + 1 \in 1 .. x - n /\ (n + 1) + (l - n + 1) - 1 = l + 1
    BY <1>1, <1>2, <1>5
  <2> QED BY <1>3, <1>6, <1>8, <2>1
<1>14. ASSUME NEW k PROVE Keeps(v, d, k)
  BY <1>2, <1>4, <1>7, <1>8, <1>12, <1>13 DEF Keeps, LastOf
<1>15. d.moments # <<>> /\ Last(d.moments) = Last(c.moments)
  <2>1. x - n \in 1 .. x - n /\ (n + 1) + (x - n) - 1 = x /\ x - n # 0
    BY <1>1, <1>2, <1>5
  <2>2. d.moments[x - n] = c.moments[x]
    BY <1>7, <2>1
  <2>3. d.moments # <<>>
    BY <1>7, <2>1, EmptySeq
  <2> QED BY <1>7, <2>2, <2>3 DEF Last, x
<1> QED BY <1>4, <1>9, <1>11, <1>14, <1>15 DEF d, v

LEMMA ExcessFits ==
    ASSUME NEW c, c \in Chains, c.delta_bytes = SizeOf(c.deltas), budget \in Nat
    PROVE  /\ Excess(c) \in 0 .. Len(c.deltas)
           /\ DropOldest(c, Excess(c)).delta_bytes <= budget
<1> DEFINE all == Len(c.deltas)
           Fits(n) == c.delta_bytes - SizeOf(Oldest(c.deltas, n)) <= budget
           S == {n \in 0 .. all : Fits(n)} \union {all}
<1>1. all \in Nat /\ c.deltas \in Seq(Deltas) /\ c.delta_bytes \in Nat
  BY ChainParts
<1>2. Fits(all)
  <2>1. Oldest(c.deltas, all) = c.deltas
    BY <1>1, SubSeqFull DEF Oldest
  <2>2. c.delta_bytes - SizeOf(Oldest(c.deltas, all)) = 0
    BY <1>1, <2>1
  <2> QED BY <2>2
<1>3. S \in SUBSET Nat /\ S # {} /\ S \subseteq 0 .. all
  <2> HIDE DEF Fits
  <2> QED BY <1>1
<1>4. \A n \in S : Fits(n)
  BY <1>2
<1>5. Excess(c) = Min(S)
  BY DEF Excess
<1> HIDE DEF S, Fits
<1>6. Min(S) \in S
  BY <1>3, MinIsLeast
<1>7. Excess(c) \in 0 .. all /\ Fits(Excess(c))
  BY <1>3, <1>4, <1>5, <1>6
<1>8. DropOldest(c, Excess(c)).delta_bytes = c.delta_bytes - SizeOf(Oldest(c.deltas, Excess(c)))
  BY <1>7, DropParts
<1> QED BY <1>7, <1>8 DEF Fits

-----------------------------------------------------------------------------
(* The newest undone, one more, and a first.                               *)

LEMMA UndoParts ==
    ASSUME NEW c \in Chains, c.delta_bytes = SizeOf(c.deltas), NEW n \in 0 .. Len(c.deltas)
    PROVE  LET d == Undone(c, n)
           IN  /\ d.newest = Apply(c.newest, Together(Newest(c.deltas, n)))
               /\ d.encoding = c.encoding
               /\ d.deltas = SubSeq(c.deltas, 1, Len(c.deltas) - n)
               /\ d.moments = SubSeq(c.moments, 1, Len(c.moments) - n)
               /\ d.delta_bytes = c.delta_bytes - SizeOf(Newest(c.deltas, n))
               /\ d.delta_bytes = SizeOf(d.deltas) /\ d.delta_bytes \in Nat
<1> DEFINE d == Undone(c, n)
           l == Len(c.deltas)
<1>1. /\ d.newest = Apply(c.newest, Together(Newest(c.deltas, n)))
      /\ d.encoding = c.encoding
      /\ d.deltas = SubSeq(c.deltas, 1, l - n)
      /\ d.moments = SubSeq(c.moments, 1, Len(c.moments) - n)
      /\ d.delta_bytes = c.delta_bytes - SizeOf(Newest(c.deltas, n))
  BY DEF Undone, AllBut, Chains
<1>2. l - n \in 0 .. l
  BY ChainParts
<1>3. /\ SizeOf(Oldest(c.deltas, l - n)) \in Nat
      /\ SizeOf(SubSeq(c.deltas, l - n + 1, l)) \in Nat
      /\ SizeOf(c.deltas) = SizeOf(Oldest(c.deltas, l - n)) + SizeOf(SubSeq(c.deltas, l - n + 1, l))
  BY <1>2, ChainParts, SizeSplit
<1>4. Oldest(c.deltas, l - n) = d.deltas /\ SubSeq(c.deltas, l - n + 1, l) = Newest(c.deltas, n)
  BY <1>1 DEF Oldest, Newest
<1> HIDE DEF d
<1>5. d.delta_bytes = SizeOf(d.deltas) /\ d.delta_bytes \in Nat
  <2>1. /\ SizeOf(d.deltas) \in Nat /\ SizeOf(Newest(c.deltas, n)) \in Nat
        /\ c.delta_bytes = SizeOf(d.deltas) + SizeOf(Newest(c.deltas, n))
    BY <1>3, <1>4
  <2> QED BY <1>1, <2>1
<1> QED BY <1>1, <1>5 DEF d

LEMMA UndoKeeps ==
    ASSUME NEW c, NEW w, NEW j, ChainInv(c), Whole(c), Keeps(w, c, j),
           NEW n \in 0 .. Len(c.deltas)
    PROVE  LET d == Undone(c, n)
               k == Len(c.moments) - n
           IN  /\ ChainInv(d) /\ Whole(d)
               /\ \A h : Keeps(SubSeq(w, 1, k), d, h)
               /\ k \in 1 .. Len(c.moments)
               /\ d.moments = SubSeq(c.moments, 1, k)
               /\ d.moments # <<>> /\ Last(d.moments) = c.moments[k]
               /\ d.newest = w[k]
<1> DEFINE d == Undone(c, n)
           l == Len(c.deltas)
           x == Len(c.moments)
           k == x - n
           v == SubSeq(w, 1, k)
<1>1. /\ c \in Chains /\ c.deltas \in Seq(Deltas) /\ l \in Nat /\ c.moments \in Seq(Nat)
      /\ c.newest \in States \union {NoState} /\ c.delta_bytes = SizeOf(c.deltas)
      /\ Rising(c.moments)
  BY ChainParts DEF ChainInv
<1>2. x = l + 1 /\ ~c.encoding /\ c.newest \in States
  BY DEF Whole
<1>3. /\ w \in Seq(States) /\ Len(w) = x /\ Linked(w, c.deltas) /\ w[l + 1] = c.newest
  <2>1. c.moments # <<>>
    BY <1>1, <1>2, EmptySeq
  <2> QED BY <1>2, <2>1 DEF Keeps, LastOf
<1>4. /\ d.newest = Apply(c.newest, Together(Newest(c.deltas, n))) /\ d.encoding = c.encoding
      /\ d.deltas = SubSeq(c.deltas, 1, l - n)
      /\ d.moments = SubSeq(c.moments, 1, k)
      /\ d.delta_bytes = SizeOf(d.deltas) /\ d.delta_bytes \in Nat
      /\ d.delta_bytes = c.delta_bytes - SizeOf(Newest(c.deltas, n))
  BY <1>1, UndoParts
<1>5. Apply(w[l + 1], Together(Newest(c.deltas, n))) = w[l + 1 - n]
  <2>1. l + 1 <= Len(w)
    BY <1>1, <1>2, <1>3
  <2> QED BY <1>1, <1>3, <2>1, Unwinding
<1>6. /\ n \in Nat /\ l - n \in Nat /\ k \in 1 .. x /\ k = l - n + 1 /\ k = l + 1 - n
      /\ (l - n) - 1 + 1 = l - n /\ k - 1 + 1 = k /\ 1 <= (l - n) + 1 /\ l - n <= l
      /\ \A i \in 1 .. k : 1 + i - 1 = i
  BY <1>1, <1>2
<1>7. d.newest = w[k]
  BY <1>3, <1>4, <1>5, <1>6
<1> HIDE DEF d, l, x, k
<1>8. /\ d.deltas \in Seq(Deltas) /\ Len(d.deltas) = l - n
      /\ \A i \in 1 .. l - n : d.deltas[i] = c.deltas[i]
  <2>1. /\ SubSeq(c.deltas, 1, l - n) \in Seq(Deltas)
        /\ Len(SubSeq(c.deltas, 1, l - n)) = (l - n) - 1 + 1
        /\ \A i \in 1 .. (l - n) - 1 + 1 : SubSeq(c.deltas, 1, l - n)[i] = c.deltas[1 + i - 1]
    <3>1. 1 \in Nat /\ l - n \in Nat /\ 1 <= 1 /\ 1 <= (l - n) + 1 /\ l - n <= Len(c.deltas)
      BY <1>6 DEF l
    <3> QED BY <1>1, <3>1, SubSeqOf
  <2>2. \A i \in 1 .. l - n : i \in 1 .. k
    BY <1>6
  <2> QED BY <1>4, <1>6, <2>1, <2>2
<1>9. /\ d.moments \in Seq(Nat) /\ Len(d.moments) = k
      /\ \A i \in 1 .. k : d.moments[i] = c.moments[i]
      /\ Rising(d.moments)
  <2>1. 1 \in Nat /\ k \in Nat /\ 1 <= 1 /\ 1 <= k + 1 /\ k <= Len(c.moments)
    BY <1>1, <1>2, <1>6 DEF x
  <2>2. /\ SubSeq(c.moments, 1, k) \in Seq(Nat)
        /\ Len(SubSeq(c.moments, 1, k)) = k - 1 + 1
        /\ \A i \in 1 .. k - 1 + 1 : SubSeq(c.moments, 1, k)[i] = c.moments[1 + i - 1]
    BY <1>1, <2>1, SubSeqOf
  <2>3. Rising(SubSeq(c.moments, 1, k))
    BY <1>1, <2>1, RisingPart
  <2> QED BY <1>4, <1>6, <2>2, <2>3
<1>10. /\ v \in Seq(States) /\ Len(v) = k
       /\ \A i \in 1 .. k : v[i] = w[i]
  <2>1. 1 \in Nat /\ k \in Nat /\ 1 <= 1 /\ 1 <= k + 1 /\ k <= Len(w)
    BY <1>1, <1>2, <1>3, <1>6
  <2>2. /\ v \in Seq(States) /\ Len(v) = k - 1 + 1
        /\ \A i \in 1 .. k - 1 + 1 : v[i] = w[1 + i - 1]
    BY <1>3, <2>1, SubSeqOf
  <2> HIDE DEF v
  <2> QED BY <1>6, <2>2
<1> HIDE DEF v
<1>11. w[k] \in States
  BY <1>3, <1>6, ElementOfSeq
<1>12. Whole(d)
  BY <1>2, <1>4, <1>6, <1>7, <1>8, <1>9, <1>11 DEF Whole
<1>13. d \in Chains
  <2>1. Apply(c.newest, Together(Newest(c.deltas, n))) \in States
    BY <1>4, <1>7, <1>11
  <2>2. AllBut(c.deltas, n) \in Seq(Deltas)
    BY <1>4, <1>8 DEF l, AllBut
  <2>3. AllBut(c.moments, n) \in Seq(Nat)
    BY <1>4, <1>9 DEF x, k, AllBut
  <2>4. c.delta_bytes - SizeOf(Newest(c.deltas, n)) \in Nat
    BY <1>4
  <2> QED BY <1>1, <2>1, <2>2, <2>3, <2>4 DEF d, Undone, Chains
<1>14. ChainInv(d)
  BY <1>4, <1>9, <1>12, <1>13 DEF ChainInv
<1>15. Linked(v, d.deltas)
  <2>1. ASSUME NEW i \in 1 .. l - n PROVE v[i] = Apply(v[i + 1], d.deltas[i])
    <3>1. i \in 1 .. k /\ i + 1 \in 1 .. k /\ i \in 1 .. l
      BY <1>1, <1>6
    <3>2. w[i] = Apply(w[i + 1], c.deltas[i])
      BY <1>3, <3>1 DEF Linked, l
    <3> QED BY <1>8, <1>10, <3>1, <3>2
  <2> QED BY <1>8, <2>1 DEF Linked
<1>16. v[Len(d.deltas) + 1] = d.newest
  <2>1. k \in 1 .. k
    BY <1>6
  <2> QED BY <1>6, <1>7, <1>8, <1>10, <2>1
<1>17. ASSUME NEW h PROVE Keeps(v, d, h)
  BY <1>2, <1>4, <1>9, <1>10, <1>15, <1>16 DEF Keeps, LastOf
<1>18. d.moments # <<>> /\ Last(d.moments) = c.moments[k]
  <2>1. k \in 1 .. k /\ k # 0
    BY <1>6
  <2>2. d.moments # <<>>
    BY <1>9, <2>1, EmptySeq
  <2> QED BY <1>9, <2>1, <2>2 DEF Last
<1> QED BY <1>4, <1>6, <1>7, <1>12, <1>14, <1>17, <1>18 DEF d, v, k, x

\* A snapshot more, left encoding with the one before it.
LEMMA MoreKeeps ==
    ASSUME NEW c, NEW w, NEW j, ChainInv(c), Whole(c), Keeps(w, c, j),
           NEW f \in Nat, NEW s \in States, \A i \in 1 .. Len(c.moments) : c.moments[i] < f,
           NEW k, k.previous = c.newest, k.state = s
    PROVE  LET d == [c EXCEPT !.newest = NoState, !.moments = Append(@, f), !.encoding = TRUE]
           IN  /\ ChainInv(d) /\ Out(d)
               /\ Keeps(Append(w, s), d, k)
               /\ d.moments = Append(c.moments, f)
               /\ d.moments # <<>> /\ Last(d.moments) = f
<1> DEFINE d == [c EXCEPT !.newest = NoState, !.moments = Append(@, f), !.encoding = TRUE]
           l == Len(c.deltas)
           x == Len(c.moments)
           v == Append(w, s)
<1>1. /\ c \in Chains /\ c.deltas \in Seq(Deltas) /\ l \in Nat /\ c.moments \in Seq(Nat)
      /\ c.delta_bytes = SizeOf(c.deltas) /\ Rising(c.moments)
  BY ChainParts DEF ChainInv
<1>2. x = l + 1 /\ ~c.encoding /\ c.newest \in States
  BY DEF Whole
<1>3. /\ w \in Seq(States) /\ Len(w) = x /\ Linked(w, c.deltas) /\ w[l + 1] = c.newest
  <2>1. c.moments # <<>>
    BY <1>1, <1>2, EmptySeq
  <2> QED BY <1>2, <2>1 DEF Keeps, LastOf
<1>4. Append(c.moments, f) \in Seq(Nat) /\ Len(Append(c.moments, f)) = x + 1
      /\ Append(c.moments, f)[x + 1] = f
  BY <1>1, AppendProperties
<1>5. /\ d.newest = NoState /\ d.deltas = c.deltas /\ d.delta_bytes = c.delta_bytes
      /\ d.moments = Append(c.moments, f) /\ d.encoding = TRUE /\ d \in Chains
  BY <1>1, <1>4 DEF Chains
<1>6. /\ v \in Seq(States) /\ Len(v) = x + 1 /\ \A i \in 1 .. x : v[i] = w[i] /\ v[x + 1] = s
  BY <1>3, AppendProperties
<1> HIDE DEF d, v, l, x
<1>7. Rising(d.moments)
  <2>1. \A i \in 1 .. Len(c.moments) : c.moments[i] < f
    OBVIOUS
  <2>2. Len(w) = Len(c.moments)
    BY <1>3 DEF x
  <2>3. Rising(Append(c.moments, f))
    <3>1. c.moments \in Seq(Nat) /\ w \in Seq(States) /\ Rising(c.moments)
      BY <1>1, <1>3
    <3> QED BY <2>1, <2>2, <3>1, RecordMore
  <2> QED BY <1>5, <2>3
<1>8. Out(d)
  BY <1>1, <1>2, <1>4, <1>5 DEF Out, l
<1>9. ChainInv(d)
  BY <1>1, <1>5, <1>7, <1>8 DEF ChainInv
<1>10. Linked(v, d.deltas)
  <2>1. ASSUME NEW i \in 1 .. l PROVE v[i] = Apply(v[i + 1], c.deltas[i])
    <3>1. i \in 1 .. x /\ i + 1 \in 1 .. x
      BY <1>1, <1>2
    <3>2. w[i] = Apply(w[i + 1], c.deltas[i])
      BY <1>3 DEF Linked, l
    <3> QED BY <1>6, <3>1, <3>2
  <2> QED BY <1>5, <2>1 DEF Linked, l
<1>11. v[l + 1] = c.newest /\ v[l + 2] = s
  <2>1. l + 1 \in 1 .. x /\ l + 2 = x + 1
    BY <1>1, <1>2
  <2> QED BY <1>3, <1>6, <2>1
<1>12. Keeps(v, d, k)
  BY <1>4, <1>5, <1>6, <1>10, <1>11 DEF Keeps, LastOf, l
<1>13. d.moments # <<>> /\ Last(d.moments) = f
  <2>1. x + 1 # 0
    BY <1>1, <1>2
  <2>2. d.moments # <<>>
    BY <1>4, <1>5, <2>1, EmptySeq
  <2> QED BY <1>4, <1>5, <2>2 DEF Last
<1> QED BY <1>5, <1>8, <1>9, <1>12, <1>13 DEF d, v

LEMMA SeedKeeps ==
    ASSUME NEW f \in Nat, NEW s \in States
    PROVE  LET d == [EmptyChain EXCEPT !.newest = s, !.moments = <<f>>]
           IN  /\ ChainInv(d) /\ Whole(d)
               /\ \A k : Keeps(<<s>>, d, k)
               /\ d.moments = <<f>> /\ d.moments # <<>> /\ Last(d.moments) = f
<1> DEFINE d == [EmptyChain EXCEPT !.newest = s, !.moments = <<f>>]
<1>1. /\ d.newest = s /\ d.deltas = <<>> /\ d.delta_bytes = 0
      /\ d.moments = <<f>> /\ d.encoding = FALSE
  BY DEF EmptyChain
<1>2. <<f>> \in Seq(Nat) /\ Len(<<f>>) = 1 /\ <<f>>[1] = f /\ <<s>> \in Seq(States) /\ Len(<<s>>) = 1 /\ <<s>>[1] = s
  OBVIOUS
<1>3. <<>> \in Seq(Deltas) /\ Len(<<>>) = 0
  BY EmptySeq
<1>4. d \in Chains
  BY <1>2, <1>3 DEF EmptyChain, Chains
<1>5. Rising(d.moments)
  <2>1. DOMAIN <<f>> = 1 .. 1
    BY <1>2, LenProperties
  <2>2. \A i, j \in 1 .. 1 : ~(i < j)
    OBVIOUS
  <2> QED BY <1>1, <2>1, <2>2 DEF Rising
<1> HIDE DEF d
<1>6. Whole(d)
  BY <1>1, <1>2, <1>3 DEF Whole
<1>7. ChainInv(d)
  BY <1>1, <1>4, <1>5, <1>6, SizeOfNone DEF ChainInv
<1>8. Linked(<<s>>, d.deltas)
  BY <1>1, <1>3 DEF Linked
<1>9. ASSUME NEW k PROVE Keeps(<<s>>, d, k)
  BY <1>1, <1>2, <1>3, <1>8 DEF Keeps, LastOf
<1>10. d.moments # <<>> /\ Last(d.moments) = f
  <2>1. <<f>> # <<>>
    BY <1>2, <1>3
  <2> QED BY <1>1, <1>2, <2>1 DEF Last
<1> QED BY <1>1, <1>6, <1>7, <1>9, <1>10 DEF d

LEMMA KeepsAlike ==
    ASSUME NEW c, NEW w, NEW j, NEW k, Keeps(w, c, j),
           c.encoding => k.previous = j.previous /\ k.state = j.state
    PROVE  Keeps(w, c, k)
BY DEF Keeps, LastOf

LEMMA AllBelow ==
    ASSUME NEW m \in Seq(Nat), Rising(m), NEW f \in Nat, m # <<>> => Last(m) < f
    PROVE  \A i \in 1 .. Len(m) : m[i] < f
<1> SUFFICES ASSUME NEW i \in 1 .. Len(m) PROVE m[i] < f
  OBVIOUS
<1>1. Len(m) \in Nat /\ DOMAIN m = 1 .. Len(m) /\ Len(m) \in 1 .. Len(m) /\ Len(m) # 0
  BY LenProperties
<1>2. m # <<>>
  BY <1>1, EmptySeq
<1>3. m[Len(m)] < f
  BY <1>2 DEF Last
<1>4. i < Len(m) => m[i] < m[Len(m)]
  BY <1>1 DEF Rising
<1>5. m[i] \in Nat /\ m[Len(m)] \in Nat
  BY <1>1, ElementOfSeq
<1> QED BY <1>1, <1>3, <1>4, <1>5

BackTo(h, f) == History!Restrict(h, {g \in DOMAIN h : g <= f})

\* A moment of what is left of a history, and all after it forgotten: the same
\* as those after it forgotten first.
LEMMA BackOverTrim ==
    ASSUME NEW h, NEW r, NEW f, r \in History!Trimmed(h), f \in DOMAIN r,
           DOMAIN h \subseteq Nat
    PROVE  /\ f \in DOMAIN h /\ r[f] = h[f]
           /\ BackTo(r, f) \in History!Trimmed(BackTo(h, f))
<1>1. r # <<>>
  <2>1. <<>> \in Seq({}) /\ Len(<<>>) = 0
    BY EmptySeq
  <2>2. DOMAIN <<>> = {}
    BY <2>1, LenProperties
  <2> QED BY <2>2
<1>2. PICK o \in DOMAIN h \union {0} : r = History!Restrict(h, {g \in DOMAIN h : g >= o})
  BY <1>1 DEF History!Trimmed
<1> DEFINE R == {g \in DOMAIN h : g >= o}
           U == {g \in DOMAIN h : g <= f}
           u == History!Restrict(h, U)
<1>3. DOMAIN r = R /\ \A g \in R : r[g] = h[g]
  BY <1>2 DEF History!Restrict
<1>4. f \in DOMAIN h /\ f >= o /\ f \in Nat /\ o \in Nat
  BY <1>3
<1>5. DOMAIN u = U /\ \A g \in U : u[g] = h[g]
  BY DEF History!Restrict
<1>6. o \in DOMAIN u \union {0}
  BY <1>4, <1>5
<1>7. {g \in DOMAIN u : g >= o} = {g \in DOMAIN r : g <= f}
  BY <1>3, <1>5
<1>8. History!Restrict(r, {g \in DOMAIN r : g <= f}) = History!Restrict(u, {g \in DOMAIN u : g >= o})
  <2> DEFINE B == {g \in DOMAIN u : g >= o}
  <2>1. \A g \in B : r[g] = u[g]
    BY <1>3, <1>5
  <2>2. [g \in B |-> r[g]] = [g \in B |-> u[g]]
    BY <2>1
  <2> QED BY <1>7, <2>2 DEF History!Restrict
<1>9. History!Restrict(u, {g \in DOMAIN u : g >= o}) \in History!Trimmed(u)
  <2> HIDE DEF u
  <2> QED BY <1>6 DEF History!Trimmed
<1> QED BY <1>3, <1>4, <1>8, <1>9 DEF BackTo

-----------------------------------------------------------------------------
(* The invariant.                                                          *)

OtherTypes ==
    /\ machine \in States
    /\ enabled \in BOOLEAN /\ withheld \in BOOLEAN /\ quit \in BOOLEAN
    /\ interval \in Intervals
    /\ budget \in Budgets
    /\ frames \in Nat
    /\ since_capture \in Nat
    /\ asked \in Jobs \union {NoJob} /\ done \in Jobs \union {NoJob} /\ work \in Jobs \union {NoJob}
    /\ worker \in {"none", "inline", "looking", "parked", "encoding", "exited"}
    /\ caller \in {"idle", "waiting", "joining", "disposing", "gone"}

LastIsPast == chain.moments # <<>> => Last(chain.moments) <= frames

\* Where the job is while one is out, and that it is the pair's.
MailInv ==
    /\ done # NoJob => done.delta = Delta(done.previous, done.state)
    /\ chain.encoding =>
           /\ worker # "none"
           /\ \/ asked # NoJob /\ done = NoJob /\ work = NoJob
              \/ asked = NoJob /\ done # NoJob /\ work = NoJob
              \/ asked = NoJob /\ done = NoJob /\ work # NoJob
           /\ JobOut.previous.length = JobOut.state.length
    /\ ~chain.encoding => asked = NoJob /\ done = NoJob /\ work = NoJob
    /\ worker = "encoding" <=> work # NoJob
    /\ worker = "inline" => asked = NoJob
    /\ caller = "joining" => ~chain.encoding

Behind == \E w : Keeps(w, chain, JobOut)

IInv == OtherTypes /\ ChainInv(chain) /\ Behind /\ LastIsPast /\ NothingHeldWhileOff /\ MailInv

LEMMA TypeParts == TypeOK <=> OtherTypes /\ chain \in Chains
BY DEF TypeOK, OtherTypes, Chains

LEMMA HeldNow == Held = HeldOf(chain, JobOut)
BY DEF Held, HeldOf, HeldAt, HeldAtOf, Unwound, UnwoundOf, LastWhole, LastOf

LEMMA HeldThen == Held' = HeldOf(chain', JobOut')
BY DEF Held, HeldOf, HeldAt, HeldAtOf, Unwound, UnwoundOf, LastWhole, LastOf

\* What every step does to the chain, the counts and snapshots behind it.
ChainKept ==
    /\ ChainInv(chain)'
    /\ Behind'
    /\ chain.encoding /\ chain' # chain => chain'.delta_bytes <= budget

LEMMA HeldOfBehind ==
    ASSUME NEW w, ChainInv(chain), Keeps(w, chain, JobOut)
    PROVE  /\ Held = Record(chain.moments, w)
           /\ DOMAIN Held = {chain.moments[i] : i \in 1 .. Len(chain.moments)}
           /\ DOMAIN Held \subseteq Nat
           /\ Held \in History!Trimmed(Held)
<1>1. Held = Record(chain.moments, w)
  BY HeldNow, HeldIsRecord
<1>2. chain.moments \in Seq(Nat) /\ Rising(chain.moments) /\ w \in Seq(States) /\ Len(w) = Len(chain.moments)
  BY ChainParts DEF ChainInv, Keeps
<1>3. DOMAIN Held = {chain.moments[i] : i \in 1 .. Len(chain.moments)}
  BY <1>1, <1>2, RecordAt
<1>4. DOMAIN Held \subseteq Nat
  BY <1>2, <1>3, ElementOfSeq
<1>5. Held \in History!Trimmed(Held)
  BY <1>1, <1>2, RecordAll
<1> QED BY <1>1, <1>3, <1>4, <1>5

LEMMA HeldOfThen ==
    ASSUME NEW w, ChainInv(chain'), Keeps(w, chain', JobOut')
    PROVE  Held' = Record(chain'.moments, w)
BY HeldThen, HeldIsRecord

\* The chain is as it was, and the job out of the same pair.
LEMMA StayKept ==
    ASSUME IInv, chain' = chain,
           chain.encoding => JobOut'.previous = JobOut.previous /\ JobOut'.state = JobOut.state
    PROVE  ChainKept /\ Held' = Held
<1>1. PICK w : Keeps(w, chain, JobOut)
  BY DEF IInv, Behind
<1>2. Keeps(w, chain', JobOut')
  BY <1>1, KeepsAlike
<1>3. ChainInv(chain)'
  BY DEF IInv
<1>4. Held' = Held
  BY <1>1, <1>2, <1>3, HeldOfBehind, HeldOfThen DEF IInv
<1> QED BY <1>2, <1>3, <1>4 DEF ChainKept, Behind

LEMMA EmptyHoldsNothing == \A j : HeldOf(EmptyChain, j) = <<>>
<1>1. ASSUME NEW j PROVE HeldOf(EmptyChain, j) = <<>>
  BY EmptyIsAChain, EmptyParts, HeldIsRecord, RecordNone
<1> QED BY <1>1

LEMMA EmptyKept ==
    ASSUME IInv, chain' = EmptyChain
    PROVE  ChainKept /\ Held' = <<>> /\ Held' \in History!Trimmed(Held) /\ LastIsPast'
<1>1. ChainInv(chain)' /\ Behind'
  BY EmptyIsAChain DEF Behind
<1>2. Held' = <<>>
  BY HeldThen, EmptyHoldsNothing
<1>3. chain'.delta_bytes <= budget
  BY EmptyParts, SettingsAssumption DEF IInv, OtherTypes
<1>4. LastIsPast'
  BY EmptyParts DEF LastIsPast
<1> QED BY <1>1, <1>2, <1>3, <1>4 DEF ChainKept, History!Trimmed

-----------------------------------------------------------------------------
(* A chain settled.                                                        *)

\* A settle leaves no slot full, and no thread encoding.
LEMMA MailEmptied ==
    ASSUME IInv, CanSettle
    PROVE  /\ asked = NoJob /\ work = NoJob /\ DoneTaken = NoJob
           /\ worker # "encoding" /\ caller = "idle"
           /\ worker = "none" => ~chain.encoding
           /\ chain.encoding => JobOut = done /\ done \in Jobs /\ done # NoJob
                                /\ done.previous.length = done.state.length
                                /\ done.delta = Delta(done.previous, done.state)
BY DEF IInv, CanSettle, MailInv, DoneTaken, JobOut, OtherTypes

Settling(c, v) ==
    /\ ChainInv(c) /\ ~c.encoding
    /\ c = EmptyChain \/ Whole(c)
    /\ \A k : Keeps(v, c, k)
    /\ Record(c.moments, v) \in History!Trimmed(Held)
    /\ c.moments # <<>> <=> chain.moments # <<>>
    /\ c.moments # <<>> => Last(c.moments) = Last(chain.moments)

LEMMA SettleFacts ==
    ASSUME IInv, CanSettle
    PROVE  /\ \E v : Settling(Settled(chain), v)
           /\ chain.encoding => Settled(chain).delta_bytes <= budget
<1>1. PICK w : Keeps(w, chain, JobOut)
  BY DEF IInv, Behind
<1>2. ChainInv(chain) /\ chain \in Chains /\ chain.encoding \in BOOLEAN
  BY ChainParts DEF IInv, ChainInv
<1>3. Held = Record(chain.moments, w) /\ Held \in History!Trimmed(Held)
  BY <1>1, <1>2, HeldOfBehind
<1>4. CASE ~chain.encoding
  <2>1. Settled(chain) = chain
    BY <1>4 DEF Settled
  <2>2. chain = EmptyChain \/ Whole(chain)
    BY <1>2, <1>4 DEF ChainInv, Out
  <2>3. \A k : Keeps(w, chain, k)
    BY <1>1, <1>4, KeepsAlike
  <2>4. Settling(chain, w)
    BY <1>2, <1>3, <1>4, <2>2, <2>3 DEF Settling
  <2> QED BY <1>4, <2>1, <2>4
<1>5. CASE chain.encoding
  <2> DEFINE c == JoinedWith(chain, done)
             n == Excess(c)
             d == DropOldest(c, n)
             v == SubSeq(w, n + 1, Len(w))
  <2>1. /\ JobOut = done /\ done \in Jobs
        /\ done.previous.length = done.state.length
        /\ done.delta = Delta(done.previous, done.state)
    BY <1>5, MailEmptied
  <2>2. Out(chain)
    BY <1>2, <1>5, EmptyParts DEF ChainInv, Whole
  <2>3. Keeps(w, chain, done)
    BY <1>1, <2>1
  <2>4. ChainInv(c) /\ Whole(c) /\ \A k : Keeps(w, c, k)
    BY <1>2, <2>1, <2>2, <2>3, JoinKeeps
  <2>5. c.moments = chain.moments
    BY <1>2, <2>1, JoinedParts
  <2>6. Settled(chain) = d
    BY <1>5 DEF Settled, Joined, JoinedWith
  <2>7. budget \in Nat
    BY SettingsAssumption DEF IInv, OtherTypes
  <2> HIDE DEF c
  <2>8. c \in Chains /\ c.delta_bytes = SizeOf(c.deltas)
    BY <2>4 DEF ChainInv
  <2>9. n \in 0 .. Len(c.deltas) /\ d.delta_bytes <= budget
    BY <2>7, <2>8, ExcessFits
  <2> HIDE DEF n
  <2>10. Keeps(w, c, done)
    BY <2>4
  <2>11. /\ ChainInv(d) /\ Whole(d) /\ \A k : Keeps(v, d, k)
         /\ d.moments # <<>> /\ Last(d.moments) = Last(c.moments)
    BY <2>4, <2>9, <2>10, DropKeeps
  <2>12. Record(d.moments, v) \in History!Trimmed(Held)
    <3>1. /\ c.moments \in Seq(Nat) /\ w \in Seq(States) /\ Len(w) = Len(c.moments)
          /\ Rising(c.moments)
      BY <2>4, ChainParts DEF ChainInv, Keeps
    <3>2. n \in 0 .. Len(c.moments)
      BY <2>4, <2>8, <2>9, ChainParts DEF Whole
    <3>3. d.moments = SubSeq(c.moments, n + 1, Len(c.moments))
      BY <2>8, <2>9, DropParts
    <3>4. Record(SubSeq(c.moments, n + 1, Len(c.moments)), SubSeq(w, n + 1, Len(c.moments)))
             \in History!Trimmed(Record(c.moments, w))
      BY <3>1, <3>2, RecordTrim
    <3> QED BY <1>3, <2>5, <3>1, <3>3, <3>4
  <2>13. chain.moments # <<>>
    <3>1. Len(chain.moments) # 0
      BY <1>2, <2>2, ChainParts DEF Out
    <3> QED BY <3>1, EmptySeq
  <2>14. ~d.encoding
    BY <2>11 DEF Whole
  <2>15. Settling(d, v)
    BY <2>5, <2>11, <2>12, <2>13, <2>14 DEF Settling
  <2> QED BY <2>6, <2>9, <2>15
<1> QED BY <1>2, <1>4, <1>5

LEMMA LastIsNat ==
    ASSUME NEW c, ChainInv(c), c.moments # <<>>
    PROVE  Last(c.moments) \in Nat
<1>1. c.moments \in Seq(Nat) /\ Len(c.moments) \in Nat
  BY ChainParts DEF ChainInv
<1>2. Len(c.moments) # 0
  BY <1>1, EmptySeq
<1>3. Len(c.moments) \in 1 .. Len(c.moments)
  BY <1>1, <1>2
<1> QED BY <1>1, <1>3, ElementOfSeq DEF Last

LEMMA SettledKept ==
    ASSUME IInv, CanSettle, chain' = Settled(chain)
    PROVE  /\ ChainKept /\ ~chain'.encoding
           /\ Held' \in History!Trimmed(Held)
           /\ frames' = frames => LastIsPast'
           /\ frames' = frames + 1 => LastIsPast'
<1>1. PICK v : Settling(Settled(chain), v)
  BY SettleFacts
<1>2. ChainInv(chain') /\ ~chain'.encoding /\ Keeps(v, chain', JobOut')
  BY <1>1 DEF Settling
<1>3. ChainKept
  BY <1>2, SettleFacts DEF ChainKept, Behind
<1>4. Held' \in History!Trimmed(Held)
  BY <1>1, <1>2, HeldOfThen DEF Settling
<1>5. chain'.moments # <<>> => Last(chain'.moments) <= frames
  BY <1>1 DEF Settling, IInv, LastIsPast
<1>6. chain'.moments # <<>> => Last(chain'.moments) \in Nat
  BY <1>2, LastIsNat
<1>7. frames' = frames => LastIsPast'
  BY <1>5 DEF LastIsPast
<1>8. frames' = frames + 1 => LastIsPast'
  BY <1>5, <1>6 DEF LastIsPast, IInv, OtherTypes
<1> QED BY <1>2, <1>3, <1>4, <1>7, <1>8

-----------------------------------------------------------------------------
(* A snapshot taken of a frame after all those held.                       *)

NewFrame(f) == f \in Nat /\ (chain.moments # <<>> => Last(chain.moments) < f)

LEMMA NewerThanHeld ==
    ASSUME IInv, NEW f, NewFrame(f)
    PROVE  \A g \in DOMAIN Held : f > g
<1>1. PICK w : Keeps(w, chain, JobOut)
  BY DEF IInv, Behind
<1>2. ChainInv(chain) /\ chain.moments \in Seq(Nat) /\ Rising(chain.moments)
  BY ChainParts DEF IInv, ChainInv
<1>3. DOMAIN Held = {chain.moments[i] : i \in 1 .. Len(chain.moments)}
  BY <1>1, <1>2, HeldOfBehind
<1>4. \A i \in 1 .. Len(chain.moments) : chain.moments[i] < f
  BY <1>2, AllBelow DEF NewFrame
<1> QED BY <1>3, <1>4

\* It is held for f, over what may have been trimmed.
HeldMore(f, s) ==
    /\ f \in DOMAIN Held'
    /\ \A g \in DOMAIN Held : f > g
    /\ \E h \in History!Trimmed(Held) : Held' = History!With(h, f, s)

LEMMA SeedKept ==
    ASSUME IInv, NEW f, NewFrame(f), NEW s \in States,
           chain' = [EmptyChain EXCEPT !.newest = s, !.moments = <<f>>]
    PROVE  /\ ChainKept /\ ~chain'.encoding /\ HeldMore(f, s)
           /\ Last(chain'.moments) = f
<1>1. f \in Nat
  BY DEF NewFrame
<1>2. /\ ChainInv(chain') /\ Whole(chain') /\ \A k : Keeps(<<s>>, chain', k)
      /\ chain'.moments = <<f>> /\ Last(chain'.moments) = f
      /\ chain'.delta_bytes = 0
  <2>1. chain'.delta_bytes = 0
    BY DEF EmptyChain
  <2> QED BY <1>1, <2>1, SeedKeeps
<1>3. Held' = Record(<<f>>, <<s>>)
  BY <1>2, HeldOfThen
<1>4. /\ Record(Append(<<>>, f), Append(<<>>, s)) = History!With(Record(<<>>, <<>>), f, s)
      /\ f \in DOMAIN Record(Append(<<>>, f), Append(<<>>, s))
  <2>1. <<>> \in Seq(Nat) /\ <<>> \in Seq(States) /\ Len(<<>>) = 0
    BY EmptySeq
  <2>2. Rising(<<>>)
    BY EmptyIsAChain, EmptyParts DEF ChainInv
  <2>3. PICK m : m = <<>>
    OBVIOUS
  <2>4. \A i \in 1 .. Len(m) : m[i] < f
    BY <2>1, <2>3
  <2>5. m \in Seq(Nat) /\ m \in Seq(States) /\ Len(m) = Len(m) /\ Rising(m)
    BY <2>1, <2>2, <2>3
  <2> HIDE <2>3
  <2>6. /\ Record(Append(m, f), Append(m, s)) = History!With(Record(m, m), f, s)
        /\ f \in DOMAIN Record(Append(m, f), Append(m, s))
    BY <1>1, <2>4, <2>5, RecordMore
  <2> QED BY <2>3, <2>6
<1>5. Append(<<>>, f) = <<f>> /\ Append(<<>>, s) = <<s>>
  OBVIOUS
<1>6. Held' = History!With(<<>>, f, s) /\ f \in DOMAIN Held'
  BY <1>3, <1>4, <1>5, RecordNone
<1>7. <<>> \in History!Trimmed(Held)
  BY DEF History!Trimmed
<1>8. HeldMore(f, s)
  BY <1>6, <1>7, NewerThanHeld DEF HeldMore
<1>9. ChainKept
  BY <1>2, SettingsAssumption DEF ChainKept, Behind, IInv, OtherTypes
<1> QED BY <1>2, <1>8, <1>9 DEF Whole

LEMMA DeltaKept ==
    ASSUME IInv, CanSettle, NEW f, NewFrame(f), NEW s \in States, Continues(s),
           chain' = [Settled(chain) EXCEPT !.newest = NoState, !.moments = Append(@, f),
                                           !.encoding = TRUE],
           JobOut'.previous = Settled(chain).newest, JobOut'.state = s
    PROVE  /\ ChainKept /\ chain'.encoding /\ HeldMore(f, s)
           /\ Last(chain'.moments) = f
           /\ JobOut'.previous.length = JobOut'.state.length
<1> DEFINE c == Settled(chain)
<1>1. PICK v : Settling(c, v)
  BY SettleFacts
<1>2. Whole(c) /\ ChainInv(c) /\ \A k : Keeps(v, c, k)
  BY <1>1, EmptyParts DEF Settling, Continues
<1>3. f \in Nat
  BY DEF NewFrame
<1>4. /\ c.moments \in Seq(Nat) /\ Rising(c.moments)
      /\ v \in Seq(States) /\ Len(v) = Len(c.moments)
  BY <1>2, ChainParts DEF ChainInv, Keeps
<1>5. \A i \in 1 .. Len(c.moments) : c.moments[i] < f
  BY <1>1, <1>3, <1>4, AllBelow DEF Settling, NewFrame
<1>6. JobOut'.previous.length = JobOut'.state.length
  BY DEF Continues
<1> HIDE DEF c
<1>7. PICK j : j = JobOut'
  OBVIOUS
<1>8. j.previous = c.newest /\ j.state = s
  BY <1>7 DEF c
<1>9. PICK d : d = [c EXCEPT !.newest = NoState, !.moments = Append(@, f), !.encoding = TRUE]
  OBVIOUS
<1>10. /\ ChainInv(d) /\ Out(d) /\ Keeps(Append(v, s), d, j)
       /\ d.moments = Append(c.moments, f) /\ Last(d.moments) = f
  <2>1. Keeps(v, c, j)
    BY <1>2
  <2> QED BY <1>2, <1>3, <1>5, <1>8, <1>9, <2>1, MoreKeeps
<1>11. chain' = d
  BY <1>9 DEF c
<1>12. Held' = Record(Append(c.moments, f), Append(v, s))
  BY <1>7, <1>10, <1>11, HeldOfThen
<1>13. HeldMore(f, s)
  <2>1. /\ Record(Append(c.moments, f), Append(v, s)) = History!With(Record(c.moments, v), f, s)
        /\ f \in DOMAIN Record(Append(c.moments, f), Append(v, s))
    BY <1>3, <1>4, <1>5, RecordMore
  <2>2. Record(c.moments, v) \in History!Trimmed(Held)
    BY <1>1 DEF Settling
  <2> QED BY <1>12, <2>1, <2>2, NewerThanHeld DEF HeldMore
<1>14. ChainKept /\ chain'.encoding
  <2>1. chain.encoding => c.delta_bytes <= budget
    BY SettleFacts DEF c
  <2>2. c \in Chains
    BY <1>2 DEF ChainInv
  <2>3. d.delta_bytes = c.delta_bytes
    BY <1>9, <2>2 DEF Chains
  <2> QED BY <1>7, <1>10, <1>11, <2>1, <2>3 DEF ChainKept, Behind, Out
<1> QED BY <1>6, <1>10, <1>11, <1>13, <1>14

-----------------------------------------------------------------------------
(* Back to a moment held.                                                  *)

LEMMA UndoneKept ==
    ASSUME IInv, CanSettle, Settled(chain).newest # NoState,
           NEW n \in 0 .. Len(Settled(chain).deltas), NEW f,
           f = Settled(chain).moments[Len(Settled(chain).moments) - n],
           chain' = Undone(Settled(chain), n)
    PROVE  /\ ChainKept /\ ~chain'.encoding
           /\ f \in DOMAIN Held /\ f \in Nat /\ f <= frames
           /\ chain'.newest = Held[f] /\ Held[f] \in States
           /\ Held' \in History!Trimmed(BackTo(Held, f))
           /\ Last(chain'.moments) = f
<1>1. PICK c : c = Settled(chain)
  OBVIOUS
<1>2. PICK v : Settling(c, v)
  BY <1>1, SettleFacts
<1>3. Whole(c) /\ ChainInv(c) /\ \A k : Keeps(v, c, k)
  BY <1>1, <1>2, EmptyParts DEF Settling
<1>4. /\ c.moments \in Seq(Nat) /\ Rising(c.moments) /\ Len(c.moments) \in Nat
      /\ v \in Seq(States) /\ Len(v) = Len(c.moments)
      /\ c \in Chains /\ c.delta_bytes = SizeOf(c.deltas)
      /\ c.deltas \in Seq(Deltas) /\ c.delta_bytes \in Nat
  BY <1>3, ChainParts DEF ChainInv, Keeps
<1>5. PICK k : k = Len(c.moments) - n
  OBVIOUS
<1>6. n \in 0 .. Len(c.deltas) /\ f = c.moments[k]
  BY <1>1, <1>5
<1>7. PICK d : d = Undone(c, n)
  OBVIOUS
<1>8. /\ ChainInv(d) /\ Whole(d) /\ \A h : Keeps(SubSeq(v, 1, k), d, h)
      /\ k \in 1 .. Len(c.moments) /\ d.moments = SubSeq(c.moments, 1, k)
      /\ d.moments # <<>> /\ Last(d.moments) = f /\ d.newest = v[k]
  <2>1. Keeps(v, c, NoJob)
    BY <1>3
  <2> QED BY <1>3, <1>5, <1>6, <1>7, <2>1, UndoKeeps
<1>9. chain' = d
  BY <1>1, <1>7
<1>10. d.delta_bytes <= c.delta_bytes
  <2>1. d.delta_bytes = c.delta_bytes - SizeOf(Newest(c.deltas, n))
    BY <1>4, <1>6, <1>7, UndoParts
  <2>2. SizeOf(Newest(c.deltas, n)) \in Nat
    <3>1. Len(c.deltas) \in Nat /\ Len(c.deltas) - n + 1 \in Nat /\ 1 <= Len(c.deltas) - n + 1
          /\ Len(c.deltas) - n + 1 <= Len(c.deltas) + 1
      BY <1>4, <1>6, ChainParts
    <3>2. Newest(c.deltas, n) \in Seq(Deltas)
      BY <1>4, <3>1, SubSeqOf DEF Newest
    <3> QED BY <3>2, SizeOfAll
  <2> QED BY <1>4, <2>1, <2>2
<1>11. chain.encoding => d.delta_bytes <= budget
  <2>1. chain.encoding => c.delta_bytes <= budget
    BY <1>1, SettleFacts
  <2>2. d.delta_bytes \in Nat /\ budget \in Nat
    BY <1>4, <1>6, <1>7, UndoParts, SettingsAssumption DEF IInv, OtherTypes
  <2> QED BY <1>4, <1>10, <2>1, <2>2
<1>12. ChainKept /\ ~chain'.encoding
  BY <1>8, <1>9, <1>11 DEF ChainKept, Behind, Whole
<1>13. PICK r : r = Record(c.moments, v)
  OBVIOUS
<1>14. r \in History!Trimmed(Held)
  BY <1>2, <1>13 DEF Settling
<1>15. f \in DOMAIN r /\ r[f] = v[k]
  BY <1>4, <1>6, <1>8, <1>13, RecordAt
<1>16. Held' = History!Restrict(r, {g \in DOMAIN r : g <= f})
  <2>1. Held' = Record(SubSeq(c.moments, 1, k), SubSeq(v, 1, k))
    BY <1>8, <1>9, HeldOfThen
  <2>2. Record(SubSeq(c.moments, 1, k), SubSeq(v, 1, k))
          = History!Restrict(Record(c.moments, v), {g \in DOMAIN Record(c.moments, v) : g <= c.moments[k]})
    BY <1>4, <1>8, RecordPrefix
  <2> QED BY <1>6, <1>13, <2>1, <2>2
<1>17. DOMAIN Held \subseteq Nat
  BY HeldOfBehind DEF IInv, Behind
<1>18. /\ f \in DOMAIN Held /\ r[f] = Held[f]
       /\ Held' \in History!Trimmed(BackTo(Held, f))
  <2>1. f \in DOMAIN r
    BY <1>15
  <2>2. f \in DOMAIN Held /\ r[f] = Held[f] /\ BackTo(r, f) \in History!Trimmed(BackTo(Held, f))
    <3>1. PICK h : h = Held
      OBVIOUS
    <3>2. r \in History!Trimmed(h) /\ DOMAIN h \subseteq Nat
      BY <1>14, <1>17, <3>1
    <3>3. f \in DOMAIN h /\ r[f] = h[f] /\ BackTo(r, f) \in History!Trimmed(BackTo(h, f))
      BY <2>1, <3>2, BackOverTrim
    <3> QED BY <3>1, <3>3
  <2>3. Held' = BackTo(r, f)
    BY <1>16 DEF BackTo
  <2> QED BY <2>2, <2>3
<1>19. v[k] \in States
  BY <1>4, <1>8, ElementOfSeq
<1>20. f \in Nat /\ f <= frames
  <2>1. PICK x : x = Len(c.moments)
    OBVIOUS
  <2>2. x \in 1 .. x /\ k \in 1 .. x /\ x \in Nat /\ DOMAIN c.moments = 1 .. x /\ x # 0
    BY <1>4, <1>8, <2>1, LenProperties
  <2>3. c.moments # <<>>
    BY <2>1, <2>2, EmptySeq
  <2>4. c.moments[x] <= frames
    BY <1>2, <2>1, <2>3 DEF Settling, IInv, LastIsPast, Last
  <2>5. k < x => c.moments[k] < c.moments[x]
    BY <1>4, <2>2 DEF Rising
  <2>6. c.moments[k] \in Nat /\ c.moments[x] \in Nat /\ frames \in Nat
    BY <1>4, <2>1, <2>2, ElementOfSeq DEF IInv, OtherTypes
  <2> QED BY <1>6, <2>2, <2>4, <2>5, <2>6
<1> QED BY <1>8, <1>9, <1>12, <1>15, <1>18, <1>19, <1>20

-----------------------------------------------------------------------------
(* What each step makes of the whole invariant, and of the history.        *)

StepKept ==
    /\ IInv'
    /\ History!Next \/ UNCHANGED History!vars
    /\ chain.encoding /\ chain' # chain => chain'.delta_bytes <= budget

\* The chain emptied, or settled, with the slot taken and the machine anywhere.
LEMMA MoveIsHistory ==
    ASSUME machine' \in States, Held' \in History!Trimmed(Held)
    PROVE  History!Next
BY DEF History!Next, History!Move

LEMMA SettledMail ==
    ASSUME IInv, CanSettle, ~chain'.encoding, done' = DoneTaken,
           asked' = asked, work' = work,
           worker' \in {"none", worker, Woken(worker)},
           worker' = "inline" => worker = "inline"
    PROVE  MailInv'
<1>1. asked' = NoJob /\ done' = NoJob /\ work' = NoJob /\ worker' # "encoding"
  BY MailEmptied DEF Woken
<1> QED BY <1>1 DEF MailInv

LEMMA EmptiedOff == ASSUME chain' = EmptyChain PROVE NothingHeldWhileOff'
BY DEF NothingHeldWhileOff

-----------------------------------------------------------------------------
(* The whole invariant, by what becomes of the chain.                      *)

LEMMA InitIInv == Init => IInv /\ Held = <<>> /\ machine \in States
<1> SUFFICES ASSUME Init PROVE IInv /\ Held = <<>> /\ machine \in States
  OBVIOUS
<1>1. chain = EmptyChain /\ asked = NoJob /\ done = NoJob /\ worker = "none" /\ work = NoJob
  BY DEF Init
<1>2. OtherTypes
  BY DEF Init, OtherTypes
<1>3. ChainInv(chain) /\ Behind
  BY <1>1, EmptyIsAChain DEF Behind
<1>4. LastIsPast /\ NothingHeldWhileOff
  BY <1>1, EmptyParts DEF LastIsPast, NothingHeldWhileOff
<1>5. MailInv
  BY <1>1, EmptyParts DEF Init, MailInv
<1>6. Held = <<>>
  BY <1>1, HeldNow, EmptyHoldsNothing
<1> QED BY <1>2, <1>3, <1>4, <1>5, <1>6 DEF IInv, OtherTypes

LEMMA Stays ==
    ASSUME IInv, chain' = chain,
           chain.encoding => JobOut'.previous = JobOut.previous /\ JobOut'.state = JobOut.state,
           frames' = frames \/ frames' = frames + 1,
           ~enabled' \/ withheld' => ~enabled \/ withheld,
           OtherTypes', MailInv'
    PROVE  StepKept
<1>1. ChainKept /\ Held' = Held
  BY StayKept
<1>2. LastIsPast'
  <2>1. chain.moments # <<>> => Last(chain.moments) <= frames
    BY DEF IInv, LastIsPast
  <2>2. frames \in Nat
    BY DEF IInv, OtherTypes
  <2>3. chain.moments # <<>> => Last(chain.moments) \in Nat
    BY LastIsNat DEF IInv
  <2> QED BY <2>1, <2>2, <2>3 DEF LastIsPast
<1>3. NothingHeldWhileOff'
  BY DEF IInv, NothingHeldWhileOff
<1>4. machine' \in States
  BY DEF OtherTypes
<1>5. Held \in History!Trimmed(Held)
  BY HeldOfBehind DEF IInv, Behind
<1>6. History!Next
  BY <1>1, <1>4, <1>5, MoveIsHistory
<1> QED BY <1>1, <1>2, <1>3, <1>6 DEF StepKept, ChainKept, IInv

LEMMA Empties ==
    ASSUME IInv, chain' = EmptyChain, OtherTypes', MailInv'
    PROVE  StepKept
<1>1. ChainKept /\ Held' \in History!Trimmed(Held) /\ LastIsPast'
  BY EmptyKept
<1>2. History!Next
  BY <1>1, MoveIsHistory DEF OtherTypes
<1> QED BY <1>1, <1>2, EmptiedOff DEF StepKept, ChainKept, IInv

LEMMA Settles ==
    ASSUME IInv, CanSettle, chain' = Settled(chain),
           frames' = frames \/ frames' = frames + 1,
           ~enabled' \/ withheld' => ~enabled \/ withheld,
           OtherTypes', MailInv'
    PROVE  StepKept
<1>1. ChainKept /\ Held' \in History!Trimmed(Held) /\ LastIsPast'
  BY SettledKept
<1>2. History!Next
  BY <1>1, MoveIsHistory DEF OtherTypes
<1>3. NothingHeldWhileOff'
  BY EmptyParts DEF IInv, NothingHeldWhileOff, Settled
<1> QED BY <1>1, <1>2, <1>3 DEF StepKept, ChainKept, IInv

-----------------------------------------------------------------------------
(* A capture.                                                              *)

\* The variables a capture sets, besides the chain.
CaptureTypes ==
    /\ withheld \in BOOLEAN /\ quit \in BOOLEAN /\ since_capture \in Nat
    /\ asked \in Jobs \union {NoJob} /\ done \in Jobs \union {NoJob}
    /\ worker \in {"none", "inline", "looking", "parked", "encoding", "exited"}
    /\ caller \in {"idle", "waiting", "joining", "disposing", "gone"}

LEMMA CaptureSettles ==
    ASSUME IInv, CanSettle, NEW f, NEW s \in States, NEW n \in Nat, work' = work,
           CaptureFailed(n) \/ CaptureEmpty(s) \/ CaptureSeed(f, s), ~chain'.encoding
    PROVE  CaptureTypes' /\ MailInv' /\ withheld' = withheld
<1>1. /\ done' = DoneTaken /\ asked' = asked /\ quit' = quit /\ worker' = worker
      /\ caller' = caller /\ withheld' = withheld
  BY DEF CaptureFailed, CaptureEmpty, CaptureSeed
<1>2. since_capture' \in Nat
  BY DEF CaptureFailed, CaptureEmpty, CaptureSeed
<1>3. MailInv'
  BY <1>1, SettledMail
<1>4. CaptureTypes'
  <2>1. done' = NoJob
    BY <1>1, MailEmptied
  <2> QED BY <1>1, <1>2, <2>1, Zenon DEF CaptureTypes, IInv, OtherTypes
<1> QED BY <1>1, <1>3, <1>4

LEMMA CaptureStops ==
    ASSUME IInv, CanSettle, work' = work, CaptureTooSlow
    PROVE  CaptureTypes' /\ MailInv' /\ chain' = EmptyChain
<1>1. done' = NoJob /\ asked' = NoJob /\ work' = NoJob /\ worker # "encoding"
  BY MailEmptied DEF CaptureTooSlow
<1>2. chain' = EmptyChain /\ chain'.encoding = FALSE /\ withheld' = TRUE /\ since_capture' = 0
  BY EmptyParts DEF CaptureTooSlow, Cleared
<1>3. /\ worker' \in {"none", "inline", "looking", "parked", "exited"}
      /\ quit' \in BOOLEAN /\ caller' \in {"joining", "idle"}
  <2>1. /\ worker \in {"none", "inline", "looking", "parked", "encoding", "exited"}
        /\ quit \in BOOLEAN /\ caller = "idle"
    BY DEF IInv, OtherTypes, CanSettle
  <2>2. CASE worker \in {"none", "inline"}
    BY <2>1, <2>2 DEF CaptureTooSlow, Stop
  <2>3. CASE worker \notin {"none", "inline"}
    <3>1. quit' = TRUE /\ caller' = "joining" /\ worker' = Woken(worker)
      BY <2>3 DEF CaptureTooSlow, Stop
    <3> QED BY <1>1, <2>1, <2>3, <3>1 DEF Woken
  <2> QED BY <2>2, <2>3
<1>4. CaptureTypes'
  BY <1>1, <1>2, <1>3 DEF CaptureTypes
<1>5. MailInv'
  BY <1>1, <1>2, <1>3 DEF MailInv
<1> QED BY <1>2, <1>4, <1>5

LEMMA CaptureAsks ==
    ASSUME IInv, CanSettle, NEW f, NEW s \in States, NEW n \in Nat, work' = work,
           CaptureDelta(f, s, n)
    PROVE  /\ CaptureTypes' /\ withheld' = withheld
           /\ JobOut'.previous = Settled(chain).newest /\ JobOut'.state = s
           /\ JobOut'.previous.length = JobOut'.state.length => MailInv'
<1> DEFINE c == Settled(chain)
           job == [previous |-> c.newest, state |-> s, delta |-> {}]
<1>1. PICK v : Settling(c, v)
  BY SettleFacts
<1>2. Continues(s) /\ c.newest # NoState /\ c.newest.length = s.length
  BY DEF CaptureDelta, Continues
<1>3. c.newest \in States
  BY <1>1, <1>2, ChainParts DEF Settling, ChainInv
<1>4. {} \in Deltas /\ Delta(c.newest, s) \in Deltas
  BY <1>3, DeltaType DEF Deltas
<1>5. /\ job \in Jobs /\ job.previous = c.newest /\ job.state = s
      /\ [job EXCEPT !.delta = Delta(job.previous, job.state)] \in Jobs
      /\ [job EXCEPT !.delta = Delta(job.previous, job.state)].previous = c.newest
      /\ [job EXCEPT !.delta = Delta(job.previous, job.state)].state = s
      /\ [job EXCEPT !.delta = Delta(job.previous, job.state)].delta = Delta(c.newest, s)
  BY <1>3, <1>4 DEF Jobs
<1>6. /\ chain'.encoding /\ since_capture' = n /\ Ask(job)
      /\ withheld' = withheld /\ quit' = quit /\ caller' = caller
  <2>1. c.encoding \in BOOLEAN /\ c \in Chains
    BY <1>1, ChainParts DEF Settling, ChainInv
  <2>2. chain' = [c EXCEPT !.newest = NoState, !.moments = Append(@, f), !.encoding = TRUE]
    BY DEF CaptureDelta
  <2> QED BY <2>1, <2>2 DEF CaptureDelta, Chains
<1>7. /\ asked = NoJob /\ work = NoJob /\ DoneTaken = NoJob /\ worker # "encoding" /\ caller = "idle"
  BY MailEmptied
<1>8. worker' \in {"inline", "looking", "parked", "exited"}
  BY <1>6, <1>7 DEF Ask, Started, Woken, IInv, OtherTypes
<1>9. PICK j : j = job
  OBVIOUS
<1>10. PICK k : k = [job EXCEPT !.delta = Delta(job.previous, job.state)]
  OBVIOUS
<1>11. \/ worker' = "inline" /\ done' = k /\ asked' = NoJob
       \/ worker' # "inline" /\ asked' = j /\ done' = NoJob
  BY <1>6, <1>7, <1>9, <1>10 DEF Ask
<1>12. /\ j \in Jobs /\ k \in Jobs /\ j.previous = c.newest /\ j.state = s
       /\ k.previous = c.newest /\ k.state = s /\ k.delta = Delta(k.previous, k.state)
  BY <1>5, <1>9, <1>10
<1>13. j # NoJob /\ k # NoJob
  BY <1>12, StatesAssumption
<1> HIDE DEF c, job
<1>14. JobOut'.previous = c.newest /\ JobOut'.state = s
  BY <1>11, <1>12, <1>13 DEF JobOut
<1>15. CaptureTypes'
  <2>1. withheld' \in BOOLEAN /\ quit' \in BOOLEAN
    BY <1>6, Zenon DEF IInv, OtherTypes
  <2>2. asked' \in Jobs \union {NoJob} /\ done' \in Jobs \union {NoJob}
    BY <1>11, <1>12
  <2> QED BY <1>6, <1>7, <1>8, <2>1, <2>2 DEF CaptureTypes
<1>16. ASSUME JobOut'.previous.length = JobOut'.state.length PROVE MailInv'
  BY <1>6, <1>7, <1>8, <1>11, <1>12, <1>13, <1>16 DEF MailInv
<1> QED BY <1>6, <1>14, <1>15, <1>16 DEF c

\* Whatever a capture of frame f comes to, in a machine wherever it is left.
LEMMA CaptureKept ==
    ASSUME IInv, CanSettle, NEW f, NewFrame(f), frames' = f, f = frames \/ f = frames + 1,
           NEW s \in States, NEW n \in Nat, work' = work,
           CaptureFailed(n) \/ Captured(f, s, n),
           ~withheld, enabled' = TRUE,
           machine' \in States, interval' \in Intervals, budget' \in Budgets
    PROVE  /\ IInv'
           /\ chain.encoding /\ chain' # chain => chain'.delta_bytes <= budget
           /\ Held' \in History!Trimmed(Held) \/ HeldMore(f, s)
<1>1. f \in Nat /\ work' \in Jobs \union {NoJob}
  BY DEF NewFrame, IInv, OtherTypes
<1>2. CaptureTypes' => OtherTypes'
  BY <1>1, Zenon DEF CaptureTypes, OtherTypes
<1>3. CASE CaptureFailed(n)
  <2>1. chain' = Settled(chain)
    BY <1>3 DEF CaptureFailed
  <2>2. ChainKept /\ ~chain'.encoding /\ Held' \in History!Trimmed(Held) /\ LastIsPast'
    BY <2>1, SettledKept
  <2>3. CaptureTypes' /\ MailInv' /\ withheld' = withheld
    BY <1>3, <2>2, CaptureSettles
  <2>4. NothingHeldWhileOff'
    BY <2>3 DEF NothingHeldWhileOff
  <2> QED BY <1>2, <2>2, <2>3, <2>4 DEF IInv, ChainKept
<1>4. CASE CaptureTooSlow
  <2>1. CaptureTypes' /\ MailInv' /\ chain' = EmptyChain
    BY <1>4, CaptureStops
  <2>2. ChainKept /\ Held' \in History!Trimmed(Held) /\ LastIsPast'
    BY <2>1, EmptyKept
  <2> QED BY <1>2, <2>1, <2>2, EmptiedOff DEF IInv, ChainKept
<1>5. CASE CaptureEmpty(s)
  <2>1. chain' = EmptyChain /\ ~chain'.encoding
    BY <1>5, EmptyParts DEF CaptureEmpty, Cleared
  <2>2. ChainKept /\ Held' \in History!Trimmed(Held) /\ LastIsPast'
    BY <2>1, EmptyKept
  <2>3. CaptureTypes' /\ MailInv'
    BY <1>5, <2>1, CaptureSettles
  <2> QED BY <1>2, <2>1, <2>2, <2>3, EmptiedOff DEF IInv, ChainKept
<1>6. CASE CaptureSeed(f, s)
  <2>1. chain' = [EmptyChain EXCEPT !.newest = s, !.moments = <<f>>]
    BY <1>6 DEF CaptureSeed, Cleared
  <2>2. ChainKept /\ ~chain'.encoding /\ HeldMore(f, s) /\ Last(chain'.moments) = f
    BY <2>1, SeedKept
  <2>3. CaptureTypes' /\ MailInv' /\ withheld' = withheld
    BY <1>6, <2>2, CaptureSettles
  <2>4. NothingHeldWhileOff'
    BY <2>3 DEF NothingHeldWhileOff
  <2>5. LastIsPast'
    BY <1>1, <2>2 DEF LastIsPast
  <2> QED BY <1>2, <2>2, <2>3, <2>4, <2>5 DEF IInv, ChainKept
<1>7. CASE CaptureDelta(f, s, n)
  <2>1. /\ Continues(s)
        /\ chain' = [Settled(chain) EXCEPT !.newest = NoState, !.moments = Append(@, f),
                                           !.encoding = TRUE]
    BY <1>7 DEF CaptureDelta
  <2>2. /\ CaptureTypes' /\ withheld' = withheld
        /\ JobOut'.previous = Settled(chain).newest /\ JobOut'.state = s
        /\ JobOut'.previous.length = JobOut'.state.length => MailInv'
    BY <1>7, CaptureAsks
  <2>3. /\ ChainKept /\ chain'.encoding /\ HeldMore(f, s) /\ Last(chain'.moments) = f
        /\ JobOut'.previous.length = JobOut'.state.length
    BY <2>1, <2>2, DeltaKept
  <2>4. NothingHeldWhileOff'
    BY <2>2 DEF NothingHeldWhileOff
  <2>5. LastIsPast'
    BY <1>1, <2>3 DEF LastIsPast
  <2> QED BY <1>2, <2>2, <2>3, <2>4, <2>5 DEF IInv, ChainKept
<1> QED BY <1>3, <1>4, <1>5, <1>6, <1>7 DEF Captured

\* The history holds what the machine comes to, or is left in.
LEMMA HoldIsHistory ==
    ASSUME NEW f, NEW s, HeldMore(f, s), machine' \in States, s \in {machine, machine'}
    PROVE  History!Next
<1>1. History!Newer(f)
  BY DEF HeldMore, History!Newer
<1>2. CASE s = machine
  <2>1. History!HoldAndMove
    BY <1>1, <1>2 DEF HeldMore, History!HoldAndMove
  <2> QED BY <2>1 DEF History!Next
<1>3. CASE s = machine'
  <2>1. History!MoveAndHold
    BY <1>1, <1>3 DEF HeldMore, History!MoveAndHold
  <2> QED BY <2>1 DEF History!Next
<1> QED BY <1>2, <1>3

LEMMA CaptureStep ==
    ASSUME IInv, CanSettle, NEW f, NewFrame(f), frames' = f, f = frames \/ f = frames + 1,
           NEW s \in States, NEW n \in Nat, work' = work,
           CaptureFailed(n) \/ Captured(f, s, n),
           ~withheld, enabled' = TRUE, s \in {machine, machine'},
           machine' \in States, interval' \in Intervals, budget' \in Budgets
    PROVE  StepKept
<1>1. /\ IInv'
      /\ chain.encoding /\ chain' # chain => chain'.delta_bytes <= budget
      /\ Held' \in History!Trimmed(Held) \/ HeldMore(f, s)
  BY CaptureKept
<1>2. History!Next
  BY <1>1, MoveIsHistory, HoldIsHistory
<1> QED BY <1>1, <1>2 DEF StepKept

-----------------------------------------------------------------------------
(* Every action.                                                           *)

LEMMA GoBackKept ==
    ASSUME IInv, CanSettle, Settled(chain).newest # NoState,
           NEW n \in 0 .. Len(Settled(chain).deltas), NEW f,
           f = Settled(chain).moments[Len(Settled(chain).moments) - n],
           GoBack(Undone(Settled(chain), n), f)
    PROVE  StepKept
<1>1. /\ chain' = Undone(Settled(chain), n)
      /\ done' = DoneTaken
      /\ \/ machine' = chain'.newest /\ since_capture' = 0 /\ frames' = f
         \/ machine' = machine /\ frames' = frames /\ since_capture' = since_capture
      /\ enabled' = enabled /\ interval' = interval /\ budget' = budget /\ withheld' = withheld
      /\ asked' = asked /\ quit' = quit /\ worker' = worker /\ work' = work /\ caller' = caller
  BY DEF GoBack, settings, thread, clock
<1>2. /\ ChainKept /\ ~chain'.encoding
      /\ f \in DOMAIN Held /\ f \in Nat /\ f <= frames
      /\ chain'.newest = Held[f] /\ Held[f] \in States
      /\ Held' \in History!Trimmed(BackTo(Held, f))
      /\ Last(chain'.moments) = f
  BY <1>1, UndoneKept
<1>3. MailInv'
  BY <1>1, <1>2, SettledMail
<1>4. OtherTypes'
  <2>1. done' = NoJob
    BY <1>1, MailEmptied
  <2>2. machine' \in States /\ frames' \in Nat /\ since_capture' \in Nat
    BY <1>1, <1>2 DEF IInv, OtherTypes
  <2> QED BY <1>1, <2>1, <2>2, Zenon DEF IInv, OtherTypes
<1>5. LastIsPast'
  BY <1>1, <1>2 DEF LastIsPast
<1>6. NothingHeldWhileOff'
  <2>1. chain # EmptyChain
    BY EmptyParts DEF Settled
  <2> QED BY <1>1, <2>1 DEF IInv, NothingHeldWhileOff
<1>7. History!Next
  <2>1. machine' \in {Held[f], machine}
    BY <1>1, <1>2
  <2>2. History!GoBack(f)
    BY <1>2, <2>1 DEF History!GoBack, BackTo
  <2> QED BY <1>2, <2>2 DEF History!Next
<1> QED BY <1>2, <1>3, <1>4, <1>5, <1>6, <1>7 DEF StepKept, ChainKept, IInv

LEMMA StepBackKept == ASSUME IInv, Step PROVE StepKept
<1>1. PICK c : c = Settled(chain)
  OBVIOUS
<1>2. /\ CanSettle /\ c.newest # NoState /\ c.deltas # <<>>
      /\ GoBack(Undone(c, 1), Last(Undone(c, 1).moments))
  BY <1>1 DEF Step
<1>3. PICK v : Settling(c, v)
  BY <1>1, <1>2, SettleFacts
<1>4. Whole(c) /\ ChainInv(c) /\ Keeps(v, c, NoJob) /\ c.deltas \in Seq(Deltas)
  BY <1>2, <1>3, EmptyParts, ChainParts DEF Settling, ChainInv
<1>5. 1 \in 0 .. Len(c.deltas)
  <2>1. Len(c.deltas) \in Nat /\ Len(c.deltas) # 0
    BY <1>2, <1>4, EmptySeq, LenProperties
  <2> QED BY <2>1
<1>6. Last(Undone(c, 1).moments) = c.moments[Len(c.moments) - 1]
  BY <1>4, <1>5, UndoKeeps
<1> QED BY <1>1, <1>2, <1>5, <1>6, GoBackKept

LEMMA ToKept == ASSUME IInv, NEW f, To(f) PROVE StepKept
<1>1. PICK c : c = Settled(chain)
  OBVIOUS
<1>2. CanSettle /\ c.newest # NoState
  BY <1>1 DEF To
<1>3. PICK i \in DOMAIN c.moments : c.moments[i] = f /\ GoBack(Undone(c, StepsTo(c, i)), f)
  BY <1>1 DEF To
<1>4. PICK v : Settling(c, v)
  BY <1>1, <1>2, SettleFacts
<1>5. Whole(c) /\ ChainInv(c)
  BY <1>2, <1>4, EmptyParts DEF Settling
<1>6. PICK n : n = StepsTo(c, i)
  OBVIOUS
<1>7. n \in 0 .. Len(c.deltas) /\ Len(c.moments) - n = i
  <2>1. /\ Len(c.moments) \in Nat /\ Len(c.deltas) \in Nat
        /\ DOMAIN c.moments = 1 .. Len(c.moments) /\ Len(c.moments) = Len(c.deltas) + 1
    BY <1>5, ChainParts, LenProperties DEF Whole, ChainInv
  <2> QED BY <1>3, <1>6, <2>1 DEF StepsTo
<1>8. f = c.moments[Len(c.moments) - n] /\ GoBack(Undone(c, n), f)
  BY <1>3, <1>6, <1>7
<1> QED BY <1>1, <1>2, <1>7, <1>8, GoBackKept

LEMMA FrameCompletedKept == ASSUME IInv, NEW s \in States, FrameCompleted(s) PROVE StepKept
<1>1. /\ machine' = s /\ enabled' = enabled /\ interval' = interval /\ budget' = budget
      /\ work' = work
  BY DEF FrameCompleted
<1>2. CASE /\ frames' = frames \/ frames' = frames + 1
           /\ since_capture' \in Nat
           /\ UNCHANGED <<withheld, chain, mail, worker, caller>>
  <2>1. /\ chain' = chain /\ asked' = asked /\ done' = done /\ quit' = quit
        /\ worker' = worker /\ caller' = caller /\ withheld' = withheld
    BY <1>2 DEF mail
  <2>2. frames' \in Nat
    BY <1>2 DEF IInv, OtherTypes
  <2>3. OtherTypes'
    BY <1>1, <1>2, <2>1, <2>2, Zenon DEF IInv, OtherTypes
  <2>4. MailInv' /\ JobOut' = JobOut
    BY <1>1, <2>1, Zenon DEF IInv, MailInv, JobOut
  <2> QED BY <1>1, <1>2, <2>1, <2>3, <2>4, Stays
<1>3. CASE /\ CanSettle /\ Keeping /\ frames' = frames + 1
           /\ CaptureFailed(0) \/ Captured(frames + 1, s, 0)
  <2>1. NewFrame(frames + 1)
    <3>1. chain.moments # <<>> => Last(chain.moments) <= frames
      BY DEF IInv, LastIsPast
    <3>2. frames \in Nat
      BY DEF IInv, OtherTypes
    <3>3. chain.moments # <<>> => Last(chain.moments) \in Nat
      BY LastIsNat DEF IInv
    <3> QED BY <3>1, <3>2, <3>3 DEF NewFrame
  <2>2. ~withheld /\ enabled' = TRUE
    BY <1>1, <1>3, Zenon DEF Keeping, IInv, OtherTypes
  <2>3. machine' \in States /\ interval' \in Intervals /\ budget' \in Budgets /\ s \in {machine, machine'}
    BY <1>1 DEF IInv, OtherTypes
  <2> QED BY <1>1, <1>3, <2>1, <2>2, <2>3, CaptureStep
<1>4. frames \in Nat /\ since_capture \in Nat
  BY DEF IInv, OtherTypes
<1> QED BY <1>2, <1>3, <1>4 DEF FrameCompleted, clock

\* The mailbox and the thread are as they were.
LEMMA MailAsWas ==
    ASSUME IInv, chain' = chain, asked' = asked, done' = done, worker' = worker, work' = work,
           caller' \in {caller, "idle", "waiting", "disposing", "gone"}
    PROVE  MailInv' /\ JobOut' = JobOut
<1>1. JobOut' = JobOut
  BY DEF JobOut
<1>2. caller' = "joining" => caller = "joining"
  OBVIOUS
<1> QED BY <1>1, <1>2, Zenon DEF IInv, MailInv

LEMMA FrameCutShortKept == ASSUME IInv, NEW s \in States, FrameCutShort(s) PROVE StepKept
<1>1. /\ machine' = s /\ enabled' = enabled /\ interval' = interval /\ budget' = budget
      /\ withheld' = withheld /\ frames' = frames /\ since_capture' = since_capture
      /\ chain' = chain /\ asked' = asked /\ done' = done /\ quit' = quit
      /\ worker' = worker /\ work' = work /\ caller' = caller
  BY DEF FrameCutShort, settings, clock, mail, thread
<1>2. OtherTypes'
  BY <1>1, Zenon DEF IInv, OtherTypes
<1> QED BY <1>1, <1>2, MailAsWas, Stays

LEMMA TuneKept ==
    ASSUME IInv, NEW i \in Intervals, NEW b \in Budgets, Tune(i, b) PROVE StepKept
<1>1. /\ machine' = machine /\ enabled' = enabled /\ interval' = i /\ budget' = b
      /\ withheld' = withheld /\ frames' = frames /\ since_capture' = since_capture
      /\ chain' = chain /\ asked' = asked /\ done' = done /\ quit' = quit
      /\ worker' = worker /\ work' = work /\ caller' = caller
  BY DEF Tune, clock, mail, thread
<1>2. OtherTypes'
  BY <1>1, Zenon DEF IInv, OtherTypes
<1> QED BY <1>1, <1>2, MailAsWas, Stays

LEMMA AwaitKept == ASSUME IInv, Await PROVE StepKept
<1>1. /\ machine' = machine /\ enabled' = enabled /\ interval' = interval /\ budget' = budget
      /\ withheld' = withheld /\ frames' = frames /\ since_capture' = since_capture
      /\ chain' = chain /\ asked' = asked /\ done' = done /\ quit' = quit
      /\ worker' = worker /\ work' = work /\ caller' = "waiting"
  BY DEF Await, settings, clock, mail, thread
<1>2. OtherTypes'
  BY <1>1, Zenon DEF IInv, OtherTypes
<1> QED BY <1>1, <1>2, MailAsWas, Stays

LEMMA RouseKept == ASSUME IInv, Rouse PROVE StepKept
<1>1. /\ machine' = machine /\ enabled' = enabled /\ interval' = interval /\ budget' = budget
      /\ withheld' = withheld /\ frames' = frames /\ since_capture' = since_capture
      /\ chain' = chain /\ asked' = asked /\ done' = done /\ quit' = quit /\ work' = work
  BY DEF Rouse, settings, clock, mail
<1>2. \/ caller' = "idle" /\ worker' = worker
      \/ worker = "parked" /\ worker' = "looking" /\ caller' = caller
  BY DEF Rouse
<1>3. OtherTypes'
  <2>1. worker' \in {worker, "looking"} /\ caller' \in {caller, "idle"}
    BY <1>2
  <2> QED BY <1>1, <2>1, Zenon DEF IInv, OtherTypes
<1>4. JobOut' = JobOut
  BY <1>1 DEF JobOut
<1>5. MailInv'
  <2>1. CASE worker' = worker
    BY <1>1, <1>2, <2>1, MailAsWas
  <2>2. CASE worker = "parked" /\ worker' = "looking" /\ caller' = caller
    BY <1>1, <1>4, <2>2 DEF IInv, MailInv
  <2> QED BY <1>2, <2>1, <2>2
<1> QED BY <1>1, <1>3, <1>4, <1>5, Stays

LEMMA TurnOnKept ==
    ASSUME IInv, NEW i \in Intervals, NEW b \in Budgets, TurnOn(i, b) PROVE StepKept
<1>1. /\ ~enabled /\ enabled' = TRUE /\ interval' = i /\ budget' = b
      /\ machine' = machine /\ frames' = frames /\ work' = work
  BY DEF TurnOn
<1>2. chain = EmptyChain
  BY <1>1 DEF IInv, NothingHeldWhileOff
<1>3. CASE /\ withheld
           /\ UNCHANGED <<withheld, since_capture, chain, mail, worker, caller>>
  <2>1. /\ chain' = chain /\ asked' = asked /\ done' = done /\ quit' = quit
        /\ worker' = worker /\ caller' = caller /\ withheld' = withheld
        /\ since_capture' = since_capture
    BY <1>3 DEF mail
  <2>2. OtherTypes'
    BY <1>1, <2>1, Zenon DEF IInv, OtherTypes
  <2> QED BY <1>1, <1>3, <2>1, <2>2, MailAsWas, Stays
<1>4. CASE /\ CanSettle /\ ~withheld
           /\ CaptureFailed(since_capture) \/ Captured(frames, machine, since_capture)
  <2>1. NewFrame(frames)
    BY <1>2, EmptyParts DEF NewFrame, IInv, OtherTypes
  <2>2. machine \in States /\ machine' \in States /\ since_capture \in Nat
    BY <1>1 DEF IInv, OtherTypes
  <2>3. machine \in {machine, machine'} /\ interval' \in Intervals /\ budget' \in Budgets
    BY <1>1
  <2> QED BY <1>1, <1>4, <2>1, <2>2, <2>3, CaptureStep
<1> QED BY <1>3, <1>4 DEF TurnOn

LEMMA TurnOffKept ==
    ASSUME IInv, NEW i \in Intervals, NEW b \in Budgets, TurnOff(i, b) PROVE StepKept
<1>1. /\ CanSettle /\ machine' = machine /\ enabled' = FALSE /\ interval' = i /\ budget' = b
      /\ withheld' = withheld /\ frames' = frames /\ since_capture' = 0
      /\ chain' = EmptyChain /\ asked' = asked /\ done' = DoneTaken /\ quit' = quit
      /\ worker' = worker /\ work' = work /\ caller' = caller
  BY DEF TurnOff, Cleared, thread
<1>2. MailInv' /\ done' = NoJob
  BY <1>1, EmptyParts, SettledMail, MailEmptied
<1>3. OtherTypes'
  BY <1>1, <1>2, Zenon DEF IInv, OtherTypes
<1> QED BY <1>1, <1>2, <1>3, Empties

LEMMA LookKept == ASSUME IInv, Look PROVE StepKept
<1>1. /\ CanSettle /\ machine' = machine /\ enabled' = enabled /\ interval' = interval
      /\ budget' = budget
      /\ withheld' = withheld /\ frames' = frames /\ since_capture' = since_capture
      /\ chain' = Settled(chain) /\ asked' = asked /\ done' = DoneTaken /\ quit' = quit
      /\ worker' = worker /\ work' = work /\ caller' = caller
  BY DEF Look, settings, clock, thread
<1>2. ~chain'.encoding
  BY <1>1, SettledKept
<1>3. MailInv' /\ done' = NoJob
  BY <1>1, <1>2, SettledMail, MailEmptied
<1>4. OtherTypes'
  BY <1>1, <1>3, Zenon DEF IInv, OtherTypes
<1> QED BY <1>1, <1>3, <1>4, Settles

LEMMA ResetKept == ASSUME IInv, NEW s \in States, Reset(s) PROVE StepKept
<1>1. /\ CanSettle /\ machine' = s /\ enabled' = enabled /\ interval' = interval
      /\ budget' = budget
      /\ withheld' = withheld /\ frames' = frames /\ since_capture' = 0
      /\ chain' = EmptyChain /\ asked' = asked /\ done' = DoneTaken /\ quit' = quit
      /\ worker' = worker /\ work' = work /\ caller' = caller
  BY DEF Reset, Cleared, settings, thread
<1>2. MailInv' /\ done' = NoJob
  BY <1>1, EmptyParts, SettledMail, MailEmptied
<1>3. OtherTypes'
  BY <1>1, <1>2, Zenon DEF IInv, OtherTypes
<1> QED BY <1>1, <1>2, <1>3, Empties

LEMMA LoadStateKept == ASSUME IInv, NEW s \in States, LoadState(s) PROVE StepKept
<1>1. /\ enabled' = enabled /\ interval' = interval /\ budget' = budget /\ frames' = frames
      /\ work' = work
  BY DEF LoadState
<1>2. machine' \in States
  BY DEF LoadState, Load, IInv, OtherTypes
<1>3. CASE /\ CanSettle /\ Keeping /\ ~HeldAlready
           /\ CaptureFailed(since_capture) \/ Captured(frames, machine, since_capture)
  <2>1. NewFrame(frames)
    <3>1. chain.moments # <<>> => Last(chain.moments) <= frames /\ Last(chain.moments) # frames
      BY <1>3 DEF HeldAlready, IInv, LastIsPast
    <3>2. frames \in Nat /\ (chain.moments # <<>> => Last(chain.moments) \in Nat)
      BY LastIsNat DEF IInv, OtherTypes
    <3> QED BY <3>1, <3>2 DEF NewFrame
  <2>2. ~withheld /\ enabled' = TRUE
    BY <1>1, <1>3, Zenon DEF Keeping, IInv, OtherTypes
  <2>3. machine \in States /\ since_capture \in Nat /\ machine \in {machine, machine'}
    BY DEF IInv, OtherTypes
  <2>4. interval' \in Intervals /\ budget' \in Budgets
    BY <1>1 DEF IInv, OtherTypes
  <2> QED BY <1>1, <1>2, <1>3, <2>1, <2>2, <2>3, <2>4, CaptureStep
<1>4. CASE UNCHANGED <<withheld, since_capture, chain, mail, worker, caller>>
  <2>1. /\ chain' = chain /\ asked' = asked /\ done' = done /\ quit' = quit
        /\ worker' = worker /\ caller' = caller /\ withheld' = withheld
        /\ since_capture' = since_capture
    BY <1>4 DEF mail
  <2>2. OtherTypes'
    BY <1>1, <1>2, <2>1, Zenon DEF IInv, OtherTypes
  <2> QED BY <1>1, <2>1, <2>2, MailAsWas, Stays
<1>5. CASE /\ CanSettle
           /\ chain' = Cleared(chain) /\ since_capture' = 0 /\ done' = DoneTaken
           /\ UNCHANGED <<withheld, asked, quit, worker, caller>>
  <2>1. /\ chain' = EmptyChain /\ asked' = asked /\ quit' = quit
        /\ worker' = worker /\ caller' = caller /\ withheld' = withheld
    BY <1>5 DEF Cleared
  <2>2. MailInv' /\ done' = NoJob
    BY <1>1, <1>5, <2>1, EmptyParts, SettledMail, MailEmptied
  <2>3. OtherTypes'
    BY <1>1, <1>2, <1>5, <2>1, <2>2, Zenon DEF IInv, OtherTypes
  <2> QED BY <2>1, <2>2, <2>3, Empties
<1> QED BY <1>3, <1>4, <1>5 DEF LoadState, mail

LEMMA DisposeKept == ASSUME IInv, Dispose PROVE StepKept
<1>1. /\ machine' = machine /\ enabled' = enabled /\ interval' = interval /\ budget' = budget
      /\ withheld' = withheld /\ frames' = frames /\ since_capture' = since_capture
      /\ asked' = asked /\ work' = work /\ caller = "idle"
  BY DEF Dispose, settings, clock
<1>2. CASE worker \in {"none", "inline"}
  <2>1. /\ caller' = "gone" /\ chain' = EmptyChain /\ worker' = "none" /\ done' = NoJob
        /\ quit' = quit
    BY <1>2 DEF Dispose
  <2>2. asked = NoJob /\ work = NoJob
    BY <1>2 DEF IInv, MailInv
  <2>3. MailInv'
    BY <1>1, <2>1, <2>2, EmptyParts DEF MailInv
  <2>4. OtherTypes'
    BY <1>1, <2>1, Zenon DEF IInv, OtherTypes
  <2> QED BY <2>1, <2>3, <2>4, Empties
<1>3. CASE worker \notin {"none", "inline"}
  <2>1. /\ quit' = TRUE /\ caller' = "disposing" /\ worker' = Woken(worker)
        /\ chain' = chain /\ done' = done
    BY <1>3 DEF Dispose, Stop
  <2>2. worker' # "none" /\ worker' # "inline" /\ (worker' = "encoding" <=> worker = "encoding")
    BY <1>3, <2>1 DEF Woken
  <2>3. JobOut' = JobOut
    BY <1>1, <2>1 DEF JobOut
  <2>4. MailInv'
    BY <1>1, <2>1, <2>2, <2>3 DEF IInv, MailInv
  <2>5. OtherTypes'
    <3>1. worker' \in {worker, "looking"}
      BY <2>1 DEF Woken
    <3> QED BY <1>1, <2>1, <3>1, Zenon DEF IInv, OtherTypes
  <2> QED BY <1>1, <2>1, <2>3, <2>4, <2>5, Stays
<1> QED BY <1>2, <1>3

LEMMA JoinKept == ASSUME IInv, Join PROVE StepKept
<1>1. /\ machine' = machine /\ enabled' = enabled /\ interval' = interval /\ budget' = budget
      /\ withheld' = withheld /\ frames' = frames /\ since_capture' = since_capture
      /\ asked' = NoJob /\ done' = NoJob /\ quit' = FALSE /\ work' = work
      /\ worker = "exited" /\ worker' = "none" /\ caller' \in {"idle", "gone"}
  BY DEF Join, settings, clock
<1>2. OtherTypes'
  <2>1. quit' \in BOOLEAN
    BY <1>1
  <2> QED BY <1>1, <2>1, Zenon DEF IInv, OtherTypes
<1>3. work = NoJob
  BY <1>1 DEF IInv, MailInv
<1>4. ~chain'.encoding /\ MailInv'
  <2>1. ~chain'.encoding
    BY EmptyParts DEF Join, IInv, MailInv
  <2> QED BY <1>1, <1>3, <2>1 DEF MailInv
<1>5. CASE caller = "joining"
  <2>1. chain' = chain
    BY <1>5 DEF Join
  <2> QED BY <1>1, <1>2, <1>4, <2>1, Stays
<1>6. CASE caller # "joining"
  <2>1. chain' = EmptyChain
    BY <1>6 DEF Join
  <2> QED BY <1>2, <1>4, <2>1, Empties
<1> QED BY <1>5, <1>6

LEMMA WorkerStepKept == ASSUME IInv, WorkerStep PROVE StepKept
<1>1. /\ machine' = machine /\ enabled' = enabled /\ interval' = interval /\ budget' = budget
      /\ withheld' = withheld /\ frames' = frames /\ since_capture' = since_capture
      /\ chain' = chain
  BY DEF WorkerStep, Take, Park, Exit, Encoded, settings, clock
<1>2. ASSUME OtherTypes', MailInv',
             chain.encoding => JobOut'.previous = JobOut.previous /\ JobOut'.state = JobOut.state
      PROVE  StepKept
  BY <1>1, <1>2, Stays
<1>3. CASE Take
  <2>1. /\ worker = "looking" /\ asked # NoJob /\ work' = asked /\ asked' = NoJob
        /\ worker' = "encoding" /\ done' = done /\ quit' = quit /\ caller' = caller
    BY <1>3 DEF Take
  <2>2. OtherTypes'
    BY <1>1, <2>1, Zenon DEF IInv, OtherTypes
  <2>3. chain.encoding /\ done = NoJob /\ work = NoJob
    BY <2>1 DEF IInv, MailInv, OtherTypes
  <2>4. JobOut' = JobOut
    BY <2>1, <2>3 DEF JobOut
  <2>5. MailInv'
    BY <1>1, <2>1, <2>3, <2>4 DEF IInv, MailInv
  <2> QED BY <1>2, <2>2, <2>4, <2>5
<1>4. CASE Park \/ Exit
  <2>1. /\ worker = "looking" /\ worker' \in {"parked", "exited"}
        /\ asked' = asked /\ done' = done /\ quit' = quit /\ work' = work /\ caller' = caller
    BY <1>4 DEF Park, Exit, mail
  <2>2. OtherTypes'
    BY <1>1, <2>1, Zenon DEF IInv, OtherTypes
  <2>3. JobOut' = JobOut
    BY <2>1 DEF JobOut
  <2>4. MailInv'
    BY <1>1, <2>1, <2>3 DEF IInv, MailInv
  <2> QED BY <1>2, <2>2, <2>3, <2>4
<1>5. CASE Encoded
  <2>1. /\ worker = "encoding" /\ done' = [work EXCEPT !.delta = Delta(work.previous, work.state)]
        /\ work' = NoJob /\ worker' = "looking"
        /\ caller' = (IF caller = "waiting" THEN "idle" ELSE caller)
        /\ asked' = asked /\ quit' = quit
    BY <1>5 DEF Encoded
  <2>2. work # NoJob /\ chain.encoding /\ asked = NoJob /\ done = NoJob /\ JobOut = work
        /\ caller # "joining"
    BY <2>1 DEF IInv, MailInv, JobOut
  <2>3. work \in Jobs
    BY <2>2 DEF IInv, OtherTypes
  <2>4. Delta(work.previous, work.state) \in Deltas
    BY <2>3, JobParts, DeltaType
  <2>5. /\ done' \in Jobs /\ done'.previous = work.previous /\ done'.state = work.state
        /\ done'.delta = Delta(done'.previous, done'.state)
    BY <2>1, <2>3, <2>4 DEF Jobs
  <2>6. done' # NoJob
    BY <2>5, StatesAssumption
  <2>7. caller' \in {caller, "idle"}
    BY <2>1
  <2>8. OtherTypes'
    BY <1>1, <2>1, <2>5, <2>7, Zenon DEF IInv, OtherTypes
  <2>9. JobOut' = done'
    BY <2>1, <2>2, <2>6 DEF JobOut
  <2>10. MailInv'
    BY <1>1, <2>1, <2>2, <2>5, <2>6, <2>7, <2>9 DEF IInv, MailInv
  <2> QED BY <1>2, <2>2, <2>5, <2>8, <2>9, <2>10
<1> QED BY <1>3, <1>4, <1>5 DEF WorkerStep

LEMMA StutterKept == ASSUME IInv, UNCHANGED vars PROVE StepKept
<1>1. /\ machine' = machine /\ enabled' = enabled /\ interval' = interval /\ budget' = budget
      /\ withheld' = withheld /\ frames' = frames /\ since_capture' = since_capture
      /\ chain' = chain /\ asked' = asked /\ done' = done /\ quit' = quit
      /\ worker' = worker /\ work' = work /\ caller' = caller
  BY DEF vars
<1>2. OtherTypes'
  BY <1>1, Zenon DEF IInv, OtherTypes
<1> QED BY <1>1, <1>2, MailAsWas, Stays

LEMMA NextKept == ASSUME IInv, Next PROVE StepKept
<1>1. ASSUME NEW s \in States,
             FrameCompleted(s) \/ FrameCutShort(s) \/ LoadState(s) \/ Reset(s)
      PROVE  StepKept
  BY <1>1, FrameCompletedKept, FrameCutShortKept, LoadStateKept, ResetKept
<1>2. ASSUME NEW i \in Intervals, NEW b \in Budgets, TurnOn(i, b) \/ TurnOff(i, b) \/ Tune(i, b)
      PROVE  StepKept
  BY <1>2, TurnOnKept, TurnOffKept, TuneKept
<1>3. ASSUME NEW f \in 0 .. MaxFrames, To(f) PROVE StepKept
  BY <1>3, ToKept
<1>4. CASE Step \/ Look \/ Await \/ Rouse \/ Dispose \/ Join \/ WorkerStep
  BY <1>4, StepBackKept, LookKept, AwaitKept, RouseKept, DisposeKept, JoinKept, WorkerStepKept
<1>5. CASE Ended
  BY <1>5, StutterKept DEF Ended
<1> QED BY <1>1, <1>2, <1>3, <1>4, <1>5 DEF Next

LEMMA BoxKept == ASSUME IInv, [Next]_vars PROVE StepKept
BY NextKept, StutterKept

LEMMA AlwaysIInv == Spec => []IInv
<1>1. Init => IInv
  BY InitIInv
<1>2. IInv /\ [Next]_vars => IInv'
  BY BoxKept DEF StepKept
<1> QED BY <1>1, <1>2, PTL DEF Spec

-----------------------------------------------------------------------------
(* The theorems.                                                           *)

LEMMA HoldsTogether == IInv => ChainHoldsTogether
<1> SUFFICES ASSUME IInv PROVE ChainHoldsTogether
  OBVIOUS
<1>1. ChainInv(chain) /\ chain \in Chains
  BY DEF IInv, ChainInv
<1>2. TypeOK
  BY <1>1, TypeParts DEF IInv
<1>3. MomentsInStep
  <2>1. Len(chain.deltas) \in Nat /\ Len(chain.moments) \in Nat
    BY <1>1, ChainParts
  <2>2. CASE chain = EmptyChain
    BY <2>2, EmptyParts DEF MomentsInStep
  <2>3. CASE Whole(chain)
    <3>1. chain.newest # NoState
      BY <2>3, StatesAssumption DEF Whole
    <3> QED BY <2>1, <2>3, <3>1 DEF MomentsInStep, Whole
  <2>4. CASE Out(chain)
    BY <2>1, <2>4 DEF MomentsInStep, Out
  <2> QED BY <1>1, <2>2, <2>3, <2>4 DEF ChainInv
<1>4. MomentsInOrder
  BY <1>1 DEF MomentsInOrder, ChainInv, Rising, IInv, LastIsPast
<1>5. BytesAreTheDeltas
  BY <1>1 DEF BytesAreTheDeltas, ChainInv
<1> QED BY <1>2, <1>3, <1>4, <1>5 DEF ChainHoldsTogether, IInv

\* The chain, its moments and its count of bytes hold together, whatever
\* snapshots, intervals and budgets there are: clear, trim_to_budget,
\* drop_newest_moment and settle keep them in step between any two encodings.
THEOREM ChainHoldsTogetherAlways == Spec => []ChainHoldsTogether
BY AlwaysIInv, HoldsTogether, PTL

\* One job is out while a delta is encoding and none otherwise: a settle waits
\* only for what a worker will hand back, and takes only what is its own.
THEOREM OneJobOutAlways == Spec => []OneJobOut
<1>1. IInv => OneJobOut
  <2> SUFFICES ASSUME IInv PROVE OneJobOut
    OBVIOUS
  <2> DEFINE out == {slot \in {"asked", "done", "work"} :
                        [asked |-> asked, done |-> done, work |-> work][slot] # NoJob}
  <2>1. \/ ~chain.encoding /\ asked = NoJob /\ done = NoJob /\ work = NoJob
        \/ chain.encoding /\ asked # NoJob /\ done = NoJob /\ work = NoJob
        \/ chain.encoding /\ asked = NoJob /\ done # NoJob /\ work = NoJob
        \/ chain.encoding /\ asked = NoJob /\ done = NoJob /\ work # NoJob
    BY DEF IInv, MailInv
  <2>2. \/ ~chain.encoding /\ out = {}
        \/ chain.encoding /\ \E slot : out = {slot}
    <3>1. CASE ~chain.encoding /\ asked = NoJob /\ done = NoJob /\ work = NoJob
      BY <3>1
    <3>2. CASE chain.encoding /\ asked # NoJob /\ done = NoJob /\ work = NoJob
      <4>1. out = {"asked"}
        BY <3>2
      <4> QED BY <3>2, <4>1
    <3>3. CASE chain.encoding /\ asked = NoJob /\ done # NoJob /\ work = NoJob
      <4>1. out = {"done"}
        BY <3>3
      <4> QED BY <3>3, <4>1
    <3>4. CASE chain.encoding /\ asked = NoJob /\ done = NoJob /\ work # NoJob
      <4>1. out = {"work"}
        BY <3>4
      <4> QED BY <3>4, <4>1
    <3> QED BY <2>1, <3>1, <3>2, <3>3, <3>4
  <2>3. chain.encoding => worker # "none"
    BY DEF IInv, MailInv
  <2> HIDE DEF out
  <2>4. Cardinality(out) = IF chain.encoding THEN 1 ELSE 0
    BY <2>2, FS_EmptySet, FS_Singleton
  <2> QED BY <2>3, <2>4 DEF OneJobOut, out
<1> QED BY <1>1, AlwaysIInv, PTL

\* Whatever moves the chain while a delta is out leaves the bytes of its deltas
\* within the budget in force, a capture that sends the next delta out among
\* them: settle trims after the delta joins, whatever the delta's size.
THEOREM SettledWithinBudgetAlways == Spec => SettledWithinBudget
<1>1. IInv /\ [Next]_vars
        => [chain.encoding /\ chain' # chain => chain'.delta_bytes <= budget]_vars
  BY BoxKept DEF StepKept
<1> QED BY <1>1, AlwaysIInv, PTL DEF Spec, SettledWithinBudget

\* The chain of deltas implements a history of whole snapshots: what a step or
\* a jump puts back is what the machine was when that frame was captured, and
\* only the oldest are ever let go alone.
THEOREM KeepsTheHistoryAlways == Spec => KeepsTheHistory
<1>1. Init => History!Init
  BY InitIInv DEF History!Init
<1>2. IInv /\ [Next]_vars => [History!Next]_(History!vars)
  BY BoxKept DEF StepKept
<1> QED BY <1>1, <1>2, AlwaysIInv, PTL DEF Spec, KeepsTheHistory, History!Spec
=============================================================================
