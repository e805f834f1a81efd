----------------------------- MODULE SharedLemmas -----------------------------
(***************************************************************************)
(* Lemmas that several proof modules rest on: least and greatest times,    *)
(* times on a grid, sequences, sorting, sums, and the holes of a series.   *)
(***************************************************************************)
EXTENDS IntervalCoverage, FiniteSetTheorems, SequenceTheorems, WellFoundedInduction, TLAPS

-----------------------------------------------------------------------------
(* Least and greatest times *)

\* A nonempty set of naturals has a least element.
LEMMA LeastNatural ==
    ASSUME NEW S, S \subseteq Nat, S # {}
    PROVE  \E x \in S : \A y \in S : x <= y
<1>1. \A x, y \in Nat : <<y, x>> \in OpToRel(<, Nat) <=> y < x
    BY SMT DEF OpToRel
<1>2. PICK x \in S : \A y \in S : ~ (<<y, x>> \in OpToRel(<, Nat))
    BY NatLessThanWellFounded, WFMin
<1>3. \A y \in S : ~ (y < x)
    BY <1>1, <1>2, Zenon
<1> QED
    BY <1>3, SMT

\* Min picks the least time of a set between two bounds.
LEMMA MinOfTimes ==
    ASSUME NEW lo \in Int, NEW hi \in Int, NEW S, S \subseteq lo..hi, S # {}
    PROVE  /\ Min(S) \in S
           /\ \A y \in S : Min(S) <= y
           /\ Min(S) \in lo..hi
<1> DEFINE T == {n \in Nat : n + lo \in S}
<1>1. \A s \in S : s \in Int /\ s - lo \in Nat /\ (s - lo) + lo = s
    OBVIOUS
<1>2. T \subseteq Nat /\ T # {}
    BY <1>1
<1>3. PICK x \in T : \A y \in T : x <= y
  <2> HIDE DEF T
  <2> QED BY <1>2, LeastNatural
<1>4. \A s \in S : x <= s - lo
    BY <1>1, <1>3
<1>5. x + lo \in S /\ \A s \in S : x + lo <= s
    BY <1>1, <1>4
<1> QED
    BY <1>5 DEF Min

\* Max picks the greatest.
LEMMA MaxOfTimes ==
    ASSUME NEW lo \in Int, NEW hi \in Int, NEW S, S \subseteq lo..hi, S # {}
    PROVE  /\ Max(S) \in S
           /\ \A y \in S : y <= Max(S)
           /\ Max(S) \in lo..hi
<1> DEFINE T == {n \in Nat : hi - n \in S}
<1>1. \A s \in S : s \in Int /\ hi - s \in Nat /\ hi - (hi - s) = s
    OBVIOUS
<1>2. T \subseteq Nat /\ T # {}
    BY <1>1
<1>3. PICK x \in T : \A y \in T : x <= y
  <2> HIDE DEF T
  <2> QED BY <1>2, LeastNatural
<1>4. \A s \in S : x <= hi - s
    BY <1>1, <1>3
<1>5. hi - x \in S /\ \A s \in S : hi - x >= s
    BY <1>1, <1>4
<1> QED
    BY <1>5 DEF Max

-----------------------------------------------------------------------------
(* Grids *)

\* A time is on the grid of a step if it is a multiple of it.
LEMMA MultipleOfStep ==
    ASSUME NEW t \in Int, NEW step \in Nat \ {0}
    PROVE  t % step = 0 <=> \E k \in Int : t = k * step
<1>1. t = step * (t \div step) + (t % step) /\ t \div step \in Int
    OBVIOUS
<1>2. ASSUME t % step = 0 PROVE t = (t \div step) * step
    BY <1>1, <1>2
<1>3. ASSUME NEW k \in Int, t = k * step PROVE t % step = 0
    BY <1>3
<1> QED
    BY <1>1, <1>2, <1>3

\* A grid holds the coarser grids, and the distance of two of its times.
LEMMA CoarserGrid ==
    ASSUME NEW t \in Int, NEW step \in Nat \ {0}, NEW coarse \in Nat \ {0},
           coarse % step = 0, t % coarse = 0
    PROVE  t % step = 0
<1>1. PICK k \in Int : t = k * coarse
    BY MultipleOfStep
<1>2. PICK m \in Int : coarse = m * step
    BY MultipleOfStep
<1>3. t = (k * m) * step /\ k * m \in Int
    BY <1>1, <1>2
<1> QED
    BY <1>3, MultipleOfStep

LEMMA GridDistance ==
    ASSUME NEW t \in Int, NEW u \in Int, NEW step \in Nat \ {0}, u % step = 0
    PROVE  t % step = 0 <=> (t - u) % step = 0
<1>1. PICK m \in Int : u = m * step
    BY MultipleOfStep
<1>2. ASSUME t % step = 0 PROVE (t - u) % step = 0
  <2>1. PICK k \in Int : t = k * step
      BY <1>2, MultipleOfStep
  <2>2. t - u = (k - m) * step /\ k - m \in Int /\ t - u \in Int
      BY <1>1, <2>1
  <2> QED
      BY <2>2, MultipleOfStep
<1>3. ASSUME (t - u) % step = 0 PROVE t % step = 0
  <2>1. PICK k \in Int : t - u = k * step
      BY <1>3, MultipleOfStep
  <2>2. t = (k + m) * step /\ k + m \in Int
      BY <1>1, <2>1
  <2> QED
      BY <2>2, MultipleOfStep
<1> QED
    BY <1>2, <1>3

\* FloorTo gives the last time of the grid that is not later.
LEMMA FloorToFacts ==
    ASSUME NEW t \in Int, NEW step \in Nat \ {0}
    PROVE  /\ FloorTo(t, step) \in Int
           /\ FloorTo(t, step) <= t
           /\ t < FloorTo(t, step) + step
           /\ FloorTo(t, step) % step = 0
           /\ \A u \in Int : u <= t /\ u % step = 0 => u <= FloorTo(t, step)
<1>1. t % step \in 0..(step - 1)
    OBVIOUS
<1>2. t = step * (t \div step) + (t % step) /\ t \div step \in Int
    OBVIOUS
<1>3. FloorTo(t, step) = (t \div step) * step
    BY <1>1, <1>2 DEF FloorTo
<1>4. FloorTo(t, step) % step = 0
    BY <1>2, <1>3
<1>5. ASSUME NEW u \in Int, u <= t, u % step = 0 PROVE u <= FloorTo(t, step)
  <2>1. PICK k \in Int : u = k * step
      BY <1>5, MultipleOfStep
  <2>2. CASE k <= t \div step
      BY <2>1, <2>2, <1>2, <1>3
  <2>3. CASE k > t \div step
    <3>1. k >= (t \div step) + 1
        BY <2>3, <1>2
    <3>2. k * step >= ((t \div step) + 1) * step
        BY <3>1, <1>2
    <3>3. u >= FloorTo(t, step) + step
        BY <3>2, <2>1, <1>2, <1>3
    <3>4. u > t
        BY <3>3, <1>1, <1>2 DEF FloorTo
    <3> QED
        BY <3>4, <1>5
  <2> QED
      BY <2>1, <2>2, <2>3, <1>2
<1> QED
    BY <1>1, <1>2, <1>4, <1>5 DEF FloorTo

\* ExpectedTimes of a window whose start is on the grid: its times of the grid.
LEMMA ExpectedTimesAreTheGrid ==
    ASSUME NEW lo \in Int, NEW hi \in Int, NEW step \in Nat \ {0}, lo % step = 0
    PROVE  ExpectedTimes(Window(lo, hi), step) = {t \in lo..hi : t % step = 0}
<1>1. ASSUME NEW t \in lo..hi
      PROVE  t % step = 0 <=> (t - lo) % step = 0
  <2>1. t \in Int
      OBVIOUS
  <2> QED
      BY <2>1, GridDistance
<1>2. ExpectedTimes(Window(lo, hi), step) = {t \in lo..hi : (t - lo) % step = 0}
    BY DEF ExpectedTimes, Window
<1> QED
    BY <1>1, <1>2, Zenon

\* Chunks of a size from a start cover everything up to the end: the chunk of a
\* time is the quotient of its distance from the start.
LEMMA ChunkOfTime ==
    ASSUME NEW lo \in Int, NEW hi \in Int, NEW t \in Int, NEW size \in Nat \ {0},
           lo <= t, t <= hi
    PROVE  LET i == (t - lo) \div size + 1
           IN  /\ i \in 1..((hi - lo) \div size + 1)
               /\ lo + (i - 1) * size <= t
               /\ t <= lo + (i - 1) * size + size - 1
<1> DEFINE q == (t - lo) \div size
           r == (t - lo) % size
           n == (hi - lo) \div size
           s == (hi - lo) % size
<1>1. q \in Int /\ r \in 0..(size - 1) /\ t - lo = size * q + r
    OBVIOUS
<1>2. n \in Int /\ s \in 0..(size - 1) /\ hi - lo = size * n + s
    OBVIOUS
<1> HIDE DEF q, r, n, s
<1>3. q >= 0
  <2>1. CASE q <= -1
    <3>1. size * q <= size * (-1)
        BY <2>1, <1>1
    <3> QED
        BY <3>1, <1>1
  <2> QED
      BY <2>1, <1>1
<1>4. q <= n
  <2>1. CASE q >= n + 1
    <3>1. size * q >= size * (n + 1)
        BY <2>1, <1>1, <1>2
    <3> QED
        BY <3>1, <1>1, <1>2
  <2> QED
      BY <2>1, <1>1, <1>2
<1>5. (q + 1 - 1) * size = size * q
    BY <1>1
<1>6. /\ q + 1 \in 1..(n + 1)
      /\ lo + (q + 1 - 1) * size <= t
      /\ t <= lo + (q + 1 - 1) * size + size - 1
  <2> DEFINE m == size * q
  <2>1. m \in Int /\ r \in 0..(size - 1) /\ t - lo = m + r
      BY <1>1
  <2> HIDE DEF m
  <2>2. lo + m <= t /\ t <= lo + m + size - 1
      BY <2>1
  <2> QED
      BY <2>2, <1>1, <1>2, <1>3, <1>4, <1>5 DEF m
<1> QED
    BY <1>6 DEF q, n

-----------------------------------------------------------------------------
(* Sequences of calls, tasks and windows *)

\* A function on the first naturals is a sequence.
LEMMA SequenceOfFunction ==
    ASSUME NEW n \in Nat, NEW S, NEW f \in [1..n -> S]
    PROVE  f \in Seq(S) /\ Len(f) = n /\ DOMAIN f = 1..n
<1>1. f \in Seq(S)
    BY SeqDef
<1>2. Len(f) \in Nat /\ 1..Len(f) = 1..n
    BY <1>1, LenProperties
<1>3. Len(f) = n
  <2>1. CASE Len(f) < n
      BY <2>1, <1>2
  <2>2. CASE Len(f) > n
      BY <2>2, <1>2
  <2> QED
      BY <2>1, <2>2, <1>2
<1> QED
    BY <1>1, <1>3

\* What is in a part of a concatenation is in the whole.
LEMMA ConcatenationKeeps ==
    ASSUME NEW S, NEW s \in Seq(S), NEW t \in Seq(S)
    PROVE  /\ s \o t \in Seq(S)
           /\ \A i \in DOMAIN s : i \in DOMAIN (s \o t) /\ (s \o t)[i] = s[i]
           /\ \A i \in DOMAIN t : Len(s) + i \in DOMAIN (s \o t) /\ (s \o t)[Len(s) + i] = t[i]
<1>1. /\ s \o t \in Seq(S)
      /\ Len(s \o t) = Len(s) + Len(t)
      /\ \A i \in 1 .. Len(s) + Len(t) :
             (s \o t)[i] = IF i <= Len(s) THEN s[i] ELSE t[i - Len(s)]
    BY ConcatProperties
<1>2. /\ Len(s) \in Nat /\ DOMAIN s = 1..Len(s)
      /\ Len(t) \in Nat /\ DOMAIN t = 1..Len(t)
      /\ DOMAIN (s \o t) = 1..(Len(s) + Len(t))
    BY <1>1, LenProperties
<1>3. ASSUME NEW i \in DOMAIN s
      PROVE  i \in DOMAIN (s \o t) /\ (s \o t)[i] = s[i]
    BY <1>1, <1>2
<1>4. ASSUME NEW i \in DOMAIN t
      PROVE  Len(s) + i \in DOMAIN (s \o t) /\ (s \o t)[Len(s) + i] = t[i]
  <2>1. i \in Int /\ Len(s) + i \in 1..(Len(s) + Len(t)) /\ ~ (Len(s) + i <= Len(s))
      BY <1>2
  <2>2. Len(s) + i - Len(s) = i
      BY <2>1, <1>2
  <2> QED
      BY <2>1, <2>2, <1>1, <1>2
<1> QED
    BY <1>1, <1>3, <1>4

\* FlattenSeq keeps the types and every element.  Its recursive function exists
\* on longer and longer prefixes, of which there is no least that fails.
LEMMA FlattenFacts ==
    ASSUME NEW S, NEW seqs \in Seq(Seq(S))
    PROVE  /\ FlattenSeq(seqs) \in Seq(S)
           /\ \A i \in DOMAIN seqs : \A j \in DOMAIN seqs[i] :
                  \E k \in DOMAIN FlattenSeq(seqs) : FlattenSeq(seqs)[k] = seqs[i][j]
<1> DEFINE n == Len(seqs)
           Body(g, i) == IF i = 1 THEN seqs[i] ELSE g[i - 1] \o seqs[i]
           Exists(m) == \E g \in [1..m -> Seq(S)] : \A i \in 1..m : g[i] = Body(g, i)
<1>1. /\ n \in Nat /\ DOMAIN seqs = 1..n
      /\ \A i \in 1..n : seqs[i] \in Seq(S)
    BY LenProperties
<1>2. CASE n = 0
  <2>1. seqs = <<>> /\ FlattenSeq(seqs) = <<>>
      BY <1>2, EmptySeq DEF FlattenSeq
  <2>2. DOMAIN seqs = {}
      BY <1>1, <1>2
  <2> QED
      BY <2>1, <2>2, EmptySeq
<1>3. CASE n > 0
  <2>1. Exists(1)
    <3>1. [i \in 1..1 |-> seqs[1]] \in [1..1 -> Seq(S)]
        BY <1>1, <1>3
    <3>2. \A i \in 1..1 : [i_1 \in 1..1 |-> seqs[1]][i] = Body([i_1 \in 1..1 |-> seqs[1]], i)
        OBVIOUS
    <3> QED
        BY <3>1, <3>2
  <2>2. ASSUME NEW m \in 2..n, Exists(m - 1)
        PROVE  Exists(m)
    <3>1. PICK g \in [1..(m - 1) -> Seq(S)] : \A i \in 1..(m - 1) : g[i] = Body(g, i)
        BY <2>2
    <3> DEFINE h == [i \in 1..m |-> IF i = m THEN g[m - 1] \o seqs[m] ELSE g[i]]
    <3>2. m \in Nat /\ m - 1 \in 1..(m - 1) /\ m \in 1..n
        BY <1>1
    <3>3. g[m - 1] \o seqs[m] \in Seq(S)
        BY <3>1, <3>2, <1>1, ConcatProperties
    <3>4. h \in [1..m -> Seq(S)]
        BY <3>1, <3>2, <3>3
    <3>5. ASSUME NEW i \in 1..m
          PROVE  h[i] = Body(h, i)
      <4>1. CASE i = m
        <5>1. m \in 1..m /\ m - 1 \in 1..m /\ m - 1 # m /\ i # 1
            BY <4>1, <3>2
        <5>2. h[m - 1] = g[m - 1] /\ h[m] = g[m - 1] \o seqs[m]
            BY <5>1
        <5> QED
            BY <5>1, <5>2, <4>1
      <4>2. CASE i # m
        <5>1. i \in 1..(m - 1) /\ h[i] = g[i]
            BY <4>2, <3>2
        <5>2. i # 1 => h[i - 1] = g[i - 1]
            BY <5>1, <3>2
        <5> QED
            BY <5>1, <5>2, <3>1
      <4> QED
          BY <4>1, <4>2
    <3> HIDE DEF h, Body
    <3> QED
        BY <3>4, <3>5
  <2>3. Exists(n)
    <3> HIDE DEF Exists
    <3>1. SUFFICES ASSUME {m \in 1..n : ~ Exists(m)} # {}
                   PROVE  FALSE
        BY <1>1, <1>3
    <3>2. PICK m \in {m \in 1..n : ~ Exists(m)} : \A k \in {k \in 1..n : ~ Exists(k)} : m <= k
      <4>1. {m \in 1..n : ~ Exists(m)} \subseteq Nat
          BY <1>1
      <4> QED
          BY <3>1, <4>1, LeastNatural
    <3>3. m # 1
        BY <2>1, <3>2
    <3>4. m \in 2..n /\ m - 1 \in 1..n /\ m - 1 < m
        BY <3>2, <3>3, <1>1
    <3>5. Exists(m - 1)
        BY <3>2, <3>4
    <3> QED
        BY <3>4, <3>5, <2>2, <3>2
  <2> DEFINE f == CHOOSE f : f = [i \in 1..n |-> Body(f, i)]
  <2>4. f = [i \in 1..n |-> Body(f, i)]
    <3>1. PICK g \in [1..n -> Seq(S)] : \A i \in 1..n : g[i] = Body(g, i)
        BY <2>3
    <3>2. g = [i \in 1..n |-> Body(g, i)]
        BY <3>1
    <3> HIDE DEF Body
    <3> QED
        BY <3>2
  <2>5. FlattenSeq(seqs) = f[n]
      BY <1>1, <1>3 DEF FlattenSeq
  <2> HIDE DEF f
  <2> DEFINE Keeps(m) == /\ f[m] \in Seq(S)
                         /\ \A i \in 1..m : \A j \in DOMAIN seqs[i] :
                                \E k \in DOMAIN f[m] : f[m][k] = seqs[i][j]
  <2>6. Keeps(1)
    <3>1. f[1] = seqs[1]
        BY <2>4, <1>1, <1>3
    <3> QED
        BY <3>1, <1>1, <1>3
  <2>7. ASSUME NEW m \in 2..n, Keeps(m - 1)
        PROVE  Keeps(m)
    <3>1. m \in 1..n /\ m # 1 /\ m - 1 \in 1..n /\ seqs[m] \in Seq(S)
        BY <1>1
    <3>2. f[m] = f[m - 1] \o seqs[m]
        BY <2>4, <3>1
    <3>3. /\ f[m] \in Seq(S)
          /\ \A i \in DOMAIN f[m - 1] : i \in DOMAIN f[m] /\ f[m][i] = f[m - 1][i]
          /\ \A i \in DOMAIN seqs[m] : Len(f[m - 1]) + i \in DOMAIN f[m]
                                        /\ f[m][Len(f[m - 1]) + i] = seqs[m][i]
      <4>1. f[m - 1] \in Seq(S)
          BY <2>7
      <4> QED
        <5> DEFINE u == f[m - 1]
                   v == seqs[m]
        <5>1. u \in Seq(S) /\ v \in Seq(S) /\ f[m] = u \o v
            BY <4>1, <3>1, <3>2
        <5> HIDE DEF u, v
        <5>2. /\ u \o v \in Seq(S)
              /\ \A i \in DOMAIN u : i \in DOMAIN (u \o v) /\ (u \o v)[i] = u[i]
              /\ \A i \in DOMAIN v : Len(u) + i \in DOMAIN (u \o v) /\ (u \o v)[Len(u) + i] = v[i]
          <6>1. u \in Seq(S) /\ v \in Seq(S)
              BY <5>1
          <6> HIDE <5>1
          <6> QED
              BY <6>1, ConcatenationKeeps
        <5>3. /\ f[m] \in Seq(S)
              /\ \A i \in DOMAIN u : i \in DOMAIN f[m] /\ f[m][i] = u[i]
              /\ \A i \in DOMAIN v : Len(u) + i \in DOMAIN f[m] /\ f[m][Len(u) + i] = v[i]
            BY <5>1, <5>2
        <5> QED
            BY <5>3 DEF u, v
    <3>4. ASSUME NEW i \in 1..m, NEW j \in DOMAIN seqs[i]
          PROVE  \E k \in DOMAIN f[m] : f[m][k] = seqs[i][j]
      <4>1. CASE i = m
          BY <4>1, <3>3
      <4>2. CASE i # m
        <5>1. i \in 1..(m - 1)
            BY <4>2, <3>1
        <5>2. PICK k \in DOMAIN f[m - 1] : f[m - 1][k] = seqs[i][j]
            BY <5>1, <2>7
        <5> QED
            BY <5>2, <3>3
      <4> QED
          BY <4>1, <4>2
    <3> QED
        BY <3>3, <3>4
  <2>8. Keeps(n)
    <3> HIDE DEF Keeps
    <3>1. SUFFICES ASSUME {m \in 1..n : ~ Keeps(m)} # {}
                   PROVE  FALSE
        BY <1>1, <1>3
    <3>2. PICK m \in {m \in 1..n : ~ Keeps(m)} : \A k \in {k \in 1..n : ~ Keeps(k)} : m <= k
      <4>1. {m \in 1..n : ~ Keeps(m)} \subseteq Nat
          BY <1>1
      <4> QED
          BY <3>1, <4>1, LeastNatural
    <3>3. m # 1
        BY <2>6, <3>2
    <3>4. m \in 2..n /\ m - 1 \in 1..n /\ m - 1 < m
        BY <3>2, <3>3, <1>1
    <3>5. Keeps(m - 1)
        BY <3>2, <3>4
    <3> QED
        BY <3>4, <3>5, <2>7, <3>2
  <2> QED
      BY <2>8, <2>5, <1>1
<1> QED
    BY <1>1, <1>2, <1>3

-----------------------------------------------------------------------------
(* Counting what is left *)

\* The last element of a finite set is the only one.
LEMMA LastOne ==
    ASSUME NEW S, IsFiniteSet(S), NEW x \in S, ~ (Cardinality(S) > 1)
    PROVE  S = {x}
<1>1. /\ IsFiniteSet(S \ {x}) /\ Cardinality(S) \in Nat
      /\ Cardinality(S \ {x}) = Cardinality(S) - 1
      /\ Cardinality(S \ {x}) \in Nat
    BY FS_RemoveElement, FS_CardinalityType
<1>2. Cardinality(S \ {x}) = 0
    BY <1>1
<1>3. S \ {x} = {}
    BY <1>1, <1>2, FS_EmptySet
<1> QED
    BY <1>3

-----------------------------------------------------------------------------
(* Sorting *)

\* SortedWindows holds all of the windows, the earlier starts first: the number
\* of windows before one tells it from the others, so that each number below
\* their count is some window's.  The windows may carry more than their ends.
LEMMA SortedSegmentsFacts ==
    ASSUME NEW W, IsFiniteSet(W), \A w \in W : w.lo \in Int /\ w.hi \in Int,
           \A v, w \in W : v.lo = w.lo /\ v.hi = w.hi => v = w
    PROVE  /\ SortedWindows(W) \in Seq(W)
           /\ \A w \in W : \E i \in DOMAIN SortedWindows(W) : SortedWindows(W)[i] = w
           /\ \A i, j \in DOMAIN SortedWindows(W) :
                  i < j => SortedWindows(W)[i].lo <= SortedWindows(W)[j].lo
<1> DEFINE n == Cardinality(W)
           Before(w) == {v \in W : v.lo < w.lo \/ (v.lo = w.lo /\ v.hi < w.hi)}
           rank == [w \in W |-> Cardinality(Before(w))]
<1>1. n \in Nat
    BY FS_CardinalityType
<1>2. ASSUME NEW w \in W
      PROVE  rank[w] \in 0..(n - 1) /\ IsFiniteSet(Before(w))
  <2>1. w \notin Before(w) /\ Before(w) \in SUBSET (W \ {w})
      OBVIOUS
  <2>2. IsFiniteSet(W \ {w}) /\ Cardinality(W \ {w}) = n - 1
      BY FS_RemoveElement
  <2> HIDE DEF Before, n
  <2>3. IsFiniteSet(Before(w)) /\ Cardinality(Before(w)) <= n - 1
      BY <2>1, <2>2, FS_Subset
  <2>4. Cardinality(Before(w)) \in Nat
      BY <2>3, FS_CardinalityType
  <2> QED
      BY <2>3, <2>4, <1>1
<1>3. ASSUME NEW v \in W, NEW w \in W, v \in Before(w)
      PROVE  rank[v] < rank[w]
  <2>1. Before(v) \in SUBSET Before(w) /\ v \notin Before(v)
    <3>1. v.lo \in Int /\ w.lo \in Int /\ v.hi \in Int /\ w.hi \in Int
        OBVIOUS
    <3>2. ASSUME NEW u \in W, u \in Before(v)
          PROVE  u \in Before(w)
        BY <1>3, <3>1, <3>2
    <3>3. v \notin Before(v)
        BY <3>1
    <3> HIDE DEF Before
    <3>4. \A u \in Before(v) : u \in W
        BY DEF Before
    <3> QED
        BY <3>2, <3>3, <3>4
  <2> HIDE DEF Before
  <2>2. /\ Cardinality(Before(v)) <= Cardinality(Before(w))
        /\ Cardinality(Before(v)) # Cardinality(Before(w))
      BY <2>1, <1>2, <1>3, FS_Subset
  <2>3. Cardinality(Before(v)) \in Nat /\ Cardinality(Before(w)) \in Nat
      BY <1>2, FS_CardinalityType
  <2> QED
      BY <2>2, <2>3
<1>4. ASSUME NEW v \in W, NEW w \in W, rank[v] = rank[w]
      PROVE  v = w
  <2>1. v \in Before(w) \/ w \in Before(v) \/ v = w
    <3>1. v.lo \in Int /\ w.lo \in Int /\ v.hi \in Int /\ w.hi \in Int
        OBVIOUS
    <3>2. \/ v.lo < w.lo \/ (v.lo = w.lo /\ v.hi < w.hi)
          \/ w.lo < v.lo \/ (w.lo = v.lo /\ w.hi < v.hi)
          \/ (v.lo = w.lo /\ v.hi = w.hi)
        BY <3>1
    <3>3. v.lo = w.lo /\ v.hi = w.hi => v = w
        OBVIOUS
    <3> QED
        BY <3>2, <3>3
  <2>2. rank[v] \in Int /\ rank[w] \in Int
      BY <1>2
  <2> HIDE DEF rank, Before
  <2> QED
      BY <2>1, <2>2, <1>3, <1>4
<1>5. \A i \in 0..(n - 1) : \E w \in W : rank[w] = i
  <2>1. rank \in [W -> 0..(n - 1)]
      BY <1>2
  <2> HIDE DEF rank, n
  <2>2. rank \in Injection(W, 0..(n - 1))
      BY <2>1, <1>4 DEF Injection, IsInjective
  <2>3. IsFiniteSet(0..(n - 1)) /\ Cardinality(0..(n - 1)) = n
    <3>1. 0 \in Int /\ n - 1 \in Int /\ (IF 0 > n - 1 THEN 0 ELSE n - 1 - 0 + 1) = n
        BY <1>1
    <3> QED
        BY <3>1, FS_Interval
  <2>4. rank \in Surjection(W, 0..(n - 1))
      BY <2>2, <2>3, FS_Injection DEF n
  <2> QED
      BY <2>4 DEF Surjection
<1> DEFINE s == [i \in 1..n |-> CHOOSE w \in W : Cardinality(Before(w)) = i - 1]
<1>6. s = SortedWindows(W)
    BY DEF SortedWindows
<1>7. ASSUME NEW i \in 1..n
      PROVE  s[i] \in W /\ rank[s[i]] = i - 1
  <2>1. i - 1 \in 0..(n - 1)
      BY <1>1
  <2>2. PICK w \in W : rank[w] = i - 1
      BY <2>1, <1>5
  <2>3. Cardinality(Before(w)) = i - 1
      BY <2>2
  <2> HIDE DEF Before
  <2> QED
      BY <2>3
<1>8. s \in Seq(W) /\ DOMAIN s = 1..n
  <2>1. s \in [1..n -> W]
    <3>1. \A i \in 1..n : (CHOOSE w \in W : Cardinality(Before(w)) = i - 1) \in W
        BY <1>7
    <3> HIDE DEF n, Before
    <3> QED
        BY <3>1
  <2> QED
      BY <2>1, <1>1, SequenceOfFunction
<1>9. ASSUME NEW w \in W
      PROVE  \E i \in 1..n : s[i] = w
  <2>1. rank[w] \in 0..(n - 1)
      BY <1>2
  <2> DEFINE i == rank[w] + 1
  <2> HIDE DEF s, rank, n
  <2>2. i \in 1..n /\ i - 1 = rank[w]
      BY <1>1, <2>1
  <2> HIDE DEF i
  <2>3. s[i] \in W /\ rank[s[i]] = rank[w]
      BY <2>2, <1>7
  <2> DEFINE v == s[i]
  <2>4. v \in W /\ rank[v] = rank[w]
      BY <2>3
  <2> HIDE DEF v
  <2>5. v = w
      BY <2>4, <1>4
  <2> QED
      BY <2>2, <2>5 DEF v
<1>10. ASSUME NEW i \in 1..n, NEW j \in 1..n, i < j
       PROVE  s[i].lo <= s[j].lo
  <2>1. s[i] \in W /\ s[j] \in W /\ rank[s[i]] = i - 1 /\ rank[s[j]] = j - 1
      BY <1>7
  <2> DEFINE v == s[i]
             w == s[j]
  <2>2. /\ v \in W /\ w \in W /\ rank[v] = i - 1 /\ rank[w] = j - 1
        /\ v.lo \in Int /\ w.lo \in Int
      BY <2>1
  <2>3. w.lo < v.lo => w \in Before(v)
      BY <2>2
  <2> HIDE DEF v, w, s, rank, Before
  <2>4. CASE w.lo < v.lo
    <3>1. rank[w] < rank[v]
        BY <2>4, <2>2, <2>3, <1>3
    <3> QED
        BY <3>1, <2>2, <1>10, <1>1
  <2> QED
      BY <2>2, <2>4 DEF v, w
<1> HIDE DEF s, n
<1> QED
    BY <1>6, <1>8, <1>9, <1>10

\* SortedWindows of nothing but windows.
LEMMA SortedWindowsFacts ==
    ASSUME NEW W, W \subseteq [lo : Int, hi : Int], IsFiniteSet(W)
    PROVE  /\ SortedWindows(W) \in Seq(W)
           /\ \A w \in W : \E i \in DOMAIN SortedWindows(W) : SortedWindows(W)[i] = w
           /\ \A i, j \in DOMAIN SortedWindows(W) :
                  i < j => SortedWindows(W)[i].lo <= SortedWindows(W)[j].lo
<1>1. \A w \in W : w.lo \in Int /\ w.hi \in Int
    OBVIOUS
<1>2. ASSUME NEW v \in W, NEW w \in W, v.lo = w.lo /\ v.hi = w.hi
      PROVE  v = w
  <2>1. v \in [lo : Int, hi : Int] /\ w \in [lo : Int, hi : Int]
      OBVIOUS
  <2>2. v = [lo |-> v.lo, hi |-> v.hi] /\ w = [lo |-> w.lo, hi |-> w.hi]
      BY <2>1
  <2> QED
      BY <1>2, <2>2
<1> QED
    BY <1>1, <1>2, SortedSegmentsFacts

\* Sorted holds all of the times, each once and the earlier ones first.
LEMMA SortedFacts ==
    ASSUME NEW W, W \subseteq Int, IsFiniteSet(W)
    PROVE  /\ Sorted(W) \in Seq(W)
           /\ Len(Sorted(W)) = Cardinality(W)
           /\ DOMAIN Sorted(W) = 1..Cardinality(W)
           /\ \A w \in W : \E i \in DOMAIN Sorted(W) : Sorted(W)[i] = w
           /\ \A i, j \in DOMAIN Sorted(W) : i < j => Sorted(W)[i] < Sorted(W)[j]
<1> DEFINE n == Cardinality(W)
           Before(w) == {v \in W : v < w}
           rank == [w \in W |-> Cardinality(Before(w))]
<1>1. n \in Nat
    BY FS_CardinalityType
<1>2. ASSUME NEW w \in W
      PROVE  rank[w] \in 0..(n - 1) /\ IsFiniteSet(Before(w))
  <2>1. w \notin Before(w) /\ Before(w) \in SUBSET (W \ {w})
      OBVIOUS
  <2>2. IsFiniteSet(W \ {w}) /\ Cardinality(W \ {w}) = n - 1
      BY FS_RemoveElement
  <2> HIDE DEF Before, n
  <2>3. IsFiniteSet(Before(w)) /\ Cardinality(Before(w)) <= n - 1
      BY <2>1, <2>2, FS_Subset
  <2>4. Cardinality(Before(w)) \in Nat
      BY <2>3, FS_CardinalityType
  <2> QED
      BY <2>3, <2>4, <1>1
<1>3. ASSUME NEW v \in W, NEW w \in W, v < w
      PROVE  rank[v] < rank[w]
  <2>1. Before(v) \in SUBSET Before(w) /\ v \notin Before(v) /\ v \in Before(w)
    <3>1. \A u \in W : u \in Int
        OBVIOUS
    <3>2. \A u \in Before(v) : u \in Before(w)
        BY <1>3, <3>1
    <3>3. v \in Int /\ ~ (v < v)
        BY <3>1
    <3>4. v \notin Before(v) /\ v \in Before(w)
        BY <1>3, <3>3
    <3> HIDE DEF Before
    <3> QED
        BY <3>2, <3>4
  <2> HIDE DEF Before
  <2>2. /\ Cardinality(Before(v)) <= Cardinality(Before(w))
        /\ Cardinality(Before(v)) # Cardinality(Before(w))
      BY <2>1, <1>2, FS_Subset
  <2>3. Cardinality(Before(v)) \in Nat /\ Cardinality(Before(w)) \in Nat
      BY <1>2, FS_CardinalityType
  <2> QED
      BY <2>2, <2>3
<1>4. ASSUME NEW v \in W, NEW w \in W, rank[v] = rank[w]
      PROVE  v = w
  <2>1. v < w \/ w < v \/ v = w
      OBVIOUS
  <2>2. rank[v] \in Int /\ rank[w] \in Int
      BY <1>2
  <2> HIDE DEF rank, Before
  <2> QED
      BY <2>1, <2>2, <1>3, <1>4
<1>5. \A i \in 0..(n - 1) : \E w \in W : rank[w] = i
  <2>1. rank \in [W -> 0..(n - 1)]
      BY <1>2
  <2> HIDE DEF rank, n
  <2>2. rank \in Injection(W, 0..(n - 1))
      BY <2>1, <1>4 DEF Injection, IsInjective
  <2>3. IsFiniteSet(0..(n - 1)) /\ Cardinality(0..(n - 1)) = n
    <3>1. 0 \in Int /\ n - 1 \in Int /\ (IF 0 > n - 1 THEN 0 ELSE n - 1 - 0 + 1) = n
        BY <1>1
    <3> QED
        BY <3>1, FS_Interval
  <2>4. rank \in Surjection(W, 0..(n - 1))
      BY <2>2, <2>3, FS_Injection DEF n
  <2> QED
      BY <2>4 DEF Surjection
<1> DEFINE s == [i \in 1..n |-> CHOOSE w \in W : Cardinality(Before(w)) = i - 1]
<1>6. s = Sorted(W)
    BY DEF Sorted
<1>7. ASSUME NEW i \in 1..n
      PROVE  s[i] \in W /\ rank[s[i]] = i - 1
  <2>1. i - 1 \in 0..(n - 1)
      BY <1>1
  <2>2. PICK w \in W : rank[w] = i - 1
      BY <2>1, <1>5
  <2>3. Cardinality(Before(w)) = i - 1
      BY <2>2
  <2> HIDE DEF Before
  <2> QED
      BY <2>3
<1>8. s \in Seq(W) /\ DOMAIN s = 1..n /\ Len(s) = n
  <2>1. s \in [1..n -> W]
    <3>1. \A i \in 1..n : (CHOOSE w \in W : Cardinality(Before(w)) = i - 1) \in W
        BY <1>7
    <3> HIDE DEF n, Before
    <3> QED
        BY <3>1
  <2> QED
      BY <2>1, <1>1, SequenceOfFunction
<1>9. ASSUME NEW w \in W
      PROVE  \E i \in 1..n : s[i] = w
  <2>1. rank[w] \in 0..(n - 1)
      BY <1>2
  <2> DEFINE i == rank[w] + 1
  <2> HIDE DEF s, rank, n
  <2>2. i \in 1..n /\ i - 1 = rank[w]
      BY <1>1, <2>1
  <2> HIDE DEF i
  <2>3. s[i] \in W /\ rank[s[i]] = rank[w]
      BY <2>2, <1>7
  <2> DEFINE v == s[i]
  <2>4. v \in W /\ rank[v] = rank[w]
      BY <2>3
  <2> HIDE DEF v
  <2>5. v = w
      BY <2>4, <1>4
  <2> QED
      BY <2>2, <2>5 DEF v
<1>10. ASSUME NEW i \in 1..n, NEW j \in 1..n, i < j
       PROVE  s[i] < s[j]
  <2>1. s[i] \in W /\ s[j] \in W /\ rank[s[i]] = i - 1 /\ rank[s[j]] = j - 1
      BY <1>7
  <2> DEFINE v == s[i]
             w == s[j]
  <2>2. /\ v \in W /\ w \in W /\ rank[v] = i - 1 /\ rank[w] = j - 1
        /\ v \in Int /\ w \in Int
      BY <2>1
  <2> HIDE DEF v, w, s, rank
  <2>3. CASE w < v
      BY <2>3, <2>2, <1>3, <1>10, <1>1
  <2>4. CASE w = v
      BY <2>4, <2>2, <1>10, <1>1
  <2> QED
      BY <2>2, <2>3, <2>4 DEF v, w
<1> HIDE DEF s, n
<1> QED
    BY <1>6, <1>8, <1>9, <1>10 DEF n

\* The elements of a sequence over a set are also elements of a larger set.
LEMMA SequenceOfPart ==
    ASSUME NEW B, NEW A, A \subseteq B, NEW n, NEW s \in Seq(A), Len(s) = n
    PROVE  s \in Seq(B) /\ \A i \in 1..n : s[i] \in A /\ s[i] \in B
<1>1. \A i \in 1..n : s[i] \in A
    BY ElementOfSeq
<1>2. n \in Nat /\ DOMAIN s = 1..n
    BY LenProperties
<1>3. s \in [1..n -> B]
    BY <1>1, <1>2, SeqDef
<1> QED
    BY <1>1, <1>2, <1>3, SequenceOfFunction

\* The times of W one after the other.
Enumerates(s, n, W) ==
    /\ n \in Nat
    /\ \A i \in 1..n : s[i] \in W /\ s[i] \in Int
    /\ \A i, j \in 1..n : i < j => s[i] < s[j]
    /\ \A t \in W : \E i \in 1..n : t = s[i]

\* There is one way to enumerate them.
LEMMA SortedIsUnique ==
    ASSUME NEW n, NEW m, NEW s, NEW r, NEW W, Enumerates(s, n, W), Enumerates(r, m, W)
    PROVE  n = m /\ \A i \in 1..n : s[i] = r[i]
<1>0. /\ n \in Nat /\ m \in Nat
      /\ \A i \in 1..n : s[i] \in Int /\ s[i] \in W
      /\ \A i \in 1..m : r[i] \in Int /\ r[i] \in W
      /\ \A i, j \in 1..n : i < j => s[i] < s[j]
      /\ \A i, j \in 1..m : i < j => r[i] < r[j]
      /\ \A i \in 1..n : \E j \in 1..m : s[i] = r[j]
      /\ \A j \in 1..m : \E i \in 1..n : r[j] = s[i]
    BY DEF Enumerates
<1> DEFINE Bad == {k \in Nat : k \in 1..n /\ k \in 1..m /\ s[k] # r[k]}
<1>1. Bad = {}
  <2>1. SUFFICES ASSUME Bad # {}
                 PROVE  FALSE
      OBVIOUS
  <2>2. PICK k \in Bad : \A j \in Bad : k <= j
      BY <1>0, <2>1, LeastNatural
  <2>3. \A j \in 1..(k - 1) : j \in 1..n /\ j \in 1..m /\ j < k /\ s[j] = r[j]
    <3>1. SUFFICES ASSUME NEW j \in 1..(k - 1)
                   PROVE  j \in 1..n /\ j \in 1..m /\ j < k /\ s[j] = r[j]
        OBVIOUS
    <3>2. j \in 1..n /\ j \in 1..m /\ j < k /\ j \in Nat /\ ~ (k <= j)
        BY <1>0, <2>2
    <3> QED
        BY <1>0, <2>2, <3>2
  <2>4. CASE s[k] < r[k]
    <3>1. PICK j \in 1..m : s[k] = r[j]
        BY <1>0, <2>2
    <3>2. CASE j < k
      <4>1. s[j] = s[k] /\ s[j] < s[k] /\ s[k] \in Int
          BY <1>0, <3>1, <3>2, <2>2, <2>3
      <4> QED
          BY <1>0, <4>1
    <3>3. CASE k < j
      <4>1. r[k] < r[j] /\ r[j] < r[k] /\ r[k] \in Int /\ r[j] \in Int
          BY <1>0, <3>1, <3>3, <2>2, <2>4
      <4> QED
          BY <1>0, <4>1
    <3>4. j # k
        BY <1>0, <3>1, <2>2
    <3> QED
        BY <1>0, <3>2, <3>3, <3>4, <2>2
  <2>5. CASE r[k] < s[k]
    <3>1. PICK i \in 1..n : r[k] = s[i]
        BY <1>0, <2>2
    <3>2. CASE i < k
      <4>1. r[i] = r[k] /\ r[i] < r[k] /\ r[k] \in Int
          BY <1>0, <3>1, <3>2, <2>2, <2>3
      <4> QED
          BY <1>0, <4>1
    <3>3. CASE k < i
      <4>1. s[k] < s[i] /\ s[i] < s[k] /\ s[k] \in Int /\ s[i] \in Int
          BY <1>0, <3>1, <3>3, <2>2, <2>5
      <4> QED
          BY <1>0, <4>1
    <3>4. i # k
        BY <1>0, <3>1, <2>2
    <3> QED
        BY <1>0, <3>2, <3>3, <3>4, <2>2
  <2>6. s[k] \in Int /\ r[k] \in Int /\ s[k] # r[k]
      BY <1>0, <2>2
  <2> QED
      BY <1>0, <2>4, <2>5, <2>6
<1>2. ASSUME NEW i \in 1..n, i \in 1..m
      PROVE  s[i] = r[i]
    BY <1>0, <1>1, <1>2
<1> HIDE DEF Bad
<1>3. ~ (n < m)
  <2>1. SUFFICES ASSUME n < m
                 PROVE  FALSE
      OBVIOUS
  <2>2. n + 1 \in 1..m
      BY <1>0, <2>1
  <2>3. PICK i \in 1..n : r[n + 1] = s[i]
      BY <1>0, <2>2
  <2>4. i \in 1..m /\ i < n + 1
      BY <1>0, <2>1
  <2>5. r[i] = r[n + 1] /\ r[i] < r[n + 1] /\ r[i] \in Int
      BY <1>0, <2>2, <2>3, <2>4, <1>2
  <2> QED
      BY <1>0, <2>5
<1>4. ~ (m < n)
  <2>1. SUFFICES ASSUME m < n
                 PROVE  FALSE
      OBVIOUS
  <2>2. m + 1 \in 1..n
      BY <1>0, <2>1
  <2>3. PICK j \in 1..m : s[m + 1] = r[j]
      BY <1>0, <2>2
  <2>4. j \in 1..n /\ j < m + 1
      BY <1>0, <2>1
  <2>5. s[j] = s[m + 1] /\ s[j] < s[m + 1] /\ s[j] \in Int
      BY <1>0, <2>2, <2>3, <2>4, <1>2
  <2> QED
      BY <1>0, <2>5
<1> QED
    BY <1>0, <1>2, <1>3, <1>4

\* The first times of a sorted series, and then the later ones.
LEMMA SortedSplits ==
    ASSUME NEW W, W \subseteq Int, IsFiniteSet(W), NEW k \in 1..Cardinality(W)
    PROVE  LET S     == Sorted(W)
               later == {t \in W : t > S[k]}
           IN  S = SubSeq(S, 1, k) \o Sorted(later)
<1> DEFINE S == Sorted(W)
           n == Cardinality(W)
           later == {t \in W : t > S[k]}
           first == SubSeq(S, 1, k)
           L == Sorted(later)
           both == first \o L
<1>1. /\ S \in Seq(W) /\ Len(S) = n /\ DOMAIN S = 1..n /\ n \in Nat
      /\ \A t \in W : \E i \in DOMAIN S : S[i] = t
      /\ \A i, j \in DOMAIN S : i < j => S[i] < S[j]
    BY SortedFacts, FS_CardinalityType
<1> HIDE DEF S, n
<1>2. S \in Seq(Int) /\ \A i \in 1..n : S[i] \in W /\ S[i] \in Int
    BY <1>1, SequenceOfPart
<1>3. later \subseteq W /\ later \subseteq Int /\ IsFiniteSet(later)
    BY FS_Subset
<1> DEFINE m == Cardinality(later)
<1>4. m \in Nat
    BY <1>3, FS_CardinalityType
<1>5. \A t \in later : t \in W /\ t \in Int /\ t > S[k]
    BY <1>3
<1>6. \A t \in W : t > S[k] => t \in later
    OBVIOUS
<1> HIDE DEF later
<1>7. /\ L \in Seq(later) /\ Len(L) = m /\ DOMAIN L = 1..m
      /\ \A t \in later : \E i \in DOMAIN L : L[i] = t
      /\ \A i, j \in DOMAIN L : i < j => L[i] < L[j]
    BY <1>3, SortedFacts
<1> HIDE DEF L, m
<1>8. L \in Seq(Int) /\ \A i \in 1..m : L[i] \in later /\ L[i] \in Int
    BY <1>7, <1>3, SequenceOfPart
<1>9. k \in 1..n /\ k \in Int
    BY DEF n
<1>10. first \in Seq(Int) /\ Len(first) = k /\ \A i \in 1..k : first[i] = S[i]
    BY <1>1, <1>2, <1>9
<1> HIDE DEF first
<1>11. /\ both \in Seq(Int) /\ Len(both) = k + m /\ DOMAIN both = 1..(k + m)
       /\ \A i \in 1..k : both[i] = S[i]
       /\ \A i \in (k + 1)..(k + m) : both[i] = L[i - k]
  <2>1. /\ both \in Seq(Int) /\ Len(both) = Len(first) + Len(L)
        /\ \A i \in 1..Len(first) : both[i] = first[i]
        /\ \A i \in (Len(first) + 1)..(Len(first) + Len(L)) : both[i] = L[i - Len(first)]
      BY <1>8, <1>10
  <2> HIDE DEF both
  <2>2. DOMAIN both = 1..Len(both)
      BY <2>1
  <2> QED
      BY <2>1, <2>2, <1>7, <1>10
<1> HIDE DEF both
<1>12. \A i \in 1..(k + m) : (i \in 1..k /\ i \in 1..n) \/ (i \in (k + 1)..(k + m) /\ i - k \in 1..m)
    BY <1>1, <1>4, <1>9
<1>13. \A i \in 1..(k + m) : both[i] \in Int /\ both[i] \in W
  <2>1. SUFFICES ASSUME NEW i \in 1..(k + m)
                 PROVE  both[i] \in Int /\ both[i] \in W
      OBVIOUS
  <2>2. CASE i \in 1..k /\ i \in 1..n
      BY <2>2, <1>2, <1>11
  <2>3. CASE i \in (k + 1)..(k + m) /\ i - k \in 1..m
      BY <2>3, <1>5, <1>8, <1>11
  <2> QED
      BY <2>2, <2>3, <1>12
<1>14. \A i, j \in 1..(k + m) : i < j => both[i] < both[j]
  <2>1. SUFFICES ASSUME NEW i \in 1..(k + m), NEW j \in 1..(k + m), i < j
                 PROVE  both[i] < both[j]
      OBVIOUS
  <2>2. CASE (i \in 1..k /\ i \in 1..n) /\ (j \in 1..k /\ j \in 1..n)
    <3>1. S[i] < S[j]
        BY <2>1, <2>2, <1>1
    <3> QED
        BY <3>1, <2>2, <1>11
  <2>3. CASE (i \in 1..k /\ i \in 1..n) /\ (j \in (k + 1)..(k + m) /\ j - k \in 1..m)
    <3>1. S[i] <= S[k] /\ S[i] \in Int /\ S[k] \in Int
      <4>1. i < k \/ i = k
          BY <2>3
      <4>2. S[i] \in Int /\ S[k] \in Int
          BY <2>3, <1>2, <1>9
      <4>3. i < k => S[i] < S[k]
          BY <2>3, <1>1, <1>9
      <4> QED
          BY <4>1, <4>2, <4>3
    <3>2. L[j - k] > S[k] /\ L[j - k] \in Int
        BY <2>3, <1>5, <1>8
    <3>3. both[i] = S[i] /\ both[j] = L[j - k]
        BY <2>3, <1>11
    <3> QED
        BY <3>1, <3>2, <3>3
  <2>4. CASE (i \in (k + 1)..(k + m) /\ i - k \in 1..m) /\ (j \in (k + 1)..(k + m) /\ j - k \in 1..m)
    <3>1. i - k < j - k
        BY <2>1, <1>9
    <3>2. L[i - k] < L[j - k]
        BY <3>1, <2>4, <1>7
    <3> QED
        BY <3>2, <2>4, <1>11
  <2>5. ~ ((i \in (k + 1)..(k + m) /\ i - k \in 1..m) /\ (j \in 1..k /\ j \in 1..n))
      BY <2>1, <1>9
  <2> QED
      BY <2>2, <2>3, <2>4, <2>5, <1>12
<1>15. \A i \in 1..(k + m) : \E j \in 1..n : both[i] = S[j]
  <2>1. SUFFICES ASSUME NEW i \in 1..(k + m)
                 PROVE  \E j \in 1..n : both[i] = S[j]
      OBVIOUS
  <2>2. both[i] \in W
      BY <1>13
  <2> QED
      BY <2>2, <1>1
<1>16. \A j \in 1..n : \E i \in 1..(k + m) : S[j] = both[i]
  <2>1. SUFFICES ASSUME NEW j \in 1..n
                 PROVE  \E i \in 1..(k + m) : S[j] = both[i]
      OBVIOUS
  <2>2. CASE j <= k
    <3>1. j \in 1..k /\ j \in 1..(k + m)
        BY <2>2, <1>4, <1>9
    <3> QED
        BY <3>1, <1>11
  <2>3. CASE ~ (j <= k)
    <3>1. k < j
        BY <2>3, <1>9
    <3>2. S[j] > S[k] /\ S[j] \in W
      <4>1. S[k] < S[j] /\ S[k] \in Int /\ S[j] \in Int
          BY <3>1, <1>1, <1>2, <1>9
      <4> QED
          BY <4>1, <1>2
    <3>3. PICK i \in 1..m : L[i] = S[j]
        BY <3>2, <1>6, <1>7
    <3>4. k + i \in (k + 1)..(k + m) /\ k + i \in 1..(k + m) /\ (k + i) - k = i
        BY <1>4, <1>9
    <3>5. both[k + i] = L[i]
        BY <3>4, <1>11
    <3> QED
        BY <3>3, <3>4, <3>5
  <2> QED
      BY <2>2, <2>3
<1> DEFINE c == k + m
<1>17. Enumerates(both, c, W)
  <2>1. c \in Nat
      BY <1>4, <1>9
  <2>2. \A t \in W : \E i \in 1..c : t = both[i]
      BY <1>1, <1>16
  <2> QED
      BY <2>1, <2>2, <1>13, <1>14 DEF Enumerates
<1>18. Enumerates(S, n, W)
  <2>1. \A t \in W : \E i \in 1..n : t = S[i]
      BY <1>1
  <2> QED
      BY <2>1, <1>1, <1>2 DEF Enumerates
<1> HIDE DEF c
<1>19. c = n /\ \A i \in 1..c : both[i] = S[i]
    BY <1>17, <1>18, SortedIsUnique
<1>20. S = both
  <2>1. S \in Seq(Int) /\ both \in Seq(Int) /\ Len(S) = Len(both)
      BY <1>1, <1>2, <1>11, <1>19 DEF c
  <2>2. \A i \in 1..Len(S) : S[i] = both[i]
      BY <1>1, <1>19
  <2> QED
      BY <2>1, <2>2, SeqEqual
<1> QED
    BY <1>20 DEF both, first, L, later, S

-----------------------------------------------------------------------------
(* Sums over finite sets *)

\* The recursive function of a fold that adds g over the subsets of S, each time
\* taking any element first.
IsSum(it, g, S) ==
    it = [s \in SUBSET S |-> IF s = {} THEN 0
                             ELSE g[CHOOSE x \in s : TRUE] + it[s \ {CHOOSE x \in s : TRUE}]]
Total(g, S) == (CHOOSE it : IsSum(it, g, S))[S]

\* Without one of its elements a finite set is smaller by one.
LEMMA OneLess ==
    ASSUME NEW S, IsFiniteSet(S), NEW s \in SUBSET S, NEW x \in s
    PROVE  /\ s \ {x} \in SUBSET S
           /\ IsFiniteSet(s) /\ Cardinality(s) \in Nat \ {0}
           /\ Cardinality(s \ {x}) \in Nat
           /\ Cardinality(s \ {x}) = Cardinality(s) - 1
<1>1. IsFiniteSet(s)
    BY FS_Subset
<1>2. IsFiniteSet(s \ {x}) /\ Cardinality(s \ {x}) = Cardinality(s) - 1
    BY <1>1, FS_RemoveElement
<1>3. Cardinality(s) \in Nat /\ Cardinality(s \ {x}) \in Nat
    BY <1>1, <1>2, FS_CardinalityType
<1> QED
    BY <1>1, <1>2, <1>3

\* The recursive function exists: for the subsets of at most m elements, one m
\* after the other.
LEMMA SumExists ==
    ASSUME NEW S, IsFiniteSet(S), NEW g, \A x \in S : g[x] \in Int
    PROVE  \E it : IsSum(it, g, S) /\ it \in [SUBSET S -> Int]
<1> DEFINE n == Cardinality(S)
           pick(s) == CHOOSE x \in s : TRUE
           P(m) == {s \in SUBSET S : Cardinality(s) <= m}
           Body(it, s) == IF s = {} THEN 0 ELSE g[pick(s)] + it[s \ {pick(s)}]
           Exists(m) == \E it \in [P(m) -> Int] : \A s \in P(m) : it[s] = Body(it, s)
<1>1. n \in Nat
    BY FS_CardinalityType
<1>2. ASSUME NEW s \in SUBSET S, s # {}
      PROVE  /\ pick(s) \in s /\ g[pick(s)] \in Int
             /\ s \ {pick(s)} \in SUBSET S
             /\ Cardinality(s) \in Nat \ {0}
             /\ Cardinality(s \ {pick(s)}) = Cardinality(s) - 1
  <2>1. pick(s) \in s
      BY <1>2
  <2> HIDE DEF pick
  <2>2. g[pick(s)] \in Int
      BY <2>1
  <2> QED
      BY <2>1, <2>2, OneLess
<1>3. Exists(0)
  <2>1. \A s \in P(0) : s = {}
    <3>1. ASSUME NEW s \in SUBSET S, Cardinality(s) <= 0, s # {} PROVE FALSE
      <4>1. Cardinality(s) \in Nat \ {0}
          BY <1>2, <3>1
      <4> QED
          BY <3>1, <4>1
    <3> QED
        BY <3>1
  <2>2. [s \in P(0) |-> 0] \in [P(0) -> Int]
      OBVIOUS
  <2>3. \A s \in P(0) : [s_1 \in P(0) |-> 0][s] = Body([s_1 \in P(0) |-> 0], s)
      BY <2>1
  <2> QED
      BY <2>2, <2>3
<1>4. ASSUME NEW m \in Nat \ {0}, Exists(m - 1)
      PROVE  Exists(m)
  <2>1. PICK it \in [P(m - 1) -> Int] : \A s \in P(m - 1) : it[s] = Body(it, s)
      BY <1>4
  <2> DEFINE h == [s \in P(m) |-> IF s \in P(m - 1) THEN it[s] ELSE Body(it, s)]
  <2>2. ASSUME NEW s \in P(m), s # {}
        PROVE  /\ g[pick(s)] \in Int
               /\ s \ {pick(s)} \in P(m - 1) /\ s \ {pick(s)} \in P(m)
    <3>1. s \in SUBSET S /\ Cardinality(s) <= m
        OBVIOUS
    <3>2. /\ g[pick(s)] \in Int
          /\ s \ {pick(s)} \in SUBSET S
          /\ Cardinality(s) \in Nat \ {0}
          /\ Cardinality(s \ {pick(s)}) = Cardinality(s) - 1
        BY <2>2, <3>1, <1>2
    <3> HIDE DEF pick
    <3>3. Cardinality(s \ {pick(s)}) <= m - 1 /\ Cardinality(s \ {pick(s)}) <= m
        BY <3>1, <3>2
    <3> QED
        BY <3>2, <3>3
  <2> HIDE DEF pick
  <2>3. ASSUME NEW s \in P(m)
        PROVE  Body(it, s) \in Int
    <3>1. CASE s = {}
        BY <3>1
    <3>2. CASE s # {}
      <4>1. g[pick(s)] \in Int /\ s \ {pick(s)} \in P(m - 1)
          BY <2>2, <3>2
      <4> HIDE DEF P
      <4>2. it[s \ {pick(s)}] \in Int
          BY <4>1
      <4> QED
          BY <3>2, <4>1, <4>2
    <3> QED
        BY <3>1, <3>2
  <2>4. h \in [P(m) -> Int]
    <3> HIDE DEF P, Body
    <3> QED
        BY <2>3
  <2>5. ASSUME NEW s \in P(m)
        PROVE  h[s] = Body(h, s)
    <3>1. h[s] = Body(it, s)
      <4> HIDE DEF P, Body
      <4> QED
          BY <2>1
    <3>2. s # {} => h[s \ {pick(s)}] = it[s \ {pick(s)}]
      <4>1. s # {} => s \ {pick(s)} \in P(m - 1) /\ s \ {pick(s)} \in P(m)
          BY <2>2
      <4> HIDE DEF P, Body
      <4> QED
          BY <4>1
    <3> HIDE DEF h, P
    <3> QED
        BY <3>1, <3>2
  <2> HIDE DEF h, P, Body
  <2> QED
      BY <2>4, <2>5
<1>5. Exists(n)
  <2> HIDE DEF Exists
  <2>1. SUFFICES ASSUME {m \in Nat : ~ Exists(m)} # {}
                 PROVE  FALSE
      BY <1>1
  <2>2. PICK m \in {m \in Nat : ~ Exists(m)} : \A k \in {k \in Nat : ~ Exists(k)} : m <= k
      BY <2>1, LeastNatural
  <2>3. m \in Nat \ {0} /\ m - 1 \in Nat /\ ~ (m <= m - 1)
      BY <2>2, <1>3
  <2>4. Exists(m - 1)
      BY <2>2, <2>3
  <2> QED
      BY <2>2, <2>3, <2>4, <1>4
<1>6. P(n) = SUBSET S
  <2>1. \A s \in SUBSET S : Cardinality(s) <= n
      BY FS_Subset
  <2> QED
      BY <2>1
<1>7. PICK it \in [SUBSET S -> Int] : \A s \in SUBSET S : it[s] = Body(it, s)
  <2> HIDE DEF P, Body
  <2> QED
      BY <1>5, <1>6
<1>8. it = [s \in SUBSET S |-> Body(it, s)]
  <2> HIDE DEF Body
  <2> QED
      BY <1>7
<1>9. IsSum(it, g, S)
    BY <1>8 DEF IsSum
<1> QED
    BY <1>7, <1>9

\* What a sum of a set is does not depend on the set that the recursion is over,
\* nor on the terms outside of the set.
LEMMA SumsAgree ==
    ASSUME NEW S, IsFiniteSet(S), NEW R, IsFiniteSet(R), NEW g, NEW h, NEW it, NEW ir,
           IsSum(it, g, S), IsSum(ir, h, R),
           NEW T, T \subseteq S, T \subseteq R, \A x \in T : g[x] = h[x]
    PROVE  it[T] = ir[T]
<1> DEFINE pick(s) == CHOOSE x \in s : TRUE
           D == {m \in Nat : \E s \in SUBSET T : Cardinality(s) = m /\ it[s] # ir[s]}
<1>1. IsFiniteSet(T)
    BY FS_Subset
<1>2. ASSUME NEW s \in SUBSET T
      PROVE  /\ Cardinality(s) \in Nat
             /\ it[s] = IF s = {} THEN 0 ELSE g[pick(s)] + it[s \ {pick(s)}]
             /\ ir[s] = IF s = {} THEN 0 ELSE h[pick(s)] + ir[s \ {pick(s)}]
  <2>1. s \in SUBSET S /\ s \in SUBSET R
      OBVIOUS
  <2>2. Cardinality(s) \in Nat
      BY <1>1, FS_Subset, FS_CardinalityType
  <2> QED
      BY <2>1, <2>2 DEF IsSum
<1>3. ASSUME NEW s \in SUBSET T, s # {}
      PROVE  /\ pick(s) \in T
             /\ s \ {pick(s)} \in SUBSET T
             /\ Cardinality(s \ {pick(s)}) \in Nat
             /\ Cardinality(s \ {pick(s)}) < Cardinality(s)
  <2>1. pick(s) \in s
      BY <1>3
  <2> HIDE DEF pick
  <2>2. /\ s \ {pick(s)} \in SUBSET T /\ Cardinality(s) \in Nat
        /\ Cardinality(s \ {pick(s)}) \in Nat
        /\ Cardinality(s \ {pick(s)}) = Cardinality(s) - 1
    <3>1. \A x \in s : /\ s \ {x} \in SUBSET T /\ Cardinality(s) \in Nat
                       /\ Cardinality(s \ {x}) \in Nat
                       /\ Cardinality(s \ {x}) = Cardinality(s) - 1
      <4> HIDE DEF D
      <4> QED
          BY <1>1, OneLess
    <3> QED
        BY <2>1, <3>1
  <2> QED
      BY <2>1, <2>2
<1> HIDE DEF pick
<1>4. SUFFICES ASSUME it[T] # ir[T]
               PROVE  FALSE
    OBVIOUS
<1>5. Cardinality(T) \in D /\ D \subseteq Nat
    BY <1>2, <1>4
<1>6. PICK m \in D : \A k \in D : m <= k
  <2> HIDE DEF D
  <2> QED
      BY <1>5, LeastNatural
<1>7. PICK s \in SUBSET T : Cardinality(s) = m /\ it[s] # ir[s]
    BY <1>6
<1>8. s # {}
    BY <1>2, <1>7
<1> DEFINE r == s \ {pick(s)}
<1>9. r \in SUBSET T /\ Cardinality(r) \in Nat /\ Cardinality(r) < m /\ pick(s) \in T
    BY <1>3, <1>7, <1>8
<1>10. it[s] = g[pick(s)] + it[r] /\ ir[s] = h[pick(s)] + ir[r]
    BY <1>2, <1>8
<1> HIDE DEF r
<1>11. it[r] = ir[r]
  <2>1. SUFFICES ASSUME it[r] # ir[r] PROVE FALSE
      OBVIOUS
  <2>2. Cardinality(r) \in D
      BY <2>1, <1>9
  <2> HIDE DEF D
  <2>3. m <= Cardinality(r) /\ m \in Nat
      BY <2>2, <1>5, <1>6
  <2> QED
      BY <2>3, <1>9
<1> QED
    BY <1>7, <1>9, <1>10, <1>11

\* Any element may be taken first.
LEMMA SumTakesAny ==
    ASSUME NEW S, IsFiniteSet(S), NEW g, \A x \in S : g[x] \in Int,
           NEW it, \A s \in SUBSET S : it[s] \in Int, IsSum(it, g, S)
    PROVE  \A s \in SUBSET S : \A x \in s : it[s] = g[x] + it[s \ {x}]
<1> DEFINE pick(s) == CHOOSE x \in s : TRUE
           Bad(s) == \E x \in s : it[s] # g[x] + it[s \ {x}]
           D == {m \in Nat : \E s \in SUBSET S : Cardinality(s) = m /\ Bad(s)}
<1>1. ASSUME NEW s \in SUBSET S, s # {}
      PROVE  pick(s) \in s /\ it[s] = g[pick(s)] + it[s \ {pick(s)}]
    BY <1>1 DEF IsSum
<1> HIDE DEF pick
<1>2. SUFFICES ASSUME NEW t \in SUBSET S, Bad(t)
               PROVE  FALSE
    OBVIOUS
<1>3. Cardinality(t) \in D /\ D \subseteq Nat
  <2>1. Cardinality(t) \in Nat
      BY FS_Subset, FS_CardinalityType
  <2> HIDE DEF Bad
  <2> QED
      BY <2>1, <1>2
<1>4. PICK m \in D : \A k \in D : m <= k
  <2> HIDE DEF D
  <2> QED
      BY <1>3, LeastNatural
<1>5. PICK s \in SUBSET S : Cardinality(s) = m /\ Bad(s)
    BY <1>4
<1>6. PICK x \in s : it[s] # g[x] + it[s \ {x}]
    BY <1>5
<1> DEFINE p == pick(s)
<1>7. p \in s /\ it[s] = g[p] + it[s \ {p}]
    BY <1>1
<1> HIDE DEF p
<1>8. x # p
    BY <1>6, <1>7
<1>9. ASSUME NEW y \in s, NEW z \in s \ {y}
      PROVE  it[s \ {y}] = g[z] + it[(s \ {y}) \ {z}]
  <2> DEFINE r == s \ {y}
  <2>1. r \in SUBSET S /\ Cardinality(r) \in Nat /\ Cardinality(r) = m - 1 /\ m \in Nat
      BY <1>5, OneLess
  <2>2. z \in r
      OBVIOUS
  <2> HIDE DEF r
  <2>3. ~ Bad(r)
    <3>1. SUFFICES ASSUME Bad(r) PROVE FALSE
        OBVIOUS
    <3> HIDE DEF Bad
    <3>2. Cardinality(r) \in D
        BY <2>1, <3>1
    <3> HIDE DEF D
    <3>3. m <= Cardinality(r)
        BY <3>2, <1>4
    <3> QED
        BY <2>1, <3>3
  <2>4. it[r] = g[z] + it[r \ {z}]
      BY <2>2, <2>3
  <2> QED
      BY <2>4 DEF r
<1>10. /\ it[s \ {p}] = g[x] + it[(s \ {p}) \ {x}]
       /\ it[s \ {x}] = g[p] + it[(s \ {x}) \ {p}]
    BY <1>6, <1>7, <1>8, <1>9
<1>11. (s \ {p}) \ {x} = (s \ {x}) \ {p} /\ (s \ {p}) \ {x} \in SUBSET S
    OBVIOUS
<1>12. g[x] \in Int /\ g[p] \in Int /\ it[(s \ {p}) \ {x}] \in Int
    BY <1>6, <1>7, <1>11
<1> DEFINE rest == it[(s \ {p}) \ {x}]
<1>13. it[s] = g[p] + (g[x] + rest) /\ it[s \ {x}] = g[p] + rest /\ rest \in Int
    BY <1>7, <1>10, <1>11, <1>12
<1> HIDE DEF rest
<1> QED
    BY <1>6, <1>12, <1>13

\* The chosen function is a sum.
LEMMA TotalIsSum ==
    ASSUME NEW S, IsFiniteSet(S), NEW g, \A x \in S : g[x] \in Int
    PROVE  \E it \in [SUBSET S -> Int] : IsSum(it, g, S) /\ Total(g, S) = it[S]
<1> DEFINE ch == CHOOSE it : IsSum(it, g, S)
<1>1. PICK it : IsSum(it, g, S) /\ it \in [SUBSET S -> Int]
    BY SumExists
<1>2. IsSum(ch, g, S)
    BY <1>1
<1>3. Total(g, S) = ch[S]
    BY DEF Total
<1>4. DOMAIN ch = SUBSET S /\ ch = [s \in SUBSET S |-> ch[s]]
    BY <1>2 DEF IsSum
<1> HIDE DEF ch
<1>5. ASSUME NEW s \in SUBSET S PROVE ch[s] \in Int
  <2>1. s \subseteq S
      OBVIOUS
  <2>2. ch[s] = it[s]
      BY <2>1, <1>1, <1>2, SumsAgree
  <2> QED
      BY <2>2, <1>1
<1>6. ch \in [SUBSET S -> Int]
    BY <1>4, <1>5
<1> QED
    BY <1>2, <1>3, <1>6

\* A loop that adds up a term of each element computes the total of the terms.
LEMMA LoopComputesTotal ==
    ASSUME NEW S, IsFiniteSet(S), NEW g, \A x \in S : g[x] \in Int, NEW it, IsSum(it, g, S)
    PROVE  it[S] = Total(g, S)
<1>1. PICK ir \in [SUBSET S -> Int] : IsSum(ir, g, S) /\ Total(g, S) = ir[S]
    BY TotalIsSum
<1>2. S \subseteq S /\ \A x \in S : g[x] = g[x]
    OBVIOUS
<1>3. it[S] = ir[S]
    BY <1>1, <1>2, SumsAgree
<1> QED
    BY <1>1, <1>3

\* A total takes each element once.
LEMMA TotalFacts ==
    ASSUME NEW S, IsFiniteSet(S), NEW g, \A x \in S : g[x] \in Int
    PROVE  /\ Total(g, S) \in Int
           /\ S = {} => Total(g, S) = 0
           /\ \A x \in S : Total(g, S) = g[x] + Total(g, S \ {x})
<1>1. PICK it \in [SUBSET S -> Int] : IsSum(it, g, S) /\ Total(g, S) = it[S]
    BY TotalIsSum
<1>2. S \in SUBSET S
    OBVIOUS
<1>3. Total(g, S) \in Int
    BY <1>1, <1>2
<1>4. S = {} => Total(g, S) = 0
    BY <1>1, <1>2 DEF IsSum
<1>5. ASSUME NEW x \in S
      PROVE  Total(g, S) = g[x] + Total(g, S \ {x})
  <2>1. it[S] = g[x] + it[S \ {x}]
    <3>1. IsSum(it, g, S) /\ S \in SUBSET S /\ \A s \in SUBSET S : it[s] \in Int
        BY <1>1
    <3> QED
        BY <3>1, SumTakesAny, SMT
  <2> DEFINE R == S \ {x}
  <2>2. IsFiniteSet(R) /\ R \subseteq S /\ \A y \in R : g[y] \in Int
      BY FS_Subset
  <2> HIDE DEF R
  <2>3. PICK ir \in [SUBSET R -> Int] : IsSum(ir, g, R) /\ Total(g, R) = ir[R]
      BY <2>2, TotalIsSum
  <2>4. it[R] = ir[R]
      BY <1>1, <2>2, <2>3, SumsAgree
  <2> QED
      BY <1>1, <2>1, <2>3, <2>4 DEF R
<1> QED
    BY <1>3, <1>4, <1>5

\* Equal terms make equal sums.
LEMMA TotalOfEqual ==
    ASSUME NEW S, IsFiniteSet(S), NEW g, NEW h,
           \A x \in S : g[x] \in Int /\ g[x] = h[x]
    PROVE  Total(g, S) = Total(h, S)
<1>1. PICK it \in [SUBSET S -> Int] : IsSum(it, g, S) /\ Total(g, S) = it[S]
    BY TotalIsSum
<1>2. PICK ir \in [SUBSET S -> Int] : IsSum(ir, h, S) /\ Total(h, S) = ir[S]
    BY TotalIsSum
<1>3. S \subseteq S /\ \A x \in S : g[x] = h[x]
    OBVIOUS
<1>4. it[S] = ir[S]
    BY <1>1, <1>2, <1>3, SumsAgree
<1> QED
    BY <1>1, <1>2, <1>4

\* One more term adds itself.
LEMMA TotalOfOneMore ==
    ASSUME NEW S, IsFiniteSet(S), NEW g, NEW h, \A y \in S : g[y] \in Int /\ g[y] = h[y],
           NEW x, x \notin S, h[x] \in Int
    PROVE  Total(h, S \union {x}) = Total(g, S) + h[x]
<1> DEFINE R == S \union {x}
<1>1. IsFiniteSet(R) /\ x \in R /\ R \ {x} = S
    BY FS_AddElement
<1>2. \A y \in R : h[y] \in Int
    OBVIOUS
<1> HIDE DEF R
<1>3. Total(h, R) = h[x] + Total(h, R \ {x})
    BY <1>1, <1>2, TotalFacts
<1>4. Total(h, S) = Total(g, S)
    BY TotalOfEqual
<1>5. Total(g, S) \in Int
    BY TotalFacts
<1>6. Total(h, R \ {x}) = Total(h, S)
    BY <1>1, Zenon
<1> DEFINE a == Total(h, R)
           b == Total(h, R \ {x})
           c == Total(g, S)
           d == h[x]
<1>7. a = d + b /\ b = c /\ c \in Int /\ d \in Int
    BY <1>3, <1>4, <1>5, <1>6
<1> HIDE DEF a, b, c, d
<1>8. a = c + d
    BY <1>7
<1> QED
    BY <1>8 DEF R, a, c, d

\* One term changes, and the sum as much.
LEMMA TotalOfChange ==
    ASSUME NEW S, IsFiniteSet(S), NEW g, NEW h, \A x \in S : g[x] \in Int /\ h[x] \in Int,
           NEW x \in S, \A y \in S \ {x} : g[y] = h[y]
    PROVE  Total(h, S) = Total(g, S) + (h[x] - g[x])
<1> DEFINE R == S \ {x}
<1>1. IsFiniteSet(R) /\ \A y \in R : g[y] \in Int /\ h[y] \in Int /\ g[y] = h[y]
    BY FS_Subset
<1>2. Total(g, S) = g[x] + Total(g, R)
    BY TotalFacts
<1>3. Total(h, S) = h[x] + Total(h, R)
    BY TotalFacts
<1> HIDE DEF R
<1>4. Total(g, R) = Total(h, R) /\ Total(g, R) \in Int
    BY <1>1, TotalOfEqual, TotalFacts
<1> QED
    BY <1>2, <1>3, <1>4

\* The sum of sums.
LEMMA TotalOfSums ==
    ASSUME NEW S, IsFiniteSet(S), NEW f, NEW g, NEW h,
           \A x \in S : f[x] \in Int /\ g[x] \in Int /\ h[x] = f[x] + g[x]
    PROVE  Total(h, S) = Total(f, S) + Total(g, S)
<1> DEFINE Bad(s) == Total(h, s) # Total(f, s) + Total(g, s)
           D == {m \in Nat : \E s \in SUBSET S : Cardinality(s) = m /\ Bad(s)}
<1>1. \A x \in S : f[x] \in Int /\ g[x] \in Int /\ h[x] \in Int /\ h[x] = f[x] + g[x]
    OBVIOUS
<1>2. SUFFICES ASSUME Bad(S) PROVE FALSE
    OBVIOUS
<1>3. Cardinality(S) \in D /\ D \subseteq Nat
  <2> HIDE DEF Bad
  <2> QED
      BY <1>2, FS_CardinalityType
<1>4. PICK m \in D : \A k \in D : m <= k
  <2> HIDE DEF D
  <2> QED
      BY <1>3, LeastNatural
<1>5. PICK s \in SUBSET S : Cardinality(s) = m /\ Bad(s)
    BY <1>4
<1>6. IsFiniteSet(s) /\ \A x \in s : f[x] \in Int /\ g[x] \in Int /\ h[x] \in Int
    BY <1>1, FS_Subset
<1>7. CASE s = {}
  <2>1. Total(f, s) = 0 /\ Total(g, s) = 0 /\ Total(h, s) = 0
      BY <1>6, <1>7, TotalFacts
  <2> QED
      BY <2>1, <1>5
<1>8. CASE s # {}
  <2>1. PICK x \in s : TRUE
      BY <1>8
  <2> DEFINE r == s \ {x}
  <2>2. /\ Total(f, s) = f[x] + Total(f, r)
        /\ Total(g, s) = g[x] + Total(g, r)
        /\ Total(h, s) = h[x] + Total(h, r)
      BY <1>6, TotalFacts
  <2>3. r \in SUBSET S /\ Cardinality(r) \in Nat /\ Cardinality(r) = m - 1 /\ m \in Nat
      BY <1>5, OneLess
  <2>4. IsFiniteSet(r) /\ \A y \in r : f[y] \in Int /\ g[y] \in Int /\ h[y] \in Int
      BY <1>6, FS_Subset
  <2>5. f[x] \in Int /\ g[x] \in Int /\ h[x] = f[x] + g[x]
      BY <1>1
  <2> HIDE DEF r
  <2>6. ~ Bad(r)
    <3>1. SUFFICES ASSUME Bad(r) PROVE FALSE
        OBVIOUS
    <3> HIDE DEF Bad
    <3>2. Cardinality(r) \in D
        BY <2>3, <3>1
    <3> HIDE DEF D
    <3>3. m <= Cardinality(r)
        BY <3>2, <1>4
    <3> QED
        BY <2>3, <3>3
  <2>7. Total(f, r) \in Int /\ Total(g, r) \in Int
      BY <2>4, TotalFacts
  <2> QED
      BY <1>5, <2>2, <2>5, <2>6, <2>7
<1> QED
    BY <1>7, <1>8

\* A sum of nothing but zeros.
LEMMA TotalOfZeros ==
    ASSUME NEW S, IsFiniteSet(S), NEW g, \A x \in S : g[x] = 0
    PROVE  Total(g, S) = 0
<1>1. Total(g, S) = Total(g, S) + Total(g, S)
    BY TotalOfSums
<1>2. Total(g, S) \in Int
    BY TotalFacts
<1> DEFINE t == Total(g, S)
<1>3. t \in Int /\ t = t + t
    BY <1>1, <1>2
<1> HIDE DEF t
<1>4. t = 0
    BY <1>3
<1> QED
    BY <1>4 DEF t

\* A sum over a set is the sum over a part of it, if the rest is zeros.
LEMMA TotalOfPart ==
    ASSUME NEW S, IsFiniteSet(S), NEW T, T \subseteq S, NEW g, \A x \in S : g[x] \in Int,
           \A x \in S \ T : g[x] = 0
    PROVE  Total(g, S) = Total(g, T)
<1> DEFINE Bad(s) == T \subseteq s /\ Total(g, s) # Total(g, T)
           D == {m \in Nat : \E s \in SUBSET S : Cardinality(s) = m /\ Bad(s)}
<1>1. SUFFICES ASSUME Bad(S) PROVE FALSE
    OBVIOUS
<1>2. Cardinality(S) \in D /\ D \subseteq Nat
  <2> HIDE DEF Bad
  <2> QED
      BY <1>1, FS_CardinalityType
<1>3. PICK m \in D : \A k \in D : m <= k
  <2> HIDE DEF D
  <2> QED
      BY <1>2, LeastNatural
<1>4. PICK s \in SUBSET S : Cardinality(s) = m /\ Bad(s)
    BY <1>3
<1>5. IsFiniteSet(s) /\ \A x \in s : g[x] \in Int
    BY <1>4, FS_Subset
<1>6. PICK x \in s : x \notin T
    BY <1>4
<1> DEFINE r == s \ {x}
<1>7. Total(g, s) = g[x] + Total(g, r)
    BY <1>5, TotalFacts
<1>8. r \in SUBSET S /\ Cardinality(r) \in Nat /\ Cardinality(r) = m - 1 /\ m \in Nat
    BY <1>4, OneLess
<1>9. Total(g, r) \in Int
    BY <1>5, FS_Subset, TotalFacts
<1>10. g[x] = 0
    BY <1>6
<1>11. Bad(r)
    BY <1>4, <1>6, <1>7, <1>9, <1>10
<1> HIDE DEF r, Bad
<1>12. Cardinality(r) \in D
    BY <1>8, <1>11
<1> HIDE DEF D
<1>13. m <= Cardinality(r)
    BY <1>3, <1>12
<1> QED
    BY <1>8, <1>13

\* A sum over two sets that have nothing in common.
LEMMA TotalOfUnion ==
    ASSUME NEW S, IsFiniteSet(S), NEW T, IsFiniteSet(T), S \cap T = {},
           NEW g, \A x \in S \union T : g[x] \in Int
    PROVE  Total(g, S \union T) = Total(g, S) + Total(g, T)
<1> DEFINE U == S \union T
           f == [x \in U |-> IF x \in S THEN g[x] ELSE 0]
           h == [x \in U |-> IF x \in T THEN g[x] ELSE 0]
<1>1. IsFiniteSet(U) /\ S \subseteq U /\ T \subseteq U
    BY FS_Union
<1>2. \A x \in U : f[x] \in Int /\ h[x] \in Int /\ g[x] = f[x] + h[x]
    OBVIOUS
<1>3. /\ \A x \in U \ S : f[x] = 0
      /\ \A x \in U \ T : h[x] = 0
      /\ \A x \in S : f[x] = g[x] /\ f[x] \in Int
      /\ \A x \in T : h[x] = g[x] /\ h[x] \in Int
    OBVIOUS
<1> HIDE DEF U, f, h
<1>4. Total(g, U) = Total(f, U) + Total(h, U)
    BY <1>1, <1>2, TotalOfSums
<1>5. Total(f, U) = Total(f, S) /\ Total(h, U) = Total(h, T)
    BY <1>1, <1>2, <1>3, TotalOfPart
<1>6. Total(f, S) = Total(g, S) /\ Total(h, T) = Total(g, T)
    BY <1>3, TotalOfEqual
<1> QED
    BY <1>4, <1>5, <1>6 DEF U

-----------------------------------------------------------------------------
(* Holes *)

\* There are finitely many windows between two bounds.
LEMMA WindowsAreFinite ==
    ASSUME NEW a \in Int, NEW b \in Int
    PROVE  IsFiniteSet([lo : a..b, hi : a..b])
<1> DEFINE S == a..b
           T == [lo : S, hi : S]
           f == [p \in S \X S |-> [lo |-> p[1], hi |-> p[2]]]
<1>1. IsFiniteSet(S \X S)
  <2>1. IsFiniteSet(S)
      BY FS_Interval
  <2> QED
      BY <2>1, FS_Product
<1> HIDE DEF S
<1>2. f \in [S \X S -> T]
    OBVIOUS
<1>3. \A w \in T : \E p \in S \X S : f[p] = w
  <2>1. SUFFICES ASSUME NEW w \in T
                 PROVE  \E p \in S \X S : f[p] = w
      OBVIOUS
  <2>2. <<w.lo, w.hi>> \in S \X S /\ w = [lo |-> w.lo, hi |-> w.hi]
      OBVIOUS
  <2>3. f[<<w.lo, w.hi>>] = w
      BY <2>2
  <2> QED
      BY <2>2, <2>3
<1>4. f \in Surjection(S \X S, T)
    BY <1>2, <1>3 DEF Surjection
<1>5. IsFiniteSet(T)
    BY <1>1, <1>4, FS_Surjection
<1> QED
    BY <1>5 DEF S

\* Two times of a grid, one after the other, are a step or more apart.
LEMMA StepApart ==
    ASSUME NEW t \in Int, NEW u \in Int, NEW step \in Nat \ {0},
           t % step = 0, u % step = 0, t < u
    PROVE  t + step <= u
<1>1. PICK j \in Int : t = j * step
    BY MultipleOfStep
<1>2. PICK k \in Int : u = k * step
    BY MultipleOfStep
<1>3. j < k
  <2>1. CASE j >= k
    <3>1. j * step >= k * step
        BY <2>1
    <3> QED
        BY <3>1, <1>1, <1>2
  <2> QED
      BY <2>1
<1>4. (j + 1) * step <= k * step /\ (j + 1) * step = t + step
    BY <1>1, <1>3
<1> QED
    BY <1>2, <1>4

\* A time of the grid between stored ones that is not stored is in a segment of
\* _profile_interval_timestamps.
LEMMA SegmentsCover ==
    ASSUME NEW lo \in Int, NEW hi \in Int, NEW step \in Nat \ {0},
           NEW times, times \subseteq lo..hi, \A t \in times : t % step = 0,
           NEW u \in Int, u % step = 0, u \notin times,
           NEW before \in times, NEW after \in times, before < u, u < after
    PROVE  \E s \in InternalSegments(times, step) : s.lo <= u /\ u <= s.hi
<1> DEFINE A == {t \in times : t < u}
           B == {t \in times : t > u}
           a == Max(A)
           b == Min(B)
<1>1. A \subseteq lo..hi /\ A # {} /\ B \subseteq lo..hi /\ B # {}
    OBVIOUS
<1>2. a \in A /\ \A t \in A : t <= a
    BY <1>1, MaxOfTimes
<1>3. b \in B /\ \A t \in B : b <= t
    BY <1>1, MinOfTimes
<1>4. /\ a \in times /\ a < u /\ a \in Int /\ a % step = 0
      /\ b \in times /\ u < b /\ b \in Int /\ b % step = 0
  <2> HIDE DEF a, b
  <2>1. a \in times /\ a < u /\ b \in times /\ u < b
      BY <1>2, <1>3
  <2>2. \A t \in times : t \in Int
      OBVIOUS
  <2> QED
      BY <2>1, <2>2
<1>5. ASSUME NEW t \in times, a < t, t < b
      PROVE  FALSE
    BY <1>2, <1>3, <1>4, <1>5
<1> HIDE DEF a, b, A, B
<1>6. <<a, b>> \in Neighbours(times)
    BY <1>4, <1>5 DEF Neighbours
<1>7. a + step <= u /\ u + step <= b
    BY <1>4, StepApart
<1>8. (b - a) \div step > 1
  <2> DEFINE q == (b - a) \div step
             r == (b - a) % step
  <2>1. q \in Int /\ r \in 0..(step - 1) /\ b - a = step * q + r
      BY <1>4
  <2> HIDE DEF q, r
  <2>2. b - a >= 2 * step
      BY <1>4, <1>7
  <2>3. CASE q <= 1
    <3>1. step * q <= step
        BY <2>1, <2>3
    <3> DEFINE m == step * q
    <3>2. m \in Int /\ m <= step /\ m + r >= 2 * step
        BY <3>1, <2>1, <2>2
    <3> HIDE DEF m
    <3> QED
        BY <3>2, <2>1
  <2> QED
      BY <2>1, <2>3 DEF q
<1> DEFINE s == [lo |-> a + step, hi |-> b - step, count |-> (b - a) \div step - 1]
<1>9. s \in InternalSegments(times, step)
  <2> DEFINE p == <<a, b>>
  <2>1. p \in {q \in Neighbours(times) : (q[2] - q[1]) \div step > 1}
      BY <1>6, <1>8
  <2>2. s = [lo |-> p[1] + step, hi |-> p[2] - step, count |-> (p[2] - p[1]) \div step - 1]
      OBVIOUS
  <2> HIDE DEF s, p
  <2> QED
      BY <2>1, <2>2 DEF InternalSegments
<1>10. s.lo <= u /\ u <= s.hi
    BY <1>4, <1>7
<1> HIDE DEF s
<1> QED
    BY <1>9, <1>10

LEMMA CeilToFacts ==
    ASSUME NEW t \in Int, NEW step \in Nat \ {0}
    PROVE  /\ CeilTo(t, step) \in Int
           /\ CeilTo(t, step) >= t
           /\ CeilTo(t, step) % step = 0
           /\ \A u \in Int : t <= u /\ u % step = 0 => CeilTo(t, step) <= u
<1> DEFINE f == FloorTo(t, step)
<1>1. f \in Int /\ f <= t /\ t < f + step /\ f % step = 0
    BY FloorToFacts
<1>2. CASE t % step = 0
    BY <1>2 DEF CeilTo
<1>3. CASE t % step # 0
  <2>1. CeilTo(t, step) = f + step
      BY <1>3 DEF CeilTo
  <2>2. f # t
      BY <1>1, <1>3
  <2> HIDE DEF f
  <2>3. (f + step) % step = 0
    <3>1. PICK k \in Int : f = k * step
        BY <1>1, MultipleOfStep
    <3>2. f + step = (k + 1) * step /\ k + 1 \in Int /\ f + step \in Int
        BY <3>1, <1>1
    <3> QED
        BY <3>2, MultipleOfStep
  <2>4. ASSUME NEW u \in Int, t <= u, u % step = 0
        PROVE  f + step <= u
    <3>1. f < u
        BY <1>1, <2>2, <2>4
    <3> QED
        BY <3>1, <1>1, <2>4, StepApart
  <2> QED
      BY <1>1, <2>1, <2>3, <2>4
<1> QED
    BY <1>2, <1>3

-----------------------------------------------------------------------------
(* Loops over sequences *)

\* The recursive function behind FoldLeft, with a function F for the operator: a
\* set of positions is folded with its greatest position last.
IsFold(it, F, base, seq, n) ==
    it = [s \in SUBSET (1..n) |-> IF s = {} THEN base
                                  ELSE F[<<it[s \ {Max(s)}], seq[Max(s)]>>]]

\* It exists: for the sets of at most m positions, one m after the other.
LEMMA FoldExists ==
    ASSUME NEW n \in Nat, NEW A, NEW B, NEW F \in [A \X B -> A], NEW base \in A,
           NEW seq, \A i \in 1..n : seq[i] \in B
    PROVE  \E it : IsFold(it, F, base, seq, n) /\ \A s \in SUBSET (1..n) : it[s] \in A
<1> DEFINE S == 1..n
           P(m) == {s \in SUBSET S : Cardinality(s) <= m}
           Body(it, s) == IF s = {} THEN base ELSE F[<<it[s \ {Max(s)}], seq[Max(s)]>>]
           Exists(m) == \E it \in [P(m) -> A] : \A s \in P(m) : it[s] = Body(it, s)
<1>1. IsFiniteSet(S) /\ Cardinality(S) \in Nat
    BY FS_Interval, FS_CardinalityType
<1>2. ASSUME NEW s \in SUBSET S, s # {}
      PROVE  /\ Max(s) \in s /\ seq[Max(s)] \in B
             /\ s \ {Max(s)} \in SUBSET S
             /\ Cardinality(s) \in Nat \ {0}
             /\ Cardinality(s \ {Max(s)}) = Cardinality(s) - 1
  <2>1. 1 \in Int /\ n \in Int /\ s \subseteq 1..n
      OBVIOUS
  <2>2. Max(s) \in s
      BY <2>1, <1>2, MaxOfTimes, Zenon
  <2>3. seq[Max(s)] \in B
      BY <2>2
  <2> HIDE DEF S
  <2> QED
      BY <2>2, <2>3, <1>1, OneLess
<1>3. Exists(0)
  <2>1. \A s \in P(0) : s = {}
    <3>1. ASSUME NEW s \in SUBSET S, Cardinality(s) <= 0, s # {} PROVE FALSE
      <4>1. Cardinality(s) \in Nat \ {0}
          BY <1>2, <3>1
      <4> QED
          BY <3>1, <4>1
    <3> QED
        BY <3>1
  <2> DEFINE first == [s \in P(0) |-> base]
  <2>2. first \in [P(0) -> A]
      OBVIOUS
  <2>3. \A s \in P(0) : first[s] = Body(first, s)
      BY <2>1
  <2> QED
      BY <2>2, <2>3
<1>4. ASSUME NEW m \in Nat \ {0}, Exists(m - 1)
      PROVE  Exists(m)
  <2>1. PICK it \in [P(m - 1) -> A] : \A s \in P(m - 1) : it[s] = Body(it, s)
      BY <1>4
  <2> DEFINE h == [s \in P(m) |-> IF s \in P(m - 1) THEN it[s] ELSE Body(it, s)]
  <2>2. ASSUME NEW s \in P(m), s # {}
        PROVE  /\ seq[Max(s)] \in B
               /\ s \ {Max(s)} \in P(m - 1) /\ s \ {Max(s)} \in P(m)
    <3>1. s \in SUBSET S /\ Cardinality(s) <= m
        OBVIOUS
    <3>2. /\ seq[Max(s)] \in B
          /\ s \ {Max(s)} \in SUBSET S
          /\ Cardinality(s) \in Nat \ {0}
          /\ Cardinality(s \ {Max(s)}) = Cardinality(s) - 1
        BY <2>2, <3>1, <1>2
    <3>3. Cardinality(s \ {Max(s)}) <= m - 1 /\ Cardinality(s \ {Max(s)}) <= m
        BY <3>1, <3>2
    <3> QED
        BY <3>2, <3>3
  <2>3. ASSUME NEW s \in P(m)
        PROVE  Body(it, s) \in A
    <3>1. CASE s = {}
        BY <3>1
    <3>2. CASE s # {}
      <4>1. seq[Max(s)] \in B /\ s \ {Max(s)} \in P(m - 1)
          BY <2>2, <3>2
      <4> HIDE DEF P
      <4>2. it[s \ {Max(s)}] \in A
          BY <4>1
      <4> QED
          BY <3>2, <4>1, <4>2
    <3> QED
        BY <3>1, <3>2
  <2>4. h \in [P(m) -> A]
    <3> HIDE DEF P, Body
    <3> QED
        BY <2>3
  <2>5. ASSUME NEW s \in P(m)
        PROVE  h[s] = Body(h, s)
    <3>1. h[s] = Body(it, s)
      <4> HIDE DEF P, Body
      <4> QED
          BY <2>1
    <3>2. s # {} => h[s \ {Max(s)}] = it[s \ {Max(s)}]
      <4>1. s # {} => s \ {Max(s)} \in P(m - 1) /\ s \ {Max(s)} \in P(m)
          BY <2>2
      <4> HIDE DEF P, Body
      <4> QED
          BY <4>1
    <3> HIDE DEF h, P
    <3> QED
        BY <3>1, <3>2
  <2> HIDE DEF h, P, Body
  <2> QED
      BY <2>4, <2>5
<1>5. Exists(Cardinality(S))
  <2> HIDE DEF Exists
  <2>1. SUFFICES ASSUME {m \in Nat : ~ Exists(m)} # {}
                 PROVE  FALSE
      BY <1>1
  <2>2. PICK m \in {m \in Nat : ~ Exists(m)} : \A k \in {k \in Nat : ~ Exists(k)} : m <= k
      BY <2>1, LeastNatural
  <2>3. m \in Nat \ {0} /\ m - 1 \in Nat /\ ~ (m <= m - 1)
      BY <2>2, <1>3
  <2>4. Exists(m - 1)
      BY <2>2, <2>3
  <2> QED
      BY <2>2, <2>3, <2>4, <1>4
<1>6. P(Cardinality(S)) = SUBSET S
  <2>1. \A s \in SUBSET S : Cardinality(s) <= Cardinality(S)
      BY <1>1, FS_Subset
  <2> QED
      BY <2>1
<1>7. PICK it \in [SUBSET S -> A] : \A s \in SUBSET S : it[s] = Body(it, s)
  <2> HIDE DEF P, Body
  <2> QED
      BY <1>5, <1>6
<1>8. it = [s \in SUBSET S |-> Body(it, s)]
  <2> HIDE DEF Body
  <2> QED
      BY <1>7
<1>9. IsFold(it, F, base, seq, n)
    BY <1>8 DEF IsFold
<1> QED
    BY <1>7, <1>9

\* The positions up to one, without it, are those up to the one before.
LEMMA PrefixOfPositions ==
    ASSUME NEW n \in Nat, NEW k \in 1..n
    PROVE  /\ 1..k \in SUBSET (1..n) /\ 1..k # {} /\ k - 1 \in 0..(n - 1)
           /\ Max(1..k) = k
           /\ (1..k) \ {k} = 1..(k - 1)
<1>1. 1..k \in SUBSET (1..n) /\ 1..k # {} /\ k - 1 \in 0..(n - 1)
    OBVIOUS
<1>2. Max(1..k) \in 1..k /\ \A y \in 1..k : y <= Max(1..k)
  <2>1. 1 \in Int /\ k \in Int /\ 1..k \subseteq 1..k
      OBVIOUS
  <2> QED
      BY <2>1, <1>1, MaxOfTimes, Zenon
<1>3. Max(1..k) = k
    BY <1>2
<1>4. (1..k) \ {k} = 1..(k - 1)
    OBVIOUS
<1> QED
    BY <1>1, <1>3, <1>4

\* What holds before the first position, and after each if it held before, holds
\* after the last.
LEMMA LoopKeeps ==
    ASSUME NEW n \in Nat, NEW it, NEW Good,
           <<0, it[{}]>> \in Good,
           \A k \in 1..n : <<k - 1, it[1..(k - 1)]>> \in Good => <<k, it[1..k]>> \in Good
    PROVE  <<n, it[1..n]>> \in Good
<1> DEFINE Bad == {k \in Nat : k <= n /\ <<k, it[1..k]>> \notin Good}
<1>1. SUFFICES ASSUME Bad # {}
               PROVE  FALSE
    OBVIOUS
<1>2. PICK k \in Bad : \A j \in Bad : k <= j
    BY <1>1, LeastNatural
<1>3. k # 0
  <2>1. 1..0 = {}
      OBVIOUS
  <2> QED
      BY <1>2, <2>1
<1>4. k \in 1..n /\ k - 1 \in Nat /\ k - 1 <= n /\ ~ (k <= k - 1)
    BY <1>2, <1>3
<1>5. k - 1 \notin Bad
    BY <1>2, <1>4
<1>6. <<k - 1, it[1..(k - 1)]>> \in Good
    BY <1>4, <1>5
<1> QED
    BY <1>2, <1>4, <1>6

\* Another last element, or one more.
LEMMA AppendFacts ==
    ASSUME NEW S, NEW a \in Seq(S), NEW x \in S
    PROVE  /\ Append(a, x) \in Seq(S)
           /\ DOMAIN Append(a, x) = 1..(Len(a) + 1) /\ DOMAIN a = 1..Len(a)
           /\ Append(a, x)[Len(a) + 1] = x
           /\ \A j \in DOMAIN a : Append(a, x)[j] = a[j]
OBVIOUS

LEMMA ReplaceLast ==
    ASSUME NEW S, NEW a \in Seq(S), NEW x \in S, a # <<>>
    PROVE  /\ Append(Front(a), x) \in Seq(S)
           /\ Len(a) \in DOMAIN a /\ Last(a) = a[Len(a)] /\ Last(a) \in S
           /\ DOMAIN Append(Front(a), x) = DOMAIN a
           /\ Append(Front(a), x)[Len(a)] = x
           /\ \A j \in DOMAIN a : j # Len(a) => Append(Front(a), x)[j] = a[j]
<1>1. Len(a) \in Nat \ {0} /\ DOMAIN a = 1..Len(a)
    OBVIOUS
<1>2. /\ Front(a) \in Seq(S) /\ Len(Front(a)) = Len(a) - 1
      /\ \A j \in 1..(Len(a) - 1) : Front(a)[j] = a[j]
    BY <1>1 DEF Front
<1>3. Last(a) = a[Len(a)] /\ Len(a) \in DOMAIN a /\ Last(a) \in S
    BY <1>1 DEF Last
<1>4. DOMAIN Front(a) = 1..(Len(a) - 1)
    BY <1>2
<1> DEFINE f == Front(a)
<1> HIDE DEF f
<1>5. f \in Seq(S) /\ Len(f) + 1 = Len(a) /\ DOMAIN f = 1..(Len(a) - 1)
    BY <1>1, <1>2, <1>4 DEF f
<1>6. /\ Append(f, x) \in Seq(S)
      /\ DOMAIN Append(f, x) = 1..Len(a)
      /\ Append(f, x)[Len(a)] = x
      /\ \A j \in DOMAIN f : Append(f, x)[j] = f[j]
    BY <1>5, AppendFacts
<1>7. ASSUME NEW j \in DOMAIN a, j # Len(a)
      PROVE  Append(f, x)[j] = a[j]
  <2>1. j \in 1..(Len(a) - 1)
      BY <1>1, <1>7
  <2> QED
      BY <2>1, <1>2, <1>5, <1>6 DEF f
<1> QED
    BY <1>1, <1>3, <1>6, <1>7 DEF f

\* The loop of run_bar_gap_checks leaves no missing time out of its segments.
LEMMA MissingSegmentsFacts ==
    ASSUME NEW W, W \subseteq Int, IsFiniteSet(W), NEW step \in Nat \ {0}
    PROVE  /\ MissingSegments(W, step) \in Seq([lo : Int, hi : Int, count : Int])
           /\ \A t \in W : \E i \in DOMAIN MissingSegments(W, step) :
                  /\ MissingSegments(W, step)[i].lo <= t
                  /\ t <= MissingSegments(W, step)[i].hi
<1> DEFINE Seg == [lo : Int, hi : Int, count : Int]
           A == Seq(Seg)
           n == Cardinality(W)
           times == Sorted(W)
           One(t) == [lo |-> t, hi |-> t, count |-> 1]
           Longer(seg, t) == [seg EXCEPT !.hi = t, !.count = @ + 1]
           Grow(a, t) == IF a # <<>> /\ t = Last(a).hi + step
                         THEN Append(Front(a), Longer(Last(a), t))
                         ELSE Append(a, One(t))
           F == [p \in A \X Int |-> Grow(p[1], p[2])]
           Loop(j) == j = [s \in SUBSET DOMAIN times |->
                              IF s = {} THEN <<>>
                              ELSE Grow(j[s \ {Max(s)}], times[Max(s)])]
           it == CHOOSE j : Loop(j)
           Covered(a, k) == \A i \in 1..k : \E j \in DOMAIN a :
                                a[j].lo <= times[i] /\ times[i] <= a[j].hi
           Sound(a) == \A j \in DOMAIN a : a[j].lo <= a[j].hi
           Good == {p \in (0..n) \X A : Covered(p[2], p[1]) /\ Sound(p[2])}
<1>1. MissingSegments(W, step) = it[DOMAIN times]
    BY DEF MissingSegments, FoldLeft, MapThenFoldSet
<1>2. /\ n \in Nat /\ DOMAIN times = 1..n
      /\ \A i \in 1..n : times[i] \in Int
      /\ \A t \in W : \E i \in 1..n : times[i] = t
  <2>1. n \in Nat
      BY FS_CardinalityType
  <2>2. /\ times \in Seq(W) /\ DOMAIN times = 1..n
        /\ \A t \in W : \E i \in DOMAIN times : times[i] = t
      BY SortedFacts
  <2> HIDE DEF times, n
  <2>3. \A i \in 1..n : times[i] \in W
    <3>1. Len(times) = n
        BY <2>1, <2>2, LenProperties
    <3> QED
        BY <3>1, <2>2, ElementOfSeq
  <2> QED
      BY <2>1, <2>2, <2>3
<1> HIDE DEF n, times
<1>3. ASSUME NEW t \in Int
      PROVE  One(t) \in Seg /\ One(t).lo = t /\ One(t).hi = t
    OBVIOUS
<1>4. ASSUME NEW seg \in Seg, NEW t \in Int
      PROVE  Longer(seg, t) \in Seg /\ Longer(seg, t).lo = seg.lo /\ Longer(seg, t).hi = t
  <2>1. Longer(seg, t).lo = seg.lo /\ Longer(seg, t).hi = t
      OBVIOUS
  <2> DEFINE c == seg.count + 1
  <2>2. c \in Int
      OBVIOUS
  <2> HIDE DEF c
  <2>3. [seg EXCEPT !.hi = t, !.count = c] \in Seg
      BY <2>2
  <2> QED
      BY <2>1, <2>3 DEF c
<1> HIDE DEF One, Longer
<1>5. ASSUME NEW a \in A, NEW t \in Int
      PROVE  Grow(a, t) \in A
  <2>1. CASE a # <<>> /\ t = Last(a).hi + step
    <3>1. Last(a) \in Seg
        BY <2>1, <1>3, ReplaceLast
    <3>2. Longer(Last(a), t) \in Seg
        BY <3>1, <1>4
    <3> HIDE DEF Seg
    <3>3. Append(Front(a), Longer(Last(a), t)) \in Seq(Seg)
        BY <2>1, <3>2, ReplaceLast
    <3> QED
        BY <2>1, <3>3
  <2>2. CASE ~ (a # <<>> /\ t = Last(a).hi + step)
    <3>1. One(t) \in Seg
        BY <1>3
    <3> HIDE DEF Seg
    <3>2. Append(a, One(t)) \in Seq(Seg)
        BY <3>1, AppendFacts
    <3> QED
        BY <2>2, <3>2
  <2> QED
      BY <2>1, <2>2
<1> HIDE DEF Grow
<1>6. PICK j : IsFold(j, F, <<>>, times, n) /\ \A s \in SUBSET (1..n) : j[s] \in A
  <2>1. F \in [A \X Int -> A]
    <3> HIDE DEF A
    <3> QED
        BY <1>5
  <2>2. <<>> \in A
      OBVIOUS
  <2>3. \A i \in 1..n : times[i] \in Int
      BY <1>2
  <2>4. n \in Nat
      BY <1>2
  <2> HIDE DEF F, A
  <2> QED
      BY <2>1, <2>2, <2>3, <2>4, FoldExists, Zenon
<1>7. Loop(j)
  <2> DEFINE Before(s) == IF s = {} THEN <<>> ELSE F[<<j[s \ {Max(s)}], times[Max(s)]>>]
             After(s) == IF s = {} THEN <<>> ELSE Grow(j[s \ {Max(s)}], times[Max(s)])
  <2>1. ASSUME NEW s \in SUBSET (1..n)
        PROVE  Before(s) = After(s)
    <3>1. CASE s = {}
        BY <3>1
    <3>2. CASE s # {}
      <4>1. Max(s) \in s
        <5>1. 1 \in Int /\ n \in Int /\ s \subseteq 1..n
            BY <1>2
        <5> QED
            BY <5>1, <3>2, MaxOfTimes, Zenon
      <4>2. times[Max(s)] \in Int /\ j[s \ {Max(s)}] \in A
          BY <4>1, <1>2, <1>6
      <4> HIDE DEF A
      <4>3. F[<<j[s \ {Max(s)}], times[Max(s)]>>] = Grow(j[s \ {Max(s)}], times[Max(s)])
          BY <4>2
      <4> HIDE DEF F
      <4> QED
          BY <4>3
    <3> QED
        BY <3>1, <3>2
  <2>2. j = [s \in SUBSET (1..n) |-> Before(s)]
      BY <1>6 DEF IsFold
  <2>3. Loop(j) <=> j = [s \in SUBSET (1..n) |-> After(s)]
      BY <1>2
  <2> HIDE DEF Before, After, Loop
  <2>4. [s \in SUBSET (1..n) |-> Before(s)] = [s \in SUBSET (1..n) |-> After(s)]
      BY <2>1
  <2> QED
      BY <2>2, <2>3, <2>4, Zenon
<1>8. Loop(it)
  <2> HIDE DEF Loop
  <2> QED
      BY <1>7
<1> HIDE DEF it
<1>9. it[{}] = <<>> /\ \A k \in 1..n : it[1..k] = Grow(it[1..(k - 1)], times[k])
  <2>1. it[{}] = <<>>
      BY <1>8
  <2>2. ASSUME NEW k \in 1..n
        PROVE  it[1..k] = Grow(it[1..(k - 1)], times[k])
    <3>1. /\ 1..k \in SUBSET (1..n) /\ 1..k # {}
          /\ Max(1..k) = k /\ (1..k) \ {k} = 1..(k - 1)
        BY <1>2, PrefixOfPositions
    <3>2. it[1..k] = Grow(it[(1..k) \ {Max(1..k)}], times[Max(1..k)])
        BY <1>8, <1>2, <3>1
    <3> QED
        BY <3>1, <3>2
  <2> QED
      BY <2>1, <2>2
<1>10. <<0, it[{}]>> \in Good
  <2>1. <<>> \in A /\ 0 \in 0..n
      BY <1>2
  <2>2. Covered(<<>>, 0) /\ Sound(<<>>)
      OBVIOUS
  <2> HIDE DEF A, Covered, Sound
  <2> QED
      BY <2>1, <2>2, <1>9
<1>11. ASSUME NEW k \in 1..n, <<k - 1, it[1..(k - 1)]>> \in Good
       PROVE  <<k, it[1..k]>> \in Good
  <2> DEFINE a == it[1..(k - 1)]
             t == times[k]
             b == Grow(a, t)
  <2>1. a \in A /\ Covered(a, k - 1) /\ Sound(a) /\ t \in Int /\ k - 1 \in Int
    <3> HIDE DEF A, Covered, Sound, a
    <3> QED
        BY <1>11, <1>2 DEF a
  <2>2. it[1..k] = b /\ k \in 0..n
      BY <1>9, <1>2
  <2>3. b \in A
      BY <2>1, <1>5
  <2> HIDE DEF a, t
  <2>4. \A i \in DOMAIN a : a[i] \in Seg
    <3> HIDE DEF Seg
    <3> QED
        BY <2>1
  <2>5. /\ \A i \in DOMAIN a : i \in DOMAIN b /\ b[i].lo = a[i].lo /\ a[i].hi <= b[i].hi
        /\ Sound(b)
        /\ \E i \in DOMAIN b : b[i].lo <= t /\ t <= b[i].hi
    <3>1. CASE a # <<>> /\ t = Last(a).hi + step
      <4> DEFINE x == Longer(Last(a), t)
                 m == Len(a)
      <4>1. Last(a) \in Seg /\ m \in DOMAIN a /\ Last(a) = a[m]
        <5>1. One(t) \in Seg
            BY <1>3, <2>1
        <5> HIDE DEF Seg
        <5> QED
            BY <2>1, <3>1, <5>1, ReplaceLast, Zenon
      <4>2. x \in Seg /\ x.lo = a[m].lo /\ x.hi = t
          BY <4>1, <1>4, <2>1
      <4> HIDE DEF x
      <4>3. /\ b = Append(Front(a), x)
            /\ a[m].lo \in Int /\ a[m].hi \in Int /\ t = a[m].hi + step /\ a[m].lo <= a[m].hi
          BY <3>1, <4>1, <2>1, <2>4 DEF Grow, x
      <4>4. /\ DOMAIN b = DOMAIN a /\ b[m] = x
            /\ \A i \in DOMAIN a : i # m => b[i] = a[i]
        <5>1. a \in Seq(Seg) /\ a # <<>> /\ x \in Seg
            BY <2>1, <3>1, <4>2
        <5> HIDE DEF Seg
        <5>2. /\ DOMAIN Append(Front(a), x) = DOMAIN a /\ Append(Front(a), x)[Len(a)] = x
              /\ \A i \in DOMAIN a : i # Len(a) => Append(Front(a), x)[i] = a[i]
            BY <5>1, ReplaceLast
        <5> QED
            BY <5>2, <4>3, Zenon
      <4> HIDE DEF b, m
      <4>5. x.lo <= x.hi /\ a[m].hi <= x.hi
        <5> DEFINE l == a[m].lo
                   h == a[m].hi
        <5>1. l \in Int /\ h \in Int /\ t = h + step /\ l <= h /\ x.lo = l /\ x.hi = t
            BY <4>2, <4>3
        <5> HIDE DEF l, h
        <5>2. x.lo <= x.hi /\ h <= x.hi
            BY <5>1
        <5> QED
            BY <5>2 DEF h
      <4>6. ASSUME NEW i \in DOMAIN a
            PROVE  b[i].lo = a[i].lo /\ a[i].hi <= b[i].hi /\ b[i].lo <= b[i].hi
        <5>1. CASE i = m
            BY <5>1, <4>2, <4>4, <4>5
        <5>2. CASE i # m
            BY <5>2, <4>4, <2>1, <2>4
        <5> QED
            BY <5>1, <5>2
      <4>7. b[m].lo <= t /\ t <= b[m].hi
          BY <4>2, <4>4, <4>5, <2>1
      <4> QED
          BY <4>1, <4>4, <4>6, <4>7
    <3>2. CASE ~ (a # <<>> /\ t = Last(a).hi + step)
      <4> DEFINE x == One(t)
                 m == Len(a) + 1
      <4>1. x \in Seg /\ x.lo = t /\ x.hi = t
          BY <1>3, <2>1
      <4> HIDE DEF x
      <4>2. b = Append(a, x)
          BY <3>2 DEF Grow, x
      <4>3. /\ DOMAIN b = 1..m /\ DOMAIN a = 1..Len(a) /\ b[m] = x /\ Len(a) \in Nat
            /\ \A i \in DOMAIN a : b[i] = a[i]
        <5>1. Len(a) \in Nat
            BY <2>1, LenProperties
        <5> HIDE DEF Seg
        <5> QED
            BY <5>1, <2>1, <4>1, <4>2, AppendFacts
      <4> HIDE DEF b
      <4>4. m \in DOMAIN b /\ \A i \in DOMAIN a : i \in DOMAIN b
          BY <4>3
      <4>5. \A i \in DOMAIN b : i \in DOMAIN a \/ i = m
          BY <4>3
      <4> HIDE DEF m
      <4>6. ASSUME NEW i \in DOMAIN b
            PROVE  b[i].lo <= b[i].hi
        <5>1. CASE i = m
          <6>1. b[i].lo = t /\ b[i].hi = t /\ t \in Int
              BY <4>1, <4>3, <5>1, <2>1
          <6> QED
              BY <6>1
        <5>2. CASE i \in DOMAIN a
          <6>1. b[i] = a[i]
              BY <4>3, <5>2
          <6>2. a[i].lo <= a[i].hi
              BY <2>1, <5>2
          <6> QED
              BY <6>1, <6>2
        <5> QED
            BY <4>5, <5>1, <5>2
      <4>7. ASSUME NEW i \in DOMAIN a
            PROVE  b[i].lo = a[i].lo /\ a[i].hi <= b[i].hi
          BY <4>3, <2>4
      <4>8. b[m].lo <= t /\ t <= b[m].hi
          BY <4>1, <4>3, <2>1
      <4> QED
          BY <4>4, <4>6, <4>7, <4>8
    <3> QED
        BY <3>1, <3>2
  <2>6. Covered(b, k)
    <3>1. SUFFICES ASSUME NEW i \in 1..k
                   PROVE  \E j_1 \in DOMAIN b : b[j_1].lo <= times[i] /\ times[i] <= b[j_1].hi
        OBVIOUS
    <3>2. CASE i = k
        BY <3>2, <2>5 DEF t
    <3>3. CASE i # k
      <4>1. i \in 1..(k - 1) /\ i \in 1..n
          BY <3>3, <1>2
      <4>2. PICK h \in DOMAIN a : a[h].lo <= times[i] /\ times[i] <= a[h].hi
          BY <4>1, <2>1
      <4>3. h \in DOMAIN b /\ b[h].lo = a[h].lo /\ a[h].hi <= b[h].hi
          BY <2>5
      <4>4. times[i] \in Int /\ a[h].hi \in Int
          BY <1>2, <2>4, <4>1
      <4>5. b[h].hi \in Int
        <5>1. b[h] \in Seg
          <6> HIDE DEF b, Seg
          <6> QED
              BY <2>3, <4>3
        <5> QED
            BY <5>1
      <4>6. times[i] <= b[h].hi /\ b[h].lo <= times[i]
        <5> HIDE DEF b
        <5> QED
            BY <4>2, <4>3, <4>4, <4>5
      <4> QED
          BY <4>3, <4>6
    <3> QED
        BY <3>2, <3>3
  <2> HIDE DEF b, A, Covered, Sound
  <2> QED
      BY <2>2, <2>3, <2>5, <2>6
<1>12. <<n, it[1..n]>> \in Good
  <2> HIDE DEF Good
  <2> QED
      BY <1>2, <1>10, <1>11, LoopKeeps
<1> DEFINE all == it[1..n]
<1>13. all \in A /\ Covered(all, n)
  <2> HIDE DEF A, Covered, Sound, all
  <2> QED
      BY <1>12 DEF all
<1>14. all = MissingSegments(W, step)
    BY <1>1, <1>2
<1> HIDE DEF all
<1>15. ASSUME NEW t \in W
       PROVE  \E i \in DOMAIN all : all[i].lo <= t /\ t <= all[i].hi
  <2>1. PICK i \in 1..n : times[i] = t
      BY <1>2
  <2> QED
      BY <2>1, <1>13
<1> HIDE DEF Covered
<1> QED
    BY <1>13, <1>14, <1>15

-----------------------------------------------------------------------------
(* Times on a grid, counted *)

\* Multiples of a step are ordered as their factors, and divided back to them.
LEMMA StepOrder ==
    ASSUME NEW a \in Int, NEW b \in Int, NEW step \in Nat \ {0}
    PROVE  a <= b <=> a * step <= b * step
<1>1. ASSUME a <= b PROVE a * step <= b * step
    BY <1>1
<1>2. ASSUME b < a PROVE b * step < a * step
  <2>1. b + 1 <= a
      BY <1>2
  <2>2. (b + 1) * step <= a * step /\ (b + 1) * step = b * step + step
      BY <2>1
  <2> DEFINE x == a * step
             y == b * step
  <2>3. x \in Int /\ y \in Int /\ y + step <= x
      BY <2>2
  <2> HIDE DEF x, y
  <2>4. y < x
      BY <2>3
  <2> QED
      BY <2>4 DEF x, y
<1>3. a * step \in Int /\ b * step \in Int
    OBVIOUS
<1> QED
    BY <1>1, <1>2, <1>3

LEMMA DivOfMultiple ==
    ASSUME NEW m \in Int, NEW step \in Nat \ {0}
    PROVE  (m * step) \div step = m
<1> DEFINE q == (m * step) \div step
           r == (m * step) % step
           d == m - q
<1>1. q \in Int /\ r \in 0..(step - 1) /\ m * step = step * q + r
    BY m * step \in Int
<1>2. d \in Int /\ d * step = r
    BY <1>1
<1> HIDE DEF q, r, d
<1>3. CASE d >= 1
  <2>1. 1 * step <= d * step
      BY <1>2, <1>3, StepOrder
  <2> QED
      BY <2>1, <1>1, <1>2
<1>4. CASE d <= -1
  <2>1. d * step <= (-1) * step
      BY <1>2, <1>4, StepOrder
  <2> QED
      BY <2>1, <1>1, <1>2
<1>5. CASE d = 0
    BY <1>1, <1>5 DEF d, q
<1> QED
    BY <1>2, <1>3, <1>4, <1>5

GridOf(lo, hi, step) == {t \in lo..hi : t % step = 0}

LEMMA GridCount ==
    ASSUME NEW lo \in Int, NEW hi \in Int, NEW step \in Nat \ {0},
           lo % step = 0, hi % step = 0, lo <= hi + step
    PROVE  /\ IsFiniteSet(GridOf(lo, hi, step))
           /\ Cardinality(GridOf(lo, hi, step)) = (hi - lo) \div step + 1
           /\ (hi - lo) \div step + 1 \in Nat
<1> DEFINE G == GridOf(lo, hi, step)
<1>1. PICK j \in Int : lo = j * step
    BY MultipleOfStep
<1>2. PICK k \in Int : hi = k * step
    BY MultipleOfStep
<1> DEFINE n == k - j + 1
           f == [i \in 1..n |-> (j + i - 1) * step]
<1>3. n \in Nat
  <2>1. j * step <= (k + 1) * step
      BY <1>1, <1>2
  <2>2. j <= k + 1
      BY <2>1, StepOrder
  <2> QED
      BY <2>2
<1>4. (hi - lo) \div step + 1 = n
  <2>1. hi - lo = (k - j) * step /\ k - j \in Int
      BY <1>1, <1>2
  <2>2. (hi - lo) \div step = k - j
      BY <2>1, DivOfMultiple
  <2> QED
      BY <2>2
<1>5. ASSUME NEW i \in 1..n
      PROVE  (j + i - 1) * step \in G
  <2>1. j + i - 1 \in Int /\ j <= j + i - 1 /\ j + i - 1 <= k
      BY <1>3
  <2>2. j * step <= (j + i - 1) * step /\ (j + i - 1) * step <= k * step
      BY <2>1, StepOrder
  <2>3. (j + i - 1) * step \in Int /\ ((j + i - 1) * step) % step = 0
      BY <2>1, MultipleOfStep
  <2> QED
      BY <2>2, <2>3, <1>1, <1>2 DEF GridOf
<1>6. ASSUME NEW t \in G
      PROVE  \E i \in 1..n : f[i] = t
  <2>1. t \in Int /\ lo <= t /\ t <= hi /\ t % step = 0
      BY DEF GridOf
  <2>2. PICK m \in Int : t = m * step
      BY <2>1, MultipleOfStep
  <2>3. j <= m /\ m <= k
      BY <2>1, <2>2, <1>1, <1>2, StepOrder
  <2>4. m - j + 1 \in 1..n /\ j + (m - j + 1) - 1 = m
      BY <2>3
  <2>5. f[m - j + 1] = (j + (m - j + 1) - 1) * step
      BY <2>4
  <2> QED
      BY <2>2, <2>4, <2>5
<1>7. ASSUME NEW a \in 1..n, NEW b \in 1..n, f[a] = f[b]
      PROVE  a = b
  <2>1. (j + a - 1) * step = (j + b - 1) * step
      BY <1>7
  <2>2. j + a - 1 \in Int /\ j + b - 1 \in Int
      BY <1>3
  <2>3. (j + a - 1) * step \in Int
      BY <2>2
  <2>4. j + a - 1 <= j + b - 1 /\ j + b - 1 <= j + a - 1
      BY <2>1, <2>2, <2>3, StepOrder
  <2> QED
      BY <2>4, <1>3
<1> HIDE DEF G
<1>8. f \in [1..n -> G]
    BY <1>5
<1> HIDE DEF f
<1>9. f \in Bijection(1..n, G)
  <2>1. f \in Surjection(1..n, G)
      BY <1>6, <1>8 DEF Surjection
  <2>2. f \in Injection(1..n, G)
      BY <1>7, <1>8 DEF Injection, IsInjective
  <2> QED
      BY <2>1, <2>2 DEF Bijection
<1>10. IsFiniteSet(1..n) /\ Cardinality(1..n) = n
  <2>1. 1 \in Int /\ n \in Int
      BY <1>3
  <2> QED
      BY <2>1, <1>3, FS_Interval
<1>11. IsFiniteSet(G) /\ Cardinality(G) = n
    BY <1>9, <1>10, FS_Bijection DEF ExistsBijection
<1> QED
    BY <1>3, <1>4, <1>11 DEF G

-----------------------------------------------------------------------------
(* The segments of a profile *)

\* The points of the grid that no row has, between two that a row has.
Between(times, lo, hi, step) ==
    {u \in GridOf(lo, hi, step) \ times : \E a, b \in times : a < u /\ u < b}

\* A segment is bounded by two stored times, holds none, and is of one step at
\* least; its count is right.
IsSegment(s, times, step) ==
    /\ s = [lo |-> s.lo, hi |-> s.hi, count |-> s.count]
    /\ s.lo \in Int /\ s.hi \in Int /\ s.lo % step = 0 /\ s.hi % step = 0
    /\ s.lo <= s.hi /\ s.count = (s.hi - s.lo) \div step + 1 /\ s.count \in Nat \ {0}
    /\ s.lo - step \in times /\ s.hi + step \in times
    /\ \A t \in times : ~ (s.lo <= t /\ t <= s.hi)

LEMMA SegmentsAreHoles ==
    ASSUME NEW lo \in Int, NEW hi \in Int, NEW step \in Nat \ {0},
           NEW times, times \subseteq GridOf(lo, hi, step)
    PROVE  /\ IsFiniteSet(InternalSegments(times, step))
           /\ \A s \in InternalSegments(times, step) : IsSegment(s, times, step)
<1> DEFINE Seg(p) == [lo |-> p[1] + step, hi |-> p[2] - step, count |-> (p[2] - p[1]) \div step - 1]
           D == {q \in Neighbours(times) : (q[2] - q[1]) \div step > 1}
           I == InternalSegments(times, step)
           f == [p \in D |-> Seg(p)]
<1>1. I = {Seg(p) : p \in D}
    BY DEF InternalSegments
<1>2. /\ IsFiniteSet(times)
      /\ \A t \in times : t \in Int /\ t % step = 0
  <2>1. times \subseteq lo..hi /\ \A t \in times : t % step = 0
      BY DEF GridOf
  <2>2. IsFiniteSet(times)
    <3>1. IsFiniteSet(lo..hi)
        BY FS_Interval
    <3> QED
        BY <2>1, <3>1, FS_Subset
  <2>3. \A t \in times : t \in Int
      BY <2>1
  <2> QED
      BY <2>1, <2>2, <2>3
<1>3. D \subseteq times \X times /\ IsFiniteSet(D)
  <2>1. D \subseteq times \X times
      BY DEF Neighbours
  <2>2. IsFiniteSet(times \X times)
      BY <1>2, FS_Product
  <2> QED
      BY <2>1, <2>2, FS_Subset
<1>4. IsFiniteSet(I)
  <2>1. f \in [D -> I] /\ \A s \in I : \E p \in D : f[p] = s
    <3> HIDE DEF Seg, I, D
    <3> QED
        BY <1>1
  <2>2. f \in Surjection(D, I)
      BY <2>1 DEF Surjection
  <2> QED
      BY <2>2, <1>3, FS_Surjection
<1>5. ASSUME NEW p \in D
      PROVE  IsSegment(Seg(p), times, step)
  <2>1. PICK a \in times, b \in times : p = <<a, b>>
      BY <1>3
  <2>2. /\ p[1] = a /\ p[2] = b /\ a < b /\ (b - a) \div step > 1
        /\ ~ \E t \in times : a < t /\ t < b
    <3>1. p[1] = a /\ p[2] = b
        BY <2>1
    <3>2. p \in Neighbours(times) /\ (p[2] - p[1]) \div step > 1
        OBVIOUS
    <3> QED
        BY <3>1, <3>2 DEF Neighbours
  <2>3. a \in Int /\ b \in Int /\ a % step = 0 /\ b % step = 0
      BY <1>2
  <2>4. PICK j \in Int : a = j * step
      BY <2>3, MultipleOfStep
  <2>5. PICK k \in Int : b = k * step
      BY <2>3, MultipleOfStep
  <2>6. (b - a) \div step = k - j
    <3>1. b - a = (k - j) * step /\ k - j \in Int
        BY <2>4, <2>5
    <3> QED
        BY <3>1, DivOfMultiple
  <2>7. a + step = (j + 1) * step /\ b - step = (k - 1) * step
      BY <2>4, <2>5
  <2>8. (a + step) % step = 0 /\ (b - step) % step = 0
    <3>1. a + step \in Int /\ b - step \in Int /\ j + 1 \in Int /\ k - 1 \in Int
        BY <2>3
    <3> QED
        BY <2>7, <3>1, MultipleOfStep
  <2>9. a + step <= b - step
    <3>1. j + 1 <= k - 1
        BY <2>2, <2>6
    <3>2. (j + 1) * step <= (k - 1) * step
        BY <3>1, StepOrder
    <3> QED
        BY <3>2, <2>7
  <2>10. ((b - step) - (a + step)) \div step + 1 = (b - a) \div step - 1
    <3>1. (b - step) - (a + step) = (k - j - 2) * step /\ k - j - 2 \in Int
        BY <2>4, <2>5
    <3>2. ((b - step) - (a + step)) \div step = k - j - 2
        BY <3>1, DivOfMultiple
    <3> QED
        BY <3>2, <2>6
  <2>11. (b - a) \div step - 1 \in Nat \ {0}
      BY <2>2, <2>6
  <2>12. \A t \in times : ~ (a + step <= t /\ t <= b - step)
      BY <2>2, <2>3, <1>2
  <2>13. (a + step) - step = a /\ (b - step) + step = b
      BY <2>3
  <2> DEFINE s == Seg(p)
  <2>14. s = [lo |-> a + step, hi |-> b - step, count |-> (b - a) \div step - 1]
      BY <2>2
  <2>15. s.lo = a + step /\ s.hi = b - step /\ s.count = (b - a) \div step - 1
      BY <2>14
  <2> HIDE DEF s
  <2>16. a + step \in Int /\ b - step \in Int
      BY <2>3
  <2>17. s = [lo |-> s.lo, hi |-> s.hi, count |-> s.count]
      BY <2>14, <2>15
  <2>18. /\ s.lo \in Int /\ s.hi \in Int /\ s.lo % step = 0 /\ s.hi % step = 0 /\ s.lo <= s.hi
      BY <2>15, <2>16, <2>8, <2>9
  <2>19. s.count = (s.hi - s.lo) \div step + 1 /\ s.count \in Nat \ {0}
      BY <2>15, <2>10, <2>11
  <2>20. s.lo - step \in times /\ s.hi + step \in times
      BY <2>15, <2>13
  <2>21. \A t \in times : ~ (s.lo <= t /\ t <= s.hi)
      BY <2>15, <2>12
  <2>22. IsSegment(s, times, step)
      BY <2>17, <2>18, <2>19, <2>20, <2>21 DEF IsSegment
  <2> QED
      BY <2>22 DEF s
<1> HIDE DEF Seg, D, I
<1>6. \A s \in I : IsSegment(s, times, step)
    BY <1>1, <1>5
<1> QED
    BY <1>4, <1>6 DEF I

\* Two segments with a common point are one.
LEMMA SegmentsApart ==
    ASSUME NEW step \in Nat \ {0}, NEW times, \A t \in times : t \in Int /\ t % step = 0,
           NEW r, IsSegment(r, times, step), NEW s, IsSegment(s, times, step),
           NEW u \in Int, r.lo <= u, u <= r.hi, s.lo <= u, u <= s.hi
    PROVE  r = s
<1>1. /\ r.lo \in Int /\ r.hi \in Int /\ s.lo \in Int /\ s.hi \in Int
      /\ r.lo - step \in times /\ r.hi + step \in times
      /\ s.lo - step \in times /\ s.hi + step \in times
      /\ \A t \in times : ~ (r.lo <= t /\ t <= r.hi) /\ ~ (s.lo <= t /\ t <= s.hi)
      /\ r.lo % step = 0 /\ r.hi % step = 0 /\ s.lo % step = 0 /\ s.hi % step = 0
    BY DEF IsSegment
<1>2. ~ (r.lo < s.lo)
  <2>1. SUFFICES ASSUME r.lo < s.lo PROVE FALSE
      OBVIOUS
  <2>2. r.lo + step <= s.lo
      BY <2>1, <1>1, StepApart
  <2> QED
      BY <2>2, <1>1
<1>3. ~ (s.lo < r.lo)
  <2>1. SUFFICES ASSUME s.lo < r.lo PROVE FALSE
      OBVIOUS
  <2>2. s.lo + step <= r.lo
      BY <2>1, <1>1, StepApart
  <2> QED
      BY <2>2, <1>1
<1>4. ~ (r.hi < s.hi)
  <2>1. SUFFICES ASSUME r.hi < s.hi PROVE FALSE
      OBVIOUS
  <2>2. r.hi + step <= s.hi
      BY <2>1, <1>1, StepApart
  <2> QED
      BY <2>2, <1>1
<1>5. ~ (s.hi < r.hi)
  <2>1. SUFFICES ASSUME s.hi < r.hi PROVE FALSE
      OBVIOUS
  <2>2. s.hi + step <= r.hi
      BY <2>1, <1>1, StepApart
  <2> QED
      BY <2>2, <1>1
<1>6. r.lo = s.lo /\ r.hi = s.hi
    BY <1>1, <1>2, <1>3, <1>4, <1>5
<1>7. /\ r = [lo |-> r.lo, hi |-> r.hi, count |-> r.count]
      /\ s = [lo |-> s.lo, hi |-> s.hi, count |-> s.count]
      /\ r.count = (r.hi - r.lo) \div step + 1 /\ s.count = (s.hi - s.lo) \div step + 1
    BY DEF IsSegment
<1>8. r.count = s.count
    BY <1>6, <1>7
<1> QED
    BY <1>6, <1>7, <1>8

\* The points of a segment are between stored times, and each point between
\* them is in a segment.
LEMMA SegmentsAreBetween ==
    ASSUME NEW lo \in Int, NEW hi \in Int, NEW step \in Nat \ {0},
           NEW times, times \subseteq GridOf(lo, hi, step)
    PROVE  /\ \A s \in InternalSegments(times, step) :
                  GridOf(s.lo, s.hi, step) \subseteq Between(times, lo, hi, step)
           /\ \A u \in Between(times, lo, hi, step) :
                  \E s \in InternalSegments(times, step) : s.lo <= u /\ u <= s.hi
<1>1. \A t \in times : t \in Int /\ lo <= t /\ t <= hi /\ t % step = 0
    BY DEF GridOf
<1>2. ASSUME NEW s \in InternalSegments(times, step), NEW u \in GridOf(s.lo, s.hi, step)
      PROVE  u \in Between(times, lo, hi, step)
  <2>1. IsSegment(s, times, step)
      BY SegmentsAreHoles
  <2>2. /\ s.lo \in Int /\ s.hi \in Int /\ s.lo - step \in times /\ s.hi + step \in times
        /\ \A t \in times : ~ (s.lo <= t /\ t <= s.hi)
      BY <2>1 DEF IsSegment
  <2>3. u \in Int /\ s.lo <= u /\ u <= s.hi /\ u % step = 0
      BY <1>2, <2>2 DEF GridOf
  <2>4. u \notin times
      BY <2>2, <2>3
  <2>5. s.lo - step < u /\ u < s.hi + step
      BY <2>2, <2>3
  <2>6. lo <= s.lo - step /\ s.hi + step <= hi
      BY <2>2, <1>1
  <2>7. u \in GridOf(lo, hi, step)
      BY <2>2, <2>3, <2>5, <2>6 DEF GridOf
  <2> QED
      BY <2>2, <2>4, <2>5, <2>7 DEF Between
<1>3. ASSUME NEW u \in Between(times, lo, hi, step)
      PROVE  \E s \in InternalSegments(times, step) : s.lo <= u /\ u <= s.hi
  <2>1. PICK a \in times, b \in times : a < u /\ u < b
      BY DEF Between
  <2>2. u \in Int /\ u % step = 0 /\ u \notin times
      BY DEF Between, GridOf
  <2>3. times \subseteq lo..hi /\ \A t \in times : t % step = 0
      BY <1>1
  <2> QED
      BY <2>1, <2>2, <2>3, SegmentsCover
<1> QED
    BY <1>2, <1>3

\* The parts of a set add up to the set.
PartOf(N, c, k) == {x \in N : c[x] = k}
LEMMA PartsAddUp ==
    ASSUME NEW N, IsFiniteSet(N), NEW K, IsFiniteSet(K), NEW c, \A x \in N : c[x] \in K,
           NEW g, \A k \in K : g[k] = Cardinality(PartOf(N, c, k))
    PROVE  Total(g, K) = Cardinality(N)
<1> DEFINE In(s) == {x \in N : c[x] \in s}
           Bad(s) == Total(g, s) # Cardinality(In(s))
           D == {m \in Nat : \E s \in SUBSET K : Cardinality(s) = m /\ Bad(s)}
<1>0. \A k \in K : g[k] \in Int
  <2>1. ASSUME NEW k \in K PROVE Cardinality(PartOf(N, c, k)) \in Int
    <3>1. IsFiniteSet(PartOf(N, c, k))
        BY FS_Subset DEF PartOf
    <3> QED
        BY <3>1, FS_CardinalityType
  <2> QED
      BY <2>1
<1>1. In(K) = N
    OBVIOUS
<1>2. SUFFICES ASSUME Bad(K) PROVE FALSE
    BY <1>1
<1>3. Cardinality(K) \in D /\ D \subseteq Nat
  <2> HIDE DEF Bad
  <2> QED
      BY <1>2, FS_CardinalityType
<1>4. PICK m \in D : \A k \in D : m <= k
  <2> HIDE DEF D
  <2> QED
      BY <1>3, LeastNatural
<1>5. PICK s \in SUBSET K : Cardinality(s) = m /\ Bad(s)
    BY <1>4
<1>6. IsFiniteSet(s) /\ \A k \in s : g[k] \in Int
    BY <1>0, <1>5, FS_Subset
<1>7. s # {}
  <2>1. SUFFICES ASSUME s = {} PROVE FALSE
      OBVIOUS
  <2>2. Total(g, s) = 0
      BY <2>1, <1>6, TotalFacts
  <2>3. In(s) = {}
      BY <2>1
  <2>4. Cardinality(In(s)) = 0
      BY <2>3, FS_EmptySet
  <2> QED
      BY <2>2, <2>4, <1>5
<1>8. PICK k \in s : TRUE
    BY <1>7
<1> DEFINE r == s \ {k}
           A == In(r)
           B == {x \in N : c[x] = k}
<1>9. Total(g, s) = g[k] + Total(g, r)
    BY <1>6, TotalFacts
<1>10. r \in SUBSET K /\ Cardinality(r) \in Nat /\ Cardinality(r) = m - 1 /\ m \in Nat
    BY <1>5, <1>8, OneLess
<1>11. In(s) = A \union B /\ A \cap B = {}
    BY <1>8
<1>12. IsFiniteSet(A) /\ IsFiniteSet(B)
    BY FS_Subset
<1>13. g[k] = Cardinality(B) /\ g[k] \in Int
    BY <1>0, <1>8 DEF PartOf
<1> HIDE DEF A, B, D, r
<1>14. Cardinality(In(s)) = Cardinality(A) + Cardinality(B)
  <2>1. Cardinality(A \union B) = Cardinality(A) + Cardinality(B) - Cardinality(A \cap B)
      BY <1>12, FS_Union
  <2>2. Cardinality(A \cap B) = 0
      BY <1>11, FS_EmptySet
  <2>3. Cardinality(A) \in Nat /\ Cardinality(B) \in Nat
      BY <1>12, FS_CardinalityType
  <2>4. Cardinality(A \union B) = Cardinality(A) + Cardinality(B)
      BY <2>1, <2>2, <2>3
  <2> HIDE DEF In
  <2> QED
      BY <2>4, <1>11
<1>15. Total(g, r) \in Int
  <2>1. IsFiniteSet(r) /\ \A x \in r : g[x] \in Int
      BY <1>6, FS_Subset DEF r
  <2> QED
      BY <2>1, TotalFacts
<1>16. Bad(r)
  <2>1. Cardinality(A) \in Nat /\ Cardinality(B) \in Nat
      BY <1>12, FS_CardinalityType
  <2>2. Total(g, s) # Cardinality(In(s))
      BY <1>5
  <2> HIDE DEF In
  <2>3. Total(g, r) # Cardinality(A)
      BY <2>1, <2>2, <1>9, <1>13, <1>14, <1>15
  <2> QED
      BY <2>3 DEF A
<1> HIDE DEF Bad
<1>17. Cardinality(r) \in D
    BY <1>10, <1>16 DEF D
<1>18. m <= Cardinality(r)
    BY <1>4, <1>17
<1> QED
    BY <1>10, <1>18

\* MapThenSumSet over a finite set is a total.
LEMMA SumOfSegments ==
    ASSUME NEW S, IsFiniteSet(S), \A s \in S : s.count \in Int
    PROVE  MapThenSumSet(LAMBDA s : s.count, S) = Total([s \in S |-> s.count], S)
<1> DEFINE any(s) == CHOOSE x \in s : TRUE
           g == [s \in S |-> s.count]
           Loop(j) == j = [s \in SUBSET S |-> IF s = {} THEN 0 ELSE any(s).count + j[s \ {any(s)}]]
           it == CHOOSE j : Loop(j)
<1>1. MapThenSumSet(LAMBDA s : s.count, S) = it[S]
    BY DEF MapThenSumSet, MapThenFoldSet
<1>2. ASSUME NEW s \in SUBSET S, s # {}
      PROVE  g[any(s)] = any(s).count
  <2>1. any(s) \in s
      BY <1>2
  <2> QED
      BY <2>1
<1>3. ASSUME NEW j
      PROVE  IsSum(j, g, S) <=> Loop(j)
  <2>1. \A s \in SUBSET S : (IF s = {} THEN 0 ELSE g[any(s)] + j[s \ {any(s)}])
                             = (IF s = {} THEN 0 ELSE any(s).count + j[s \ {any(s)}])
    <3> HIDE DEF g, any
    <3> QED
        BY <1>2
  <2>2. IsSum(j, g, S) <=> j = [s \in SUBSET S |-> IF s = {} THEN 0 ELSE g[any(s)] + j[s \ {any(s)}]]
      BY DEF IsSum
  <2> HIDE DEF g, any
  <2>3. [s \in SUBSET S |-> IF s = {} THEN 0 ELSE g[any(s)] + j[s \ {any(s)}]]
        = [s \in SUBSET S |-> IF s = {} THEN 0 ELSE any(s).count + j[s \ {any(s)}]]
      BY <2>1
  <2> QED
      BY <2>2, <2>3
<1>4. \A s \in S : g[s] \in Int
    OBVIOUS
<1> HIDE DEF Loop, g
<1>5. PICK j : Loop(j)
    BY <1>3, <1>4, SumExists
<1>6. Loop(it)
    BY <1>5
<1> HIDE DEF it
<1>7. it[S] = Total(g, S)
    BY <1>3, <1>4, <1>6, LoopComputesTotal
<1> QED
    BY <1>1, <1>7 DEF g

\* The counts of the segments add up to the points between stored times.
LEMMA SegmentsCountBetween ==
    ASSUME NEW lo \in Int, NEW hi \in Int, NEW step \in Nat \ {0},
           NEW times, times \subseteq GridOf(lo, hi, step)
    PROVE  MapThenSumSet(LAMBDA s : s.count, InternalSegments(times, step)) =
               Cardinality(Between(times, lo, hi, step))
<1> DEFINE I == InternalSegments(times, step)
           N == Between(times, lo, hi, step)
           c == [u \in N |-> CHOOSE s \in I : s.lo <= u /\ u <= s.hi]
           g == [s \in I |-> s.count]
<1>1. IsFiniteSet(I) /\ \A s \in I : IsSegment(s, times, step)
    BY SegmentsAreHoles
<1>2. \A t \in times : t \in Int /\ t % step = 0
    BY DEF GridOf
<1>3. IsFiniteSet(N) /\ \A u \in N : u \in Int /\ u % step = 0
  <2>1. N \subseteq lo..hi /\ \A u \in N : u % step = 0
      BY DEF Between, GridOf
  <2>2. IsFiniteSet(lo..hi)
      BY FS_Interval
  <2> HIDE DEF N
  <2>3. IsFiniteSet(N)
      BY <2>1, <2>2, FS_Subset
  <2> QED
      BY <2>1, <2>3
<1>4. ASSUME NEW u \in N
      PROVE  c[u] \in I /\ c[u].lo <= u /\ u <= c[u].hi
  <2>1. \E s \in I : s.lo <= u /\ u <= s.hi
      BY SegmentsAreBetween
  <2> HIDE DEF I, N
  <2> QED
      BY <2>1
<1>5. ASSUME NEW s \in I
      PROVE  PartOf(N, c, s) = GridOf(s.lo, s.hi, step)
  <2>1. IsSegment(s, times, step)
      BY <1>1
  <2>2. s.lo \in Int /\ s.hi \in Int
      BY <2>1 DEF IsSegment
  <2>3. GridOf(s.lo, s.hi, step) \subseteq N
      BY SegmentsAreBetween
  <2> HIDE DEF I, N, c
  <2>4. ASSUME NEW u \in PartOf(N, c, s)
        PROVE  u \in GridOf(s.lo, s.hi, step)
    <3>1. u \in N /\ c[u] = s
        BY DEF PartOf
    <3>2. s.lo <= u /\ u <= s.hi /\ u \in Int /\ u % step = 0
        BY <3>1, <1>3, <1>4
    <3> QED
        BY <3>2, <2>2 DEF GridOf
  <2>5. ASSUME NEW u \in GridOf(s.lo, s.hi, step)
        PROVE  u \in PartOf(N, c, s)
    <3>1. u \in N /\ u \in Int /\ s.lo <= u /\ u <= s.hi
        BY <2>2, <2>3 DEF GridOf
    <3>2. c[u] \in I /\ c[u].lo <= u /\ u <= c[u].hi
        BY <3>1, <1>4
    <3>3. IsSegment(c[u], times, step)
        BY <3>2, <1>1
    <3>4. c[u] = s
        BY <3>1, <3>2, <3>3, <2>1, <1>2, SegmentsApart
    <3> QED
        BY <3>1, <3>4 DEF PartOf
  <2> QED
      BY <2>4, <2>5
<1>6. ASSUME NEW s \in I
      PROVE  g[s] = Cardinality(PartOf(N, c, s)) /\ s.count \in Int
  <2>1. IsSegment(s, times, step)
      BY <1>1
  <2>2. /\ s.lo \in Int /\ s.hi \in Int /\ s.lo % step = 0 /\ s.hi % step = 0
        /\ s.lo <= s.hi /\ s.count = (s.hi - s.lo) \div step + 1 /\ s.count \in Int
      BY <2>1 DEF IsSegment
  <2>3. s.lo <= s.hi + step
      BY <2>2
  <2>4. Cardinality(GridOf(s.lo, s.hi, step)) = s.count
      BY <2>2, <2>3, GridCount
  <2>5. g[s] = s.count
      OBVIOUS
  <2> HIDE DEF g, I, N, c
  <2> QED
      BY <2>2, <2>4, <2>5, <1>5
<1> HIDE DEF I, N, c
<1>7. \A u \in N : c[u] \in I
    BY <1>4
<1>8. \A s \in I : g[s] = Cardinality(PartOf(N, c, s))
    BY <1>6
<1>9. \A s \in I : s.count \in Int
    BY <1>6
<1>10. MapThenSumSet(LAMBDA s : s.count, I) = Total(g, I)
    BY <1>1, <1>9, SumOfSegments
<1> HIDE DEF g
<1>11. Total(g, I) = Cardinality(N)
    BY <1>1, <1>3, <1>7, <1>8, PartsAddUp
<1> QED
    BY <1>10, <1>11 DEF I, N

\* The segments are the maximal runs of what is missing between rows.
LEMMA SegmentsAreMaximalRuns ==
    ASSUME NEW lo \in Int, NEW hi \in Int, NEW step \in Nat \ {0},
           NEW times, times \subseteq GridOf(lo, hi, step)
    PROVE  LET inside == Between(times, lo, hi, step)
           IN  WindowsOf(InternalSegments(times, step)) = MaximalRuns(inside, step)
<1> DEFINE I == InternalSegments(times, step)
           N == Between(times, lo, hi, step)
<1>1. \A s \in I : IsSegment(s, times, step)
    BY SegmentsAreHoles
<1>2. \A t \in times : t \in Int /\ t % step = 0 /\ t \notin N
    BY DEF GridOf, Between
<1>3. \A u \in N : u \in Int /\ u % step = 0 /\ u \notin times
    BY DEF Between, GridOf
<1>4. /\ \A s \in I : GridOf(s.lo, s.hi, step) \subseteq N
      /\ \A u \in N : \E s \in I : s.lo <= u /\ u <= s.hi
    BY SegmentsAreBetween
<1> HIDE DEF I, N
<1>5. ASSUME NEW s \in I
      PROVE  s.lo \in N /\ s.hi \in N /\ IsMaximalRun(s.lo, s.hi, N, step)
  <2>1. /\ s.lo \in Int /\ s.hi \in Int /\ s.lo % step = 0 /\ s.hi % step = 0 /\ s.lo <= s.hi
        /\ s.lo - step \in times /\ s.hi + step \in times
      BY <1>1, <1>5 DEF IsSegment
  <2>2. s.lo \in N /\ s.hi \in N
    <3>1. s.lo \in GridOf(s.lo, s.hi, step) /\ s.hi \in GridOf(s.lo, s.hi, step)
        BY <2>1 DEF GridOf
    <3> QED
        BY <3>1, <1>4, <1>5
  <2>3. (s.hi - s.lo) % step = 0
      BY <2>1, GridDistance
  <2>4. ExpectedTimes(Window(s.lo, s.hi), step) \subseteq N
    <3>1. ExpectedTimes(Window(s.lo, s.hi), step) = GridOf(s.lo, s.hi, step)
        BY <2>1, ExpectedTimesAreTheGrid DEF GridOf
    <3> QED
        BY <3>1, <1>4, <1>5
  <2>5. s.lo - step \notin N /\ s.hi + step \notin N
      BY <2>1, <1>2
  <2> QED
      BY <2>1, <2>2, <2>3, <2>4, <2>5 DEF IsMaximalRun, IsRun
<1>6. ASSUME NEW a \in N, NEW b \in N, IsMaximalRun(a, b, N, step)
      PROVE  \E s \in I : s.lo = a /\ s.hi = b
  <2>1. /\ a \in Int /\ b \in Int /\ a % step = 0 /\ b % step = 0
      BY <1>3
  <2>2. a <= b /\ a - step \notin N /\ b + step \notin N
      BY <1>6 DEF IsMaximalRun, IsRun
  <2>3. GridOf(a, b, step) \subseteq N
    <3>1. ExpectedTimes(Window(a, b), step) = GridOf(a, b, step)
        BY <2>1, ExpectedTimesAreTheGrid DEF GridOf
    <3> QED
        BY <3>1, <1>6 DEF IsMaximalRun, IsRun
  <2>4. PICK s \in I : s.lo <= a /\ a <= s.hi
      BY <1>4
  <2>5. /\ s.lo \in Int /\ s.hi \in Int /\ s.lo % step = 0 /\ s.hi % step = 0 /\ s.lo <= s.hi
        /\ s.hi + step \in times
      BY <1>1 DEF IsSegment
  <2>6. \A u \in Int : s.lo <= u /\ u <= s.hi /\ u % step = 0 => u \in N
      BY <2>5, <1>4 DEF GridOf
  <2>7. \A t \in Int : t % step = 0 => (t - step) % step = 0 /\ (t + step) % step = 0
    <3>1. SUFFICES ASSUME NEW t \in Int, t % step = 0
                   PROVE  (t - step) % step = 0 /\ (t + step) % step = 0
        OBVIOUS
    <3>2. PICK k \in Int : t = k * step
        BY <3>1, MultipleOfStep
    <3>3. t - step = (k - 1) * step /\ t + step = (k + 1) * step /\ t - step \in Int /\ t + step \in Int
        BY <3>2
    <3>4. k - 1 \in Int /\ k + 1 \in Int
        OBVIOUS
    <3> QED
        BY <3>3, <3>4, MultipleOfStep
  <2>8. ~ (s.lo < a)
    <3>1. SUFFICES ASSUME s.lo < a PROVE FALSE
        OBVIOUS
    <3>2. s.lo + step <= a
        BY <3>1, <2>1, <2>5, StepApart
    <3>3. a - step \in Int /\ s.lo <= a - step /\ a - step <= s.hi /\ (a - step) % step = 0
        BY <3>2, <2>1, <2>4, <2>5, <2>7
    <3> QED
        BY <3>3, <2>2, <2>6
  <2>9. ~ (s.hi < b)
    <3>1. SUFFICES ASSUME s.hi < b PROVE FALSE
        OBVIOUS
    <3>2. s.hi + step <= b
        BY <3>1, <2>1, <2>5, StepApart
    <3>3. s.hi + step \in GridOf(a, b, step)
        BY <3>2, <2>1, <2>4, <2>5, <2>7 DEF GridOf
    <3> QED
        BY <3>3, <2>3, <2>5, <1>2
  <2>10. ~ (b < s.hi)
    <3>1. SUFFICES ASSUME b < s.hi PROVE FALSE
        OBVIOUS
    <3>2. b + step <= s.hi
        BY <3>1, <2>1, <2>5, StepApart
    <3>3. b + step \in Int /\ s.lo <= b + step /\ (b + step) % step = 0
        BY <2>1, <2>2, <2>4, <2>5, <2>7
    <3> QED
        BY <3>2, <3>3, <2>2, <2>6
  <2>11. s.lo = a /\ s.hi = b
      BY <2>1, <2>4, <2>5, <2>8, <2>9, <2>10
  <2> QED
      BY <2>11
<1> DEFINE L == WindowsOf(I)
           R == MaximalRuns(N, step)
<1>7. \A a, b : Window(a, b).lo = a /\ Window(a, b).hi = b
    BY DEF Window
<1>8. ASSUME NEW w \in L
      PROVE  w \in R
  <2>1. PICK s \in I : w = Window(s.lo, s.hi)
      BY DEF WindowsOf
  <2>2. w \in {Window(a, b) : a, b \in N} /\ IsMaximalRun(w.lo, w.hi, N, step)
      BY <2>1, <1>5, <1>7
  <2> QED
      BY <2>2 DEF MaximalRuns
<1>9. ASSUME NEW w \in R
      PROVE  w \in L
  <2>1. PICK a \in N, b \in N : w = Window(a, b) /\ IsMaximalRun(w.lo, w.hi, N, step)
      BY DEF MaximalRuns
  <2>2. IsMaximalRun(a, b, N, step)
      BY <2>1, <1>7
  <2>3. PICK s \in I : s.lo = a /\ s.hi = b
      BY <2>2, <1>6
  <2> QED
      BY <2>1, <2>3 DEF WindowsOf
<1>10. L = R
    BY <1>8, <1>9
<1> QED
    BY <1>10 DEF I, N

\* Two sets with nothing in common have the elements of both.
LEMMA DisjointUnion ==
    ASSUME NEW S, IsFiniteSet(S), NEW T, IsFiniteSet(T), S \cap T = {}
    PROVE  /\ IsFiniteSet(S \union T)
           /\ Cardinality(S \union T) = Cardinality(S) + Cardinality(T)
<1>1. /\ IsFiniteSet(S \union T)
      /\ Cardinality(S \union T) = Cardinality(S) + Cardinality(T) - Cardinality(S \cap T)
    BY FS_Union
<1>2. Cardinality(S \cap T) = 0
    BY FS_EmptySet
<1>3. Cardinality(S) \in Nat /\ Cardinality(T) \in Nat
    BY FS_CardinalityType
<1> QED
    BY <1>1, <1>2, <1>3

\* The points of a grid that are not among the times.
Missed(times, lo, hi, step) == GridOf(lo, hi, step) \ times

\* Head, inside and tail of a profile count what is missing in its window, each
\* point once; the segments are those of the inside (data_quality.py:292-429).
LEMMA ProfileCountsMissing ==
    ASSUME NEW lo \in Int, NEW hi \in Int, NEW step \in Nat \ {0}, lo % step = 0, hi % step = 0,
           NEW times, times \subseteq GridOf(lo, hi, step),
           NEW P, P = Profile(times, Window(lo, hi), step)
    PROVE  /\ MissingCount(P) = Cardinality(Missed(times, lo, hi, step))
           /\ P.shortfall \in Nat /\ P.internal \in Nat /\ P.tail \in Nat
           /\ P.segments = InternalSegments(times, step)
           /\ P.internal = 0 <=> P.segments = {}
<1> DEFINE G == GridOf(lo, hi, step)
           I == InternalSegments(times, step)
           N == Between(times, lo, hi, step)
           sum == MapThenSumSet(LAMBDA s : s.count, I)
<1>0. Missed(times, lo, hi, step) = G \ times
    BY DEF Missed
<1>1. \A a, b, c, d : LET r == [shortfall |-> a, internal |-> b, tail |-> c, segments |-> d]
                      IN  r.shortfall = a /\ r.internal = b /\ r.tail = c /\ r.segments = d
    OBVIOUS
<1>2. /\ Window(lo, hi).lo = lo /\ Window(lo, hi).hi = hi
      /\ P = IF hi < lo THEN [shortfall |-> 0, internal |-> 0, tail |-> 0, segments |-> {}]
             ELSE IF times = {}
             THEN [shortfall |-> ExpectedPoints(Window(lo, hi), step), internal |-> 0, tail |-> 0,
                   segments |-> {}]
             ELSE [shortfall |-> IF Min(times) > lo THEN (Min(times) - lo) \div step ELSE 0,
                   internal  |-> sum,
                   tail      |-> IF Max(times) < hi THEN (hi - Max(times)) \div step ELSE 0,
                   segments  |-> I]
  <2>1. Window(lo, hi).lo = lo /\ Window(lo, hi).hi = hi
      BY DEF Window
  <2> QED
      BY <2>1 DEF Profile
<1>3. /\ \A u \in G : u \in Int /\ lo <= u /\ u <= hi /\ u % step = 0
      /\ \A u \in Int : lo <= u /\ u <= hi /\ u % step = 0 => u \in G
    BY DEF GridOf
<1>4. /\ IsFiniteSet(G)
      /\ times = {} => I = {}
  <2>1. IsFiniteSet(lo..hi) /\ G \subseteq lo..hi
      BY FS_Interval DEF GridOf
  <2>2. IsFiniteSet(G)
      BY <2>1, FS_Subset
  <2>3. times = {} => I = {}
      BY DEF InternalSegments, Neighbours
  <2> QED
      BY <2>2, <2>3
<1>5. CASE hi < lo
  <2>1. G = {}
      BY <1>3, <1>5
  <2>2. G \ times = {} /\ times = {}
      BY <2>1
  <2>3. Cardinality(G \ times) = 0
      BY <2>2, FS_EmptySet
  <2>4. P.shortfall = 0 /\ P.internal = 0 /\ P.tail = 0 /\ P.segments = {}
      BY <1>1, <1>2, <1>5
  <2>5. MissingCount(P) = 0
      BY <2>4 DEF MissingCount
  <2> HIDE DEF G, I
  <2>6. P.segments = I
      BY <2>2, <2>4, <1>4
  <2> QED
      BY <1>0, <2>3, <2>4, <2>5, <2>6 DEF I
<1>6. CASE ~ (hi < lo) /\ times = {}
  <2>1. P.shortfall = ExpectedPoints(Window(lo, hi), step) /\ P.internal = 0 /\ P.tail = 0 /\ P.segments = {}
      BY <1>1, <1>2, <1>6
  <2>2. ExpectedPoints(Window(lo, hi), step) = (hi - lo) \div step + 1
      BY <1>2, <1>6 DEF ExpectedPoints
  <2>3. lo <= hi + step
      BY <1>6
  <2>4. Cardinality(G) = (hi - lo) \div step + 1 /\ (hi - lo) \div step + 1 \in Nat
      BY <2>3, GridCount
  <2>5. G \ times = G
      BY <1>6
  <2> HIDE DEF G, I
  <2>6. MissingCount(P) = Cardinality(G \ times) /\ P.shortfall \in Nat
    <3>1. P.shortfall = Cardinality(G) /\ Cardinality(G) \in Nat
        BY <2>1, <2>2, <2>4
    <3>2. MissingCount(P) = P.shortfall + 0 + 0
        BY <2>1 DEF MissingCount
    <3> QED
        BY <3>1, <3>2, <2>5
  <2>7. P.segments = I
      BY <2>1, <1>4, <1>6
  <2> QED
      BY <1>0, <2>1, <2>6, <2>7 DEF I
<1>7. CASE ~ (hi < lo) /\ times # {}
  <2> DEFINE a == Min(times)
             b == Max(times)
             head == GridOf(lo, a - step, step)
             tail == GridOf(b + step, hi, step)
  <2>1. /\ a \in times /\ \A t \in times : a <= t
        /\ b \in times /\ \A t \in times : t <= b
    <3>1. times \subseteq lo..hi
        BY DEF GridOf
    <3> QED
        BY <3>1, <1>7, MinOfTimes, MaxOfTimes
  <2> HIDE DEF a, b
  <2>2. /\ a \in Int /\ lo <= a /\ a <= hi /\ a % step = 0
        /\ b \in Int /\ lo <= b /\ b <= hi /\ b % step = 0
      BY <2>1, <1>3
  <2>3. \A t \in Int : t % step = 0 => (t - step) % step = 0 /\ (t + step) % step = 0
    <3>1. SUFFICES ASSUME NEW t \in Int, t % step = 0
                   PROVE  (t - step) % step = 0 /\ (t + step) % step = 0
        OBVIOUS
    <3>2. PICK k \in Int : t = k * step
        BY <3>1, MultipleOfStep
    <3>3. t - step = (k - 1) * step /\ t + step = (k + 1) * step /\ t - step \in Int /\ t + step \in Int
        BY <3>2
    <3>4. k - 1 \in Int /\ k + 1 \in Int
        OBVIOUS
    <3> QED
        BY <3>3, <3>4, MultipleOfStep
  <2>4. \A j \in Int : (j * step - step) \div step + 1 = j
    <3>1. SUFFICES ASSUME NEW j \in Int PROVE (j * step - step) \div step + 1 = j
        OBVIOUS
    <3>2. j * step - step = (j - 1) * step /\ j - 1 \in Int
        OBVIOUS
    <3>3. (j * step - step) \div step = j - 1
        BY <3>2, DivOfMultiple
    <3> QED
        BY <3>3
  <2>5. PICK k \in Int : a = k * step
      BY <2>2, MultipleOfStep
  <2>6. PICK l \in Int : lo = l * step
      BY MultipleOfStep
  <2>7. PICK m \in Int : b = m * step
      BY <2>2, MultipleOfStep
  <2>8. PICK n \in Int : hi = n * step
      BY MultipleOfStep
  <2>9. /\ IsFiniteSet(head) /\ Cardinality(head) = (a - lo) \div step /\ (a - lo) \div step \in Nat
    <3>1. (a - step) % step = 0 /\ a - step \in Int /\ lo <= (a - step) + step
      <4>1. (a - step) % step = 0
          BY <2>2, <2>3
      <4>2. a - step \in Int /\ lo <= (a - step) + step
          BY <2>2
      <4> QED
          BY <4>1, <4>2
    <3>2. /\ IsFiniteSet(head) /\ Cardinality(head) = ((a - step) - lo) \div step + 1
          /\ ((a - step) - lo) \div step + 1 \in Nat
        BY <3>1, GridCount
    <3>3. (a - step) - lo = (k - l) * step - step /\ a - lo = (k - l) * step /\ k - l \in Int
        BY <2>5, <2>6
    <3>4. ((a - step) - lo) \div step + 1 = k - l /\ (a - lo) \div step = k - l
        BY <3>3, <2>4, DivOfMultiple
    <3> QED
        BY <3>2, <3>4
  <2>10. /\ IsFiniteSet(tail) /\ Cardinality(tail) = (hi - b) \div step /\ (hi - b) \div step \in Nat
    <3>1. (b + step) % step = 0 /\ b + step \in Int /\ b + step <= hi + step
      <4>1. (b + step) % step = 0
          BY <2>2, <2>3
      <4>2. b + step \in Int /\ b + step <= hi + step
          BY <2>2
      <4> QED
          BY <4>1, <4>2
    <3>2. /\ IsFiniteSet(tail) /\ Cardinality(tail) = (hi - (b + step)) \div step + 1
          /\ (hi - (b + step)) \div step + 1 \in Nat
        BY <3>1, GridCount
    <3>3. hi - (b + step) = (n - m) * step - step /\ hi - b = (n - m) * step /\ n - m \in Int
        BY <2>7, <2>8
    <3>4. (hi - (b + step)) \div step + 1 = n - m /\ (hi - b) \div step = n - m
        BY <3>3, <2>4, DivOfMultiple
    <3> QED
        BY <3>2, <3>4
  <2>11. (lo - lo) \div step = 0 /\ (hi - hi) \div step = 0
    <3>1. lo - lo = 0 * step /\ hi - hi = 0 * step /\ 0 \in Int
        OBVIOUS
    <3> QED
        BY <3>1, DivOfMultiple
  <2>12. /\ P.shortfall = (a - lo) \div step
         /\ P.tail = (hi - b) \div step
         /\ P.internal = sum /\ P.segments = I
    <3>1. /\ P.shortfall = IF a > lo THEN (a - lo) \div step ELSE 0
          /\ P.tail = IF b < hi THEN (hi - b) \div step ELSE 0
          /\ P.internal = sum /\ P.segments = I
        BY <1>1, <1>2, <1>7 DEF a, b
    <3>2. ~ (a > lo) => a = lo
        BY <2>2
    <3>3. ~ (b < hi) => b = hi
        BY <2>2
    <3> HIDE DEF sum, I
    <3> QED
        BY <3>1, <3>2, <3>3, <2>11
  <2>13. sum = Cardinality(N)
      BY SegmentsCountBetween
  <2>14. IsFiniteSet(N)
    <3>1. N \subseteq G
        BY DEF Between
    <3> QED
        BY <3>1, <1>4, FS_Subset
  <2>15. G \ times = (head \union N) \union tail
    <3>1. ASSUME NEW u \in G \ times
          PROVE  u \in (head \union N) \union tail
      <4>1. u \in Int /\ lo <= u /\ u <= hi /\ u % step = 0 /\ u \notin times
          BY <1>3
      <4>2. u # a /\ u # b
          BY <4>1, <2>1
      <4>3. CASE u < a
        <5>1. u + step <= a
            BY <4>1, <4>3, <2>2, StepApart
        <5>2. u \in lo..(a - step)
            BY <5>1, <4>1, <2>2
        <5> QED
            BY <5>2, <4>1 DEF GridOf
      <4>4. CASE b < u
        <5>1. b + step <= u
            BY <4>1, <4>4, <2>2, StepApart
        <5>2. u \in (b + step)..hi
            BY <5>1, <4>1, <2>2
        <5> QED
            BY <5>2, <4>1 DEF GridOf
      <4>5. CASE a < u /\ u < b
          BY <4>5, <2>1 DEF Between
      <4> QED
          BY <4>1, <4>2, <4>3, <4>4, <4>5, <2>2
    <3>2. ASSUME NEW u \in head
          PROVE  u \in G \ times
      <4>1. u \in Int /\ lo <= u /\ u <= a - step /\ u % step = 0
          BY <2>2 DEF GridOf
      <4>2. u <= hi /\ u < a
          BY <4>1, <2>2
      <4>3. u \notin times
          BY <4>1, <4>2, <2>1, <2>2
      <4> QED
          BY <4>1, <4>2, <4>3, <1>3
    <3>3. ASSUME NEW u \in tail
          PROVE  u \in G \ times
      <4>1. u \in Int /\ b + step <= u /\ u <= hi /\ u % step = 0
          BY <2>2 DEF GridOf
      <4>2. lo <= u /\ b < u
          BY <4>1, <2>2
      <4>3. u \notin times
          BY <4>1, <4>2, <2>1, <2>2
      <4> QED
          BY <4>1, <4>2, <4>3, <1>3
    <3>4. N \subseteq G \ times
        BY DEF Between
    <3> QED
        BY <3>1, <3>2, <3>3, <3>4
  <2>16. head \cap N = {} /\ (head \union N) \cap tail = {}
    <3>1. ASSUME NEW u \in N
          PROVE  u \in Int /\ a < u /\ u < b
      <4>1. PICK x \in times, y \in times : x < u /\ u < y
          BY DEF Between
      <4>2. u \in G
          BY DEF Between
      <4> QED
          BY <4>1, <4>2, <1>3, <2>1, <2>2
    <3>2. ASSUME NEW u \in head
          PROVE  u \in Int /\ u < a
        BY <2>2 DEF GridOf
    <3>3. ASSUME NEW u \in tail
          PROVE  u \in Int /\ b < u
        BY <2>2 DEF GridOf
    <3>4. a <= b
        BY <2>1
    <3> HIDE DEF head, tail, N
    <3>5. \A u \in head : u \notin N /\ u \notin tail
        BY <3>1, <3>2, <3>3, <3>4, <2>2
    <3>6. \A u \in N : u \notin tail
        BY <3>1, <3>3, <2>2
    <3> QED
        BY <3>5, <3>6
  <2>17. /\ IsFiniteSet(head \union N)
         /\ Cardinality(head \union N) = Cardinality(head) + Cardinality(N)
      BY <2>9, <2>14, <2>16, DisjointUnion
  <2>18. Cardinality((head \union N) \union tail) = Cardinality(head \union N) + Cardinality(tail)
      BY <2>10, <2>16, <2>17, DisjointUnion
  <2>19. Cardinality(N) \in Nat
      BY <2>14, FS_CardinalityType
  <2>20. MissingCount(P) = Cardinality(head) + Cardinality(N) + Cardinality(tail)
      BY <2>9, <2>10, <2>12, <2>13 DEF MissingCount
  <2>21. Cardinality(N) = 0 <=> I = {}
    <3>1. Cardinality(N) = 0 <=> N = {}
        BY <2>14, FS_EmptySet
    <3>2. N # {} => I # {}
        BY SegmentsAreBetween
    <3>3. I # {} => N # {}
      <4>1. SUFFICES ASSUME NEW s \in I PROVE N # {}
          OBVIOUS
      <4>2. IsSegment(s, times, step)
          BY SegmentsAreHoles
      <4>3. s.lo \in GridOf(s.lo, s.hi, step)
          BY <4>2 DEF IsSegment, GridOf
      <4> QED
          BY <4>3, SegmentsAreBetween
    <3> QED
        BY <3>1, <3>2, <3>3
  <2> HIDE DEF G, I, N, head, tail, sum
  <2>22. /\ P.shortfall \in Nat /\ P.internal \in Nat /\ P.tail \in Nat /\ P.segments = I
         /\ P.internal = 0 <=> P.segments = {}
      BY <2>9, <2>10, <2>12, <2>13, <2>19, <2>21
  <2>23. MissingCount(P) = Cardinality(G \ times)
      BY <2>15, <2>17, <2>18, <2>20
  <2> QED
      BY <1>0, <2>22, <2>23 DEF I
<1> QED
    BY <1>5, <1>6, <1>7
=============================================================================
