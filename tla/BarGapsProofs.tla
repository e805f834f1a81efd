----------------------------- MODULE BarGapsProofs -----------------------------
(***************************************************************************)
(* Proofs about bars and gap rows, for any venue, contents of the tables,  *)
(* windows, limits and page sizes, any number of workers, operations,      *)
(* failures and crashes.                                                   *)
(***************************************************************************)
EXTENDS BarGaps, SharedLemmas

-----------------------------------------------------------------------------
(* Numbers *)

\* What ConstantsAssumption says of them.
LEMMA Numbers ==
    /\ LastMinute \in Nat /\ StartTime \in Nat /\ EndTime \in Nat /\ StartTime <= EndTime
    /\ PageLimit \in Nat \ {0} /\ ListLimit \in Nat /\ DetectLimit \in Nat /\ Lookback \in Nat
    /\ MaxTasks \in Nat /\ MaxTroubles \in Nat
BY ConstantsAssumption

LEMMA MinutesFacts ==
    /\ Minutes \subseteq 0..LastMinute /\ Minutes \subseteq Int /\ IsFiniteSet(Minutes)
    /\ \A m \in Minutes : m % 2 = 0
    /\ \A S \in SUBSET Minutes : IsFiniteSet(S) /\ S \subseteq Int
<1>1. Minutes \subseteq 0..LastMinute /\ \A m \in Minutes : m \in Int /\ m % 2 = 0
    BY Numbers DEF Minutes
<1>2. IsFiniteSet(0..LastMinute)
    BY Numbers, FS_Interval
<1>3. IsFiniteSet(Minutes)
    BY <1>1, <1>2, FS_Subset
<1>4. ASSUME NEW S \in SUBSET Minutes
      PROVE  IsFiniteSet(S) /\ S \subseteq Int
    BY <1>1, <1>3, FS_Subset
<1> QED
    BY <1>1, <1>3, <1>4

-----------------------------------------------------------------------------
(* Merged windows *)

\* _merge_windows leaves no window out: a merged window holds it.
LEMMA MergeWindowsFacts ==
    ASSUME NEW W, W \subseteq [lo : Int, hi : Int], IsFiniteSet(W)
    PROVE  /\ MergeWindows(W) \in Seq([lo : Int, hi : Int])
           /\ \A w \in W : \E i \in DOMAIN MergeWindows(W) :
                  MergeWindows(W)[i].lo <= w.lo /\ w.hi <= MergeWindows(W)[i].hi
<1> DEFINE Win == [lo : Int, hi : Int]
           A == Seq(Win)
           n == Cardinality(W)
           sorted == SortedWindows(W)
           Joined(v, w) == Window(v.lo, IF w.hi > v.hi THEN w.hi ELSE v.hi)
           Own(w) == Window(w.lo, w.hi)
           Merge(a, w) == IF a # <<>> /\ w.lo <= Last(a).hi + 1
                          THEN Append(Front(a), Joined(Last(a), w))
                          ELSE Append(a, Own(w))
           F == [p \in A \X Win |-> Merge(p[1], p[2])]
           Loop(j) == j = [s \in SUBSET DOMAIN sorted |->
                              IF s = {} THEN <<>>
                              ELSE Merge(j[s \ {Max(s)}], sorted[Max(s)])]
           it == CHOOSE j : Loop(j)
           Covered(a, k) == \A i \in 1..k : \E j \in DOMAIN a :
                                a[j].lo <= sorted[i].lo /\ sorted[i].hi <= a[j].hi
           Early(a, k) == a # <<>> => k > 0 /\ Last(a).lo <= sorted[k].lo
           Good == {p \in (0..n) \X A : Covered(p[2], p[1]) /\ Early(p[2], p[1])}
<1>1. MergeWindows(W) = it[DOMAIN sorted]
    BY DEF MergeWindows, FoldLeft, MapThenFoldSet
<1>2. /\ n \in Nat /\ DOMAIN sorted = 1..n
      /\ \A i \in 1..n : sorted[i] \in Win
      /\ \A w \in W : \E i \in 1..n : sorted[i] = w
      /\ \A i, j \in 1..n : i < j => sorted[i].lo <= sorted[j].lo
  <2>1. n \in Nat
      BY FS_CardinalityType
  <2>2. /\ sorted \in Seq(W)
        /\ \A w \in W : \E i \in DOMAIN sorted : sorted[i] = w
        /\ \A i, j \in DOMAIN sorted : i < j => sorted[i].lo <= sorted[j].lo
      BY SortedWindowsFacts
  <2>3. DOMAIN sorted = 1..n
      BY DEF SortedWindows
  <2> HIDE DEF sorted, n
  <2>4. \A i \in 1..n : sorted[i] \in W
    <3>1. Len(sorted) = n
        BY <2>1, <2>2, <2>3, LenProperties
    <3> QED
        BY <3>1, <2>2, ElementOfSeq
  <2>5. \A i \in 1..n : sorted[i] \in Win
      BY <2>4
  <2> QED
      BY <2>1, <2>2, <2>3, <2>5
<1> HIDE DEF n, sorted
<1>3. ASSUME NEW w \in Win
      PROVE  Own(w) \in Win /\ Own(w).lo = w.lo /\ Own(w).hi = w.hi
    BY DEF Window
<1>4. ASSUME NEW v \in Win, NEW w \in Win
      PROVE  /\ Joined(v, w) \in Win /\ Joined(v, w).lo = v.lo
             /\ v.hi <= Joined(v, w).hi /\ w.hi <= Joined(v, w).hi
    BY DEF Window
<1> HIDE DEF Own, Joined
<1>5. ASSUME NEW a \in A, NEW w \in Win
      PROVE  Merge(a, w) \in A
  <2>1. Own(w) \in Win
      BY <1>3
  <2>2. CASE a # <<>> /\ w.lo <= Last(a).hi + 1
    <3>1. Last(a) \in Win
        BY <2>1, <2>2, ReplaceLast
    <3>2. Joined(Last(a), w) \in Win
        BY <3>1, <1>4
    <3> HIDE DEF Win
    <3>3. Append(Front(a), Joined(Last(a), w)) \in Seq(Win)
        BY <2>2, <3>2, ReplaceLast
    <3> QED
        BY <2>2, <3>3
  <2>3. CASE ~ (a # <<>> /\ w.lo <= Last(a).hi + 1)
    <3> HIDE DEF Win
    <3>1. Append(a, Own(w)) \in Seq(Win)
        BY <2>1, AppendFacts
    <3> QED
        BY <2>3, <3>1
  <2> QED
      BY <2>2, <2>3
<1> HIDE DEF Merge
<1>6. PICK j : IsFold(j, F, <<>>, sorted, n) /\ \A s \in SUBSET (1..n) : j[s] \in A
  <2>1. F \in [A \X Win -> A]
    <3> HIDE DEF A
    <3> QED
        BY <1>5
  <2>2. <<>> \in A
      OBVIOUS
  <2>3. \A i \in 1..n : sorted[i] \in Win
      BY <1>2
  <2>4. n \in Nat
      BY <1>2
  <2> DEFINE first == <<>>
  <2>5. first \in A
      BY <2>2
  <2> HIDE DEF F, A, Win, first, Loop, it, Covered, Early, Good
  <2>6. \E j : IsFold(j, F, first, sorted, n) /\ \A s \in SUBSET (1..n) : j[s] \in A
      BY <2>1, <2>3, <2>4, <2>5, FoldExists, ZenonT(60)
  <2> QED
      BY <2>6 DEF first
<1>7. Loop(j)
  <2> DEFINE Before(s) == IF s = {} THEN <<>> ELSE F[<<j[s \ {Max(s)}], sorted[Max(s)]>>]
             After(s) == IF s = {} THEN <<>> ELSE Merge(j[s \ {Max(s)}], sorted[Max(s)])
  <2>1. ASSUME NEW s \in SUBSET (1..n)
        PROVE  Before(s) = After(s)
    <3>1. CASE s = {}
        BY <3>1
    <3>2. CASE s # {}
      <4>1. Max(s) \in s
        <5>1. 1 \in Int /\ n \in Int /\ s \subseteq 1..n
            BY <1>2
        <5> QED
            BY <5>1, <3>2, MaxOfTimes, Zenon
      <4> HIDE DEF A, Win
      <4>2. sorted[Max(s)] \in Win /\ j[s \ {Max(s)}] \in A
          BY <4>1, <1>2, <1>6
      <4>3. F[<<j[s \ {Max(s)}], sorted[Max(s)]>>] = Merge(j[s \ {Max(s)}], sorted[Max(s)])
          BY <4>2
      <4> HIDE DEF F
      <4> QED
          BY <4>3
    <3> QED
        BY <3>1, <3>2
  <2>2. j = [s \in SUBSET (1..n) |-> Before(s)]
      BY <1>6 DEF IsFold
  <2>3. Loop(j) <=> j = [s \in SUBSET (1..n) |-> After(s)]
      BY <1>2
  <2> HIDE DEF Before, After, Loop
  <2>4. [s \in SUBSET (1..n) |-> Before(s)] = [s \in SUBSET (1..n) |-> After(s)]
      BY <2>1
  <2> QED
      BY <2>2, <2>3, <2>4, Zenon
<1>8. Loop(it)
  <2> HIDE DEF Loop
  <2> QED
      BY <1>7
<1> HIDE DEF it
<1>9. it[{}] = <<>> /\ \A k \in 1..n : it[1..k] = Merge(it[1..(k - 1)], sorted[k])
  <2>1. it[{}] = <<>>
      BY <1>8
  <2>2. ASSUME NEW k \in 1..n
        PROVE  it[1..k] = Merge(it[1..(k - 1)], sorted[k])
    <3>1. /\ 1..k \in SUBSET (1..n) /\ 1..k # {}
          /\ Max(1..k) = k /\ (1..k) \ {k} = 1..(k - 1)
        BY <1>2, PrefixOfPositions
    <3>2. it[1..k] = Merge(it[(1..k) \ {Max(1..k)}], sorted[Max(1..k)])
        BY <1>8, <1>2, <3>1
    <3> QED
        BY <3>1, <3>2
  <2> QED
      BY <2>1, <2>2
<1>10. <<0, it[{}]>> \in Good
  <2>1. <<>> \in A /\ 0 \in 0..n
      BY <1>2
  <2>2. Covered(<<>>, 0) /\ Early(<<>>, 0)
      OBVIOUS
  <2> HIDE DEF A, Covered, Early
  <2> QED
      BY <2>1, <2>2, <1>9
<1>11. ASSUME NEW k \in 1..n, <<k - 1, it[1..(k - 1)]>> \in Good
       PROVE  <<k, it[1..k]>> \in Good
  <2> DEFINE a == it[1..(k - 1)]
             w == sorted[k]
             b == Merge(a, w)
  <2>1. a \in A /\ Covered(a, k - 1) /\ Early(a, k - 1) /\ w \in Win /\ k - 1 \in Int
    <3> HIDE DEF A, Covered, Early, a, Win
    <3> QED
        BY <1>11, <1>2 DEF a
  <2>2. it[1..k] = b /\ k \in 0..n
      BY <1>9, <1>2
  <2>3. b \in A
      BY <2>1, <1>5
  <2>4. a # <<>> => Last(a).lo <= w.lo
    <3>1. SUFFICES ASSUME a # <<>>
                   PROVE  Last(a).lo <= w.lo
        OBVIOUS
    <3>2. k - 1 > 0 /\ Last(a).lo <= sorted[k - 1].lo
      <4> HIDE DEF a
      <4> QED
          BY <3>1, <2>1
    <3>3. k - 1 \in 1..n /\ k - 1 < k
        BY <3>2, <2>1, <1>2
    <3>4. sorted[k - 1].lo <= w.lo
        BY <3>3, <1>2
    <3>5. sorted[k - 1].lo \in Int /\ w.lo \in Int
        BY <3>3, <1>2
    <3>6. Last(a).lo \in Int
      <4>1. Last(a) \in Win
        <5> HIDE DEF Win, a
        <5>1. w \in Win
            BY <1>2
        <5> HIDE DEF w
        <5> QED
            BY <2>1, <3>1, <5>1, ReplaceLast
      <4> QED
          BY <4>1
    <3> HIDE DEF a, w
    <3> QED
        BY <3>2, <3>4, <3>5, <3>6
  <2> HIDE DEF a, w
  <2>5. \A i \in DOMAIN a : a[i] \in Win
    <3> HIDE DEF Win
    <3> QED
        BY <2>1
  <2>6. /\ \A i \in DOMAIN a : i \in DOMAIN b /\ b[i].lo = a[i].lo /\ a[i].hi <= b[i].hi
        /\ \E i \in DOMAIN b : b[i].lo <= w.lo /\ w.hi <= b[i].hi
        /\ Last(b).lo <= w.lo
    <3>1. CASE a # <<>> /\ w.lo <= Last(a).hi + 1
      <4> DEFINE x == Joined(Last(a), w)
                 m == Len(a)
      <4>1. Last(a) \in Win /\ m \in DOMAIN a /\ Last(a) = a[m] /\ m \in Nat
        <5>1. m \in Nat
            BY <2>1, LenProperties
        <5> HIDE DEF Win
        <5> QED
            BY <2>1, <3>1, <5>1, ReplaceLast
      <4>2. x \in Win /\ x.lo = a[m].lo /\ a[m].hi <= x.hi /\ w.hi <= x.hi
          BY <4>1, <1>4, <2>1
      <4> HIDE DEF x
      <4>3. b = Append(Front(a), x)
          BY <3>1 DEF Merge, x
      <4>4. /\ DOMAIN b = DOMAIN a /\ b[m] = x
            /\ \A i \in DOMAIN a : i # m => b[i] = a[i]
            /\ Last(b) = x
        <5>1. a \in Seq(Win) /\ a # <<>> /\ x \in Win
            BY <2>1, <3>1, <4>2
        <5> HIDE DEF Win
        <5>2. /\ DOMAIN Append(Front(a), x) = DOMAIN a /\ Append(Front(a), x)[Len(a)] = x
              /\ \A i \in DOMAIN a : i # Len(a) => Append(Front(a), x)[i] = a[i]
            BY <5>1, ReplaceLast
        <5>3. Len(b) = m
          <6>1. DOMAIN b = DOMAIN a
              BY <5>2, <4>3
          <6> HIDE DEF b
          <6> QED
              BY <6>1, <2>1, <2>3, LenProperties
        <5> HIDE DEF b
        <5> QED
            BY <5>2, <5>3, <4>3 DEF Last
      <4> HIDE DEF b, m
      <4>5. ASSUME NEW i \in DOMAIN a
            PROVE  i \in DOMAIN b /\ b[i].lo = a[i].lo /\ a[i].hi <= b[i].hi
        <5>1. CASE i = m
            BY <5>1, <4>2, <4>4
        <5>2. CASE i # m
            BY <5>2, <4>4, <2>5
        <5> QED
            BY <5>1, <5>2
      <4>6. x.lo <= w.lo
          BY <4>1, <4>2, <2>4, <3>1
      <4>7. m \in DOMAIN b /\ b[m].lo <= w.lo /\ w.hi <= b[m].hi
          BY <4>1, <4>2, <4>4, <4>6
      <4> QED
          BY <4>4, <4>5, <4>6, <4>7
    <3>2. CASE ~ (a # <<>> /\ w.lo <= Last(a).hi + 1)
      <4> DEFINE x == Own(w)
                 m == Len(a) + 1
      <4>1. x \in Win /\ x.lo = w.lo /\ x.hi = w.hi
          BY <1>3, <2>1
      <4> HIDE DEF x
      <4>2. b = Append(a, x)
          BY <3>2 DEF Merge, x
      <4>3. /\ DOMAIN b = 1..m /\ DOMAIN a = 1..Len(a) /\ b[m] = x /\ Len(a) \in Nat
            /\ \A i \in DOMAIN a : b[i] = a[i]
        <5>1. Len(a) \in Nat
            BY <2>1, LenProperties
        <5> HIDE DEF Win
        <5> QED
            BY <5>1, <2>1, <4>1, <4>2, AppendFacts
      <4>4. Len(b) = m
        <5> HIDE DEF b
        <5> QED
            BY <2>3, <4>3, LenProperties
      <4> HIDE DEF b
      <4>5. m \in DOMAIN b /\ \A i \in DOMAIN a : i \in DOMAIN b
          BY <4>3
      <4>6. Last(b) = x
          BY <4>3, <4>4 DEF Last
      <4> HIDE DEF m
      <4>7. ASSUME NEW i \in DOMAIN a
            PROVE  b[i].lo = a[i].lo /\ a[i].hi <= b[i].hi
          BY <4>3, <2>5
      <4>8. b[m].lo <= w.lo /\ w.hi <= b[m].hi /\ Last(b).lo <= w.lo
          BY <4>1, <4>3, <4>6, <2>1
      <4> QED
          BY <4>5, <4>7, <4>8
    <3> QED
        BY <3>1, <3>2
  <2>7. Covered(b, k)
    <3>1. SUFFICES ASSUME NEW i \in 1..k
                   PROVE  \E h \in DOMAIN b : b[h].lo <= sorted[i].lo /\ sorted[i].hi <= b[h].hi
        OBVIOUS
    <3>2. CASE i = k
        BY <3>2, <2>6 DEF w
    <3>3. CASE i # k
      <4>1. i \in 1..(k - 1) /\ i \in 1..n
          BY <3>3, <1>2
      <4>2. PICK h \in DOMAIN a : a[h].lo <= sorted[i].lo /\ sorted[i].hi <= a[h].hi
          BY <4>1, <2>1
      <4>3. h \in DOMAIN b /\ b[h].lo = a[h].lo /\ a[h].hi <= b[h].hi
          BY <2>6
      <4>4. sorted[i].hi \in Int /\ a[h].hi \in Int
          BY <1>2, <2>5, <4>1
      <4>5. b[h].hi \in Int
        <5>1. b[h] \in Win
          <6> HIDE DEF b, Win
          <6> QED
              BY <2>3, <4>3
        <5> QED
            BY <5>1
      <4>6. sorted[i].hi <= b[h].hi /\ b[h].lo <= sorted[i].lo
        <5> HIDE DEF b
        <5> QED
            BY <4>2, <4>3, <4>4, <4>5
      <4> QED
          BY <4>3, <4>6
    <3> QED
        BY <3>2, <3>3
  <2>8. Early(b, k)
    <3> HIDE DEF b
    <3> QED
        BY <2>6 DEF w
  <2> HIDE DEF b, A, Covered, Early
  <2> QED
      BY <2>2, <2>3, <2>7, <2>8
<1>12. <<n, it[1..n]>> \in Good
  <2> HIDE DEF Good
  <2> QED
      BY <1>2, <1>10, <1>11, LoopKeeps
<1> DEFINE all == it[1..n]
<1>13. all \in A /\ Covered(all, n)
  <2> HIDE DEF A, Covered, Early, all
  <2> QED
      BY <1>12 DEF all
<1>14. all = MergeWindows(W)
    BY <1>1, <1>2
<1> HIDE DEF all
<1>15. ASSUME NEW w \in W
       PROVE  \E i \in DOMAIN all : all[i].lo <= w.lo /\ w.hi <= all[i].hi
  <2>1. PICK i \in 1..n : sorted[i] = w
      BY <1>2
  <2> QED
      BY <2>1, <1>13
<1> HIDE DEF Covered
<1> QED
    BY <1>13, <1>14, <1>15

-----------------------------------------------------------------------------
(* Pages *)

\* FetchPages returns the rows of its window, each once and in order, whatever
\* the size of a page, if the venue's rows are on the grid of the width.
LEMMA FetchPagesFacts ==
    ASSUME NEW venue, venue \subseteq Int, IsFiniteSet(venue), NEW from \in Int, NEW to \in Int,
           NEW limit \in Nat \ {0}, NEW width \in Nat \ {0}, \A t \in venue : t % width = 0
    PROVE  FetchPages(venue, from, to, limit, width) = Sorted(Within(venue, Window(from, to)))
<1> DEFINE W(t) == Within(venue, Window(t, to))
           Next1(t) == NextStart(Page(venue, t, to, limit), width)
           Body(g, t) == IF t > to THEN <<>>
                         ELSE IF Len(Page(venue, t, to, limit)) < limit
                              THEN Page(venue, t, to, limit)
                              ELSE Page(venue, t, to, limit) \o g[Next1(t)]
           Loop(g) == g = [t \in Int |-> Body(g, t)]
           rest == CHOOSE g : Loop(g)
           closed == [t \in Int |-> Sorted(W(t))]
<1>1. FetchPages(venue, from, to, limit, width) = rest[from]
    BY DEF FetchPages
<1>2. ASSUME NEW t \in Int
      PROVE  W(t) \subseteq venue /\ W(t) \subseteq Int /\ IsFiniteSet(W(t))
             /\ \A u \in venue : u \in W(t) <=> t <= u /\ u <= to
    BY FS_Subset DEF Within, Window
<1>3. ASSUME NEW t \in Int, ~ (t > to), ~ (Len(Page(venue, t, to, limit)) < limit)
      PROVE  /\ Next1(t) \in Int /\ Next1(t) > t
             /\ Sorted(W(t)) = Page(venue, t, to, limit) \o Sorted(W(Next1(t)))
  <2> DEFINE w == W(t)
             S == Sorted(w)
             n == Cardinality(w)
             page == Page(venue, t, to, limit)
             last == S[limit]
  <2>1. /\ S \in Seq(w) /\ Len(S) = n /\ n \in Nat
        /\ \A i \in 1..n : S[i] \in w /\ S[i] \in Int
    <3>1. w \subseteq Int /\ IsFiniteSet(w)
        BY <1>2
    <3> HIDE DEF w
    <3>2. S \in Seq(w) /\ Len(S) = n
        BY <3>1, SortedFacts
    <3> HIDE DEF S
    <3> QED
        BY <3>1, <3>2, SequenceOfPart, FS_CardinalityType
  <2>2. page = SubSeq(S, 1, IF n < limit THEN n ELSE limit)
    <3>1. page = SubSeq(S, 1, IF Len(S) < limit THEN Len(S) ELSE limit)
        BY DEF Page
    <3> HIDE DEF page, S, n
    <3> QED
        BY <3>1, <2>1
  <2> HIDE DEF S
  <2>3. limit \in 1..n /\ page = SubSeq(S, 1, limit) /\ Len(page) = limit
    <3>1. ~ (Len(page) < limit)
        BY <1>3
    <3> HIDE DEF n, w, page
    <3>2. CASE n < limit
      <4>1. page = SubSeq(S, 1, n)
          BY <2>2, <3>2
      <4>2. Len(page) = n
          BY <4>1, <2>1
      <4> QED
          BY <4>2, <3>1, <3>2
    <3>3. CASE ~ (n < limit)
      <4>1. page = SubSeq(S, 1, limit) /\ limit \in 1..n
          BY <2>2, <3>3, <2>1
      <4>2. Len(page) = limit
          BY <4>1, <2>1
      <4> QED
          BY <4>1, <4>2
    <3> QED
        BY <3>2, <3>3
  <2>4. last \in w /\ last \in Int /\ t <= last /\ last <= to
    <3>1. last \in w /\ last \in Int
      <4> HIDE DEF n, w
      <4> QED
          BY <2>1, <2>3
    <3>2. last \in venue
        BY <3>1, <1>2
    <3> HIDE DEF last
    <3> QED
        BY <3>1, <3>2, <1>2
  <2>5. Next1(t) = last + width
    <3>1. Last(page) = last
      <4> HIDE DEF page, n, w
      <4> QED
          BY <2>1, <2>3 DEF Last
    <3>2. Next1(t) = Last(page) + width
        BY DEF NextStart
    <3> QED
        BY <3>1, <3>2
  <2>6. Next1(t) \in Int /\ Next1(t) > t
    <3> HIDE DEF last, Next1
    <3> QED
        BY <2>4, <2>5
  <2>7. {u \in w : u > last} = W(last + width)
    <3>1. last \in venue /\ last % width = 0
        BY <2>4, <1>2
    <3>2. ASSUME NEW u \in venue
          PROVE  u \in w /\ u > last <=> u \in W(last + width)
      <4>1. u \in Int /\ u % width = 0
          OBVIOUS
      <4>2. u > last => last + width <= u
        <5> HIDE DEF last
        <5>1. SUFFICES ASSUME u > last
                       PROVE  last + width <= u
            OBVIOUS
        <5>2. last < u
            BY <5>1, <4>1, <2>4
        <5> QED
            BY <5>2, <3>1, <4>1, <2>4, StepApart
      <4>3. u \in w <=> t <= u /\ u <= to
          BY <1>2
      <4>4. last + width \in Int
        <5> HIDE DEF last
        <5> QED
            BY <2>4
      <4>5. u \in W(last + width) <=> last + width <= u /\ u <= to
        <5> HIDE DEF last, W
        <5> QED
            BY <4>4, <1>2
      <4> HIDE DEF last, w, W
      <4> QED
          BY <4>1, <4>2, <4>3, <4>5, <2>4
    <3>3. w \subseteq venue /\ W(last + width) \subseteq venue
        BY DEF Within
    <3> HIDE DEF last, w, W
    <3> QED
        BY <3>2, <3>3
  <2>8. S = SubSeq(S, 1, limit) \o Sorted({u \in w : u > last})
    <3>1. w \subseteq Int /\ IsFiniteSet(w) /\ limit \in 1..Cardinality(w)
        BY <1>2, <2>3
    <3> HIDE DEF w
    <3> QED
        BY <3>1, SortedSplits DEF S
  <2>9. S = page \o Sorted(W(Next1(t)))
    <3> HIDE DEF page, last, w, W, Next1
    <3> QED
        BY <2>3, <2>5, <2>7, <2>8
  <2> QED
      BY <2>6, <2>9 DEF S
<1>4. ASSUME NEW t \in Int
      PROVE  Sorted(W(t)) = Body(closed, t)
  <2>1. CASE t > to
    <3>1. W(t) = {}
      <4>1. \A u \in W(t) : u \in venue /\ u \in Int /\ t <= u /\ u <= to
          BY <1>2
      <4> HIDE DEF W
      <4> QED
          BY <4>1, <2>1
    <3>2. Sorted({}) = <<>>
        BY FS_EmptySet DEF Sorted
    <3> QED
        BY <3>1, <3>2, <2>1
  <2>2. CASE ~ (t > to) /\ Len(Page(venue, t, to, limit)) < limit
    <3> DEFINE w == W(t)
               S == Sorted(w)
               n == Cardinality(w)
               page == Page(venue, t, to, limit)
    <3>1. S \in Seq(w) /\ Len(S) = n /\ n \in Nat
      <4>1. w \subseteq Int /\ IsFiniteSet(w)
          BY <1>2
      <4> HIDE DEF w
      <4> QED
          BY <4>1, SortedFacts, FS_CardinalityType
    <3>2. page = SubSeq(S, 1, IF Len(S) < limit THEN Len(S) ELSE limit)
        BY DEF Page
    <3>3. Len(page) < limit
        BY <2>2
    <3>4. Body(closed, t) = page
        BY <2>2
    <3> HIDE DEF page, S, n, w
    <3>5. Len(S) < limit
      <4>1. SUFFICES ASSUME ~ (Len(S) < limit)
                     PROVE  FALSE
          OBVIOUS
      <4>2. page = SubSeq(S, 1, limit) /\ limit \in 1..Len(S)
          BY <3>1, <3>2, <4>1
      <4>3. Len(page) = limit
          BY <4>2, <3>1
      <4> QED
          BY <4>3, <3>3
    <3>6. page = SubSeq(S, 1, Len(S))
        BY <3>2, <3>5
    <3>7. page = S
        BY <3>1, <3>6
    <3> HIDE DEF Body
    <3> QED
        BY <3>4, <3>7 DEF S, w
  <2>3. CASE ~ (t > to) /\ ~ (Len(Page(venue, t, to, limit)) < limit)
    <3>1. /\ Next1(t) \in Int
          /\ Sorted(W(t)) = Page(venue, t, to, limit) \o Sorted(W(Next1(t)))
        BY <2>3, <1>3
    <3>2. closed[Next1(t)] = Sorted(W(Next1(t)))
      <4> HIDE DEF Next1, W
      <4> QED
          BY <3>1
    <3> HIDE DEF closed, Next1, W
    <3> QED
        BY <3>1, <3>2, <2>3
  <2> QED
      BY <2>1, <2>2, <2>3
<1>5. Loop(closed)
  <2> HIDE DEF Body, W
  <2>1. \A t \in Int : Sorted(W(t)) = Body(closed, t)
      BY <1>4
  <2> DEFINE open == closed
  <2>2. closed = [t \in Int |-> Sorted(W(t))]
      OBVIOUS
  <2> HIDE DEF closed
  <2>3. [t \in Int |-> Sorted(W(t))] = [t \in Int |-> Body(closed, t)]
      BY <2>1
  <2> QED
      BY <2>2, <2>3
<1>6. Loop(rest)
  <2> HIDE DEF Loop, closed
  <2> QED
      BY <1>5
<1> HIDE DEF rest
<1>7. \A t \in Int : rest[t] = Body(rest, t)
  <2> HIDE DEF Body
  <2> QED
      BY <1>6
<1> DEFINE Bad == {k \in Nat : \E t \in Int : to - t + 1 <= k /\ rest[t] # Sorted(W(t))}
<1>8. Bad = {}
  <2>1. SUFFICES ASSUME Bad # {}
                 PROVE  FALSE
      OBVIOUS
  <2>2. PICK k \in Bad : \A j \in Bad : k <= j
    <3>1. Bad \subseteq Nat
        OBVIOUS
    <3> HIDE DEF Bad
    <3> QED
        BY <2>1, <3>1, LeastNatural
  <2>3. k \in Nat /\ \E t \in Int : to - t + 1 <= k /\ rest[t] # Sorted(W(t))
    <3> HIDE DEF W
    <3> QED
        BY <2>2
  <2>4. PICK t \in Int : to - t + 1 <= k /\ rest[t] # Sorted(W(t))
    <3> HIDE DEF W
    <3> QED
        BY <2>3
  <2>5. rest[t] = Body(rest, t) /\ Sorted(W(t)) = Body(closed, t)
      BY <1>4, <1>7
  <2>6. ~ (t > to) /\ ~ (Len(Page(venue, t, to, limit)) < limit)
    <3> HIDE DEF W, Next1, closed
    <3> QED
        BY <2>4, <2>5
  <2>7. /\ Next1(t) \in Int /\ Next1(t) > t
        /\ rest[t] = Page(venue, t, to, limit) \o rest[Next1(t)]
        /\ Sorted(W(t)) = Page(venue, t, to, limit) \o Sorted(W(Next1(t)))
    <3>1. rest[t] = Page(venue, t, to, limit) \o rest[Next1(t)]
        BY <2>5, <2>6
    <3> QED
        BY <3>1, <2>6, <1>3
  <2> DEFINE u == Next1(t)
  <2>8. u \in Int /\ u > t
      BY <2>7
  <2>9. rest[u] # Sorted(W(u))
    <3> HIDE DEF W, Next1
    <3> QED
        BY <2>4, <2>7
  <2> HIDE DEF u
  <2>10. k - 1 \in Nat /\ to - u + 1 <= k - 1 /\ ~ (k <= k - 1)
      BY <2>3, <2>4, <2>6, <2>8
  <2>11. k - 1 \in Bad
    <3> HIDE DEF W
    <3> QED
        BY <2>8, <2>9, <2>10
  <2> HIDE DEF Bad
  <2> QED
      BY <2>2, <2>10, <2>11
<1>9. rest[from] = Sorted(W(from))
  <2>1. SUFFICES ASSUME rest[from] # Sorted(W(from))
                 PROVE  FALSE
      OBVIOUS
  <2> DEFINE k == IF to - from + 1 > 0 THEN to - from + 1 ELSE 0
  <2>2. k \in Nat /\ to - from + 1 <= k
      OBVIOUS
  <2> HIDE DEF k, W
  <2>3. k \in Bad
      BY <2>1, <2>2
  <2> QED
      BY <2>3, <1>8
<1> QED
    BY <1>1, <1>9

\* The rows that FetchWindow fetches are the klines begun in the window.
LEMMA FetchedRows ==
    ASSUME NEW w \in [lo : Int, hi : Int]
    PROVE  ToSet(FetchKlines(Begun, w, PageLimit, 2)) = Within(Begun, w)
<1> DEFINE W == Within(Begun, w)
           rows == FetchKlines(Begun, w, PageLimit, 2)
<1>1. Begun \in SUBSET Minutes /\ \A t \in Begun : t % 2 = 0
    BY ConstantsAssumption, MinutesFacts DEF Begun
<1>2. IsFiniteSet(Begun) /\ Begun \subseteq Int
    BY <1>1, MinutesFacts
<1>3. w.lo \in Int /\ w.hi \in Int /\ PageLimit \in Nat \ {0} /\ 2 \in Nat \ {0}
    BY Numbers
<1>4. rows = Sorted(W)
  <2> DEFINE venue == Begun
             from == w.lo
             to == w.hi
  <2>1. Within(venue, Window(from, to)) = W
      BY DEF Within, Window
  <2>2. rows = FetchPages(venue, from, to, PageLimit, 2)
      BY DEF FetchKlines
  <2>3. /\ venue \subseteq Int /\ IsFiniteSet(venue) /\ \A t \in venue : t % 2 = 0
        /\ from \in Int /\ to \in Int /\ PageLimit \in Nat \ {0} /\ 2 \in Nat \ {0}
      BY <1>1, <1>2, <1>3
  <2> HIDE DEF rows, W, venue, from, to
  <2>4. FetchPages(venue, from, to, PageLimit, 2) = Sorted(Within(venue, Window(from, to)))
      BY <2>3, FetchPagesFacts, ZenonT(60)
  <2> QED
      BY <2>1, <2>2, <2>4
<1>5. W \subseteq Int /\ IsFiniteSet(W)
    BY <1>2, FS_Subset DEF Within
<1> HIDE DEF W, rows
<1>6. /\ rows \in Seq(W) /\ \A t \in W : \E i \in DOMAIN rows : rows[i] = t
    BY <1>4, <1>5, SortedFacts
<1>7. \A i \in DOMAIN rows : rows[i] \in W
    BY <1>6
<1> QED
    BY <1>6, <1>7 DEF ToSet, W, rows

-----------------------------------------------------------------------------
(* What the checks, the listing and the repair look for *)

Ends == [lo : Int, hi : Int]
Segments == [lo : Int, hi : Int, count : Int]

\* The times of a window's grid lie in the aligned window.
LEMMA AlignedWindow ==
    ASSUME NEW w \in Ends
    PROVE  /\ AlignWindow(w, 2) \in Ends
           /\ \A m \in Int : m % 2 = 0 =>
                  ((w.lo <= m /\ m <= w.hi) <=>
                   (AlignWindow(w, 2).lo <= m /\ m <= AlignWindow(w, 2).hi))
           /\ AlignWindow(w, 2).lo % 2 = 0
<1> DEFINE l == CeilTo(w.lo, 2)
           h == FloorTo(w.hi, 2)
<1>1. w.lo \in Int /\ w.hi \in Int /\ 2 \in Nat \ {0}
    BY DEF Ends
<1>2. /\ l \in Int /\ l >= w.lo /\ l % 2 = 0
      /\ \A u \in Int : w.lo <= u /\ u % 2 = 0 => l <= u
    BY <1>1, CeilToFacts
<1>3. /\ h \in Int /\ h <= w.hi
      /\ \A u \in Int : u <= w.hi /\ u % 2 = 0 => u <= h
    BY <1>1, FloorToFacts
<1>4. AlignWindow(w, 2) = [lo |-> l, hi |-> h]
    BY DEF AlignWindow, Window
<1> HIDE DEF l, h
<1>5. ASSUME NEW m \in Int, m % 2 = 0
      PROVE  (w.lo <= m /\ m <= w.hi) <=> (l <= m /\ m <= h)
    BY <1>1, <1>2, <1>3, <1>5
<1> QED
    BY <1>2, <1>3, <1>4, <1>5 DEF Ends

\* The segments between bars.
LEMMA InternalSegmentsFacts ==
    ASSUME NEW times \in SUBSET Minutes, NEW w
    PROVE  LET W == Profile(times, w, 2).segments
           IN  /\ W \subseteq Segments /\ IsFiniteSet(W)
               /\ \A u, v \in W : u.lo = v.lo /\ u.hi = v.hi => u = v
<1> DEFINE W == Profile(times, w, 2).segments
           Seg(p) == [lo |-> p[1] + 2, hi |-> p[2] - 2, count |-> (p[2] - p[1]) \div 2 - 1]
           D == {q \in Neighbours(times) : (q[2] - q[1]) \div 2 > 1}
           I == InternalSegments(times, 2)
           f == [p \in D |-> Seg(p)]
<1>1. W = {} \/ W = I
  <2>1. \A a, b, c, d : [shortfall |-> a, internal |-> b, tail |-> c, segments |-> d].segments = d
      OBVIOUS
  <2> QED
      BY <2>1 DEF Profile
<1>2. I = {Seg(p) : p \in D}
    BY DEF InternalSegments
<1>3. D \subseteq times \X times /\ IsFiniteSet(D)
  <2>1. D \subseteq times \X times
      BY DEF Neighbours
  <2>2. IsFiniteSet(times \X times)
      BY MinutesFacts, FS_Product
  <2> QED
      BY <2>1, <2>2, FS_Subset
<1> HIDE DEF D
<1>4. ASSUME NEW p \in D
      PROVE  p[1] \in Int /\ p[2] \in Int /\ p = <<p[1], p[2]>>
  <2>1. p \in times \X times
      BY <1>3
  <2>2. PICK a \in times, b \in times : p = <<a, b>>
      BY <2>1
  <2>3. a \in Int /\ b \in Int
      BY MinutesFacts
  <2> QED
      BY <2>2, <2>3
<1>5. \A p \in D : Seg(p) \in Segments
    BY <1>4 DEF Segments
<1>6. \A p, q \in D : Seg(p).lo = Seg(q).lo /\ Seg(p).hi = Seg(q).hi => Seg(p) = Seg(q)
  <2>1. SUFFICES ASSUME NEW p \in D, NEW q \in D,
                        Seg(p).lo = Seg(q).lo, Seg(p).hi = Seg(q).hi
                 PROVE  Seg(p) = Seg(q)
      OBVIOUS
  <2>2. p[1] + 2 = q[1] + 2 /\ p[2] - 2 = q[2] - 2
      BY <2>1
  <2>3. p[1] = q[1] /\ p[2] = q[2]
      BY <2>2, <1>4
  <2> QED
      BY <2>3
<1>7. IsFiniteSet(I)
  <2>1. f \in Surjection(D, I)
    <3>1. f \in [D -> I] /\ \A s \in I : \E p \in D : f[p] = s
      <4> HIDE DEF Seg, I
      <4> QED
          BY <1>2
    <3> QED
        BY <3>1 DEF Surjection
  <2> QED
      BY <2>1, <1>3, FS_Surjection
<1>8. I \subseteq Segments /\ \A u, v \in I : u.lo = v.lo /\ u.hi = v.hi => u = v
  <2> HIDE DEF Seg, I
  <2> QED
      BY <1>2, <1>5, <1>6
<1> HIDE DEF W, I
<1>9. CASE W = {}
    BY <1>9, FS_EmptySet DEF W
<1>10. CASE W = I
    BY <1>10, <1>7, <1>8 DEF W
<1> QED
    BY <1>1, <1>9, <1>10

\* A check finds segments.  The gap check leaves no minute of its window out that
\* it has not seen.
LEMMA SegmentsFoundFacts ==
    ASSUME NEW t, t.seen \in SUBSET Minutes, t.win \in Ends
    PROVE  /\ SegmentsFound(t) \in Seq(Segments)
           /\ t.kind # "validate" =>
                  \A m \in MinutesOf(t.win) \ t.seen :
                      \E i \in DOMAIN SegmentsFound(t) :
                          SegmentsFound(t)[i].lo <= m /\ m <= SegmentsFound(t)[i].hi
<1>1. CASE t.kind = "validate"
  <2> DEFINE times == {m \in t.seen : m <= t.began}
             W == Profile(times, t.win, 2).segments
  <2>1. W \subseteq Segments /\ IsFiniteSet(W) /\ \A u, v \in W : u.lo = v.lo /\ u.hi = v.hi => u = v
    <3>1. times \in SUBSET Minutes
        OBVIOUS
    <3> HIDE DEF times
    <3> QED
        BY <3>1, InternalSegmentsFacts
  <2>2. SegmentsFound(t) = SortedWindows(W)
      BY <1>1 DEF SegmentsFound
  <2> HIDE DEF W
  <2>3. \A s \in W : s.lo \in Int /\ s.hi \in Int
      BY <2>1 DEF Segments
  <2>4. SortedWindows(W) \in Seq(W)
      BY <2>1, <2>3, SortedSegmentsFacts
  <2> DEFINE n == Len(SortedWindows(W))
  <2>5. SortedWindows(W) \in Seq(Segments)
      BY <2>1, <2>4, SequenceOfPart
  <2> QED
      BY <2>2, <2>5, <1>1
<1>2. CASE t.kind # "validate"
  <2> DEFINE w == AlignWindow(t.win, 2)
             W == ExpectedTimes(w, 2) \ t.seen
  <2>1. /\ w.lo \in Int /\ w.hi \in Int /\ w.lo % 2 = 0
        /\ \A m \in Int : m % 2 = 0 => ((t.win.lo <= m /\ m <= t.win.hi) <=> (w.lo <= m /\ m <= w.hi))
        /\ w = Window(w.lo, w.hi)
    <3>1. w \in Ends
        BY AlignedWindow
    <3>2. w = Window(w.lo, w.hi)
        BY DEF AlignWindow, Window
    <3> HIDE DEF w
    <3>3. w.lo \in Int /\ w.hi \in Int
        BY <3>1 DEF Ends
    <3> QED
        BY <3>2, <3>3, AlignedWindow DEF w
  <2> HIDE DEF w
  <2>2. ExpectedTimes(w, 2) = {m \in (w.lo)..(w.hi) : m % 2 = 0}
      BY <2>1, ExpectedTimesAreTheGrid
  <2>3. W \subseteq Int /\ IsFiniteSet(W)
    <3> DEFINE a == w.lo
               b == w.hi
               grid == a..b
    <3>1. W \subseteq grid
        BY <2>2
    <3>2. a \in Int /\ b \in Int
        BY <2>1
    <3> HIDE DEF W, a, b
    <3>3. IsFiniteSet(grid) /\ grid \subseteq Int
        BY <3>2, FS_Interval
    <3> HIDE DEF grid
    <3> QED
        BY <3>1, <3>3, FS_Subset
  <2>4. SegmentsFound(t) = MissingSegments(W, 2)
      BY <1>2 DEF SegmentsFound, w
  <2>5. \A m \in MinutesOf(t.win) \ t.seen : m \in W
    <3>1. SUFFICES ASSUME NEW m \in MinutesOf(t.win), m \notin t.seen
                   PROVE  m \in W
        OBVIOUS
    <3>2. m \in Int /\ m % 2 = 0 /\ t.win.lo <= m /\ m <= t.win.hi
        BY MinutesFacts DEF MinutesOf, Within
    <3>3. w.lo <= m /\ m <= w.hi
        BY <3>2, <2>1
    <3>4. m \in (w.lo)..(w.hi)
        BY <3>2, <3>3, <2>1
    <3> QED
        BY <3>1, <3>2, <3>4, <2>2
  <2> HIDE DEF W
  <2>6. /\ MissingSegments(W, 2) \in Seq(Segments)
        /\ \A m \in W : \E i \in DOMAIN MissingSegments(W, 2) :
               MissingSegments(W, 2)[i].lo <= m /\ m <= MissingSegments(W, 2)[i].hi
    <3>1. 2 \in Nat \ {0}
        OBVIOUS
    <3>2. Segments = [lo : Int, hi : Int, count : Int]
        BY DEF Segments
    <3> QED
        BY <2>3, <3>1, <3>2, MissingSegmentsFacts, ZenonT(60)
  <2> QED
      BY <2>4, <2>5, <2>6
<1> QED
    BY <1>1, <1>2

\* _find_open_bar_gaps lists open gaps, and some if it may.
LEMMA NewestOpenGapsFacts ==
    ASSUME gaps \in Seq([lo : Int, hi : Int, status : {"open", "resolved"}, job : 0..Len(jobs)])
    PROVE  /\ NewestOpenGaps \in Seq(OpenGaps)
           /\ OpenGaps # {} /\ ListLimit # 0 => NewestOpenGaps # <<>>
<1> DEFINE ids == Reverse(Sorted(OpenGaps))
           s == Sorted(OpenGaps)
           n == Cardinality(OpenGaps)
           k == IF n < ListLimit THEN n ELSE ListLimit
<1>1. OpenGaps \subseteq Int /\ IsFiniteSet(OpenGaps)
  <2>1. Len(gaps) \in Nat /\ DOMAIN gaps = 1..Len(gaps)
      BY LenProperties
  <2> DEFINE m == Len(gaps)
  <2>2. OpenGaps \subseteq 1..m
      BY <2>1 DEF OpenGaps
  <2>3. m \in Int /\ 1 \in Int
      BY <2>1
  <2> HIDE DEF m
  <2>4. IsFiniteSet(1..m) /\ 1..m \subseteq Int
      BY <2>3, FS_Interval
  <2> QED
      BY <2>2, <2>4, FS_Subset
<1>2. s \in Seq(OpenGaps) /\ Len(s) = n /\ n \in Nat
    BY <1>1, SortedFacts, FS_CardinalityType
<1>3. OpenGaps # {} => n > 0
    BY <1>1, <1>2, FS_EmptySet
<1> HIDE DEF s, n
<1>4. ids \in Seq(OpenGaps) /\ Len(ids) = n
  <2>1. ids = [i \in 1..n |-> s[(n - i) + 1]]
      BY <1>2 DEF Reverse, s
  <2>2. ASSUME NEW i \in 1..n
        PROVE  s[(n - i) + 1] \in OpenGaps
    <3>1. (n - i) + 1 \in 1..n
        BY <1>2
    <3> DEFINE j == (n - i) + 1
    <3> HIDE DEF j
    <3>2. s[j] \in OpenGaps
        BY <3>1, <1>2, ElementOfSeq DEF j
    <3> QED
        BY <3>2 DEF j
  <2>3. ids \in [1..n -> OpenGaps]
      BY <2>1, <2>2
  <2> QED
      BY <2>3, <1>2, SequenceOfFunction
<1>5. NewestOpenGaps = SubSeq(ids, 1, k)
  <2>1. NewestOpenGaps = SubSeq(ids, 1, IF Len(ids) < ListLimit THEN Len(ids) ELSE ListLimit)
      BY DEF NewestOpenGaps
  <2> QED
      BY <2>1, <1>4
<1> HIDE DEF ids
<1>6. k \in 0..n /\ (n > 0 /\ ListLimit # 0 => k > 0)
    BY <1>2, Numbers
<1> HIDE DEF k
<1>7. SubSeq(ids, 1, k) \in Seq(OpenGaps) /\ Len(SubSeq(ids, 1, k)) = k
    BY <1>4, <1>6
<1>8. k > 0 => SubSeq(ids, 1, k) # <<>>
  <2> DEFINE part == SubSeq(ids, 1, k)
  <2>1. Len(<<>>) = 0 /\ Len(part) = k
      BY <1>7
  <2> HIDE DEF part
  <2>2. k > 0 => part # <<>>
      BY <2>1
  <2> QED
      BY <2>2 DEF part
<1> QED
    BY <1>3, <1>5, <1>6, <1>7, <1>8

\* A repair goes through a window for each minute of the report's samples.
LEMMA DetectedFacts ==
    ASSUME NEW w
    PROVE  /\ DetectedMinutes(w) \subseteq Minutes
           /\ DetectedWindows(w) \in Seq(Ends)
           /\ \A m \in DetectedMinutes(w) : \E i \in DOMAIN DetectedWindows(w) :
                  DetectedWindows(w)[i].lo <= m /\ m <= DetectedWindows(w)[i].hi
<1> DEFINE S == DetectedMinutes(w)
           W == {Window(m, m + 1) : m \in S}
           f == [m \in S |-> Window(m, m + 1)]
<1>1. S \subseteq Minutes
  <2>1. \A A, n : FirstOf(A, n) \subseteq A
      BY DEF FirstOf
  <2>2. \A s : MinutesOf(s) \subseteq Minutes
      BY DEF MinutesOf, Within
  <2>3. Stored \subseteq Minutes /\ \A v : Within(Stored, v) \subseteq Minutes
      BY DEF Stored, Within
  <2>4. \A A : UNION {MinutesOf(s) : s \in A} \subseteq Minutes
      BY <2>2
  <2>5. FirstOf({m \in Within(Stored, AlignWindow(w, 2)) : bars[m] = "bad"}, DetectLimit) \subseteq Minutes
      BY <2>1, <2>3
  <2>6. FirstOf({m \in Stored : m > now}, DetectLimit) \subseteq Minutes
      BY <2>1, <2>3
  <2> QED
      BY <2>4, <2>5, <2>6, Zenon DEF DetectedMinutes
<1> HIDE DEF S
<1>2. IsFiniteSet(S) /\ S \subseteq Int
    BY <1>1, MinutesFacts
<1>3. W \subseteq Ends
    BY <1>2 DEF Window, Ends
<1>4. f \in Surjection(S, W)
  <2>1. f \in [S -> W] /\ \A x \in W : \E m \in S : f[m] = x
      OBVIOUS
  <2> QED
      BY <2>1 DEF Surjection
<1>5. IsFiniteSet(W)
    BY <1>2, <1>4, FS_Surjection
<1>6. DetectedWindows(w) = MergeWindows(W)
    BY DEF DetectedWindows, S
<1>7. \A m \in S : Window(m, m + 1) \in W /\ Window(m, m + 1).lo = m /\ Window(m, m + 1).hi = m + 1
    BY DEF Window
<1> HIDE DEF W
<1>8. /\ MergeWindows(W) \in Seq(Ends)
      /\ \A x \in W : \E i \in DOMAIN MergeWindows(W) :
             MergeWindows(W)[i].lo <= x.lo /\ x.hi <= MergeWindows(W)[i].hi
    BY <1>3, <1>5, MergeWindowsFacts DEF Ends
<1>9. ASSUME NEW m \in S
      PROVE  \E i \in DOMAIN MergeWindows(W) :
                 MergeWindows(W)[i].lo <= m /\ m <= MergeWindows(W)[i].hi
  <2> DEFINE M == MergeWindows(W)
  <2>1. PICK i \in DOMAIN M : M[i].lo <= m /\ m + 1 <= M[i].hi
      BY <1>7, <1>8
  <2>2. m \in Int
      BY <1>2
  <2>3. M[i] \in Ends
    <3> HIDE DEF M
    <3>1. M \in Seq(Ends)
        BY <1>8 DEF M
    <3> QED
        BY <3>1
  <2>4. M[i].hi \in Int
      BY <2>3 DEF Ends
  <2> HIDE DEF M
  <2>5. m <= M[i].hi
      BY <2>1, <2>2, <2>4
  <2> QED
      BY <2>1, <2>5 DEF M
<1> QED
    BY <1>1, <1>6, <1>8, <1>9 DEF S

\* What StoreWindow writes.
LEMMA UpsertedFacts ==
    ASSUME bars \in [Minutes -> {"none", "partial", "final", "bad"}],
           NEW fetched, \A pair \in fetched : pair[2] \in {"partial", "final"}
    PROVE  /\ Upserted(fetched) \in [Minutes -> {"none", "partial", "final", "bad"}]
           /\ \A m \in Minutes :
                  /\ (\E pair \in fetched : pair[1] = m) => Upserted(fetched)[m] \in {"partial", "final"}
                  /\ Upserted(fetched)[m] = bars[m] \/ Upserted(fetched)[m] \in {"partial", "final"}
<1> DEFINE one(m) == CHOOSE pair \in fetched : pair[1] = m
<1>1. ASSUME NEW m \in Minutes, \E pair \in fetched : pair[1] = m
      PROVE  one(m)[2] \in {"partial", "final"}
  <2>1. one(m) \in fetched
      BY <1>1
  <2> HIDE DEF one
  <2> QED
      BY <2>1
<1>2. Upserted(fetched) = [m \in Minutes |-> IF \E pair \in fetched : pair[1] = m
                                             THEN one(m)[2] ELSE bars[m]]
    BY DEF Upserted
<1> HIDE DEF one
<1> QED
    BY <1>1, <1>2

-----------------------------------------------------------------------------
(* The inductive invariant: what each worker knows of the shared rows *)

BarStates == {"none", "partial", "final", "bad"}
GapRows == [lo : Int, hi : Int, status : {"open", "resolved"}, job : Nat]
JobRows == [lo : Int, hi : Int, at : Int]
BackfillJobs == [lo : Int, hi : Int, gap : Nat]
Steps == {"idle", "match", "write", "list", "fetch", "store", "resolve"}
Tasks == [kind : Kinds, pc : Steps, win : Ends, began : Int, at : Int,
          seen : SUBSET Minutes, match : SUBSET Nat, todo : Seq(BackfillJobs),
          fetched : SUBSET (Minutes \X {"partial", "final"})]

Types ==
    /\ now \in StartTime..EndTime
    /\ bars \in [Minutes -> BarStates]
    /\ gaps \in Seq(GapRows) /\ \A i \in DOMAIN gaps : gaps[i].job <= Len(jobs)
    /\ jobs \in Seq(JobRows)
    /\ task \in [Workers -> Tasks]
    /\ \A p \in Workers : task[p].match \subseteq DOMAIN gaps
    /\ started \in 0..MaxTasks /\ troubles \in 0..MaxTroubles
    /\ failed \in 0..troubles
    /\ deleted \subseteq Minutes /\ repaired \subseteq Minutes

Present(m) == bars[m] # "none"
Sound(m) == bars[m] \in {"partial", "final"}
InWindow(m, w) == w.lo <= m /\ m <= w.hi

\* A worker that backfills has a window to work on.
HasWindow(p) == task[p].pc \in {"fetch", "store", "resolve"} => task[p].todo # <<>>

\* The rows of a window that the venue had at the latest fetch are in hand.
Fetched(p) ==
    task[p].pc = "store" =>
        \A m \in VenueMinutes :
            InWindow(m, Head(task[p].todo)) /\ m <= task[p].at =>
                \E pair \in task[p].fetched : pair[1] = m

\* A window listed for a gap is the gap's.
NamesItsGaps(p) ==
    \A i \in DOMAIN task[p].todo :
        LET w == task[p].todo[i]
        IN  w.gap # 0 => /\ w.gap \in DOMAIN gaps
                         /\ gaps[w.gap].lo = w.lo /\ gaps[w.gap].hi = w.hi

\* Before a gap is resolved by a job, the job has filled it.
Filled(p) ==
    task[p].pc = "resolve" =>
        LET w == Head(task[p].todo)
        IN  /\ w.gap # 0 /\ task[p].at \in DOMAIN jobs
            /\ jobs[task[p].at].lo = w.lo /\ jobs[task[p].at].hi = w.hi
            /\ \A m \in VenueMinutes \ deleted :
                   InWindow(m, w) /\ m <= jobs[task[p].at].at => Present(m)

\* A past minute that a repair has found is in a window it has yet to fetch, or
\* its row is sound by now.
StillToRepair(p) ==
    task[p].kind = "repair" =>
        /\ task[p].pc \in {"fetch", "store"}
        /\ task[p].began <= now /\ (task[p].pc = "store" => task[p].began <= task[p].at)
        /\ \A i \in DOMAIN task[p].todo : task[p].todo[i].gap = 0
        /\ \A m \in (task[p].seen \intersect VenueMinutes) \ deleted :
               m <= task[p].began =>
                   Sound(m) \/ \E i \in DOMAIN task[p].todo : InWindow(m, task[p].todo[i])

\* A row that a check has read is there still, unless a repair deleted it.
SeesRows(p) ==
    task[p].pc \in {"match", "write"} => \A m \in task[p].seen \ deleted : Present(m)

TaskInv(p) == HasWindow(p) /\ NamesItsGaps(p) /\ Fetched(p) /\ Filled(p)
              /\ StillToRepair(p) /\ SeesRows(p)

\* ResolvedGapsAreFilled, minute by minute.
JobsFilledTheirGaps ==
    \A i \in DOMAIN gaps :
        gaps[i].job # 0 =>
            /\ gaps[i].lo = jobs[gaps[i].job].lo /\ gaps[i].hi = jobs[gaps[i].job].hi
            /\ \A m \in VenueMinutes \ deleted :
                   InWindow(m, gaps[i]) /\ m <= jobs[gaps[i].job].at => Present(m)

IInv == Types /\ JobsFilledTheirGaps /\ RepairsTakeEffect /\ \A p \in Workers : TaskInv(p)

-----------------------------------------------------------------------------
(* What every step keeps, and with it what the other workers know *)

Keeps ==
    /\ now <= now'
    /\ \A i \in DOMAIN gaps : /\ i \in DOMAIN gaps'
                              /\ gaps'[i].lo = gaps[i].lo /\ gaps'[i].hi = gaps[i].hi
    /\ \A i \in DOMAIN jobs : i \in DOMAIN jobs' /\ jobs'[i] = jobs[i]
    /\ deleted \subseteq deleted'
    /\ \A m \in Minutes \ deleted' : (Present(m) => Present(m)') /\ (Sound(m) => Sound(m)')

\* The fields of a worker's record.
LEMMA TaskFields ==
    ASSUME Types, NEW p \in Workers
    PROVE  /\ task[p] \in Tasks /\ p \in DOMAIN task
           /\ task[p].kind \in Kinds /\ task[p].pc \in Steps /\ task[p].win \in Ends
           /\ task[p].began \in Int /\ task[p].at \in Int /\ task[p].seen \subseteq Minutes
           /\ task[p].match \subseteq Nat /\ task[p].match \subseteq DOMAIN gaps
           /\ task[p].todo \in Seq(BackfillJobs)
           /\ task[p].fetched \subseteq Minutes \X {"partial", "final"}
<1>1. task[p] \in Tasks /\ task[p].match \subseteq DOMAIN gaps /\ p \in DOMAIN task
    BY DEF Types
<1> DEFINE t == task[p]
<1>2. t \in Tasks
    BY <1>1
<1> HIDE DEF t
<1>3. /\ t.kind \in Kinds /\ t.pc \in Steps /\ t.win \in Ends
      /\ t.began \in Int /\ t.at \in Int /\ t.seen \subseteq Minutes
      /\ t.match \subseteq Nat /\ t.todo \in Seq(BackfillJobs)
      /\ t.fetched \subseteq Minutes \X {"partial", "final"}
    BY <1>2 DEF Tasks
<1> QED
    BY <1>1, <1>3 DEF t

LEMMA OthersKeep ==
    ASSUME Types, Keeps, now' \in Int, NEW q \in Workers, task'[q] = task[q], TaskInv(q)
    PROVE  TaskInv(q)'
<1>1. VenueMinutes \subseteq Minutes
    BY ConstantsAssumption
<1>2. HasWindow(q)'
    BY DEF TaskInv, HasWindow
<1>3. NamesItsGaps(q)'
    BY DEF TaskInv, NamesItsGaps, Keeps
<1>4. Fetched(q)'
    BY DEF TaskInv, Fetched, InWindow
<1>5. Filled(q)'
  <2>1. SUFFICES ASSUME task[q].pc = "resolve"
                 PROVE  Filled(q)'
      BY DEF Filled
  <2> DEFINE w == Head(task[q].todo)
             k == task[q].at
  <2>2. /\ w.gap # 0 /\ k \in DOMAIN jobs /\ jobs[k].lo = w.lo /\ jobs[k].hi = w.hi
        /\ \A m \in VenueMinutes \ deleted : InWindow(m, w) /\ m <= jobs[k].at => Present(m)
      BY <2>1 DEF TaskInv, Filled
  <2>3. k \in DOMAIN jobs' /\ jobs'[k] = jobs[k]
      BY <2>2 DEF Keeps
  <2>4. \A m \in VenueMinutes \ deleted' : InWindow(m, w) /\ m <= jobs[k].at => Present(m)'
      BY <1>1, <2>2 DEF Keeps
  <2> QED
      BY <2>2, <2>3, <2>4 DEF Filled, InWindow
<1>6. StillToRepair(q)'
  <2>1. SUFFICES ASSUME task[q].kind = "repair"
                 PROVE  StillToRepair(q)'
      BY DEF StillToRepair
  <2>2. task[q].began <= now'
      <3>1. task[q].began <= now /\ task[q].began \in Int /\ now <= now' /\ now \in Int
          BY <2>1, TaskFields, Numbers DEF TaskInv, StillToRepair, Keeps, Types
      <3> QED
          BY <3>1
  <2>3. ASSUME NEW m \in (task[q].seen \intersect VenueMinutes) \ deleted', m <= task[q].began
        PROVE  Sound(m)' \/ \E i \in DOMAIN task[q].todo : InWindow(m, task[q].todo[i])
    <3>1. m \in (task[q].seen \intersect VenueMinutes) \ deleted /\ m \in Minutes \ deleted'
        BY <1>1 DEF Keeps
    <3>2. Sound(m) \/ \E i \in DOMAIN task[q].todo : InWindow(m, task[q].todo[i])
        BY <2>1, <2>3, <3>1 DEF TaskInv, StillToRepair
    <3> QED
        BY <3>1, <3>2 DEF Keeps
  <2> QED
      BY <2>1, <2>2, <2>3 DEF TaskInv, StillToRepair, InWindow
<1>7. SeesRows(q)'
  <2>1. task[q].seen \subseteq Minutes
      BY TaskFields
  <2> QED
      BY <2>1 DEF TaskInv, SeesRows, Keeps
<1> QED
    BY <1>2, <1>3, <1>4, <1>5, <1>6, <1>7 DEF TaskInv

\* The gap rows stay filled if no row gets a job.
LEMMA GapsStayFilled ==
    ASSUME Types, JobsFilledTheirGaps, Keeps,
           \A i \in DOMAIN gaps' : \/ gaps'[i].job = 0
                                   \/ i \in DOMAIN gaps /\ gaps'[i].job = gaps[i].job
    PROVE  JobsFilledTheirGaps'
<1>1. SUFFICES ASSUME NEW i \in DOMAIN gaps', gaps'[i].job # 0
               PROVE  /\ gaps'[i].lo = jobs'[gaps'[i].job].lo /\ gaps'[i].hi = jobs'[gaps'[i].job].hi
                      /\ \A m \in VenueMinutes \ deleted' :
                             InWindow(m, gaps'[i]) /\ m <= jobs'[gaps'[i].job].at => Present(m)'
    BY DEF JobsFilledTheirGaps, InWindow
<1> DEFINE k == gaps[i].job
<1>2. i \in DOMAIN gaps /\ gaps'[i].job = k /\ k # 0
    BY <1>1
<1>3. /\ gaps[i].lo = jobs[k].lo /\ gaps[i].hi = jobs[k].hi
      /\ \A m \in VenueMinutes \ deleted : InWindow(m, gaps[i]) /\ m <= jobs[k].at => Present(m)
    BY <1>2 DEF JobsFilledTheirGaps
<1>4. k \in DOMAIN jobs
  <2>1. gaps[i] \in GapRows /\ k <= Len(jobs) /\ Len(jobs) \in Nat /\ DOMAIN jobs = 1..Len(jobs)
      BY <1>2, LenProperties DEF Types
  <2>2. k \in Nat
      BY <2>1 DEF GapRows
  <2> HIDE DEF k
  <2> QED
      BY <1>2, <2>1, <2>2
<1>5. jobs'[k] = jobs[k] /\ gaps'[i].lo = gaps[i].lo /\ gaps'[i].hi = gaps[i].hi
    BY <1>2, <1>4 DEF Keeps
<1> HIDE DEF k
<1>6. ASSUME NEW m \in VenueMinutes \ deleted', InWindow(m, gaps'[i]), m <= jobs[k].at
      PROVE  Present(m)'
  <2>1. m \in VenueMinutes \ deleted /\ m \in Minutes \ deleted'
      BY ConstantsAssumption DEF Keeps
  <2>2. InWindow(m, gaps[i])
      BY <1>5, <1>6 DEF InWindow
  <2> QED
      BY <1>3, <1>6, <2>1, <2>2 DEF Keeps
<1> QED
    BY <1>2, <1>3, <1>5, <1>6

LEMMA RepairsStay ==
    ASSUME RepairsTakeEffect, Keeps, repaired' = repaired
    PROVE  RepairsTakeEffect'
<1>1. VenueMinutes \subseteq Minutes
    BY ConstantsAssumption
<1>2. ASSUME NEW m \in (repaired \intersect VenueMinutes) \ deleted'
      PROVE  bars'[m] \in {"partial", "final"}
  <2>1. m \in (repaired \intersect VenueMinutes) \ deleted /\ m \in Minutes \ deleted'
      BY <1>1 DEF Keeps
  <2> QED
      BY <2>1 DEF RepairsTakeEffect, Keeps, Sound
<1> QED
    BY <1>2 DEF RepairsTakeEffect

LEMMA NothingWritten ==
    ASSUME Types, UNCHANGED <<bars, gaps, jobs, deleted>>, now <= now'
    PROVE  Keeps
BY DEF Keeps, Present, Sound

\* A worker that goes idle knows nothing.
LEMMA IdleFacts ==
    /\ Idle \in Tasks /\ Idle.match = {}
    /\ \A p \in Workers : task[p] = Idle => TaskInv(p)
<1>1. Idle \in Tasks
  <2>1. <<>> \in Seq(BackfillJobs) /\ Window(0, 0) \in Ends
      BY DEF Window, Ends
  <2> QED
      BY <2>1 DEF Idle, Tasks, Kinds, Steps
<1>2. Idle.match = {} /\ Idle.pc = "idle" /\ Idle.todo = <<>> /\ Idle.kind = "none"
    BY DEF Idle
<1>3. ASSUME NEW p \in Workers, task[p] = Idle
      PROVE  TaskInv(p)
  <2>1. DOMAIN task[p].todo = {}
      BY <1>2, <1>3
  <2> QED
      BY <1>2, <1>3, <2>1
      DEF TaskInv, HasWindow, NamesItsGaps, Fetched, Filled, StillToRepair, SeesRows
<1> QED
    BY <1>1, <1>2, <1>3

\* A step of one worker.
LEMMA OneWorker ==
    ASSUME IInv, Types', Keeps, NEW p \in Workers, TaskInv(p)',
           \A q \in Workers \ {p} : task'[q] = task[q],
           JobsFilledTheirGaps', RepairsTakeEffect'
    PROVE  IInv'
<1>1. ASSUME NEW q \in Workers
      PROVE  TaskInv(q)'
  <2>1. CASE q = p
      BY <2>1
  <2>2. CASE q # p
    <3>1. now' \in Int
        BY Numbers DEF Types
    <3> QED
        BY <2>2, <3>1, OthersKeep DEF IInv
  <2> QED
      BY <2>1, <2>2
<1> QED
    BY <1>1 DEF IInv

\* A step that changes what a worker is doing, and no table.
LEMMA QuietStep ==
    ASSUME IInv, NEW p \in Workers, UNCHANGED <<now, dbVars, deleted, repaired>>,
           started' \in 0..MaxTasks, troubles' \in 0..MaxTroubles, failed' \in 0..troubles',
           task' = [task EXCEPT ![p] = task'[p]], task'[p] \in Tasks,
           task'[p].match \subseteq DOMAIN gaps, TaskInv(p)'
    PROVE  IInv'
<1>1. Keeps
  <2>1. now <= now'
      BY Numbers DEF IInv, Types
  <2> QED
      BY <2>1, NothingWritten DEF IInv, dbVars
<1>2. task' \in [Workers -> Tasks]
    BY DEF IInv, Types
<1>3. \A q \in Workers \ {p} : task'[q] = task[q]
    BY DEF IInv, Types
<1>4. Types'
  <2>1. \A q \in Workers : task'[q].match \subseteq DOMAIN gaps'
      BY <1>3 DEF IInv, Types, dbVars
  <2> QED
      BY <1>2, <2>1 DEF IInv, Types, dbVars
<1>5. JobsFilledTheirGaps' /\ RepairsTakeEffect'
    BY <1>1, GapsStayFilled, RepairsStay DEF IInv, dbVars
<1> QED
    BY <1>1, <1>3, <1>4, <1>5, OneWorker

-----------------------------------------------------------------------------
(* Steps that change no table *)

\* One worker's record is replaced.
LEMMA Replaced ==
    ASSUME Types, NEW p \in Workers, NEW r, task' = [task EXCEPT ![p] = r]
    PROVE  task'[p] = r /\ task' = [task EXCEPT ![p] = task'[p]]
BY DEF Types

LEMMA GoIdle ==
    ASSUME IInv, NEW p \in Workers, UNCHANGED <<now, dbVars, deleted, repaired>>,
           started' \in 0..MaxTasks, troubles' \in 0..MaxTroubles, failed' \in 0..troubles',
           task' = [task EXCEPT ![p] = Idle]
    PROVE  IInv'
<1>1. task'[p] = Idle /\ task' = [task EXCEPT ![p] = task'[p]]
    BY Replaced DEF IInv
<1>2. TaskInv(p)'
  <2> DEFINE t == task'[p]
  <2>1. t.match = {} /\ t.pc = "idle" /\ t.todo = <<>> /\ t.kind = "none"
      BY <1>1 DEF Idle
  <2>2. DOMAIN t.todo = {}
      BY <2>1
  <2>3. HasWindow(p)' /\ NamesItsGaps(p)' /\ Fetched(p)' /\ Filled(p)'
      BY <2>1, <2>2 DEF HasWindow, NamesItsGaps, Fetched, Filled
  <2>4. StillToRepair(p)' /\ SeesRows(p)'
      BY <2>1, <2>2 DEF StillToRepair, SeesRows
  <2> QED
      BY <2>3, <2>4 DEF TaskInv
<1>3. Idle \in Tasks /\ Idle.match \subseteq DOMAIN gaps
    BY IdleFacts
<1> QED
    BY <1>1, <1>2, <1>3, QuietStep

LEMMA Bounds ==
    ASSUME Types
    PROVE  /\ started < MaxTasks => started + 1 \in 0..MaxTasks
           /\ troubles < MaxTroubles => troubles + 1 \in 0..MaxTroubles
                                        /\ failed \in 0..(troubles + 1)
                                        /\ failed + 1 \in 0..(troubles + 1)
           /\ started \in 0..MaxTasks /\ troubles \in 0..MaxTroubles /\ failed \in 0..troubles
<1>1. started \in 0..MaxTasks /\ troubles \in 0..MaxTroubles /\ failed \in 0..troubles
    BY DEF Types
<1> QED
    BY <1>1, Numbers

LEMMA StepStartCheck ==
    ASSUME IInv, NEW p \in Workers, NEW kind \in {"recheck", "validate", "remediate"},
           NEW w \in Ends, StartCheck(p, kind, w)
    PROVE  IInv'
<1> DEFINE aligned == AlignWindow(w, 2)
           seen == Within(Stored, aligned)
           win == IF kind = "validate" THEN aligned ELSE w
           r == [Idle EXCEPT !.kind = kind, !.pc = "match", !.began = now, !.win = win, !.seen = seen]
<1>1. /\ started < MaxTasks /\ started' = started + 1
      /\ task' = [task EXCEPT ![p] = r]
      /\ UNCHANGED <<now, dbVars, troubles, histVars>>
    BY DEF StartCheck, Begin
<1>2. seen \subseteq Minutes /\ \A m \in seen : Present(m)
    BY DEF Within, Stored, Present
<1>3. win \in Ends /\ now \in Int
    BY AlignedWindow, Numbers DEF IInv, Types
<1> HIDE DEF aligned, seen, win
<1>4. r \in Tasks /\ r.match = {} /\ r.pc = "match" /\ r.kind = kind /\ r.seen = seen /\ r.todo = <<>>
  <2>1. Idle.match = {} /\ Idle.todo = <<>>
      BY DEF Idle
  <2>2. Idle \in Tasks
      BY IdleFacts
  <2> QED
      BY <1>2, <1>3, <2>1, <2>2 DEF Tasks, Kinds, Steps
<1> HIDE DEF r
<1>5. task'[p] = r /\ task' = [task EXCEPT ![p] = task'[p]]
    BY <1>1, Replaced DEF IInv
<1>6. TaskInv(p)'
  <2>1. HasWindow(p)' /\ Fetched(p)' /\ Filled(p)' /\ StillToRepair(p)'
      BY <1>4, <1>5 DEF HasWindow, Fetched, Filled, StillToRepair
  <2>2. DOMAIN r.todo = {}
      BY <1>4
  <2>3. NamesItsGaps(p)'
      BY <2>2, <1>5 DEF NamesItsGaps
  <2>4. SeesRows(p)'
      BY <1>1, <1>2, <1>4, <1>5 DEF SeesRows, Present, dbVars
  <2> QED
      BY <2>1, <2>3, <2>4 DEF TaskInv
<1>7. /\ started' \in 0..MaxTasks /\ troubles' \in 0..MaxTroubles /\ failed' \in 0..troubles'
      /\ UNCHANGED <<now, dbVars, deleted, repaired>>
    BY <1>1, Bounds DEF IInv, histVars
<1> QED
    BY <1>4, <1>5, <1>6, <1>7, QuietStep

LEMMA StepMatchOpenGaps ==
    ASSUME IInv, NEW p \in Workers, MatchOpenGaps(p)
    PROVE  IInv'
<1> DEFINE t == task[p]
           ids == {i \in OpenGaps : Overlaps(gaps[i], t.win)}
           r == [t EXCEPT !.pc = "write", !.match = ids]
<1>1. t.pc = "match" /\ task' = [task EXCEPT ![p] = r]
      /\ UNCHANGED <<now, dbVars, boundVars, histVars>>
    BY DEF MatchOpenGaps
<1>2. t \in Tasks /\ TaskInv(p)
    BY TaskFields DEF IInv
<1>3. ids \subseteq DOMAIN gaps /\ ids \subseteq Nat
  <2>1. ids \subseteq DOMAIN gaps
      BY DEF OpenGaps
  <2>2. DOMAIN gaps = 1..Len(gaps) /\ Len(gaps) \in Nat
      BY LenProperties DEF IInv, Types
  <2> QED
      BY <2>1, <2>2
<1> HIDE DEF ids, t
<1>4. /\ r \in Tasks /\ r.match = ids /\ r.pc = "write" /\ r.kind = t.kind /\ r.seen = t.seen
      /\ r.todo = t.todo
    BY <1>2, <1>3 DEF Tasks, Steps
<1> HIDE DEF r
<1>5. task'[p] = r /\ task' = [task EXCEPT ![p] = task'[p]]
    BY <1>1, Replaced DEF IInv
<1>6. TaskInv(p)'
  <2>1. HasWindow(p)' /\ Fetched(p)' /\ Filled(p)'
      BY <1>4, <1>5 DEF HasWindow, Fetched, Filled
  <2>2. StillToRepair(p)'
      BY <1>1, <1>2, <1>4, <1>5 DEF StillToRepair, TaskInv, t
  <2>3. NamesItsGaps(p)'
      BY <1>1, <1>2, <1>4, <1>5 DEF NamesItsGaps, TaskInv, t, dbVars
  <2>4. SeesRows(p)'
      BY <1>1, <1>2, <1>4, <1>5 DEF SeesRows, TaskInv, t, Present, dbVars, histVars
  <2> QED
      BY <2>1, <2>2, <2>3, <2>4 DEF TaskInv
<1>7. /\ started' \in 0..MaxTasks /\ troubles' \in 0..MaxTroubles /\ failed' \in 0..troubles'
      /\ UNCHANGED <<now, dbVars, deleted, repaired>>
    BY <1>1, Bounds DEF IInv, histVars, boundVars
<1> QED
    BY <1>3, <1>4, <1>5, <1>6, <1>7, QuietStep

LEMMA StepListGaps ==
    ASSUME IInv, NEW p \in Workers, ListGaps(p)
    PROVE  IInv'
<1> DEFINE t == task[p]
           ids == NewestOpenGaps
           todo == [i \in DOMAIN ids |-> Job(gaps[ids[i]], ids[i])]
           r == [t EXCEPT !.pc = "fetch", !.todo = todo]
<1>1. /\ t.pc = "list"
      /\ task' = [task EXCEPT ![p] = IF OpenGaps = {} \/ ListLimit = 0 THEN Idle ELSE r]
      /\ UNCHANGED <<now, dbVars, boundVars, histVars>>
    BY DEF ListGaps
<1>2. t \in Tasks /\ TaskInv(p)
    BY TaskFields DEF IInv
<1>3. /\ started' \in 0..MaxTasks /\ troubles' \in 0..MaxTroubles /\ failed' \in 0..troubles'
      /\ UNCHANGED <<now, dbVars, deleted, repaired>>
    BY <1>1, Bounds DEF IInv, histVars, boundVars
<1>4. CASE OpenGaps = {} \/ ListLimit = 0
    BY <1>1, <1>3, <1>4, GoIdle
<1>5. CASE ~ (OpenGaps = {} \/ ListLimit = 0)
  <2>1. ids \in Seq(OpenGaps) /\ ids # <<>>
    <3>1. gaps \in Seq([lo : Int, hi : Int, status : {"open", "resolved"}, job : 0..Len(jobs)])
      <4>1. \A i \in DOMAIN gaps : gaps[i] \in [lo : Int, hi : Int, status : {"open", "resolved"}, job : 0..Len(jobs)]
        <5>1. SUFFICES ASSUME NEW i \in DOMAIN gaps
                       PROVE  gaps[i] \in [lo : Int, hi : Int, status : {"open", "resolved"}, job : 0..Len(jobs)]
            OBVIOUS
        <5> DEFINE g == gaps[i]
                   n == Len(jobs)
        <5>2. g \in GapRows /\ g.job <= n /\ n \in Nat
            BY LenProperties DEF IInv, Types
        <5> HIDE DEF g, n
        <5>3. g \in [lo : Int, hi : Int, status : {"open", "resolved"}, job : 0..n]
            BY <5>2 DEF GapRows
        <5> QED
            BY <5>3 DEF g, n
      <4>2. gaps \in [1..Len(gaps) -> [lo : Int, hi : Int, status : {"open", "resolved"}, job : 0..Len(jobs)]]
            /\ Len(gaps) \in Nat
          BY <4>1, LenProperties DEF IInv, Types
      <4> QED
          BY <4>2, SequenceOfFunction
    <3> QED
        BY <3>1, <1>5, NewestOpenGapsFacts
  <2> DEFINE n == Len(ids)
  <2>2. n \in Nat /\ DOMAIN ids = 1..n /\ n > 0 /\ \A i \in 1..n : ids[i] \in OpenGaps
    <3>1. n \in Nat /\ DOMAIN ids = 1..n
        BY <2>1, LenProperties
    <3> HIDE DEF ids
    <3> QED
        BY <2>1, <3>1, EmptySeq, ElementOfSeq
  <2> HIDE DEF ids, n
  <2>3. \A i \in 1..n : /\ ids[i] \in DOMAIN gaps /\ ids[i] \in Nat /\ ids[i] # 0
                        /\ gaps[ids[i]] \in GapRows
    <3>1. SUFFICES ASSUME NEW i \in 1..n
                   PROVE  /\ ids[i] \in DOMAIN gaps /\ ids[i] \in Nat /\ ids[i] # 0
                          /\ gaps[ids[i]] \in GapRows
        OBVIOUS
    <3>2. ids[i] \in DOMAIN gaps /\ DOMAIN gaps = 1..Len(gaps) /\ Len(gaps) \in Nat
        BY <2>2, LenProperties DEF OpenGaps, IInv, Types
    <3> QED
        BY <3>2 DEF IInv, Types
  <2>4. todo \in [1..n -> BackfillJobs] /\ todo = [i \in 1..n |-> Job(gaps[ids[i]], ids[i])]
    <3>1. ASSUME NEW i \in 1..n
          PROVE  Job(gaps[ids[i]], ids[i]) \in BackfillJobs
        BY <2>3 DEF Job, BackfillJobs, GapRows
    <3> QED
        BY <2>2, <3>1
  <2>5. todo \in Seq(BackfillJobs) /\ DOMAIN todo = 1..n /\ todo # <<>>
    <3>1. todo \in Seq(BackfillJobs) /\ Len(todo) = n /\ DOMAIN todo = 1..n
        BY <2>2, <2>4, SequenceOfFunction
    <3> HIDE DEF todo
    <3>2. todo # <<>>
        BY <2>2, <3>1
    <3> QED
        BY <3>1, <3>2
  <2>6. \A i \in 1..n : todo[i].gap = ids[i] /\ todo[i].lo = gaps[ids[i]].lo /\ todo[i].hi = gaps[ids[i]].hi
      BY <2>4 DEF Job
  <2> HIDE DEF todo, t
  <2>7. /\ r \in Tasks /\ r.match = t.match /\ r.pc = "fetch" /\ r.kind = t.kind /\ r.todo = todo
      BY <1>2, <2>5 DEF Tasks, Steps
  <2> HIDE DEF r
  <2>8. task'[p] = r /\ task' = [task EXCEPT ![p] = task'[p]]
      BY <1>1, <1>5, Replaced DEF IInv
  <2>9. TaskInv(p)'
    <3>1. HasWindow(p)' /\ Fetched(p)' /\ Filled(p)' /\ SeesRows(p)'
        BY <2>5, <2>7, <2>8 DEF HasWindow, Fetched, Filled, SeesRows
    <3>2. t.kind # "repair"
        BY <1>1, <1>2 DEF TaskInv, StillToRepair, t
    <3>3. StillToRepair(p)'
        BY <2>7, <2>8, <3>2 DEF StillToRepair
    <3>4. gaps' = gaps
        BY <1>3 DEF dbVars
    <3>5. ASSUME NEW i \in 1..n
          PROVE  /\ todo[i].gap \in DOMAIN gaps'
                 /\ gaps'[todo[i].gap].lo = todo[i].lo /\ gaps'[todo[i].gap].hi = todo[i].hi
        BY <2>3, <2>6, <3>4
    <3>6. task'[p].todo = todo /\ DOMAIN todo = 1..n
        BY <2>5, <2>7, <2>8
    <3>7. NamesItsGaps(p)'
        BY <3>5, <3>6 DEF NamesItsGaps
    <3> QED
        BY <3>1, <3>3, <3>7 DEF TaskInv
  <2>10. r.match \subseteq DOMAIN gaps
      BY <2>7, TaskFields DEF IInv, t
  <2> QED
      BY <1>3, <2>7, <2>8, <2>9, <2>10, QuietStep
<1> QED
    BY <1>4, <1>5

LEMMA StepStartBackfill ==
    ASSUME IInv, NEW p \in Workers, StartBackfill(p)
    PROVE  IInv'
<1>1. PICK w \in Windows :
          /\ Begin(p, [Idle EXCEPT !.kind = "backfill", !.pc = "fetch", !.todo = <<Job(w, 0)>>])
          /\ UNCHANGED <<now, dbVars, troubles, histVars>>
    BY DEF StartBackfill
<1> DEFINE todo == <<Job(w, 0)>>
           r == [Idle EXCEPT !.kind = "backfill", !.pc = "fetch", !.todo = todo]
<1>2. /\ started < MaxTasks /\ started' = started + 1
      /\ task' = [task EXCEPT ![p] = r]
      /\ UNCHANGED <<now, dbVars, troubles, histVars>>
    BY <1>1 DEF Begin
<1>3. /\ todo \in Seq(BackfillJobs) /\ todo # <<>> /\ DOMAIN todo = {1} /\ todo[1].gap = 0
  <2>1. w \in [lo : Int, hi : Int]
      BY ConstantsAssumption
  <2>2. Job(w, 0) \in BackfillJobs /\ Job(w, 0).gap = 0
      BY <2>1 DEF Job, BackfillJobs
  <2> QED
      BY <2>2
<1> HIDE DEF todo
<1>4. r \in Tasks /\ r.match = {} /\ r.pc = "fetch" /\ r.kind = "backfill" /\ r.todo = todo
  <2>1. Idle.match = {} /\ Idle \in Tasks
      BY IdleFacts
  <2> QED
      BY <1>3, <2>1 DEF Tasks, Kinds, Steps
<1> HIDE DEF r
<1>5. task'[p] = r /\ task' = [task EXCEPT ![p] = task'[p]]
    BY <1>2, Replaced DEF IInv
<1>6. TaskInv(p)'
    BY <1>3, <1>4, <1>5
    DEF TaskInv, HasWindow, NamesItsGaps, Fetched, Filled, StillToRepair, SeesRows
<1>7. /\ started' \in 0..MaxTasks /\ troubles' \in 0..MaxTroubles /\ failed' \in 0..troubles'
      /\ UNCHANGED <<now, dbVars, deleted, repaired>>
    BY <1>2, Bounds DEF IInv, histVars
<1> QED
    BY <1>4, <1>5, <1>6, <1>7, QuietStep

LEMMA StepStartRepair ==
    ASSUME IInv, NEW p \in Workers, StartRepair(p)
    PROVE  IInv'
<1>1. PICK w :
          /\ DetectedWindows(w) # <<>>
          /\ Begin(p, [Idle EXCEPT !.kind = "repair", !.pc = "fetch", !.began = now,
                                   !.seen = DetectedMinutes(w),
                                   !.todo = [i \in DOMAIN DetectedWindows(w) |->
                                                Job(DetectedWindows(w)[i], 0)]])
          /\ UNCHANGED <<now, dbVars, troubles, histVars>>
    BY DEF StartRepair
<1> DEFINE found == DetectedWindows(w)
           seen == DetectedMinutes(w)
           n == Len(found)
           todo == [i \in DOMAIN found |-> Job(found[i], 0)]
           r == [Idle EXCEPT !.kind = "repair", !.pc = "fetch", !.began = now,
                             !.seen = seen, !.todo = todo]
<1>2. /\ started < MaxTasks /\ started' = started + 1
      /\ task' = [task EXCEPT ![p] = r]
      /\ UNCHANGED <<now, dbVars, troubles, histVars>>
    BY <1>1 DEF Begin
<1>3. /\ seen \subseteq Minutes /\ found \in Seq(Ends) /\ found # <<>>
      /\ \A m \in seen : \E i \in DOMAIN found : found[i].lo <= m /\ m <= found[i].hi
    BY <1>1, DetectedFacts
<1> HIDE DEF found, seen
<1>4. /\ n \in Nat /\ n > 0 /\ DOMAIN found = 1..n /\ \A i \in 1..n : found[i] \in Ends
    BY <1>3, LenProperties, EmptySeq, ElementOfSeq
<1> HIDE DEF n
<1>5. /\ todo \in Seq(BackfillJobs) /\ Len(todo) = n /\ DOMAIN todo = 1..n
      /\ \A i \in 1..n : todo[i].gap = 0 /\ todo[i].lo = found[i].lo /\ todo[i].hi = found[i].hi
  <2>1. ASSUME NEW i \in 1..n
        PROVE  Job(found[i], 0) \in BackfillJobs
      BY <1>4 DEF Job, BackfillJobs, Ends
  <2>2. todo \in [1..n -> BackfillJobs]
      BY <1>4, <2>1
  <2>3. todo \in Seq(BackfillJobs) /\ Len(todo) = n /\ DOMAIN todo = 1..n
      BY <1>4, <2>2, SequenceOfFunction
  <2>4. \A i \in 1..n : todo[i] = Job(found[i], 0)
      BY <1>4
  <2> HIDE DEF todo
  <2> QED
      BY <2>3, <2>4 DEF Job
<1> HIDE DEF todo
<1>6. todo # <<>>
    BY <1>4, <1>5
<1>7. now \in Int
    BY Numbers DEF IInv, Types
<1>8. /\ r \in Tasks /\ r.match = {} /\ r.pc = "fetch" /\ r.kind = "repair" /\ r.todo = todo
      /\ r.began = now /\ r.seen = seen
  <2>1. Idle.match = {} /\ Idle \in Tasks
      BY IdleFacts
  <2> QED
      BY <1>3, <1>5, <1>7, <2>1 DEF Tasks, Kinds, Steps
<1> HIDE DEF r
<1>9. task'[p] = r /\ task' = [task EXCEPT ![p] = task'[p]]
    BY <1>2, Replaced DEF IInv
<1>10. TaskInv(p)'
  <2>1. HasWindow(p)' /\ Fetched(p)' /\ Filled(p)' /\ SeesRows(p)'
      BY <1>6, <1>8, <1>9 DEF HasWindow, Fetched, Filled, SeesRows
  <2>2. NamesItsGaps(p)'
      BY <1>5, <1>8, <1>9 DEF NamesItsGaps
  <2>3. ASSUME NEW m \in seen
        PROVE  \E i \in DOMAIN todo : InWindow(m, todo[i])
      BY <1>3, <1>4, <1>5 DEF InWindow
  <2>4. now' = now /\ now <= now
      BY <1>2, <1>7
  <2>5. \A i \in DOMAIN todo : todo[i].gap = 0
      BY <1>5
  <2>6. StillToRepair(p)'
      BY <1>8, <1>9, <2>3, <2>4, <2>5 DEF StillToRepair, InWindow
  <2> QED
      BY <2>1, <2>2, <2>6 DEF TaskInv
<1>11. /\ started' \in 0..MaxTasks /\ troubles' \in 0..MaxTroubles /\ failed' \in 0..troubles'
       /\ UNCHANGED <<now, dbVars, deleted, repaired>>
    BY <1>2, Bounds DEF IInv, histVars
<1> QED
    BY <1>8, <1>9, <1>10, <1>11, QuietStep

\* What a worker that backfills has to do first.
LEMMA FirstWindow ==
    ASSUME Types, NEW p \in Workers, task[p].todo # <<>>
    PROVE  /\ Head(task[p].todo) = task[p].todo[1] /\ 1 \in DOMAIN task[p].todo
           /\ Head(task[p].todo) \in BackfillJobs
           /\ Head(task[p].todo).lo \in Int /\ Head(task[p].todo).hi \in Int
           /\ Head(task[p].todo).gap \in Nat
<1> DEFINE s == task[p].todo
<1>1. s \in Seq(BackfillJobs) /\ s # <<>>
    BY TaskFields
<1> HIDE DEF s
<1>2. Head(s) = s[1] /\ 1 \in DOMAIN s /\ Head(s) \in BackfillJobs
  <2>1. Len(s) \in Nat /\ DOMAIN s = 1..Len(s) /\ Len(s) # 0
      BY <1>1, LenProperties, EmptySeq
  <2>2. 1 \in 1..Len(s)
      BY <2>1
  <2>3. s[1] \in BackfillJobs
      BY <1>1, <2>2, ElementOfSeq
  <2> QED
      BY <1>1, <2>1, <2>2, <2>3
<1>3. Head(s).lo \in Int /\ Head(s).hi \in Int /\ Head(s).gap \in Nat
    BY <1>2 DEF BackfillJobs
<1> QED
    BY <1>2, <1>3 DEF s

LEMMA StepFetchWindow ==
    ASSUME IInv, NEW p \in Workers, FetchWindow(p)
    PROVE  IInv'
<1> DEFINE t == task[p]
           w == Head(t.todo)
           rows == ToSet(FetchKlines(Begun, w, PageLimit, 2))
           fetched == {<<m, IF m + 2 <= now THEN "final" ELSE "partial">> : m \in rows}
           r == [t EXCEPT !.pc = "store", !.at = now, !.fetched = fetched]
<1>1. /\ t.pc = "fetch" /\ ~ ToDelete(t)
      /\ task' = [task EXCEPT ![p] = r]
      /\ UNCHANGED <<now, dbVars, boundVars, histVars>>
    BY DEF FetchWindow
<1>2. t \in Tasks /\ TaskInv(p) /\ t.todo # <<>>
    BY <1>1, TaskFields DEF IInv, TaskInv, HasWindow
<1>3. w.lo \in Int /\ w.hi \in Int
    BY <1>2, FirstWindow DEF IInv
<1>4. rows = {m \in Begun : InWindow(m, w)}
  <2> DEFINE v == [lo |-> w.lo, hi |-> w.hi]
  <2>1. v \in [lo : Int, hi : Int]
      BY <1>3
  <2>2. FetchKlines(Begun, w, PageLimit, 2) = FetchKlines(Begun, v, PageLimit, 2)
      BY DEF FetchKlines
  <2>3. Within(Begun, v) = {m \in Begun : InWindow(m, w)}
      BY DEF Within, InWindow
  <2> HIDE DEF v
  <2>4. ToSet(FetchKlines(Begun, v, PageLimit, 2)) = Within(Begun, v)
      BY <2>1, FetchedRows
  <2> QED
      BY <2>2, <2>3, <2>4
<1>5. now \in Int
    BY Numbers DEF IInv, Types
<1>6. /\ rows \subseteq Minutes
      /\ \A m \in VenueMinutes : InWindow(m, w) /\ m <= now => m \in rows
    BY <1>4, ConstantsAssumption DEF Begun
<1> HIDE DEF rows, w
<1>7. /\ fetched \subseteq Minutes \X {"partial", "final"}
      /\ \A m \in rows : \E pair \in fetched : pair[1] = m
  <2> DEFINE state(m) == IF m + 2 <= now THEN "final" ELSE "partial"
  <2>1. \A m \in rows : m \in Minutes /\ state(m) \in {"partial", "final"}
      BY <1>6
  <2>2. fetched = {<<m, state(m)>> : m \in rows}
      OBVIOUS
  <2> HIDE DEF fetched, state
  <2>3. \A m \in rows : <<m, state(m)>> \in Minutes \X {"partial", "final"}
      BY <2>1
  <2>4. \A m \in rows : <<m, state(m)>> \in fetched /\ <<m, state(m)>>[1] = m
      BY <2>2
  <2>5. \A m \in rows : \E pair \in fetched : pair[1] = m
      BY <2>4, Zenon
  <2>6. fetched \subseteq Minutes \X {"partial", "final"}
      BY <2>2, <2>3, Zenon
  <2> QED
      BY <2>5, <2>6
<1> HIDE DEF fetched, t
<1>8. /\ r \in Tasks /\ r.match = t.match /\ r.pc = "store" /\ r.kind = t.kind /\ r.todo = t.todo
      /\ r.began = t.began /\ r.seen = t.seen /\ r.at = now /\ r.fetched = fetched
    BY <1>2, <1>5, <1>7 DEF Tasks, Steps
<1> HIDE DEF r
<1>9. task'[p] = r /\ task' = [task EXCEPT ![p] = task'[p]]
    BY <1>1, Replaced DEF IInv
<1>10. TaskInv(p)'
  <2>1. HasWindow(p)' /\ Filled(p)' /\ SeesRows(p)'
      BY <1>2, <1>8, <1>9 DEF HasWindow, Filled, SeesRows
  <2>2. NamesItsGaps(p)'
      BY <1>1, <1>2, <1>8, <1>9 DEF NamesItsGaps, TaskInv, t, dbVars
  <2>3. Fetched(p)'
    <3>1. \A m \in VenueMinutes : InWindow(m, Head(r.todo)) /\ m <= r.at =>
              \E pair \in r.fetched : pair[1] = m
        BY <1>6, <1>7, <1>8 DEF w
    <3> QED
        BY <1>9, <3>1 DEF Fetched, InWindow
  <2>4. StillToRepair(p)'
    <3>1. SUFFICES ASSUME t.kind = "repair"
                   PROVE  StillToRepair(p)'
        BY <1>8, <1>9 DEF StillToRepair
    <3>2. /\ t.began <= now
          /\ \A i \in DOMAIN t.todo : t.todo[i].gap = 0
          /\ \A m \in (t.seen \intersect VenueMinutes) \ deleted :
                 m <= t.began => Sound(m) \/ \E i \in DOMAIN t.todo : InWindow(m, t.todo[i])
        BY <1>2, <3>1 DEF TaskInv, StillToRepair, t
    <3>3. bars' = bars /\ deleted' = deleted /\ now' = now
        BY <1>1 DEF dbVars, histVars
    <3> QED
        BY <1>8, <1>9, <3>2, <3>3 DEF StillToRepair, Sound, InWindow
  <2> QED
      BY <2>1, <2>2, <2>3, <2>4 DEF TaskInv
<1>11. /\ started' \in 0..MaxTasks /\ troubles' \in 0..MaxTroubles /\ failed' \in 0..troubles'
       /\ UNCHANGED <<now, dbVars, deleted, repaired>>
    BY <1>1, Bounds DEF IInv, histVars, boundVars
<1>12. r.match \subseteq DOMAIN gaps
    BY <1>8, TaskFields DEF IInv, t
<1> QED
    BY <1>8, <1>9, <1>10, <1>11, <1>12, QuietStep

LEMMA StepBackfillFails ==
    ASSUME IInv, NEW p \in Workers, BackfillFails(p)
    PROVE  IInv'
<1>1. /\ started' \in 0..MaxTasks /\ troubles' \in 0..MaxTroubles /\ failed' \in 0..troubles'
      /\ task' = [task EXCEPT ![p] = Idle]
      /\ UNCHANGED <<now, dbVars, deleted, repaired>>
    BY Bounds DEF IInv, BackfillFails
<1> QED
    BY <1>1, GoIdle

LEMMA StepAbort ==
    ASSUME IInv, NEW p \in Workers, Abort(p)
    PROVE  IInv'
<1>1. /\ started' \in 0..MaxTasks /\ troubles' \in 0..MaxTroubles /\ failed' \in 0..troubles'
      /\ task' = [task EXCEPT ![p] = Idle]
      /\ UNCHANGED <<now, dbVars, deleted, repaired>>
    BY Bounds DEF IInv, Abort, histVars
<1> QED
    BY <1>1, GoIdle

LEMMA StepTick ==
    ASSUME IInv, Tick
    PROVE  IInv'
<1>1. /\ now < EndTime /\ now' = now + 1
      /\ UNCHANGED <<dbVars, task, boundVars, histVars>>
    BY DEF Tick
<1>2. now' \in StartTime..EndTime /\ now <= now'
    BY <1>1, Numbers DEF IInv, Types
<1>3. Keeps
    BY <1>1, <1>2, NothingWritten DEF IInv, dbVars, histVars
<1>4. Types'
    BY <1>1, <1>2 DEF IInv, Types, dbVars, histVars, boundVars
<1>5. JobsFilledTheirGaps' /\ RepairsTakeEffect'
    BY <1>1, <1>3, GapsStayFilled, RepairsStay DEF IInv, dbVars, histVars
<1>6. ASSUME NEW q \in Workers
      PROVE  TaskInv(q)'
  <2>1. now' \in Int
      BY <1>2, Numbers
  <2> QED
      BY <1>1, <1>3, <2>1, OthersKeep DEF IInv
<1> QED
    BY <1>4, <1>5, <1>6 DEF IInv

-----------------------------------------------------------------------------
(* Steps that write *)

\* What is left of a worker's windows.
LEMMA TailFacts ==
    ASSUME NEW S, NEW s \in Seq(S), s # <<>>
    PROVE  /\ Tail(s) \in Seq(S) /\ Head(s) = s[1]
           /\ \A i \in DOMAIN Tail(s) : i + 1 \in DOMAIN s /\ Tail(s)[i] = s[i + 1]
           /\ \A i \in DOMAIN s : i = 1 \/ (i - 1 \in DOMAIN Tail(s) /\ Tail(s)[i - 1] = s[i])
           /\ Len(s) > 1 => Tail(s) # <<>>
           /\ ~ (Len(s) > 1) => Len(s) = 1 /\ \A i \in DOMAIN s : i = 1
<1> DEFINE n == Len(s)
<1>1. n \in Nat /\ DOMAIN s = 1..n /\ n # 0
    BY LenProperties, EmptySeq
<1>2. /\ Tail(s) \in Seq(S) /\ Len(Tail(s)) = n - 1 /\ Head(s) = s[1]
      /\ \A i \in 1..(n - 1) : Tail(s)[i] = s[i + 1]
    OBVIOUS
<1> DEFINE r == Tail(s)
<1>3. DOMAIN r = 1..(n - 1)
  <2>1. r \in Seq(S) /\ Len(r) = n - 1
      BY <1>2
  <2> HIDE DEF r
  <2> QED
      BY <2>1, LenProperties
<1>4. n > 1 => r # <<>>
  <2>1. Len(r) = n - 1
      BY <1>2
  <2> HIDE DEF r, n
  <2>2. n > 1 => Len(r) # 0
      BY <1>1, <2>1
  <2> QED
      BY <2>2
<1> HIDE DEF n
<1>5. \A i \in DOMAIN r : i + 1 \in DOMAIN s /\ r[i] = s[i + 1]
    BY <1>1, <1>2, <1>3
<1>6. ASSUME NEW i \in DOMAIN s
      PROVE  i = 1 \/ (i - 1 \in DOMAIN r /\ r[i - 1] = s[i])
  <2>1. SUFFICES ASSUME i # 1
                 PROVE  i - 1 \in DOMAIN r /\ r[i - 1] = s[i]
      OBVIOUS
  <2> DEFINE k == i - 1
  <2>2. k \in 1..(n - 1) /\ k + 1 = i
      BY <1>1, <2>1
  <2> HIDE DEF k
  <2>3. k \in DOMAIN r /\ r[k] = s[k + 1]
      BY <1>3, <1>5, <2>2
  <2> QED
      BY <2>2, <2>3 DEF k
<1>7. ~ (n > 1) => n = 1 /\ \A i \in DOMAIN s : i = 1
    BY <1>1
<1> QED
    BY <1>2, <1>4, <1>5, <1>6, <1>7 DEF n

LEMMA NextWindowFacts ==
    ASSUME Types, NEW p \in Workers, task[p].todo # <<>>
    PROVE  LET r == NextWindow(task[p])
           IN  /\ r \in Tasks /\ r.match \subseteq DOMAIN gaps
               /\ r = Idle \/ /\ Len(task[p].todo) > 1
                              /\ r.pc = "fetch" /\ r.kind = task[p].kind
                              /\ r.todo = Tail(task[p].todo)
                              /\ r.began = task[p].began /\ r.seen = task[p].seen
<1> DEFINE t == task[p]
           rest == Tail(t.todo)
           r == [t EXCEPT !.pc = "fetch", !.todo = rest, !.fetched = {}]
<1>1. t \in Tasks /\ t.todo \in Seq(BackfillJobs) /\ t.match \subseteq DOMAIN gaps
    BY TaskFields
<1>2. rest \in Seq(BackfillJobs)
    BY <1>1, TailFacts
<1>3. NextWindow(t) = IF Len(t.todo) > 1 THEN r ELSE Idle
    BY DEF NextWindow
<1> HIDE DEF t, rest
<1>4. /\ r \in Tasks /\ r.match = t.match /\ r.pc = "fetch" /\ r.kind = t.kind /\ r.todo = rest
      /\ r.began = t.began /\ r.seen = t.seen
  <2>1. {} \in SUBSET (Minutes \X {"partial", "final"})
      OBVIOUS
  <2> QED
      BY <1>1, <1>2, <2>1 DEF Tasks, Steps
<1> HIDE DEF r
<1>5. CASE Len(t.todo) > 1
    BY <1>1, <1>3, <1>4, <1>5 DEF t, rest
<1>6. CASE ~ (Len(t.todo) > 1)
    BY <1>3, <1>6, IdleFacts DEF t
<1> QED
    BY <1>5, <1>6

\* A worker goes on with its next window, if the past minutes of the one that is
\* done are sound.
LEMMA GoesOn ==
    ASSUME Types, Keeps, now' \in Int, NEW p \in Workers, TaskInv(p), task[p].todo # <<>>,
           task'[p] = NextWindow(task[p]),
           task[p].kind = "repair" =>
               \A m \in (task[p].seen \intersect VenueMinutes) \ deleted' :
                   m <= task[p].began /\ InWindow(m, Head(task[p].todo)) => Sound(m)'
    PROVE  TaskInv(p)'
<1> DEFINE t == task[p]
           r == NextWindow(t)
           s == t.todo
<1>1. CASE r = Idle
    BY <1>1, IdleFacts DEF TaskInv, HasWindow, NamesItsGaps, Fetched, Filled, StillToRepair, SeesRows, Idle
<1>2. CASE r # Idle
  <2>1. /\ Len(s) > 1 /\ r.pc = "fetch" /\ r.kind = t.kind /\ r.todo = Tail(s)
        /\ r.began = t.began /\ r.seen = t.seen
      BY <1>2, NextWindowFacts
  <2>2. s \in Seq(BackfillJobs) /\ s # <<>>
      BY TaskFields
  <2> HIDE DEF r, s
  <2>3. /\ Tail(s) # <<>> /\ Head(s) = s[1]
        /\ \A i \in DOMAIN Tail(s) : i + 1 \in DOMAIN s /\ Tail(s)[i] = s[i + 1]
        /\ \A i \in DOMAIN s : i = 1 \/ (i - 1 \in DOMAIN Tail(s) /\ Tail(s)[i - 1] = s[i])
      BY <2>1, <2>2, TailFacts
  <2>4. HasWindow(p)' /\ Fetched(p)' /\ Filled(p)' /\ SeesRows(p)'
      BY <2>1, <2>3 DEF HasWindow, Fetched, Filled, SeesRows, r
  <2>5. NamesItsGaps(p)'
    <3>1. SUFFICES ASSUME NEW i \in DOMAIN Tail(s), Tail(s)[i].gap # 0
                   PROVE  LET w == Tail(s)[i]
                          IN  /\ w.gap \in DOMAIN gaps'
                              /\ gaps'[w.gap].lo = w.lo /\ gaps'[w.gap].hi = w.hi
        BY <2>1 DEF NamesItsGaps, r
    <3> DEFINE k == i + 1
    <3>2. k \in DOMAIN s /\ Tail(s)[i] = s[k]
        BY <2>3
    <3> HIDE DEF k
    <3>3. s[k].gap \in DOMAIN gaps /\ gaps[s[k].gap].lo = s[k].lo /\ gaps[s[k].gap].hi = s[k].hi
        BY <3>1, <3>2 DEF TaskInv, NamesItsGaps, s
    <3> QED
        BY <3>2, <3>3 DEF Keeps
  <2>6. StillToRepair(p)'
    <3>1. SUFFICES ASSUME t.kind = "repair"
                   PROVE  StillToRepair(p)'
        BY <2>1 DEF StillToRepair, r
    <3>2. /\ t.began <= now
          /\ \A i \in DOMAIN s : s[i].gap = 0
          /\ \A m \in (t.seen \intersect VenueMinutes) \ deleted :
                 m <= t.began => Sound(m) \/ \E i \in DOMAIN s : InWindow(m, s[i])
        BY <3>1 DEF TaskInv, StillToRepair, s
    <3>3. t.began <= now'
      <4>1. t.began \in Int /\ now \in Int /\ now <= now'
          BY TaskFields, Numbers DEF Types, Keeps
      <4> QED
          BY <3>2, <4>1
    <3>4. \A i \in DOMAIN Tail(s) : Tail(s)[i].gap = 0
        BY <2>3, <3>2
    <3>5. ASSUME NEW m \in (t.seen \intersect VenueMinutes) \ deleted', m <= t.began
          PROVE  Sound(m)' \/ \E i \in DOMAIN Tail(s) : InWindow(m, Tail(s)[i])
      <4>1. m \in (t.seen \intersect VenueMinutes) \ deleted /\ m \in Minutes \ deleted'
          BY ConstantsAssumption DEF Keeps
      <4>2. CASE Sound(m)
          BY <4>1, <4>2 DEF Keeps
      <4>3. CASE \E i \in DOMAIN s : InWindow(m, s[i])
        <5>1. PICK i \in DOMAIN s : InWindow(m, s[i])
            BY <4>3
        <5>2. CASE i = 1
            BY <2>3, <3>1, <3>5, <5>1, <5>2 DEF s
        <5>3. CASE i # 1
            BY <2>3, <5>1, <5>3
        <5> QED
            BY <5>2, <5>3
      <4> QED
          BY <3>2, <3>5, <4>1, <4>2, <4>3
    <3>6. r.pc = "fetch" /\ r.todo = Tail(s) /\ r.began = t.began /\ r.seen = t.seen /\ task'[p] = r
        BY <2>1 DEF r
    <3> QED
        BY <3>3, <3>4, <3>5, <3>6 DEF StillToRepair, InWindow
  <2> QED
      BY <2>4, <2>5, <2>6 DEF TaskInv
<1> QED
    BY <1>1, <1>2

\* What a finished repair adds to the repaired minutes is sound.
LEMMA RepairsTakeTheirEffect ==
    ASSUME Types, RepairsTakeEffect, Keeps, NEW p \in Workers, TaskInv(p), task[p].todo # <<>>,
           repaired' = repaired \union RepairedBy(task[p]),
           task[p].kind = "repair" =>
               \A m \in (task[p].seen \intersect VenueMinutes) \ deleted' :
                   m <= task[p].began /\ InWindow(m, Head(task[p].todo)) => Sound(m)'
    PROVE  RepairsTakeEffect' /\ repaired' \subseteq Minutes
<1> DEFINE t == task[p]
<1>1. t.seen \subseteq Minutes /\ VenueMinutes \subseteq Minutes
    BY TaskFields, ConstantsAssumption
<1>2. repaired' \subseteq Minutes
    BY <1>1 DEF Types, RepairedBy
<1>3. ASSUME NEW m \in (repaired' \intersect VenueMinutes) \ deleted'
      PROVE  bars'[m] \in {"partial", "final"}
  <2>1. m \in Minutes \ deleted' /\ m \notin deleted
      BY <1>1 DEF Keeps
  <2>2. CASE m \in repaired
      BY <2>1, <2>2 DEF RepairsTakeEffect, Keeps, Sound
  <2>3. CASE m \in RepairedBy(t)
    <3>1. t.kind = "repair" /\ Len(t.todo) = 1 /\ m \in t.seen /\ m <= t.began
        BY <2>3 DEF RepairedBy
    <3>2. Sound(m) \/ \E i \in DOMAIN t.todo : InWindow(m, t.todo[i])
        BY <2>1, <3>1 DEF TaskInv, StillToRepair
    <3>3. CASE Sound(m)
        BY <2>1, <3>3 DEF Keeps, Sound
    <3>4. CASE \E i \in DOMAIN t.todo : InWindow(m, t.todo[i])
      <4>1. Head(t.todo) = t.todo[1] /\ \A i \in DOMAIN t.todo : i = 1
        <5>1. t.todo \in Seq(BackfillJobs) /\ DOMAIN t.todo = 1..Len(t.todo)
            BY TaskFields, LenProperties
        <5> QED
            BY <3>1, <5>1, FirstWindow
      <4>2. InWindow(m, Head(t.todo))
          BY <3>4, <4>1
      <4> QED
          BY <3>1, <4>2 DEF Sound
    <3> QED
        BY <3>2, <3>3, <3>4
  <2> QED
      BY <2>2, <2>3
<1> QED
    BY <1>2, <1>3 DEF RepairsTakeEffect

LEMMA StepDeleteFutureRows ==
    ASSUME IInv, NEW p \in Workers, DeleteFutureRows(p)
    PROVE  IInv'
<1> DEFINE t == task[p]
           w == Head(t.todo)
<1>1. /\ t.pc = "fetch" /\ t.kind = "repair" /\ w.lo > t.began
      /\ bars' = [m \in Minutes |-> IF m \in MinutesOf(w) THEN "none" ELSE bars[m]]
      /\ deleted' = deleted \union (Stored \intersect MinutesOf(w))
      /\ repaired' = repaired \union RepairedBy(t)
      /\ task' = [task EXCEPT ![p] = NextWindow(t)]
      /\ UNCHANGED <<now, gaps, jobs, boundVars, failed>>
    BY DEF DeleteFutureRows, ToDelete
<1>2. TaskInv(p) /\ t.todo # <<>> /\ t.began \in Int
    BY <1>1, TaskFields DEF IInv, TaskInv, HasWindow
<1>3. w.lo \in Int
    BY <1>2, FirstWindow DEF IInv
<1> HIDE DEF w
<1>4. Keeps
  <2>1. now <= now'
      BY <1>1, Numbers DEF IInv, Types
  <2>2. ASSUME NEW m \in Minutes \ deleted'
        PROVE  (Present(m) => Present(m)') /\ (Sound(m) => Sound(m)')
    <3>1. CASE m \in MinutesOf(w)
      <4>1. ~ Present(m)
          BY <1>1, <3>1 DEF Stored, Present
      <4>2. ~ Sound(m)
          BY <4>1 DEF Present, Sound
      <4> QED
          BY <4>1, <4>2
    <3>2. CASE m \notin MinutesOf(w)
        BY <1>1, <3>2 DEF Present, Sound
    <3> QED
        BY <3>1, <3>2
  <2> QED
      BY <1>1, <2>1, <2>2 DEF Keeps
<1>5. task'[p] = NextWindow(t) /\ task' = [task EXCEPT ![p] = task'[p]]
    BY <1>1, Replaced DEF IInv
<1>6. \A m \in (t.seen \intersect VenueMinutes) \ deleted' :
          m <= t.began /\ InWindow(m, w) => Sound(m)'
  <2>1. SUFFICES ASSUME NEW m \in VenueMinutes, m <= t.began, w.lo <= m
                 PROVE  FALSE
      BY DEF InWindow
  <2>2. m \in Int
      BY ConstantsAssumption, MinutesFacts
  <2> HIDE DEF t
  <2> QED
      BY <1>1, <1>2, <1>3, <2>1, <2>2
<1>7. now' \in Int
    BY <1>1, Numbers DEF IInv, Types
<1>8. TaskInv(p)'
    BY <1>2, <1>4, <1>5, <1>6, <1>7, GoesOn DEF IInv, w
<1>9. RepairsTakeEffect' /\ repaired' \subseteq Minutes
    BY <1>1, <1>2, <1>4, <1>6, RepairsTakeTheirEffect DEF IInv, w
<1>10. JobsFilledTheirGaps'
    BY <1>1, <1>4, GapsStayFilled DEF IInv
<1>11. Types'
  <2>1. NextWindow(t) \in Tasks /\ NextWindow(t).match \subseteq DOMAIN gaps
      BY <1>2, NextWindowFacts DEF IInv
  <2>2. task' \in [Workers -> Tasks] /\ \A q \in Workers : task'[q].match \subseteq DOMAIN gaps'
    <3>1. task' \in [Workers -> Tasks]
        BY <1>1, <2>1 DEF IInv, Types
    <3>2. ASSUME NEW q \in Workers
          PROVE  task'[q].match \subseteq DOMAIN gaps'
      <4>1. CASE q = p
          BY <1>1, <1>5, <2>1, <4>1
      <4>2. CASE q # p
          BY <1>1, <4>2 DEF IInv, Types
      <4> QED
          BY <4>1, <4>2
    <3> QED
        BY <3>1, <3>2
  <2>3. bars' \in [Minutes -> BarStates] /\ deleted' \subseteq Minutes
    <3>1. deleted' \subseteq Minutes
        BY <1>1 DEF Stored, IInv, Types
    <3>2. \A m \in Minutes : bars'[m] \in BarStates
        BY <1>1 DEF BarStates, IInv, Types
    <3> QED
        BY <1>1, <3>1, <3>2
  <2> QED
      BY <1>1, <1>9, <2>2, <2>3 DEF IInv, Types, boundVars
<1>12. \A q \in Workers \ {p} : task'[q] = task[q]
    BY <1>1 DEF IInv, Types
<1> QED
    BY <1>4, <1>8, <1>9, <1>10, <1>11, <1>12, OneWorker

LEMMA StepStoreWindow ==
    ASSUME IInv, NEW p \in Workers, StoreWindow(p)
    PROVE  IInv'
<1> DEFINE t == task[p]
           w == Head(t.todo)
           job == [lo |-> w.lo, hi |-> w.hi, at |-> t.at]
           n == Len(jobs)
           k == n + 1
           r == [t EXCEPT !.pc = "resolve", !.at = k]
<1>1. /\ t.pc = "store"
      /\ bars' = Upserted(t.fetched)
      /\ jobs' = Append(jobs, job)
      /\ repaired' = repaired \union RepairedBy(t)
      /\ task' = [task EXCEPT ![p] = IF w.gap # 0 THEN r ELSE NextWindow(t)]
      /\ UNCHANGED <<now, gaps, boundVars, failed, deleted>>
    BY DEF StoreWindow
<1>2. TaskInv(p) /\ t.todo # <<>> /\ t.began \in Int /\ t.at \in Int /\ t \in Tasks
      /\ t.fetched \subseteq Minutes \X {"partial", "final"} /\ t.match \subseteq DOMAIN gaps
    BY <1>1, TaskFields DEF IInv, TaskInv, HasWindow
<1>3. w.lo \in Int /\ w.hi \in Int /\ w.gap \in Nat /\ w = t.todo[1] /\ 1 \in DOMAIN t.todo
    BY <1>2, FirstWindow DEF IInv
<1>4. job \in JobRows /\ job.lo = w.lo /\ job.hi = w.hi /\ job.at = t.at
    BY <1>2, <1>3 DEF JobRows
<1> HIDE DEF job
<1>5. /\ n \in Nat /\ DOMAIN jobs = 1..n
      /\ jobs' \in Seq(JobRows) /\ DOMAIN jobs' = 1..k /\ Len(jobs') = k /\ jobs'[k] = job
      /\ \A i \in 1..n : jobs'[i] = jobs[i]
  <2>1. jobs \in Seq(JobRows) /\ n \in Nat /\ DOMAIN jobs = 1..n
      BY LenProperties DEF IInv, Types
  <2>2. /\ Append(jobs, job) \in Seq(JobRows) /\ DOMAIN Append(jobs, job) = 1..(Len(jobs) + 1)
        /\ Append(jobs, job)[Len(jobs) + 1] = job
        /\ \A i \in DOMAIN jobs : Append(jobs, job)[i] = jobs[i]
      BY <1>4, <2>1, AppendFacts
  <2>3. Len(Append(jobs, job)) = Len(jobs) + 1
      BY <1>4, <2>1
  <2> QED
      BY <1>1, <2>1, <2>2, <2>3
<1> HIDE DEF w
<1>6. /\ bars' \in [Minutes -> BarStates]
      /\ \A m \in Minutes :
             /\ (\E pair \in t.fetched : pair[1] = m) => bars'[m] \in {"partial", "final"}
             /\ bars'[m] = bars[m] \/ bars'[m] \in {"partial", "final"}
  <2>1. \A pair \in t.fetched : pair[2] \in {"partial", "final"}
      BY <1>2
  <2>2. bars \in [Minutes -> {"none", "partial", "final", "bad"}]
      BY DEF IInv, Types, BarStates
  <2> DEFINE rows == t.fetched
  <2> HIDE DEF rows
  <2>3. /\ Upserted(rows) \in [Minutes -> {"none", "partial", "final", "bad"}]
        /\ \A m \in Minutes :
               /\ (\E pair \in rows : pair[1] = m) => Upserted(rows)[m] \in {"partial", "final"}
               /\ Upserted(rows)[m] = bars[m] \/ Upserted(rows)[m] \in {"partial", "final"}
    <3>1. \A pair \in rows : pair[2] \in {"partial", "final"}
        BY <2>1 DEF rows
    <3> QED
        BY <2>2, <3>1, UpsertedFacts
  <2> QED
      BY <1>1, <2>3 DEF rows, BarStates
<1> HIDE DEF n
<1>7. n \in Int /\ k \in Nat /\ k # 0 /\ n <= k /\ k \in 1..k /\ 1..n \subseteq 1..k
    BY <1>5
<1> HIDE DEF k
<1>8. Keeps
  <2>1. now <= now'
      BY <1>1, Numbers DEF IInv, Types
  <2>2. ASSUME NEW m \in Minutes
        PROVE  (Present(m) => Present(m)') /\ (Sound(m) => Sound(m)')
      BY <1>6 DEF Present, Sound
  <2>3. \A i \in DOMAIN jobs : i \in DOMAIN jobs' /\ jobs'[i] = jobs[i]
      BY <1>5, <1>7
  <2> QED
      BY <1>1, <2>1, <2>2, <2>3 DEF Keeps
<1>9. \A m \in VenueMinutes : InWindow(m, w) /\ m <= t.at => Sound(m)'
  <2>1. SUFFICES ASSUME NEW m \in VenueMinutes, InWindow(m, w), m <= t.at
                 PROVE  Sound(m)'
      OBVIOUS
  <2>2. \E pair \in t.fetched : pair[1] = m
      BY <1>1, <1>2, <2>1 DEF TaskInv, Fetched, w
  <2>3. m \in Minutes
      BY ConstantsAssumption
  <2> QED
      BY <1>6, <2>2, <2>3 DEF Sound
<1>10. now' \in Int
    BY <1>1, Numbers DEF IInv, Types
<1>11. t.kind = "repair" =>
           /\ w.gap = 0
           /\ \A m \in (t.seen \intersect VenueMinutes) \ deleted' :
                  m <= t.began /\ InWindow(m, w) => Sound(m)'
  <2>1. SUFFICES ASSUME t.kind = "repair"
                 PROVE  /\ w.gap = 0
                        /\ \A m \in (t.seen \intersect VenueMinutes) \ deleted' :
                               m <= t.began /\ InWindow(m, w) => Sound(m)'
      OBVIOUS
  <2>2. w.gap = 0 /\ t.began <= t.at
      BY <1>1, <1>2, <1>3, <2>1 DEF TaskInv, StillToRepair
  <2>3. ASSUME NEW m \in VenueMinutes, m <= t.began, InWindow(m, w)
        PROVE  Sound(m)'
    <3>1. m \in Int
        BY ConstantsAssumption, MinutesFacts
    <3>2. m <= t.at
      <4> HIDE DEF t
      <4> QED
          BY <1>2, <2>2, <2>3, <3>1
    <3> QED
        BY <1>9, <2>3, <3>2
  <2> QED
      BY <2>2, <2>3
<1>12. RepairsTakeEffect' /\ repaired' \subseteq Minutes
    BY <1>1, <1>2, <1>8, <1>11, RepairsTakeTheirEffect DEF IInv, w
<1>13. JobsFilledTheirGaps'
    BY <1>1, <1>8, GapsStayFilled DEF IInv
<1>14. TaskInv(p)' /\ task'[p] \in Tasks /\ task'[p].match \subseteq DOMAIN gaps
  <2>1. CASE w.gap = 0
    <3>1. task'[p] = NextWindow(t)
        BY <1>1, <2>1, Replaced DEF IInv
    <3>2. TaskInv(p)'
        BY <1>2, <1>8, <1>10, <1>11, <3>1, GoesOn DEF IInv, w
    <3>3. NextWindow(t) \in Tasks /\ NextWindow(t).match \subseteq DOMAIN gaps
        BY <1>2, NextWindowFacts DEF IInv
    <3> QED
        BY <3>1, <3>2, <3>3
  <2>2. CASE w.gap # 0
    <3>1. task'[p] = r
        BY <1>1, <2>2, Replaced DEF IInv
    <3>2. t.kind # "repair"
        BY <1>11, <2>2
    <3>3. /\ w.gap \in DOMAIN gaps /\ gaps[w.gap].lo = w.lo /\ gaps[w.gap].hi = w.hi
          /\ \A i \in DOMAIN t.todo :
                 t.todo[i].gap # 0 =>
                     /\ t.todo[i].gap \in DOMAIN gaps
                     /\ gaps[t.todo[i].gap].lo = t.todo[i].lo /\ gaps[t.todo[i].gap].hi = t.todo[i].hi
        BY <1>2, <1>3, <2>2 DEF TaskInv, NamesItsGaps
    <3>4. w = Head(t.todo)
        BY DEF w
    <3> HIDE DEF t
    <3>5. /\ r \in Tasks /\ r.match = t.match /\ r.pc = "resolve" /\ r.kind = t.kind
          /\ r.todo = t.todo /\ r.at = k
      <4>1. t \in Tasks
          BY <1>2
      <4>2. k \in Int
          BY <1>7
      <4> QED
          BY <4>1, <4>2 DEF Tasks, Steps
    <3> HIDE DEF r
    <3>6. HasWindow(p)' /\ Fetched(p)' /\ StillToRepair(p)' /\ SeesRows(p)'
        BY <1>2, <3>1, <3>2, <3>5 DEF HasWindow, Fetched, StillToRepair, SeesRows
    <3>7. NamesItsGaps(p)'
        BY <1>1, <3>1, <3>3, <3>5 DEF NamesItsGaps
    <3>8. Filled(p)'
      <4>1. k \in DOMAIN jobs' /\ jobs'[k] = job
          BY <1>5, <1>7
      <4>2. \A m \in VenueMinutes \ deleted' : InWindow(m, w) /\ m <= job.at => Present(m)'
          BY <1>4, <1>9 DEF Sound, Present, t
      <4> QED
          BY <1>4, <2>2, <3>1, <3>4, <3>5, <4>1, <4>2 DEF Filled, InWindow
    <3> QED
        BY <1>2, <3>1, <3>5, <3>6, <3>7, <3>8 DEF TaskInv
  <2> QED
      BY <2>1, <2>2
<1>15. \A q \in Workers \ {p} : task'[q] = task[q]
    BY <1>1 DEF IInv, Types
<1>16. Types'
  <2>1. task' \in [Workers -> Tasks]
    <3>1. task' = [task EXCEPT ![p] = task'[p]]
        BY <1>1, Replaced DEF IInv
    <3> QED
        BY <1>14, <3>1 DEF IInv, Types
  <2>2. \A q \in Workers : task'[q].match \subseteq DOMAIN gaps'
      BY <1>1, <1>14, <1>15 DEF IInv, Types
  <2>3. \A i \in DOMAIN gaps' : gaps'[i].job <= Len(jobs')
    <3>1. SUFFICES ASSUME NEW i \in DOMAIN gaps
                   PROVE  gaps[i].job <= Len(jobs')
        BY <1>1
    <3> DEFINE j == gaps[i].job
    <3>2. gaps[i] \in GapRows /\ j <= n
        BY DEF IInv, Types, n
    <3>3. j \in Int
        BY <3>2 DEF GapRows
    <3> HIDE DEF j
    <3>4. j <= k
        BY <1>7, <3>2, <3>3
    <3> QED
        BY <1>5, <3>4 DEF j
  <2> QED
      BY <1>1, <1>5, <1>6, <1>12, <2>1, <2>2, <2>3 DEF IInv, Types, boundVars
<1> QED
    BY <1>8, <1>12, <1>13, <1>14, <1>15, <1>16, OneWorker

LEMMA StepResolveGap ==
    ASSUME IInv, NEW p \in Workers, ResolveGap(p)
    PROVE  IInv'
<1> DEFINE t == task[p]
           w == Head(t.todo)
           id == w.gap
           k == t.at
<1>1. /\ t.pc = "resolve"
      /\ gaps' = [gaps EXCEPT ![id].status = "resolved", ![id].job = k]
      /\ task' = [task EXCEPT ![p] = NextWindow(t)]
      /\ UNCHANGED <<now, bars, jobs, boundVars, histVars>>
    BY DEF ResolveGap, ResolveBy
<1>2. TaskInv(p) /\ t.todo # <<>>
    BY <1>1, TaskFields DEF IInv, TaskInv, HasWindow
<1>3. /\ id # 0 /\ k \in DOMAIN jobs /\ jobs[k].lo = w.lo /\ jobs[k].hi = w.hi
      /\ \A m \in VenueMinutes \ deleted : InWindow(m, w) /\ m <= jobs[k].at => Present(m)
    BY <1>1, <1>2 DEF TaskInv, Filled
<1>4. id \in DOMAIN gaps /\ gaps[id].lo = w.lo /\ gaps[id].hi = w.hi
  <2>1. w = t.todo[1] /\ 1 \in DOMAIN t.todo
      BY <1>2, FirstWindow DEF IInv
  <2> QED
      BY <1>2, <1>3, <2>1 DEF TaskInv, NamesItsGaps
<1>5. k \in Nat /\ k <= Len(jobs)
  <2>1. DOMAIN jobs = 1..Len(jobs) /\ Len(jobs) \in Nat
      BY LenProperties DEF IInv, Types
  <2> HIDE DEF k
  <2> QED
      BY <1>3, <2>1
<1> HIDE DEF id, k, w
<1>6. /\ gaps \in Seq(GapRows) /\ DOMAIN gaps = 1..Len(gaps) /\ Len(gaps) \in Nat
      /\ \A i \in DOMAIN gaps : gaps[i] \in GapRows /\ gaps[i].job <= Len(jobs)
    BY LenProperties DEF IInv, Types
<1>7. /\ DOMAIN gaps' = DOMAIN gaps
      /\ \A i \in DOMAIN gaps : i # id => gaps'[i] = gaps[i]
      /\ gaps'[id] = [gaps[id] EXCEPT !.status = "resolved", !.job = k]
    BY <1>1, <1>4
<1> DEFINE new == [gaps[id] EXCEPT !.status = "resolved", !.job = k]
<1>8. /\ new \in GapRows /\ new.lo = gaps[id].lo /\ new.hi = gaps[id].hi /\ new.job = k
  <2> DEFINE g == gaps[id]
  <2>1. g \in GapRows
      BY <1>4, <1>6
  <2> HIDE DEF g
  <2>2. [g EXCEPT !.status = "resolved", !.job = k] \in GapRows
      BY <1>5, <2>1 DEF GapRows
  <2>3. /\ [g EXCEPT !.status = "resolved", !.job = k].lo = g.lo
        /\ [g EXCEPT !.status = "resolved", !.job = k].hi = g.hi
        /\ [g EXCEPT !.status = "resolved", !.job = k].job = k
      BY <2>1 DEF GapRows
  <2> QED
      BY <2>2, <2>3 DEF g
<1>9. gaps'[id] = new
    BY <1>7
<1> HIDE DEF new
<1>10. gaps' \in Seq(GapRows) /\ \A i \in DOMAIN gaps' : gaps'[i].job <= Len(jobs')
  <2>1. \A i \in DOMAIN gaps : gaps'[i] \in GapRows /\ gaps'[i].job <= Len(jobs)
      BY <1>5, <1>6, <1>7, <1>8, <1>9
  <2> DEFINE m == Len(gaps)
  <2>2. m \in Nat /\ DOMAIN gaps = 1..m
      BY <1>6
  <2> HIDE DEF m
  <2>3. gaps' = [i \in 1..m |-> gaps'[i]]
      BY <1>1, <2>2
  <2>4. gaps' \in [1..m -> GapRows]
      BY <2>1, <2>2, <2>3
  <2>5. gaps' \in Seq(GapRows)
      BY <2>2, <2>4, SequenceOfFunction
  <2> QED
      BY <1>1, <1>7, <2>1, <2>5
<1>11. Keeps
  <2>1. now <= now'
      BY <1>1, Numbers DEF IInv, Types
  <2>2. \A i \in DOMAIN gaps : gaps'[i].lo = gaps[i].lo /\ gaps'[i].hi = gaps[i].hi
      BY <1>7, <1>8, <1>9
  <2> QED
      BY <1>1, <1>7, <2>1, <2>2 DEF Keeps, Present, Sound, histVars
<1>12. task'[p] = NextWindow(t)
    BY <1>1, Replaced DEF IInv
<1>13. now' \in Int
    BY <1>1, Numbers DEF IInv, Types
<1>14. t.kind # "repair"
    BY <1>1, <1>2 DEF TaskInv, StillToRepair
<1>15. TaskInv(p)'
    BY <1>2, <1>11, <1>12, <1>13, <1>14, GoesOn DEF IInv
<1>16. RepairsTakeEffect'
    BY <1>1, <1>11, RepairsStay DEF IInv, histVars
<1>17. JobsFilledTheirGaps'
  <2>1. SUFFICES ASSUME NEW i \in DOMAIN gaps, gaps'[i].job # 0
                 PROVE  /\ gaps'[i].lo = jobs[gaps'[i].job].lo /\ gaps'[i].hi = jobs[gaps'[i].job].hi
                        /\ \A m \in VenueMinutes \ deleted :
                               InWindow(m, gaps'[i]) /\ m <= jobs[gaps'[i].job].at => Present(m)
      BY <1>1, <1>7 DEF JobsFilledTheirGaps, InWindow, Present, histVars
  <2>2. CASE i = id
      BY <1>3, <1>4, <1>8, <1>9, <2>2 DEF InWindow
  <2>3. CASE i # id
    <3>1. gaps'[i] = gaps[i]
        BY <1>7, <2>3
    <3> QED
        BY <2>1, <3>1 DEF IInv, JobsFilledTheirGaps
  <2> QED
      BY <2>2, <2>3
<1>18. \A q \in Workers \ {p} : task'[q] = task[q]
    BY <1>1 DEF IInv, Types
<1>19. Types'
  <2>1. NextWindow(t) \in Tasks /\ NextWindow(t).match \subseteq DOMAIN gaps
      BY <1>2, NextWindowFacts DEF IInv
  <2>2. task' \in [Workers -> Tasks]
      BY <1>1, <2>1 DEF IInv, Types
  <2>3. \A q \in Workers : task'[q].match \subseteq DOMAIN gaps'
      BY <1>7, <1>12, <1>18, <2>1 DEF IInv, Types
  <2> QED
      BY <1>1, <1>10, <2>2, <2>3 DEF IInv, Types, boundVars, histVars
<1> QED
    BY <1>11, <1>15, <1>16, <1>17, <1>18, <1>19, OneWorker

LEMMA StepWriteGaps ==
    ASSUME IInv, NEW p \in Workers, WriteGaps(p)
    PROVE  IInv'
<1> DEFINE t == task[p]
           found == SegmentsFound(t)
           n == Len(gaps)
           l == Len(found)
           old == ResolveAll(gaps, t.match)
           new == [i \in DOMAIN found |-> OpenGap(found[i])]
           r == [t EXCEPT !.pc = "list"]
<1>1. /\ t.pc = "write" /\ gaps' = old \o new
      /\ task' = [task EXCEPT ![p] = IF t.kind = "remediate" THEN r ELSE Idle]
      /\ UNCHANGED <<now, bars, jobs, boundVars, histVars>>
    BY DEF WriteGaps
<1>2. TaskInv(p) /\ t \in Tasks /\ t.seen \in SUBSET Minutes /\ t.win \in Ends
      /\ t.match \subseteq DOMAIN gaps
    BY TaskFields DEF IInv
<1>3. gaps \in Seq(GapRows) /\ DOMAIN gaps = 1..n /\ n \in Nat
      /\ \A i \in 1..n : gaps[i] \in GapRows /\ gaps[i].job <= Len(jobs)
    BY LenProperties DEF IInv, Types
<1>4. found \in Seq(Segments)
    BY <1>2, SegmentsFoundFacts
<1> HIDE DEF found
<1>5. l \in Nat /\ DOMAIN found = 1..l /\ \A i \in 1..l : found[i] \in Segments
    BY <1>4, LenProperties, ElementOfSeq
<1> HIDE DEF n, l
<1>6. /\ old \in Seq(GapRows) /\ Len(old) = n /\ DOMAIN old = 1..n
      /\ \A i \in 1..n : old[i].lo = gaps[i].lo /\ old[i].hi = gaps[i].hi /\ old[i].job = gaps[i].job
  <2> DEFINE row(i) == IF i \in t.match /\ gaps[i].status = "open"
                       THEN [gaps[i] EXCEPT !.status = "resolved"] ELSE gaps[i]
  <2>1. old = [i \in 1..n |-> row(i)]
      BY <1>3 DEF ResolveAll
  <2>2. ASSUME NEW i \in 1..n
        PROVE  /\ row(i) \in GapRows /\ row(i).lo = gaps[i].lo
               /\ row(i).hi = gaps[i].hi /\ row(i).job = gaps[i].job
    <3> DEFINE g == gaps[i]
    <3>1. g \in GapRows
        BY <1>3
    <3> HIDE DEF g
    <3>2. [g EXCEPT !.status = "resolved"] \in GapRows
        BY <3>1 DEF GapRows
    <3>3. /\ [g EXCEPT !.status = "resolved"].lo = g.lo /\ [g EXCEPT !.status = "resolved"].hi = g.hi
          /\ [g EXCEPT !.status = "resolved"].job = g.job
        BY <3>1 DEF GapRows
    <3> QED
        BY <3>1, <3>2, <3>3 DEF g
  <2> HIDE DEF row, old
  <2>3. old \in [1..n -> GapRows]
      BY <2>1, <2>2
  <2>4. old \in Seq(GapRows) /\ Len(old) = n /\ DOMAIN old = 1..n
      BY <1>3, <2>3, SequenceOfFunction
  <2> QED
      BY <2>1, <2>2, <2>4
<1>7. /\ new \in Seq(GapRows) /\ Len(new) = l /\ DOMAIN new = 1..l
      /\ \A i \in 1..l : new[i].job = 0
  <2>1. ASSUME NEW i \in 1..l
        PROVE  OpenGap(found[i]) \in GapRows /\ OpenGap(found[i]).job = 0
    <3> DEFINE s == found[i]
    <3>1. s.lo \in Int /\ s.hi \in Int
        BY <1>5 DEF Segments
    <3> HIDE DEF s
    <3>2. OpenGap(s) \in GapRows /\ OpenGap(s).job = 0
        BY <3>1 DEF OpenGap, GapRows
    <3> QED
        BY <3>2 DEF s
  <2>2. new = [i \in 1..l |-> OpenGap(found[i])]
      BY <1>5
  <2> HIDE DEF new
  <2>3. new \in [1..l -> GapRows]
      BY <2>1, <2>2
  <2>4. new \in Seq(GapRows) /\ Len(new) = l /\ DOMAIN new = 1..l
      BY <1>5, <2>3, SequenceOfFunction
  <2> QED
      BY <2>1, <2>2, <2>4
<1> HIDE DEF old, new
<1>8. /\ gaps' \in Seq(GapRows) /\ DOMAIN gaps' = 1..(n + l)
      /\ \A i \in 1..n : i \in 1..(n + l) /\ gaps'[i] = old[i]
      /\ \A i \in 1..(n + l) : i \in 1..n \/ gaps'[i].job = 0
  <2>1. /\ old \o new \in Seq(GapRows)
        /\ Len(old \o new) = n + l
        /\ \A i \in 1..(n + l) : (old \o new)[i] = IF i <= n THEN old[i] ELSE new[i - n]
    <3>1. /\ old \o new \in Seq(GapRows) /\ Len(old \o new) = Len(old) + Len(new)
          /\ \A i \in 1 .. Len(old) + Len(new) :
                 (old \o new)[i] = IF i <= Len(old) THEN old[i] ELSE new[i - Len(old)]
        BY <1>6, <1>7, ConcatProperties
    <3> QED
        BY <1>6, <1>7, <3>1
  <2> DEFINE both == old \o new
  <2>2. DOMAIN both = 1..(n + l)
    <3>1. both \in Seq(GapRows) /\ Len(both) = n + l
        BY <2>1
    <3> HIDE DEF both
    <3> QED
        BY <3>1, LenProperties
  <2>3. ASSUME NEW i \in 1..n
        PROVE  i \in 1..(n + l) /\ both[i] = old[i]
    <3>1. i \in 1..(n + l) /\ i <= n
        BY <1>3, <1>5
    <3> QED
        BY <2>1, <3>1
  <2>4. ASSUME NEW i \in 1..(n + l), i \notin 1..n
        PROVE  both[i].job = 0
    <3>1. ~ (i <= n) /\ i - n \in 1..l
        BY <1>3, <1>5, <2>4
    <3> DEFINE j == i - n
    <3>2. both[i] = new[j] /\ j \in 1..l
        BY <2>1, <3>1
    <3> HIDE DEF j
    <3> QED
        BY <1>7, <3>2
  <2> QED
      BY <1>1, <2>1, <2>2, <2>3, <2>4
<1>9. Keeps
  <2>1. now <= now'
      BY <1>1, Numbers DEF IInv, Types
  <2>2. \A i \in DOMAIN gaps : i \in DOMAIN gaps' /\ gaps'[i].lo = gaps[i].lo /\ gaps'[i].hi = gaps[i].hi
      BY <1>3, <1>6, <1>8
  <2> QED
      BY <1>1, <2>1, <2>2 DEF Keeps, Present, Sound, histVars
<1>10. \A i \in DOMAIN gaps' : \/ gaps'[i].job = 0
                               \/ i \in DOMAIN gaps /\ gaps'[i].job = gaps[i].job
    BY <1>3, <1>6, <1>8
<1>11. JobsFilledTheirGaps' /\ RepairsTakeEffect'
  <2>1. repaired' = repaired
      BY <1>1 DEF histVars
  <2> QED
      BY <1>9, <1>10, <2>1, GapsStayFilled, RepairsStay DEF IInv
<1>12. TaskInv(p)' /\ task'[p] \in Tasks /\ task'[p].match \subseteq DOMAIN gaps
  <2>1. CASE t.kind = "remediate"
    <3>1. task'[p] = r
        BY <1>1, <2>1, Replaced DEF IInv
    <3>2. r \in Tasks /\ r.match = t.match /\ r.pc = "list" /\ r.kind = t.kind /\ r.todo = t.todo
      <4>1. t \in Tasks
          BY <1>2
      <4> HIDE DEF t
      <4> QED
          BY <4>1 DEF Tasks, Steps
    <3> HIDE DEF r
    <3>3. HasWindow(p)' /\ Fetched(p)' /\ Filled(p)' /\ StillToRepair(p)' /\ SeesRows(p)'
        BY <2>1, <3>1, <3>2 DEF HasWindow, Fetched, Filled, StillToRepair, SeesRows
    <3>4. NamesItsGaps(p)
        BY <1>2 DEF TaskInv
    <3>5. NamesItsGaps(p)'
        BY <1>9, <3>1, <3>2, <3>4 DEF NamesItsGaps, Keeps
    <3> QED
        BY <1>2, <3>1, <3>2, <3>3, <3>5 DEF TaskInv
  <2>2. CASE t.kind # "remediate"
    <3>1. task'[p] = Idle
        BY <1>1, <2>2, Replaced DEF IInv
    <3>2. TaskInv(p)'
        BY <3>1, IdleFacts DEF TaskInv, HasWindow, NamesItsGaps, Fetched, Filled, StillToRepair,
                               SeesRows, Idle
    <3> QED
        BY <3>1, <3>2, IdleFacts
  <2> QED
      BY <2>1, <2>2
<1>13. \A q \in Workers \ {p} : task'[q] = task[q]
    BY <1>1 DEF IInv, Types
<1>14. Types'
  <2>1. task' \in [Workers -> Tasks]
    <3>1. task' = [task EXCEPT ![p] = task'[p]]
        BY <1>1, Replaced DEF IInv
    <3> QED
        BY <1>12, <3>1 DEF IInv, Types
  <2>2. \A i \in DOMAIN gaps : i \in DOMAIN gaps'
      BY <1>9 DEF Keeps
  <2>3. \A q \in Workers : task'[q].match \subseteq DOMAIN gaps'
      BY <1>12, <1>13, <2>2 DEF IInv, Types
  <2>4. \A i \in DOMAIN gaps' : gaps'[i].job <= Len(jobs')
    <3>1. Len(jobs') = Len(jobs) /\ Len(jobs) \in Nat
        BY <1>1, LenProperties DEF IInv, Types
    <3> QED
        BY <1>3, <1>10, <3>1
  <2> QED
      BY <1>1, <1>8, <2>1, <2>3, <2>4 DEF IInv, Types, boundVars, histVars
<1> QED
    BY <1>9, <1>11, <1>12, <1>13, <1>14, OneWorker

-----------------------------------------------------------------------------
(* Theorems *)

LEMMA InitEstablishes ==
    ASSUME Init
    PROVE  IInv
<1>1. /\ now = StartTime /\ bars \in StoredAtStart /\ gaps = <<>> /\ jobs = <<>>
      /\ task = [q \in Workers |-> Idle]
      /\ started = 0 /\ troubles = 0 /\ failed = 0 /\ deleted = {} /\ repaired = {}
    BY DEF Init
<1>2. DOMAIN gaps = {} /\ gaps \in Seq(GapRows) /\ jobs \in Seq(JobRows)
    BY <1>1
<1>3. Types
  <2>1. now \in StartTime..EndTime
      BY <1>1, Numbers
  <2>2. bars \in [Minutes -> BarStates]
      BY <1>1, ConstantsAssumption DEF BarStates
  <2>3. task \in [Workers -> Tasks] /\ \A q \in Workers : task[q].match = {}
      BY <1>1, IdleFacts
  <2>4. started \in 0..MaxTasks /\ troubles \in 0..MaxTroubles /\ failed \in 0..troubles
      BY <1>1, Numbers
  <2> QED
      BY <1>1, <1>2, <2>1, <2>2, <2>3, <2>4 DEF Types
<1>4. JobsFilledTheirGaps /\ RepairsTakeEffect
    BY <1>1, <1>2 DEF JobsFilledTheirGaps, RepairsTakeEffect
<1>5. \A q \in Workers : TaskInv(q)
    BY <1>1, IdleFacts
<1> QED
    BY <1>3, <1>4, <1>5 DEF IInv

LEMMA StepKeeps ==
    ASSUME IInv, [Next]_vars
    PROVE  IInv'
<1>1. CASE UNCHANGED vars
    BY <1>1 DEF vars, dbVars, boundVars, histVars, IInv, Types, JobsFilledTheirGaps,
       RepairsTakeEffect, TaskInv, HasWindow, NamesItsGaps, Fetched, Filled, StillToRepair,
       SeesRows, Present, Sound, InWindow
<1>2. CASE Tick
    BY <1>2, StepTick
<1>3. ASSUME NEW p \in Workers,
             \/ StartRecheck(p) \/ StartValidate(p) \/ StartRemediation(p)
             \/ MatchOpenGaps(p) \/ WriteGaps(p) \/ ListGaps(p)
             \/ StartBackfill(p) \/ StartRepair(p) \/ DeleteFutureRows(p)
             \/ FetchWindow(p) \/ StoreWindow(p) \/ BackfillFails(p) \/ ResolveGap(p)
             \/ Abort(p)
      PROVE  IInv'
  <2>1. ASSUME NEW w \in Windows
        PROVE  w \in Ends
      BY ConstantsAssumption DEF Ends
  <2>2. CASE StartRecheck(p)
      BY <2>1, <2>2, StepStartCheck DEF StartRecheck
  <2>3. CASE StartValidate(p)
      BY <2>1, <2>3, StepStartCheck DEF StartValidate
  <2>4. CASE StartRemediation(p)
    <3>1. Window(now - Lookback, now) \in Ends
        BY Numbers DEF Window, Ends, IInv, Types
    <3> QED
        BY <2>4, <3>1, StepStartCheck DEF StartRemediation
  <2> QED
      BY <1>3, <2>2, <2>3, <2>4, StepMatchOpenGaps, StepWriteGaps, StepListGaps,
         StepStartBackfill, StepStartRepair, StepDeleteFutureRows, StepFetchWindow,
         StepStoreWindow, StepBackfillFails, StepResolveGap, StepAbort
<1> QED
    BY <1>1, <1>2, <1>3 DEF Next

LEMMA Invariance == Spec => []IInv
<1>1. Init => IInv
    BY InitEstablishes
<1>2. IInv /\ [Next]_vars => IInv'
    BY StepKeeps
<1> QED
    BY <1>1, <1>2, PTL DEF Spec

\* The types of the tables and of what each worker is doing.
THEOREM TypesHold == Spec => []TypeOK
<1>1. IInv => TypeOK
  <2>1. SUFFICES ASSUME IInv
                 PROVE  TypeOK
      OBVIOUS
  <2> DEFINE n == Len(gaps)
             k == Len(jobs)
             rows == [lo : Int, hi : Int, status : {"open", "resolved"}, job : 0..k]
  <2>2. n \in Nat /\ k \in Nat /\ DOMAIN gaps = 1..n /\ gaps = [i \in 1..n |-> gaps[i]]
      BY <2>1, LenProperties DEF IInv, Types
  <2>3. ASSUME NEW i \in 1..n
        PROVE  gaps[i] \in rows
    <3> DEFINE g == gaps[i]
    <3>1. g \in GapRows /\ g.job <= k
        BY <2>1, <2>2 DEF IInv, Types
    <3> HIDE DEF g, k
    <3> QED
        BY <2>2, <3>1 DEF GapRows, g
  <2> HIDE DEF n, rows
  <2>4. gaps \in [1..n -> rows]
      BY <2>2, <2>3
  <2>5. gaps \in Seq(rows)
      BY <2>2, <2>4, SequenceOfFunction
  <2>6. failed \in 0..MaxTroubles
      BY <2>1, Numbers DEF IInv, Types
  <2>7. ASSUME NEW q \in Workers
        PROVE  /\ task[q].kind \in Kinds
               /\ task[q].pc \in {"idle", "match", "write", "list", "fetch", "store", "resolve"}
               /\ task[q].seen \subseteq Minutes
               /\ task[q].match \subseteq DOMAIN gaps
      BY <2>1, TaskFields DEF IInv, Steps
  <2> QED
      BY <2>1, <2>5, <2>6, <2>7 DEF IInv, Types, TypeOK, BarStates, JobRows, rows
<1> QED
    BY <1>1, Invariance, PTL

\* A gap that names a backfill job was filled by it, whatever else ran, failed
\* or died meanwhile (startup_remediation.py:88-100).
THEOREM GapsAreFilled == Spec => []ResolvedGapsAreFilled
<1>1. IInv => ResolvedGapsAreFilled
    BY DEF IInv, JobsFilledTheirGaps, ResolvedGapsAreFilled, MinutesOf, Within, InWindow, Present
<1> QED
    BY <1>1, Invariance, PTL

\* The past minutes that a finished repair had found missing or corrupt are
\* sound where the venue has them (integrity_repair_control.py:40-88).
THEOREM RepairsWork == Spec => []RepairsTakeEffect
<1>1. IInv => RepairsTakeEffect
    BY DEF IInv
<1> QED
    BY <1>1, Invariance, PTL

\* A gap check that commits leaves every missing minute of its window among the
\* open gaps, whatever ran since its SELECT (data_quality.py:1189-1312).
LEMMA MissingIsListed ==
    ASSUME IInv, NEW p \in Workers, WriteGaps(p), task[p].kind # "validate",
           NEW m \in MinutesOf(task[p].win) \ deleted, bars[m] = "none"
    PROVE  m \in Listed'
<1> DEFINE t == task[p]
           found == SegmentsFound(t)
           old == ResolveAll(gaps, t.match)
           new == [i \in DOMAIN found |-> OpenGap(found[i])]
<1>1. t.pc = "write" /\ gaps' = old \o new
    BY DEF WriteGaps
<1>2. TaskInv(p) /\ t.seen \in SUBSET Minutes /\ t.win \in Ends
    BY TaskFields DEF IInv
<1>3. m \in Minutes /\ m \notin t.seen
  <2>1. m \in Minutes
      BY DEF MinutesOf, Within
  <2> QED
      BY <1>1, <1>2, <2>1 DEF TaskInv, SeesRows, Present
<1>4. PICK i \in DOMAIN found : found[i].lo <= m /\ m <= found[i].hi
    BY <1>2, <1>3, SegmentsFoundFacts
<1>5. found \in Seq(Segments)
    BY <1>2, SegmentsFoundFacts
<1> HIDE DEF found
<1> DEFINE n == Len(gaps)
           l == Len(found)
           j == n + i
<1>6. n \in Nat /\ DOMAIN gaps = 1..n /\ l \in Nat /\ DOMAIN found = 1..l
    BY <1>5, LenProperties DEF IInv, Types
<1> HIDE DEF n, l
<1>7. old \in Seq(GapRows) /\ Len(old) = n
  <2>1. gaps \in Seq(GapRows) /\ \A h \in 1..n : gaps[h] \in GapRows
      BY <1>6 DEF IInv, Types
  <2> DEFINE row(h) == IF h \in t.match /\ gaps[h].status = "open"
                       THEN [gaps[h] EXCEPT !.status = "resolved"] ELSE gaps[h]
  <2>2. old = [h \in 1..n |-> row(h)]
      BY <1>6 DEF ResolveAll
  <2>3. ASSUME NEW h \in 1..n
        PROVE  row(h) \in GapRows
    <3> DEFINE g == gaps[h]
    <3>1. g \in GapRows
        BY <2>1
    <3> HIDE DEF g
    <3>2. [g EXCEPT !.status = "resolved"] \in GapRows
        BY <3>1 DEF GapRows
    <3> QED
        BY <3>1, <3>2 DEF g
  <2> HIDE DEF row, old
  <2>4. old \in [1..n -> GapRows]
      BY <2>2, <2>3
  <2> QED
      BY <1>6, <2>4, SequenceOfFunction
<1>8. new \in Seq(GapRows) /\ new[i] = OpenGap(found[i]) /\ DOMAIN new = DOMAIN found
  <2>1. ASSUME NEW h \in 1..l
        PROVE  OpenGap(found[h]) \in GapRows
    <3> DEFINE s == found[h]
    <3>1. s \in Segments
        BY <1>5, <1>6
    <3>2. s.lo \in Int /\ s.hi \in Int
        BY <3>1 DEF Segments
    <3> HIDE DEF s
    <3>3. OpenGap(s) \in GapRows
        BY <3>2 DEF OpenGap, GapRows
    <3> QED
        BY <3>3 DEF s
  <2>2. new = [h \in 1..l |-> OpenGap(found[h])] /\ new[i] = OpenGap(found[i]) /\ DOMAIN new = DOMAIN found
      BY <1>6
  <2> HIDE DEF new
  <2>3. new \in [1..l -> GapRows]
      BY <2>1, <2>2
  <2> QED
      BY <1>6, <2>2, <2>3, SequenceOfFunction
<1> HIDE DEF old, new
<1>9. j \in DOMAIN gaps' /\ gaps'[j] = OpenGap(found[i])
    BY <1>1, <1>7, <1>8, ConcatenationKeeps
<1> HIDE DEF j
<1>10. gaps'[j].status = "open" /\ gaps'[j].lo <= m /\ m <= gaps'[j].hi
    BY <1>4, <1>9 DEF OpenGap
<1>11. j \in OpenGaps' /\ m \in MinutesOf(gaps'[j])
    BY <1>3, <1>9, <1>10 DEF OpenGaps, MinutesOf, Within
<1> QED
    BY <1>11 DEF Listed

\* The action property that the check's window is kept in the list.
THEOREM WindowsAreKept == Spec => ChecksKeepTheirWindow
<1> DEFINE Kept == \A p \in Workers :
                       WriteGaps(p) /\ task[p].kind # "validate" =>
                           \A m \in (Listed \ deleted) \intersect MinutesOf(task[p].win) :
                               bars[m] = "none" => m \in Listed'
<1>1. IInv => Kept
    BY MissingIsListed
<1>2. ChecksKeepTheirWindow <=> [][Kept]_vars
    BY DEF ChecksKeepTheirWindow
<1> HIDE DEF Kept
<1> QED
    BY <1>1, <1>2, Invariance, PTL

-----------------------------------------------------------------------------
(* The validation report *)

\* The aligned window of a request is a grid of minutes.
LEMMA AlignedMinutes ==
    ASSUME NEW window \in Windows
    PROVE  LET w == AlignWindow(window, 2)
           IN  /\ w = Window(w.lo, w.hi) /\ w \in Ends
               /\ w.lo \in Int /\ w.hi \in Int /\ w.lo % 2 = 0 /\ w.hi % 2 = 0
               /\ MinutesOf(w) = GridOf(w.lo, w.hi, 2)
<1> DEFINE l == CeilTo(window.lo, 2)
           h == FloorTo(window.hi, 2)
           w == AlignWindow(window, 2)
<1>1. window.lo \in Int /\ window.hi \in Int /\ 0 <= window.lo /\ window.hi <= LastMinute
      /\ 2 \in Nat \ {0}
    BY ConstantsAssumption
<1>2. l \in Int /\ l >= window.lo /\ l % 2 = 0
    BY <1>1, CeilToFacts
<1>3. h \in Int /\ h <= window.hi /\ h % 2 = 0
    BY <1>1, FloorToFacts
<1>4. w = Window(l, h)
    BY DEF AlignWindow
<1> HIDE DEF w, l, h
<1>5. w.lo = l /\ w.hi = h /\ w \in Ends /\ w = Window(w.lo, w.hi)
    BY <1>2, <1>3, <1>4 DEF Window, Ends
<1>6. 0 <= l /\ h <= LastMinute
    BY <1>1, <1>2, <1>3, Numbers
<1>7. MinutesOf(w) = GridOf(w.lo, w.hi, 2)
  <2>1. ASSUME NEW m \in MinutesOf(w) PROVE m \in GridOf(w.lo, w.hi, 2)
    <3>1. m \in Minutes /\ w.lo <= m /\ m <= w.hi
        BY DEF MinutesOf, Within
    <3>2. m \in Int /\ m % 2 = 0
        BY <3>1, MinutesFacts
    <3> QED
        BY <3>1, <3>2, <1>2, <1>3, <1>5 DEF GridOf
  <2>2. ASSUME NEW m \in GridOf(w.lo, w.hi, 2) PROVE m \in MinutesOf(w)
    <3>1. m \in Int /\ w.lo <= m /\ m <= w.hi /\ m % 2 = 0
        BY <1>2, <1>3, <1>5 DEF GridOf
    <3>2. m \in 0..LastMinute
        BY <3>1, <1>2, <1>3, <1>5, <1>6, Numbers
    <3> QED
        BY <3>1, <3>2 DEF MinutesOf, Within, Minutes
  <2> QED
      BY <2>1, <2>2
<1> QED
    BY <1>2, <1>3, <1>5, <1>7 DEF w

\* What the report is computed from: each minute with a row is one row.
LEMMA RowsOfBars ==
    ASSUME NEW w \in Ends
    PROVE  LET seen == RowsIn(BarRows, w)
           IN  /\ DOMAIN BarRows = Stored /\ DOMAIN seen = Within(Stored, w)
               /\ \A m \in Stored : /\ BarRows[m].ts = m /\ BarRows[m].key = m
                                    /\ BarRows[m].bad <=> bars[m] = "bad"
               /\ \A m \in Within(Stored, w) : seen[m] = BarRows[m]
<1> DEFINE seen == RowsIn(BarRows, w)
<1>1. DOMAIN BarRows = Stored
    BY DEF BarRows
<1>2. ASSUME NEW m \in Stored
      PROVE  BarRows[m].ts = m /\ BarRows[m].key = m /\ (BarRows[m].bad <=> bars[m] = "bad")
  <2>1. BarRows[m] = Row(m, m, bars[m] = "bad")
      BY DEF BarRows
  <2>2. \A t, k, b : Row(t, k, b).ts = t /\ Row(t, k, b).key = k /\ Row(t, k, b).bad = b
      BY DEF Row
  <2>3. BarRows[m].ts = m /\ BarRows[m].key = m
      BY <2>1, <2>2
  <2>4. BarRows[m].bad = (bars[m] = "bad")
      BY <2>1, <2>2
  <2> QED
      BY <2>3, <2>4
<1> DEFINE D == {m \in DOMAIN BarRows : w.lo <= BarRows[m].ts /\ BarRows[m].ts <= w.hi}
<1>3. seen = [m \in D |-> BarRows[m]]
    BY DEF RowsIn, Restrict
<1>4. D = Within(Stored, w)
    BY <1>1, <1>2 DEF Within
<1> HIDE DEF D, seen
<1>5. DOMAIN seen = Within(Stored, w) /\ \A m \in Within(Stored, w) : seen[m] = BarRows[m]
    BY <1>3, <1>4
<1> QED
    BY <1>1, <1>2, <1>5 DEF seen

\* The report by the parts it is made of.
LEMMA ReportParts ==
    ASSUME NEW window \in Windows, now \in Int
    PROVE  LET w      == AlignWindow(window, 2)
               seen   == RowsIn(BarRows, w)
               safe   == SafeMinutes(w)
               P      == Profile(safe, w, 2)
               report == DatasetReport(BarRows, BarSpec, window, now, 1)
           IN  /\ report.missing = MissingCount(P) /\ report.profile = P
               /\ report.status = WorstStatus(
                      {StatusForCount(Cardinality(P.segments)), WarningForCount(P.shortfall),
                       WarningForCount(P.tail)}
                      \union {StatusForCount(DuplicateCount(seen)),
                              StatusForCount(Cardinality(CorruptRows(seen, now))
                                             + Cardinality(FutureRows(BarRows, now)))})
<1> DEFINE w      == AlignWindow(window, 2)
           seen   == RowsIn(BarRows, w)
           safe   == SafeMinutes(w)
           P      == Profile(safe, w, 2)
           report == DatasetReport(BarRows, BarSpec, window, now, 1)
           floor  == AvailabilityFloor(BarSpec, now, 1)
           from   == IF floor = Absent \/ floor < w.lo THEN w.lo ELSE floor
<1>1. BarSpec.step = 2 /\ BarSpec.alignedOnly = FALSE /\ BarSpec.retention = Absent /\ 2 # Absent
    BY ConstantsAssumption DEF BarSpec
<1>2. DatasetWindow(BarSpec, window) = w
    BY <1>1 DEF DatasetWindow
<1>3. floor = Absent /\ from = w.lo
    BY <1>1 DEF AvailabilityFloor
<1>4. SafeTimes(seen, BarSpec, w.lo, now) = safe
  <2>1. w \in Ends
      BY AlignedMinutes
  <2> HIDE DEF w
  <2>2. /\ DOMAIN seen = Within(Stored, w) /\ \A m \in Within(Stored, w) : seen[m].ts = m
        /\ \A m \in Within(Stored, w) : w.lo <= m
    <3>1. Within(Stored, w) \subseteq Stored /\ \A m \in Within(Stored, w) : w.lo <= m
        BY DEF Within
    <3> QED
        BY <2>1, <3>1, RowsOfBars
  <2> HIDE DEF seen
  <2>3. RowTimes(seen) = Within(Stored, w)
      BY <2>2 DEF RowTimes
  <2> QED
      BY <2>2, <2>3, <1>1 DEF SafeTimes, SafeMinutes
<1>5. Window(w.lo, w.hi) = w
    BY AlignedMinutes
<1>6. report = [missing |-> MissingCount(P), profile |-> P, duplicates |-> DuplicateCount(seen),
                corrupt |-> Cardinality(CorruptRows(seen, now)) + Cardinality(FutureRows(BarRows, now)),
                future |-> Cardinality(FutureRows(BarRows, now)),
                status |-> WorstStatus(
                    {StatusForCount(Cardinality(P.segments)), WarningForCount(P.shortfall),
                     WarningForCount(P.tail)}
                    \union {StatusForCount(DuplicateCount(seen)),
                            StatusForCount(Cardinality(CorruptRows(seen, now))
                                           + Cardinality(FutureRows(BarRows, now)))})]
  <2> HIDE DEF seen, w, P, safe
  <2>1. Profile(SafeTimes(seen, BarSpec, from, now), Window(from, w.hi), BarSpec.step) = P
      BY <1>1, <1>3, <1>4, <1>5 DEF P
  <2>2. RowsIn(BarRows, DatasetWindow(BarSpec, window)) = seen
      BY <1>2 DEF seen
  <2> QED
      BY <1>1, <1>2, <2>1, <2>2, Zenon DEF DatasetReport
<1> HIDE DEF P, seen, report
<1> QED
    BY <1>6 DEF P, seen, report

\* No row of a report comes twice, and nothing is corrupt exactly if no row of
\* the window breaks its columns and none at all is of the future.
LEMMA ReportCounts ==
    ASSUME Types, NEW w \in Ends
    PROVE  LET seen    == RowsIn(BarRows, w)
               corrupt == Cardinality(CorruptRows(seen, now)) + Cardinality(FutureRows(BarRows, now))
           IN  /\ DuplicateCount(seen) = 0
               /\ corrupt \in Nat
               /\ corrupt = 0 <=> /\ \A m \in MinutesOf(w) : bars[m] # "bad"
                                  /\ \A m \in Stored : m <= now
<1> DEFINE seen == RowsIn(BarRows, w)
           bad  == CorruptRows(seen, now)
           late == FutureRows(BarRows, now)
<1>1. /\ DOMAIN BarRows = Stored /\ DOMAIN seen = Within(Stored, w)
      /\ \A m \in Stored : /\ BarRows[m].ts = m /\ BarRows[m].key = m
                           /\ BarRows[m].bad <=> bars[m] = "bad"
      /\ \A m \in Within(Stored, w) : seen[m] = BarRows[m] /\ m \in Stored
    BY RowsOfBars DEF Within
<1>2. /\ Stored \subseteq Minutes /\ IsFiniteSet(Stored) /\ Within(Stored, w) \subseteq Stored
      /\ \A m \in Stored : m \in Int
  <2>1. Stored \subseteq Minutes /\ Within(Stored, w) \subseteq Stored
      BY DEF Stored, Within
  <2> QED
      BY <2>1, MinutesFacts
<1>3. now \in Int
    BY Numbers DEF Types
<1> HIDE DEF seen
<1>4. DuplicateCount(seen) = 0
  <2> DEFINE keyed == {i \in DOMAIN seen : seen[i].key # Absent}
             keys  == {seen[i].key : i \in keyed}
  <2>1. keyed = Within(Stored, w)
      BY <1>1, <1>2, ConstantsAssumption
  <2>2. keys = keyed
      BY <1>1, <2>1
  <2>3. IsFiniteSet(keyed)
      BY <1>2, <2>1, FS_Subset
  <2>4. Cardinality(keyed) \in Nat
      BY <2>3, FS_CardinalityType
  <2>5. DuplicateCount(seen) = Cardinality(keyed) - Cardinality(keys)
      BY DEF DuplicateCount
  <2> HIDE DEF keyed, keys
  <2> QED
      BY <2>2, <2>4, <2>5
<1>5. bad = {m \in Within(Stored, w) : bars[m] = "bad" \/ m > now}
    BY <1>1 DEF CorruptRows
<1>6. late = {m \in Stored : m > now}
    BY <1>1 DEF FutureRows
<1>7. IsFiniteSet(bad) /\ IsFiniteSet(late)
  <2>1. bad \subseteq Stored /\ late \subseteq Stored
      BY <1>2, <1>5, <1>6
  <2> HIDE DEF bad, late
  <2> QED
      BY <1>2, <2>1, FS_Subset
<1> HIDE DEF bad, late
<1>8. /\ Cardinality(bad) \in Nat /\ Cardinality(late) \in Nat
      /\ Cardinality(bad) = 0 <=> bad = {}
      /\ Cardinality(late) = 0 <=> late = {}
    BY <1>7, FS_CardinalityType, FS_EmptySet
<1>9. \A m \in Stored : ~ (m > now) <=> m <= now
    BY <1>2, <1>3
<1>10. (bad = {} /\ late = {}) <=> /\ \A m \in MinutesOf(w) : bars[m] # "bad"
                                   /\ \A m \in Stored : m <= now
  <2>1. \A m \in MinutesOf(w) : bars[m] = "bad" => m \in Within(Stored, w)
      BY DEF MinutesOf, Within, Stored
  <2>2. Within(Stored, w) \subseteq MinutesOf(w)
      BY DEF MinutesOf, Within, Stored
  <2> QED
      BY <2>1, <2>2, <1>2, <1>5, <1>6, <1>9
<1> DEFINE corrupt == Cardinality(bad) + Cardinality(late)
<1>11. corrupt \in Nat /\ (corrupt = 0 <=> bad = {} /\ late = {})
    BY <1>8
<1> HIDE DEF corrupt
<1>12. corrupt = 0 <=> /\ \A m \in MinutesOf(w) : bars[m] # "bad"
                       /\ \A m \in Stored : m <= now
    BY <1>10, <1>11, Zenon
<1> QED
    BY <1>4, <1>11, <1>12 DEF corrupt, bad, late, seen

\* The statuses of a report's counts, of which it takes the worst.
Statuses(a, b, c, d, e) ==
    {StatusForCount(a), WarningForCount(b), WarningForCount(c)}
    \union {StatusForCount(d), StatusForCount(e)}

\* A dataset passes if every count of it is zero.
LEMMA PassMeansNothing ==
    ASSUME NEW a \in Nat, NEW b \in Nat, NEW c \in Nat, NEW d \in Nat, NEW e \in Nat
    PROVE  WorstStatus(Statuses(a, b, c, d, e)) = "pass"
           <=> a = 0 /\ b = 0 /\ c = 0 /\ d = 0 /\ e = 0
<1>1. \A n \in Nat : /\ n = 0 => StatusForCount(n) = "pass" /\ WarningForCount(n) = "pass"
                     /\ n # 0 => StatusForCount(n) = "fail" /\ WarningForCount(n) = "warning"
    BY DEF StatusForCount, WarningForCount
<1> DEFINE S == Statuses(a, b, c, d, e)
<1>2. WorstStatus(S) = "pass" <=> "fail" \notin S /\ "warning" \notin S
    BY DEF WorstStatus
<1>3. /\ "fail" \in S <=> a # 0 \/ d # 0 \/ e # 0
      /\ "warning" \in S <=> b # 0 \/ c # 0
    BY <1>1 DEF Statuses
<1> HIDE DEF S
<1>4. WorstStatus(S) = "pass" <=> a = 0 /\ b = 0 /\ c = 0 /\ d = 0 /\ e = 0
    BY <1>2, <1>3
<1> QED
    BY <1>4 DEF S

\* The report of rows of any kind is true: head, segments and tail of the profile
\* are the missing minutes, and the counts are zero where there is nothing.
LEMMA ReportIsTrue ==
    ASSUME Types
    PROVE  ReportTellsTheRows
<1> SUFFICES ASSUME NEW window \in Windows
             PROVE  LET report == DatasetReport(BarRows, BarSpec, window, now, 1)
                        w      == AlignWindow(window, 2)
                    IN  /\ report.missing = Cardinality(MissingMinutes(w))
                        /\ WindowsOf(report.profile.segments) = MaximalRuns(InnerMinutes(w), 2)
                        /\ report.status = "pass" <=>
                               /\ MissingMinutes(w) = {}
                               /\ \A m \in MinutesOf(w) : bars[m] # "bad"
                               /\ \A m \in Stored : m <= now
    BY DEF ReportTellsTheRows
<1> DEFINE report  == DatasetReport(BarRows, BarSpec, window, now, 1)
           w       == AlignWindow(window, 2)
           safe    == SafeMinutes(w)
           missing == MissingMinutes(w)
           inside  == InnerMinutes(w)
           seen    == RowsIn(BarRows, w)
           P       == Profile(safe, w, 2)
           dup     == DuplicateCount(seen)
           corrupt == Cardinality(CorruptRows(seen, now)) + Cardinality(FutureRows(BarRows, now))
<1>1. now \in Int /\ 2 \in Nat \ {0}
    BY Numbers DEF Types
<1>2. /\ w = Window(w.lo, w.hi) /\ w \in Ends
      /\ w.lo \in Int /\ w.hi \in Int /\ w.lo % 2 = 0 /\ w.hi % 2 = 0
      /\ MinutesOf(w) = GridOf(w.lo, w.hi, 2)
    BY AlignedMinutes
<1>3. /\ report.missing = MissingCount(P) /\ report.profile = P
      /\ report.status = WorstStatus(
             {StatusForCount(Cardinality(P.segments)), WarningForCount(P.shortfall),
              WarningForCount(P.tail)} \union {StatusForCount(dup), StatusForCount(corrupt)})
    BY <1>1, ReportParts
<1>4. /\ dup = 0 /\ corrupt \in Nat
      /\ corrupt = 0 <=> /\ \A m \in MinutesOf(w) : bars[m] # "bad"
                         /\ \A m \in Stored : m <= now
    BY <1>2, ReportCounts
<1>5. safe \subseteq GridOf(w.lo, w.hi, 2)
  <2>1. safe \subseteq MinutesOf(w)
      BY DEF SafeMinutes, MinutesOf, Within, Stored
  <2> HIDE DEF safe, w
  <2> QED
      BY <2>1, <1>2
<1> HIDE DEF w, report, dup, corrupt, seen, safe
<1>6. P = Profile(safe, Window(w.lo, w.hi), 2)
    BY <1>2
<1>7. missing = GridOf(w.lo, w.hi, 2) \ safe
    BY <1>2 DEF missing, safe, MissingMinutes
<1>8. inside = Between(safe, w.lo, w.hi, 2)
    BY <1>7 DEF inside, missing, safe, InnerMinutes, Between
<1> HIDE DEF P, missing, inside
<1>9. /\ MissingCount(P) = Cardinality(missing)
      /\ P.shortfall \in Nat /\ P.internal \in Nat /\ P.tail \in Nat
      /\ P.segments = InternalSegments(safe, 2)
      /\ P.internal = 0 <=> P.segments = {}
  <2> DEFINE lo == w.lo
             hi == w.hi
             step == 2
             missed == Missed(safe, lo, hi, step)
             holes == InternalSegments(safe, step)
  <2>1. /\ lo \in Int /\ hi \in Int /\ step \in Nat \ {0} /\ lo % step = 0 /\ hi % step = 0
        /\ safe \subseteq GridOf(lo, hi, step) /\ P = Profile(safe, Window(lo, hi), step)
        /\ holes = InternalSegments(safe, step)
      BY <1>1, <1>2, <1>5, <1>6
  <2> HIDE DEF lo, hi, step, holes
  <2>2. /\ MissingCount(P) = Cardinality(missed)
        /\ P.shortfall \in Nat /\ P.internal \in Nat /\ P.tail \in Nat
        /\ P.segments = holes
        /\ P.internal = 0 <=> holes = {}
      BY <2>1, ProfileCountsMissing
  <2>3. missed = missing /\ step = 2
      BY <1>7 DEF Missed, lo, hi, step
  <2>4. holes = InternalSegments(safe, 2)
      BY <2>1, <2>3
  <2> HIDE DEF missed
  <2> QED
      BY <2>2, <2>3, <2>4
<1>10. WindowsOf(P.segments) = MaximalRuns(inside, 2)
    BY <1>1, <1>2, <1>5, <1>8, <1>9, SegmentsAreMaximalRuns
<1>11. IsFiniteSet(P.segments)
    BY <1>1, <1>2, <1>5, <1>9, SegmentsAreHoles
<1>12. /\ Cardinality(P.segments) \in Nat
       /\ Cardinality(P.segments) = 0 <=> P.segments = {}
    BY <1>11, FS_CardinalityType, FS_EmptySet
<1>13. missing = {} <=> P.shortfall = 0 /\ P.internal = 0 /\ P.tail = 0
  <2>1. IsFiniteSet(missing)
    <3>1. missing \subseteq Minutes
        BY DEF missing, MissingMinutes, MinutesOf, Within
    <3> QED
        BY <3>1, MinutesFacts
  <2>2. missing = {} <=> Cardinality(missing) = 0
      BY <2>1, FS_EmptySet
  <2>3. MissingCount(P) = P.shortfall + P.internal + P.tail
      BY DEF MissingCount
  <2> QED
      BY <2>2, <2>3, <1>9
<1>14. report.status = "pass" <=>
           Cardinality(P.segments) = 0 /\ P.shortfall = 0 /\ P.tail = 0 /\ dup = 0 /\ corrupt = 0
  <2> DEFINE count == Cardinality(P.segments)
             short == P.shortfall
             tail  == P.tail
  <2>1. count \in Nat /\ short \in Nat /\ tail \in Nat /\ dup \in Nat /\ corrupt \in Nat
      BY <1>4, <1>9, <1>12
  <2>2. report.status = WorstStatus(Statuses(count, short, tail, dup, corrupt))
      BY <1>3 DEF Statuses
  <2> HIDE DEF count, short, tail
  <2>3. WorstStatus(Statuses(count, short, tail, dup, corrupt)) = "pass"
        <=> count = 0 /\ short = 0 /\ tail = 0 /\ dup = 0 /\ corrupt = 0
      BY <2>1, PassMeansNothing
  <2> QED
      BY <2>2, <2>3 DEF count, short, tail
<1>15. report.status = "pass" <=> /\ missing = {}
                                  /\ \A m \in MinutesOf(w) : bars[m] # "bad"
                                  /\ \A m \in Stored : m <= now
    BY <1>4, <1>9, <1>12, <1>13, <1>14, Zenon
<1>16. /\ report.missing = Cardinality(missing)
       /\ WindowsOf(report.profile.segments) = MaximalRuns(inside, 2)
    BY <1>3, <1>9, <1>10
<1> QED
    BY <1>15, <1>16, Zenon DEF report, w, safe, missing, inside

\* A validation report counts what is there, however the rows came about: the
\* minutes of the aligned window without a row that is not of the future, the
\* gaps between rows as maximal runs, and a pass only of a whole and sound window
\* (data_quality.py:292-429, 757-960).
THEOREM ReportsTellTheRows == Spec => []ReportTellsTheRows
<1>1. IInv => ReportTellsTheRows
    BY ReportIsTrue DEF IInv
<1> QED
    BY <1>1, Invariance, PTL
=============================================================================
