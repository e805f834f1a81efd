--------------------------- MODULE RunRecordsProofs ---------------------------
(***************************************************************************)
(* Proofs about what a backtest run writes, for any symbols, times, prices,*)
(* context tables, options, chunk sizes and numbers of orders.             *)
(***************************************************************************)
EXTENDS RunRecords, SharedLemmas

-----------------------------------------------------------------------------
(* Sequences whose elements have no type of their own.                     *)

IsSeq(s) == \E S : s \in Seq(S)

LEMMA SeqFacts ==
    ASSUME NEW s, IsSeq(s)
    PROVE  Len(s) \in Nat /\ DOMAIN s = 1..Len(s) /\ s = [i \in 1..Len(s) |-> s[i]]
<1>1. PICK S : s \in Seq(S)
    BY DEF IsSeq
<1> QED
    BY <1>1, LenProperties

LEMMA SeqOfFunction ==
    ASSUME NEW n \in Nat, NEW f, f = [i \in 1..n |-> f[i]]
    PROVE  IsSeq(f) /\ Len(f) = n /\ DOMAIN f = 1..n
<1> DEFINE S == {f[i] : i \in 1..n}
<1>1. f \in [1..n -> S]
    OBVIOUS
<1> HIDE DEF S
<1>2. f \in Seq(S) /\ Len(f) = n /\ DOMAIN f = 1..n
    BY <1>1, SequenceOfFunction
<1> QED
    BY <1>2 DEF IsSeq

LEMMA EmptySeqFacts == IsSeq(<<>>) /\ Len(<<>>) = 0 /\ DOMAIN <<>> = {}
<1>1. <<>> \in Seq({}) /\ Len(<<>>) = 0
    BY EmptySeq
<1> QED
    BY <1>1 DEF IsSeq

LEMMA AppendSeq ==
    ASSUME NEW s, IsSeq(s), NEW x
    PROVE  /\ IsSeq(Append(s, x)) /\ Len(Append(s, x)) = Len(s) + 1 /\ Len(s) \in Nat
           /\ DOMAIN Append(s, x) = 1..(Len(s) + 1) /\ DOMAIN s = 1..Len(s)
           /\ Append(s, x)[Len(s) + 1] = x
           /\ \A i \in 1..Len(s) : Append(s, x)[i] = s[i]
<1>1. PICK S : s \in Seq(S)
    BY DEF IsSeq
<1> DEFINE T == S \union {x}
<1>2. s \in Seq(T) /\ x \in T
    BY <1>1, SeqDef
<1> HIDE DEF T
<1>3. Append(s, x) \in Seq(T) /\ Len(Append(s, x)) = Len(s) + 1
    BY <1>2, AppendProperties
<1> QED
    BY <1>2, <1>3, AppendFacts, LenProperties DEF IsSeq

LEMMA ConcatSeq ==
    ASSUME NEW s, IsSeq(s), NEW t, IsSeq(t)
    PROVE  /\ IsSeq(s \o t) /\ Len(s) \in Nat /\ Len(t) \in Nat
           /\ Len(s \o t) = Len(s) + Len(t)
           /\ DOMAIN (s \o t) = 1..(Len(s) + Len(t))
           /\ \A i \in 1..Len(s) : (s \o t)[i] = s[i]
           /\ \A i \in 1..Len(t) : (s \o t)[Len(s) + i] = t[i]
<1>1. PICK S : s \in Seq(S)
    BY DEF IsSeq
<1>2. PICK R : t \in Seq(R)
    BY DEF IsSeq
<1> DEFINE T == S \union R
<1>3. s \in Seq(T) /\ t \in Seq(T)
    BY <1>1, <1>2, SeqDef
<1> HIDE DEF T
<1>4. s \o t \in Seq(T) /\ Len(s \o t) = Len(s) + Len(t) /\ DOMAIN (s \o t) = 1..Len(s \o t)
    BY <1>3, ConcatProperties, LenProperties
<1>5. /\ Len(s) \in Nat /\ Len(t) \in Nat
      /\ DOMAIN s = 1..Len(s) /\ DOMAIN t = 1..Len(t)
    BY <1>3, LenProperties
<1>6. /\ \A i \in DOMAIN s : (s \o t)[i] = s[i]
      /\ \A i \in DOMAIN t : (s \o t)[Len(s) + i] = t[i]
    BY <1>3, ConcatenationKeeps
<1> QED
    BY <1>4, <1>5, <1>6 DEF IsSeq

\* What it is to be two sequences one after the other, by name.
IsJoined(w, s, t) ==
    /\ IsSeq(w) /\ Len(s) \in Nat /\ Len(t) \in Nat /\ Len(w) = Len(s) + Len(t)
    /\ \A i \in 1..Len(s) : w[i] = s[i]
    /\ \A i \in 1..Len(t) : w[Len(s) + i] = t[i]

LEMMA ConcatJoins ==
    ASSUME NEW s, IsSeq(s), NEW t, IsSeq(t)
    PROVE  IsJoined(s \o t, s, t)
BY ConcatSeq DEF IsJoined

LEMMA SubSeqFacts ==
    ASSUME NEW s, IsSeq(s), NEW m \in 1..(Len(s) + 1), NEW n \in (m - 1)..Len(s)
    PROVE  /\ IsSeq(SubSeq(s, m, n)) /\ Len(SubSeq(s, m, n)) = n - m + 1
           /\ DOMAIN SubSeq(s, m, n) = 1..(n - m + 1)
           /\ \A i \in 1..(n - m + 1) : SubSeq(s, m, n)[i] = s[m + i - 1]
<1>1. PICK S : s \in Seq(S)
    BY DEF IsSeq
<1>2. SubSeq(s, m, n) \in Seq(S)
  <2>1. Len(s) \in Nat
      BY <1>1, LenProperties
  <2> QED
      BY <1>1, <2>1, SubSeqProperties
<1>3. Len(s) \in Nat
    BY <1>1, LenProperties
<1>4. /\ Len(SubSeq(s, m, n)) = n - m + 1
      /\ \A i \in 1..(n - m + 1) : SubSeq(s, m, n)[i] = s[m + i - 1]
    BY <1>1, <1>3, SubSeqProperties
<1>5. DOMAIN SubSeq(s, m, n) = 1..Len(SubSeq(s, m, n))
    BY <1>2, LenProperties
<1> QED
    BY <1>2, <1>4, <1>5 DEF IsSeq

-----------------------------------------------------------------------------
(* The series of a perpetual and its cursor                                *)

\* A finite set of integers that is not empty has a greatest element.
LEMMA GreatestOf ==
    ASSUME NEW T, T \subseteq Int, IsFiniteSet(T), T # {}
    PROVE  Max(T) \in T /\ \A u \in T : u <= Max(T)
<1> DEFINE times == Sorted(T)
           n == Cardinality(T)
<1>1. n \in Nat \ {0}
    BY FS_CardinalityType, FS_EmptySet
<1>2. /\ times \in Seq(T) /\ Len(times) = n /\ DOMAIN times = 1..n
      /\ \A t \in T : \E i \in DOMAIN times : times[i] = t
      /\ \A i, j \in DOMAIN times : i < j => times[i] < times[j]
    BY SortedFacts
<1>3. n \in 1..n /\ times[n] \in T
    BY <1>1, <1>2, ElementOfSeq
<1>4. \A u \in T : u <= times[n]
  <2> SUFFICES ASSUME NEW u \in T PROVE u <= times[n]
      OBVIOUS
  <2>1. PICK i \in 1..n : times[i] = u
      BY <1>2
  <2>2. i < n \/ i = n
      BY <1>1
  <2>3. u \in Int /\ times[n] \in Int
      BY <1>3
  <2> HIDE DEF n, times
  <2> QED
      BY <1>2, <1>3, <2>1, <2>2, <2>3
<1>5. \E x \in T : \A y \in T : x >= y
    BY <1>3, <1>4
<1> QED
    BY <1>5 DEF Max

\* The rows that are loaded know the latest row at any time up to the end of the
\* window, from its start on; before, they know it or none at all.
LEMMA LoadedTimesFacts ==
    ASSUME NEW T, T \subseteq Int, IsFiniteSet(T), NEW from \in Int, NEW to \in Int
    PROVE  LET L == LoadedTimes(T, from, to)
           IN  /\ L \subseteq T /\ IsFiniteSet(L)
               /\ \A u \in Int : \A t \in T :
                      u <= to /\ t <= u /\ (from <= u \/ \E l \in L : l <= u)
                          => \E l \in L : t <= l /\ l <= u
<1> DEFINE L == LoadedTimes(T, from, to)
           before == {t \in T : t < from}
<1>1. IsFiniteSet(before)
    BY FS_Subset
<1>2. before # {} => Max(before) \in before /\ \A u \in before : u <= Max(before)
    BY <1>1, GreatestOf
<1>3. L = {t \in T : from <= t /\ t <= to} \union (IF before = {} THEN {} ELSE {Max(before)})
    BY DEF LoadedTimes, Within, Window
<1> HIDE DEF L
<1>4. L \subseteq T
    BY <1>2, <1>3
<1>5. IsFiniteSet(L)
    BY <1>4, FS_Subset
<1>6. ASSUME NEW u \in Int, NEW t \in T, u <= to, t <= u,
             from <= u \/ \E l \in L : l <= u
      PROVE  \E l \in L : t <= l /\ l <= u
  <2>1. CASE from <= t
      BY <2>1, <1>3, <1>6
  <2>2. CASE ~ (from <= t)
    <3>1. t \in Int /\ t \in before
        BY <2>2
    <3>2. Max(before) \in L /\ t <= Max(before) /\ Max(before) < from /\ Max(before) \in Int
        BY <3>1, <1>2, <1>3
    <3>3. CASE from <= u
        BY <3>2, <3>3
    <3>4. CASE ~ (from <= u)
      <4>1. PICK l \in L : l <= u
          BY <1>6, <3>4
      <4>2. l \in Int /\ l < from
          BY <4>1, <3>4, <1>4
      <4>3. l \in before \/ l = Max(before)
          BY <4>1, <4>2, <1>3
      <4>4. l = Max(before)
          BY <4>2, <4>3, <3>1, <1>3
      <4> QED
          BY <4>1, <4>4, <3>2
    <3> QED
        BY <3>3, <3>4
  <2> QED
      BY <2>1, <2>2
<1> QED
    BY <1>4, <1>5, <1>6 DEF L

\* How many of the rows of a series are not after a time.
IsPassed(series, p, t) ==
    p \in 0..Len(series) /\ \A i \in 1..Len(series) : i <= p <=> series[i].at <= t

\* The series as a sequence of rows that rise.
RowOf(table, t) == [at |-> t, value |-> table[t]]

LEMMA LoadedSeriesFacts ==
    ASSUME NEW table, DOMAIN table \subseteq Int, IsFiniteSet(DOMAIN table),
           NEW from \in Int, NEW to \in Int
    PROVE  LET series == LoadedSeries(table, from, to)
               L      == LoadedTimes(DOMAIN table, from, to)
           IN  /\ IsSeq(series) /\ Len(series) \in Nat /\ DOMAIN series = 1..Len(series)
               /\ \A i \in 1..Len(series) : series[i].at \in L /\ series[i].at \in Int
               /\ \A i \in 1..Len(series) : series[i] = RowOf(table, series[i].at)
               /\ \A l \in L : \E i \in 1..Len(series) : series[i].at = l
               /\ \A i, j \in 1..Len(series) : i < j => series[i].at < series[j].at
<1> DEFINE series == LoadedSeries(table, from, to)
           L == LoadedTimes(DOMAIN table, from, to)
           times == Sorted(L)
           n == Cardinality(L)
<1>1. L \subseteq DOMAIN table /\ L \subseteq Int /\ IsFiniteSet(L)
    BY LoadedTimesFacts
<1> HIDE DEF L
<1>2. /\ times \in Seq(L) /\ Len(times) = n /\ DOMAIN times = 1..n
      /\ \A t \in L : \E i \in DOMAIN times : times[i] = t
      /\ \A i, j \in DOMAIN times : i < j => times[i] < times[j]
    BY <1>1, SortedFacts
<1>3. n \in Nat
    BY <1>1, FS_CardinalityType
<1>4. \A i \in 1..n : times[i] \in L
    BY <1>2, ElementOfSeq
<1>5. series = [i \in 1..n |-> [at |-> times[i], value |-> table[times[i]]]]
    BY <1>2 DEF LoadedSeries, L
<1> HIDE DEF series, times, n
<1>6. series = [i \in 1..n |-> series[i]]
    BY <1>5
<1>7. IsSeq(series) /\ Len(series) = n /\ DOMAIN series = 1..n
    BY <1>3, <1>6, SeqOfFunction
<1>8. \A i \in 1..n : series[i] = [at |-> times[i], value |-> table[times[i]]]
    BY <1>5
<1>9. \A i \in 1..n : series[i].at = times[i]
  <2> SUFFICES ASSUME NEW i \in 1..n PROVE series[i].at = times[i]
      OBVIOUS
  <2>1. series[i] = [at |-> times[i], value |-> table[times[i]]]
      BY <1>8
  <2> QED
      BY <2>1
<1>10. \A i \in 1..n : series[i].at \in L
    BY <1>4, <1>9
<1>11. \A i \in 1..n : series[i].at \in Int
    BY <1>1, <1>10
<1>12. \A i \in 1..n : series[i] = RowOf(table, series[i].at)
    BY <1>8, <1>9, Zenon DEF RowOf
<1>13. \A l \in L : \E i \in 1..n : series[i].at = l
    BY <1>2, <1>9
<1>14. \A i, j \in 1..n : i < j => series[i].at < series[j].at
    BY <1>2, <1>9
<1>15. /\ IsSeq(series) /\ Len(series) \in Nat /\ DOMAIN series = 1..Len(series)
       /\ \A i \in 1..Len(series) : series[i].at \in L /\ series[i].at \in Int
       /\ \A i \in 1..Len(series) : series[i] = RowOf(table, series[i].at)
       /\ \A l \in L : \E i \in 1..Len(series) : series[i].at = l
       /\ \A i, j \in 1..Len(series) : i < j => series[i].at < series[j].at
    BY <1>3, <1>7, <1>10, <1>11, <1>12, <1>13, <1>14
<1> QED
    BY <1>15 DEF series, L

\* _latest_row_before_or_at finds the last row that a cursor would have passed.
LEMMA LatestRowFacts ==
    ASSUME NEW series, IsSeq(series), \A i \in 1..Len(series) : series[i].at \in Int,
           \A i, j \in 1..Len(series) : i < j => series[i].at < series[j].at,
           NEW t \in Int
    PROVE  \E p : /\ IsPassed(series, p, t)
                  /\ LatestRow(series, t) = IF p = 0 THEN <<>> ELSE <<series[p]>>
<1> DEFINE n == Len(series)
           later == {i \in 1..n : series[i].at > t}
           p == IF later = {} THEN n ELSE Min(later) - 1
<1>1. n \in Nat /\ DOMAIN series = 1..n
    BY SeqFacts
<1>2. later # {} => /\ Min(later) \in later
                    /\ \A y \in later : Min(later) <= y
                    /\ Min(later) \in 1..n
  <2>1. later \subseteq 1..n /\ 1 \in Int /\ n \in Int
      BY <1>1
  <2> HIDE DEF later, n
  <2> QED
      BY <2>1, MinOfTimes
<1>3. p \in 0..n
    BY <1>1, <1>2
<1>4. ASSUME NEW i \in 1..n PROVE i <= p <=> series[i].at <= t
  <2>1. CASE later = {}
      BY <2>1, <1>1
  <2>2. CASE later # {}
    <3>1. CASE i <= p
      <4>1. i \notin later
          BY <2>2, <3>1, <1>1, <1>2
      <4> QED
          BY <4>1, <3>1
    <3>2. CASE ~ (i <= p)
      <4> DEFINE m == Min(later)
      <4>1. m \in 1..n /\ series[m].at > t /\ m <= i
          BY <2>2, <3>2, <1>1, <1>2
      <4> HIDE DEF m
      <4>2. series[m].at <= series[i].at
          BY <4>1
      <4>3. ~ (series[i].at <= t)
          BY <4>1, <4>2
      <4> QED
          BY <4>3, <3>2
    <3> QED
        BY <3>1, <3>2
  <2> QED
      BY <2>1, <2>2
<1>5. LatestRow(series, t) = IF p = 0 THEN <<>> ELSE <<series[p]>>
    BY <1>1 DEF LatestRow
<1>6. IsPassed(series, p, t)
  <2> HIDE DEF p
  <2> QED
      BY <1>3, <1>4 DEF IsPassed
<1> QED
    BY <1>5, <1>6

\* The cursor's loop passes exactly the rows that are not after the bar.
LEMMA PassedFacts ==
    ASSUME NEW series, IsSeq(series), \A i \in 1..Len(series) : series[i].at \in Int,
           \A i, j \in 1..Len(series) : i < j => series[i].at < series[j].at,
           NEW t \in Int, NEW position \in 0..Len(series),
           \A i \in 1..position : series[i].at <= t
    PROVE  IsPassed(series, Passed(series, position, t), t)
<1> DEFINE n == Len(series)
           Goes(i) == i < n /\ series[i + 1].at <= t
           IsFrom(f) == f = [i \in position..n |-> IF Goes(i) THEN f[i + 1] ELSE i]
           From == CHOOSE f : IsFrom(f)
<1>1. n \in Nat /\ position \in Nat /\ position <= n
    BY SeqFacts
<1>2. PICK p : IsPassed(series, p, t)
    BY LatestRowFacts
<1>3. p \in 0..n /\ \A i \in 1..n : i <= p <=> series[i].at <= t
    BY <1>2 DEF IsPassed
<1>4. position <= p
  <2>1. CASE position = 0
      BY <2>1, <1>3
  <2>2. CASE position # 0
    <3>1. position \in 1..n /\ position \in 1..position
        BY <2>2, <1>1
    <3> QED
        BY <3>1, <1>3
  <2> QED
      BY <2>1, <2>2
<1>5. \A i \in position..n : Goes(i) <=> i < p
  <2> SUFFICES ASSUME NEW i \in position..n PROVE Goes(i) <=> i < p
      OBVIOUS
  <2>1. CASE i < n
    <3>1. i + 1 \in 1..n
        BY <2>1, <1>1
    <3>2. i + 1 <= p <=> series[i + 1].at <= t
        BY <3>1, <1>3
    <3> QED
        BY <3>2, <2>1, <1>1, <1>3
  <2>2. CASE ~ (i < n)
      BY <2>2, <1>1, <1>3
  <2> QED
      BY <2>1, <2>2
<1> HIDE DEF Goes
<1> DEFINE g == [i \in position..n |-> IF i < p THEN p ELSE i]
<1>6. IsFrom(g)
  <2>1. ASSUME NEW i \in position..n PROVE g[i] = IF Goes(i) THEN g[i + 1] ELSE i
    <3>1. CASE i < p
      <4>1. i + 1 \in position..n /\ (i + 1 < p \/ i + 1 = p)
          BY <3>1, <1>1, <1>3
      <4>2. g[i + 1] = p /\ g[i] = p
          BY <4>1, <3>1, <1>3
      <4> QED
          BY <4>2, <3>1, <1>5
    <3>2. CASE ~ (i < p)
        BY <3>2, <1>5
    <3> QED
        BY <3>1, <3>2
  <2> QED
      BY <2>1
<1>7. IsFrom(From)
    BY <1>6
<1>8. Passed(series, position, t) = From[position]
    BY <1>1 DEF Passed, Goes
<1> HIDE DEF From
<1>9. \A i \in position..n : From[i] = IF i < p THEN From[i + 1] ELSE i
    BY <1>5, <1>7
<1>10. From[p] = p
    BY <1>1, <1>3, <1>4, <1>9
<1> DEFINE Same == {k \in Nat : k <= p - position /\ From[p - k] # p}
<1>11. Same = {}
  <2>1. SUFFICES ASSUME Same # {} PROVE FALSE
      OBVIOUS
  <2>2. PICK k \in Same : \A j \in Same : k <= j
    <3>1. Same \subseteq Nat
        OBVIOUS
    <3> HIDE DEF Same
    <3> QED
        BY <2>1, <3>1, LeastNatural
  <2>3. k # 0
      BY <1>3, <1>10
  <2>4. k \in Nat /\ k <= p - position /\ From[p - k] # p
      OBVIOUS
  <2>5a. k - 1 \in Nat /\ k - 1 <= p - position /\ ~ (k <= k - 1)
      BY <2>3, <2>4, <1>1, <1>3
  <2>5b. k - 1 \notin Same
    <3> HIDE DEF Same
    <3> QED
        BY <2>2, <2>5a
  <2>5. From[p - (k - 1)] = p
      BY <2>5a, <2>5b
  <2>6. p - k \in position..n /\ p - k < p /\ (p - k) + 1 = p - (k - 1)
      BY <2>3, <2>4, <1>1, <1>3
  <2>7. From[p - k] = p
      BY <2>5, <2>6, <1>9
  <2> QED
      BY <2>2, <2>7
<1>12. p - position \in Nat /\ p - (p - position) = position
    BY <1>1, <1>3, <1>4
<1>13. From[position] = p
  <2>1. p - position \notin Same
      BY <1>11
  <2> QED
      BY <2>1, <1>12
<1> QED
    BY <1>2, <1>8, <1>13

\* The rows of a table that are loaded, asked for the latest at a time, give the
\* table's latest, or none at a time before the window.
LEMMA LatestAgrees ==
    ASSUME NEW table, DOMAIN table \subseteq Int, IsFiniteSet(DOMAIN table),
           NEW from \in Int, NEW to \in Int, NEW t \in Int, t <= to,
           NEW p, IsPassed(LoadedSeries(table, from, to), p, t)
    PROVE  LET series == LoadedSeries(table, from, to)
           IN  /\ p # 0 => <<series[p]>> = LatestIn(table, t)
               /\ p = 0 /\ from <= t => LatestIn(table, t) = <<>>
<1> DEFINE series == LoadedSeries(table, from, to)
           L == LoadedTimes(DOMAIN table, from, to)
           past == {u \in DOMAIN table : u <= t}
           n == Len(series)
<1>1. /\ L \subseteq DOMAIN table
      /\ \A v \in DOMAIN table : v <= t /\ (from <= t \/ \E l \in L : l <= t)
             => \E l \in L : v <= l /\ l <= t
    BY LoadedTimesFacts
<1>2. /\ n \in Nat
      /\ \A i \in 1..n : series[i].at \in L /\ series[i].at \in Int
      /\ \A l \in L : \E i \in 1..n : series[i].at = l
      /\ \A i, j \in 1..n : i < j => series[i].at < series[j].at
    BY LoadedSeriesFacts
<1>9. \A i \in 1..n : series[i] = RowOf(table, series[i].at)
    BY LoadedSeriesFacts
<1>3. p \in 0..n /\ \A i \in 1..n : i <= p <=> series[i].at <= t
    BY DEF IsPassed
<1>4. LatestIn(table, t) = IF past = {} THEN <<>> ELSE <<RowOf(table, Max(past))>>
    BY DEF LatestIn, RowOf
<1>5. past # {} => Max(past) \in past /\ \A u \in past : u <= Max(past)
  <2>1. past \subseteq Int /\ IsFiniteSet(past)
      BY FS_Subset
  <2> HIDE DEF past
  <2> QED
      BY <2>1, GreatestOf
<1> HIDE DEF series, L, n
<1>6. \A l \in L : l <= t => \E i \in 1..p : series[i].at = l
    BY <1>2, <1>3
<1>7. ASSUME p # 0 PROVE <<series[p]>> = LatestIn(table, t)
  <2>1. p \in 1..n /\ series[p].at <= t /\ series[p].at \in L
      BY <1>7, <1>2, <1>3
  <2>2. series[p].at \in past /\ past # {}
      BY <2>1, <1>1
  <2> DEFINE m == Max(past)
  <2>3. m \in DOMAIN table /\ m \in Int /\ m <= t /\ series[p].at <= m
      BY <2>2, <1>5
  <2> HIDE DEF m, past
  <2>4. PICK l \in L : m <= l /\ l <= t
      BY <2>1, <2>3, <1>1
  <2>5. PICK i \in 1..p : series[i].at = l
      BY <2>4, <1>6
  <2>6. series[i].at <= series[p].at /\ series[i].at \in Int
    <3>1. i = p \/ i < p
        BY <1>3
    <3>2. i \in 1..n
        BY <2>1, <1>2
    <3> QED
        BY <3>1, <3>2, <2>1, <1>2
  <2>7. series[p].at = m
      BY <2>1, <2>3, <2>4, <2>5, <2>6, <1>2
  <2>8. series[p] = RowOf(table, m)
      BY <2>1, <2>7, <1>9
  <2> QED
      BY <2>2, <2>8, <1>4 DEF m
<1>8. ASSUME p = 0, from <= t PROVE LatestIn(table, t) = <<>>
  <2>1. \A l \in L : ~ (l <= t)
      BY <1>8, <1>6
  <2>2. past = {}
      BY <2>1, <1>1, <1>8
  <2> QED
      BY <2>2, <1>4
<1> QED
    BY <1>7, <1>8 DEF series

\* The change over the window, of the loaded rows, is the table's or none, and
\* the table's where the window begins in the run.
LEMMA ChangeAgrees ==
    ASSUME NEW table, DOMAIN table \subseteq Int, IsFiniteSet(DOMAIN table),
           NEW from \in Int, NEW to \in Int, NEW t \in Int, t <= to
    PROVE  LET change == ChangeOverWindow(LoadedSeries(table, from, to), t)
           IN  /\ change \in {ChangeIn(table, t), <<>>}
               /\ t - ContextWindow >= from => change = ChangeIn(table, t)
<1> DEFINE series == LoadedSeries(table, from, to)
           u == t - ContextWindow
<1>1. u \in Int /\ u <= t /\ u <= to
    BY ContextAssumption
<1>2. /\ IsSeq(series) /\ \A i \in 1..Len(series) : series[i].at \in Int
      /\ \A i, j \in 1..Len(series) : i < j => series[i].at < series[j].at
    BY LoadedSeriesFacts
<1>3. PICK p : /\ IsPassed(series, p, t)
               /\ LatestRow(series, t) = IF p = 0 THEN <<>> ELSE <<series[p]>>
  <2> HIDE DEF series
  <2> QED
      BY <1>2, LatestRowFacts
<1>4. PICK q : /\ IsPassed(series, q, u)
               /\ LatestRow(series, u) = IF q = 0 THEN <<>> ELSE <<series[q]>>
  <2> HIDE DEF series, u
  <2> QED
      BY <1>1, <1>2, LatestRowFacts
<1>5. /\ p # 0 => <<series[p]>> = LatestIn(table, t)
      /\ p = 0 /\ from <= t => LatestIn(table, t) = <<>>
    BY <1>3, LatestAgrees
<1>6. /\ q # 0 => <<series[q]>> = LatestIn(table, u)
      /\ q = 0 /\ from <= u => LatestIn(table, u) = <<>>
  <2> HIDE DEF u
  <2> QED
      BY <1>1, <1>4, LatestAgrees
<1>7. /\ LatestRow(series, t) \in {LatestIn(table, t), <<>>}
      /\ from <= t => LatestRow(series, t) = LatestIn(table, t)
    BY <1>3, <1>5
<1>8. /\ LatestRow(series, u) \in {LatestIn(table, u), <<>>}
      /\ from <= u => LatestRow(series, u) = LatestIn(table, u)
    BY <1>4, <1>6
<1> DEFINE prior == LatestRow(series, u)
           latest == LatestRow(series, t)
<1>9. \A x : ChangeBetween(<<>>, x) = <<>> /\ ChangeBetween(x, <<>>) = <<>>
    BY DEF ChangeBetween
<1>10. /\ ChangeOverWindow(series, t) = ChangeBetween(prior, latest)
       /\ ChangeIn(table, t) = ChangeBetween(LatestIn(table, u), LatestIn(table, t))
    BY DEF ChangeOverWindow, ChangeIn
<1>11. u >= from => from <= t /\ from <= u
    BY <1>1
<1> HIDE DEF series, u, prior, latest
<1>12. CASE prior = <<>> \/ latest = <<>>
  <2>1. ChangeBetween(prior, latest) = <<>>
      BY <1>9, <1>12
  <2>2. u >= from => prior = LatestIn(table, u) /\ latest = LatestIn(table, t)
      BY <1>7, <1>8, <1>11 DEF prior, latest
  <2> QED
      BY <2>1, <2>2, <1>10 DEF series, u
<1>13. CASE prior # <<>> /\ latest # <<>>
  <2>1. prior = LatestIn(table, u) /\ latest = LatestIn(table, t)
      BY <1>13, <1>7, <1>8 DEF prior, latest
  <2> QED
      BY <2>1, <1>10 DEF series, u
<1> QED
    BY <1>12, <1>13

\* What ContextIsLatest says of one bar.
ContextTells(s, t, seen) ==
    LET table == ContextTables[s]
        interest == ChangeIn(table["open_interest"], t)
        mark     == ChangeIn(table["mark_price"], t)
        index    == ChangeIn(table["index_price"], t)
    IN  /\ \A d \in ContextDatasets :
               \/ seen.values[d] = LatestIn(table[d], t)
               \/ t < StartTime /\ seen.values[d] = <<>>
        /\ seen.interest \in {interest, <<>>}
        /\ seen.price \in {mark, index, <<>>}
        /\ t - ContextWindow >= StartTime =>
               /\ seen.interest = interest
               /\ seen.price = PriceChange(mark, index)

LEMMA ConstantFacts ==
    /\ NSymbols \in Nat /\ NTimes \in Nat /\ ChunkSize \in Nat \ {0}
    /\ StartTime \in 1..NTimes /\ StartTime \in Int /\ NTimes \in Int
    /\ InitialCash \in Nat \ {0}
    /\ Symbols = 1..NSymbols /\ Symbols \subseteq Int
    /\ DOMAIN ContextTables \subseteq Symbols
    /\ \A s \in DOMAIN ContextTables : \A d \in ContextDatasets :
           DOMAIN ContextTables[s][d] \subseteq Int /\ IsFiniteSet(DOMAIN ContextTables[s][d])
<1> QED
    BY RecordsAssumption DEF Symbols

\* A cursor that has passed the rows up to a bar shows what the tables say.
LEMMA ContextAtTells ==
    ASSUME NEW s \in DOMAIN ContextTables, NEW t \in Int, t <= NTimes, NEW passed,
           \A d \in ContextDatasets : IsPassed(Series[s][d], passed[d], t)
    PROVE  ContextTells(s, t, ContextAt(Series[s], passed, t))
<1> DEFINE table == ContextTables[s]
           seen == ContextAt(Series[s], passed, t)
           Change(d) == ChangeOverWindow(Series[s][d], t)
           interest == Change("open_interest")
           price == PriceChange(Change("mark_price"), Change("index_price"))
           values == [d \in ContextDatasets |->
                         IF passed[d] = 0 THEN <<>> ELSE <<Series[s][d][passed[d]]>>]
           none == \A d \in ContextDatasets : passed[d] = 0
<1>1. \A d \in ContextDatasets :
          /\ DOMAIN table[d] \subseteq Int /\ IsFiniteSet(DOMAIN table[d])
          /\ Series[s][d] = LoadedSeries(table[d], StartTime, NTimes)
    BY ConstantFacts DEF Series
<1>2. {"open_interest", "mark_price", "index_price"} \subseteq ContextDatasets
    BY DEF ContextDatasets
<1>3. \A d \in ContextDatasets :
          /\ Change(d) \in {ChangeIn(table[d], t), <<>>}
          /\ t - ContextWindow >= StartTime => Change(d) = ChangeIn(table[d], t)
  <2> SUFFICES ASSUME NEW d \in ContextDatasets
               PROVE  /\ Change(d) \in {ChangeIn(table[d], t), <<>>}
                      /\ t - ContextWindow >= StartTime => Change(d) = ChangeIn(table[d], t)
      OBVIOUS
  <2> DEFINE rows_1 == table[d]
  <2>1. /\ DOMAIN rows_1 \subseteq Int /\ IsFiniteSet(DOMAIN rows_1)
        /\ Series[s][d] = LoadedSeries(rows_1, StartTime, NTimes)
      BY <1>1
  <2> HIDE DEF rows_1
  <2>2. /\ Change(d) \in {ChangeIn(rows_1, t), <<>>}
        /\ t - ContextWindow >= StartTime => Change(d) = ChangeIn(rows_1, t)
      BY <2>1, ConstantFacts, ChangeAgrees
  <2> QED
      BY <2>2 DEF rows_1
<1>4. \A d \in ContextDatasets :
          /\ passed[d] # 0 => <<Series[s][d][passed[d]]>> = LatestIn(table[d], t)
          /\ passed[d] = 0 /\ StartTime <= t => LatestIn(table[d], t) = <<>>
  <2> SUFFICES ASSUME NEW d \in ContextDatasets
               PROVE  /\ passed[d] # 0 => <<Series[s][d][passed[d]]>> = LatestIn(table[d], t)
                      /\ passed[d] = 0 /\ StartTime <= t => LatestIn(table[d], t) = <<>>
      OBVIOUS
  <2> DEFINE rows_1 == table[d]
             p == passed[d]
  <2>1. /\ DOMAIN rows_1 \subseteq Int /\ IsFiniteSet(DOMAIN rows_1)
        /\ Series[s][d] = LoadedSeries(rows_1, StartTime, NTimes)
        /\ IsPassed(Series[s][d], p, t)
      BY <1>1
  <2> HIDE DEF rows_1, p
  <2>2. /\ p # 0 => <<Series[s][d][p]>> = LatestIn(rows_1, t)
        /\ p = 0 /\ StartTime <= t => LatestIn(rows_1, t) = <<>>
      BY <2>1, ConstantFacts, LatestAgrees
  <2> QED
      BY <2>2 DEF rows_1, p
<1>5. \A d \in ContextDatasets : passed[d] = 0 => Change(d) = <<>>
  <2> SUFFICES ASSUME NEW d \in ContextDatasets, passed[d] = 0
               PROVE  Change(d) = <<>>
      OBVIOUS
  <2> DEFINE rows_1 == table[d]
             series == Series[s][d]
  <2>1. /\ DOMAIN rows_1 \subseteq Int /\ IsFiniteSet(DOMAIN rows_1)
        /\ series = LoadedSeries(rows_1, StartTime, NTimes)
        /\ IsPassed(series, 0, t)
      BY <1>1
  <2> HIDE DEF rows_1, series
  <2>2. /\ IsSeq(series) /\ \A i \in 1..Len(series) : series[i].at \in Int
        /\ \A i, j \in 1..Len(series) : i < j => series[i].at < series[j].at
      BY <2>1, ConstantFacts, LoadedSeriesFacts
  <2>3. PICK p : /\ IsPassed(series, p, t)
                 /\ LatestRow(series, t) = IF p = 0 THEN <<>> ELSE <<series[p]>>
      BY <2>2, LatestRowFacts
  <2>4. p = 0
      BY <2>1, <2>2, <2>3, SeqFacts DEF IsPassed
  <2>5. LatestRow(series, t) = <<>>
      BY <2>3, <2>4
  <2>6. ChangeOverWindow(series, t) = <<>>
      BY <2>5 DEF ChangeOverWindow, ChangeBetween
  <2> QED
      BY <2>6 DEF series
<1>6. seen = IF none THEN NoContext
             ELSE [values |-> values, interest |-> interest, price |-> price,
                   weak |-> WeakPricePush(interest, price)]
    BY DEF ContextAt
<1>7. \A x, y : PriceChange(x, y) = IF x # <<>> THEN x ELSE y
    BY DEF PriceChange
<1> HIDE DEF seen, Change, table
<1>8. seen.interest = interest /\ seen.price = price
  <2>1. CASE none
    <3>1. seen.interest = <<>> /\ seen.price = <<>>
        BY <2>1, <1>6 DEF NoContext
    <3>2. interest = <<>> /\ price = <<>>
        BY <2>1, <1>2, <1>5, <1>7
    <3> QED
        BY <3>1, <3>2
  <2>2. CASE ~ none
      BY <2>2, <1>6
  <2> QED
      BY <2>1, <2>2
<1>9. \A d \in ContextDatasets :
          seen.values[d] = IF passed[d] = 0 THEN <<>> ELSE <<Series[s][d][passed[d]]>>
  <2>1. CASE none
    <3>1. seen.values = [d \in ContextDatasets |-> <<>>]
        BY <2>1, <1>6 DEF NoContext
    <3> QED
        BY <3>1, <2>1
  <2>2. CASE ~ none
    <3>1. seen.values = values
        BY <2>2, <1>6
    <3> QED
        BY <3>1
  <2> QED
      BY <2>1, <2>2
<1>10. \A d \in ContextDatasets :
           \/ seen.values[d] = LatestIn(table[d], t)
           \/ t < StartTime /\ seen.values[d] = <<>>
  <2> SUFFICES ASSUME NEW d \in ContextDatasets
               PROVE  \/ seen.values[d] = LatestIn(table[d], t)
                      \/ t < StartTime /\ seen.values[d] = <<>>
      OBVIOUS
  <2>1. CASE passed[d] # 0
    <3>1. seen.values[d] = <<Series[s][d][passed[d]]>>
        BY <2>1, <1>9
    <3> QED
        BY <3>1, <2>1, <1>4
  <2>2. CASE passed[d] = 0
    <3>1. seen.values[d] = <<>>
        BY <2>2, <1>9
    <3>2. StartTime <= t \/ t < StartTime
        BY ConstantFacts
    <3> QED
        BY <3>1, <3>2, <2>2, <1>4
  <2> QED
      BY <2>1, <2>2
<1>11. /\ interest \in {ChangeIn(table["open_interest"], t), <<>>}
       /\ Change("mark_price") \in {ChangeIn(table["mark_price"], t), <<>>}
       /\ Change("index_price") \in {ChangeIn(table["index_price"], t), <<>>}
       /\ t - ContextWindow >= StartTime =>
              /\ interest = ChangeIn(table["open_interest"], t)
              /\ Change("mark_price") = ChangeIn(table["mark_price"], t)
              /\ Change("index_price") = ChangeIn(table["index_price"], t)
    BY <1>2, <1>3
<1>12. price \in {ChangeIn(table["mark_price"], t), ChangeIn(table["index_price"], t), <<>>}
    BY <1>7, <1>11
<1>13. t - ContextWindow >= StartTime =>
           price = PriceChange(ChangeIn(table["mark_price"], t), ChangeIn(table["index_price"], t))
    BY <1>11
<1> HIDE DEF interest, price
<1> QED
    BY <1>8, <1>10, <1>11, <1>12, <1>13, Zenon DEF ContextTells, seen, table

-----------------------------------------------------------------------------
(* The parts of a step and of the end of a run, by name.                   *)

RowNames == {"orders", "fills", "series", "traces", "summary", "status", "risk"}

\* The shape of the state, as far as the other parts rely on it.
Shape ==
    /\ options \in Options /\ bars \in Paths
    /\ phase \in {"running", "finished", "canceled", "raised"}
    /\ clock \in [now : 1..(NTimes + 1), last : 0..NSymbols, step : Nat]
    /\ clock.now = NTimes + 1 => clock.last = NSymbols
    /\ IsSeq(steps) /\ clock.step = Len(steps)
    /\ sides \in Seq(Sides)
    /\ DOMAIN pending = Symbols /\ \A s \in Symbols : pending[s] \subseteq DOMAIN sides
    /\ DOMAIN money = {"cash", "qty", "marks", "peak", "drawdown"}
    /\ money.cash \in Int /\ money.qty \in [Symbols -> Int] /\ money.marks \in [Symbols -> Int]
    /\ traced = [cash |-> money.cash, qty |-> money.qty]
    /\ DOMAIN buffers = {"span", "traces", "points"}
    /\ DOMAIN counts = {"signals", "blocked", "traces"}
    /\ DOMAIN rows = RowNames

Created(decision) == decision \in {"buy", "sell"}
Side(decision) == IF decision = "buy" THEN 1 ELSE -1
OrderOf(s) == [sym |-> s, at |-> clock.now, status |-> "submitted", signal |-> counts.signals + 1]
OrdersNow(s, filled, decision) ==
    IF Created(decision)
    THEN Append(WithStatus(rows.orders, filled, maps.orders, "filled"), OrderOf(s))
    ELSE WithStatus(rows.orders, filled, maps.orders, "filled")
OrderRowNow(s, filled, decision) ==
    IF Created(decision) THEN Append(maps.orders, IdOf("order", OrdersNow(s, filled, decision)))
    ELSE maps.orders
FillRowNow(filled) ==
    [id \in DOMAIN maps.fills \union filled |->
        IF id \in filled
        THEN <<"fill", Len(rows.fills) +
                       (CHOOSE i \in DOMAIN Sorted(filled) : Sorted(filled)[i] = id)>>
        ELSE maps.fills[id]]
QtyNow(s, filled) == [money.qty EXCEPT ![s] = @ + SideSum(filled)]
StepNow(s, filled, decision) ==
    [step |-> clock.step + 1, at |-> clock.now, sym |-> s, close |-> bars[s][clock.now],
     context |-> ContextNow(s),
     signals |-> IF decision = "none" THEN 0 ELSE 1,
     orders |-> IF Created(decision) THEN <<Len(sides) + 1>> ELSE <<>>,
     fills |-> Sorted(filled),
     blocked |-> IF decision = "blocked" THEN {BlockCode} ELSE {},
     cashDelta |-> (money.cash - SideSum(filled)) - traced.cash,
     qtyDelta |-> QtyNow(s, filled)[s] - traced.qty[s]]
AfterNow(s, filled, decision) ==
    AfterStep(options, buffers.span, StepNow(s, filled, decision),
              IsActivity(StepNow(s, filled, decision)))
EmittedNow(s, filled, decision) == buffers.traces \o AfterNow(s, filled, decision).emitted

\* A bar's step, with the parts of the state that it changes.
LEMMA StepBarParts ==
    ASSUME NEW s, NEW filled, NEW decision, StepBar(s, filled, decision)
    PROVE  /\ phase = "running" /\ phase' = "running" /\ options' = options /\ bars' = bars
           /\ clock.last < s
           /\ filled \subseteq pending[s]
           /\ clock' = [clock EXCEPT !.last = s, !.step = @ + 1]
           /\ cursors' = [x \in DOMAIN Series |-> IF x = s THEN MovedCursor(s) ELSE cursors[x]]
           /\ pending' = [pending EXCEPT ![s] =
                  (@ \ filled) \union IF Created(decision) THEN {Len(sides) + 1} ELSE {}]
           /\ sides' = IF Created(decision) THEN Append(sides, Side(decision)) ELSE sides
           /\ money' = [money EXCEPT !.cash = money.cash - SideSum(filled),
                                     !.qty = QtyNow(s, filled), !.marks[s] = bars[s][clock.now]]
           /\ traced' = [cash |-> money.cash - SideSum(filled), qty |-> QtyNow(s, filled)]
           /\ maps' = [orders |-> OrderRowNow(s, filled, decision), fills |-> FillRowNow(filled)]
           /\ steps' = Append(steps, StepNow(s, filled, decision))
BY DEF StepBar, Created, Side, OrderOf, OrdersNow, OrderRowNow, FillRowNow, QtyNow, StepNow,
       AfterNow, EmittedNow, data

\* The counters that it leaves.
LEMMA StepBarCounts ==
    ASSUME NEW s, NEW filled, NEW decision, StepBar(s, filled, decision)
    PROVE  counts' = [signals |-> counts.signals + StepNow(s, filled, decision).signals,
                      blocked |-> counts.blocked
                                  + Cardinality(StepNow(s, filled, decision).blocked),
                      traces |-> counts.traces + Len(AfterNow(s, filled, decision).emitted)]
BY DEF StepBar, Created, Side, OrderOf, OrdersNow, OrderRowNow, FillRowNow, QtyNow, StepNow,
       AfterNow, EmittedNow, data

IsRowsAfter(s, filled, decision, written) ==
    rows' = [rows EXCEPT
                !.orders = OrdersNow(s, filled, decision),
                !.fills = rows.fills \o FillRows(Sorted(filled), maps.orders, clock.now),
                !.traces = rows.traces \o written]

\* The buffers and the rows that a bar's step leaves.
LEMMA StepBarBuffers ==
    ASSUME NEW s, NEW filled, NEW decision, StepBar(s, filled, decision)
    PROVE  buffers' = [buffers EXCEPT
                          !.span = AfterNow(s, filled, decision).span,
                          !.traces = Kept(EmittedNow(s, filled, decision), ChunkSize)]
BY DEF StepBar, Created, Side, OrderOf, OrdersNow, OrderRowNow, FillRowNow, QtyNow, StepNow,
       AfterNow, EmittedNow, data

LEMMA StepBarRows ==
    ASSUME NEW s, NEW filled, NEW decision, StepBar(s, filled, decision)
    PROVE  \E written \in InsertedRows(Flushed(EmittedNow(s, filled, decision), ChunkSize),
                                       OrderRowNow(s, filled, decision), FillRowNow(filled)) :
               IsRowsAfter(s, filled, decision, written)
BY DEF StepBar, Created, Side, OrderOf, OrdersNow, OrderRowNow, FillRowNow, QtyNow, StepNow,
       AfterNow, EmittedNow, data, IsRowsAfter

LEMMA SideSumFacts ==
    ASSUME NEW ids, sides \in Seq(Sides), ids \subseteq DOMAIN sides
    PROVE  SideSum(ids) = Total(sides, ids) /\ SideSum(ids) \in Int /\ IsFiniteSet(ids)
<1> DEFINE base == 0
           Pick(S) == CHOOSE x \in S : TRUE
           Value(x) == sides[x]
           IsIt(it) == it = [s \in SUBSET ids |->
                                IF s = {} THEN base ELSE Value(Pick(s)) + it[s \ {Pick(s)}]]
           it == CHOOSE it : IsIt(it)
<1>1. IsFiniteSet(ids)
    BY LenProperties, FS_Interval, FS_Subset
<1>2. \A x \in ids : sides[x] \in Int
    BY ElementOfSeq, LenProperties DEF Sides
<1>3. SideSum(ids) = it[ids]
    BY DEF SideSum, MapThenSumSet, MapThenFoldSet
<1>4. PICK ir : IsSum(ir, sides, ids) /\ ir \in [SUBSET ids -> Int]
    BY <1>1, <1>2, SumExists
<1>5. IsIt(ir)
    BY <1>4 DEF IsSum
<1>6. IsSum(it, sides, ids)
  <2>1. IsIt(it)
      BY <1>5
  <2> HIDE DEF it
  <2> QED
      BY <2>1 DEF IsSum
<1> HIDE DEF it
<1>7. it[ids] = Total(sides, ids)
    BY <1>1, <1>2, <1>6, LoopComputesTotal
<1>8. Total(sides, ids) \in Int
    BY <1>1, <1>2, TotalFacts
<1> QED
    BY <1>1, <1>3, <1>7, <1>8

\* A bar's step, field by field.
LEMMA StepBarFields ==
    ASSUME Shape, NEW s \in Symbols, NEW filled, NEW decision, StepBar(s, filled, decision)
    PROVE  /\ clock' \in [now : 1..(NTimes + 1), last : 0..NSymbols, step : Nat]
           /\ clock'.now = clock.now /\ clock'.last = s /\ clock'.step = clock.step + 1
           /\ money'.cash = money.cash - SideSum(filled) /\ money'.cash \in Int
           /\ money'.qty = QtyNow(s, filled) /\ money'.qty \in [Symbols -> Int]
           /\ money'.peak = money.peak /\ money'.drawdown = money.drawdown
           /\ DOMAIN money' = DOMAIN money /\ money'.marks \in [Symbols -> Int]
           /\ DOMAIN buffers' = DOMAIN buffers /\ DOMAIN rows' = DOMAIN rows
           /\ buffers'.span = AfterNow(s, filled, decision).span
           /\ buffers'.traces = Kept(EmittedNow(s, filled, decision), ChunkSize)
           /\ buffers'.points = buffers.points
           /\ rows'.orders = OrdersNow(s, filled, decision)
           /\ rows'.fills = rows.fills \o FillRows(Sorted(filled), maps.orders, clock.now)
           /\ rows'.series = rows.series /\ rows'.summary = rows.summary
           /\ rows'.status = rows.status /\ rows'.risk = rows.risk
           /\ \E written \in InsertedRows(Flushed(EmittedNow(s, filled, decision), ChunkSize),
                                          OrderRowNow(s, filled, decision), FillRowNow(filled)) :
                  rows'.traces = rows.traces \o written
<1>1. /\ clock' = [clock EXCEPT !.last = s, !.step = @ + 1]
      /\ clock \in [now : 1..(NTimes + 1), last : 0..NSymbols, step : Nat]
    BY StepBarParts DEF Shape
<1>2. s \in 0..NSymbols
    BY ConstantFacts
<1>3. /\ clock' \in [now : 1..(NTimes + 1), last : 0..NSymbols, step : Nat]
      /\ clock'.now = clock.now /\ clock'.last = s /\ clock'.step = clock.step + 1
  <2>1. clock.step + 1 \in Nat /\ clock.now \in 1..(NTimes + 1)
      BY <1>1
  <2>2. clock' = [now |-> clock.now, last |-> s, step |-> clock.step + 1]
      BY <1>1
  <2> QED
      BY <2>1, <2>2, <1>2
<1>4. filled \subseteq DOMAIN sides /\ sides \in Seq(Sides)
    BY StepBarParts DEF Shape
<1>5. SideSum(filled) \in Int
    BY <1>4, SideSumFacts
<1>6. QtyNow(s, filled) \in [Symbols -> Int]
    BY <1>5 DEF QtyNow, Shape
<1>7. /\ money' = [money EXCEPT !.cash = money.cash - SideSum(filled),
                                !.qty = QtyNow(s, filled), !.marks[s] = bars[s][clock.now]]
      /\ DOMAIN money = {"cash", "qty", "marks", "peak", "drawdown"} /\ money.cash \in Int
    BY StepBarParts DEF Shape
<1>8. /\ money'.cash = money.cash - SideSum(filled) /\ money'.qty = QtyNow(s, filled)
      /\ money'.peak = money.peak /\ money'.drawdown = money.drawdown
      /\ DOMAIN money' = DOMAIN money
      /\ money'.marks = [money.marks EXCEPT ![s] = bars[s][clock.now]]
    BY <1>7
<1>15. money'.marks \in [Symbols -> Int]
  <2>1. clock.now \in 1..NTimes
    <3>1. clock.now \in 1..(NTimes + 1) /\ clock.last \in Nat
        BY <1>1
    <3>2. clock.last < s
        BY StepBarParts
    <3>3. clock.now # NTimes + 1
        BY <3>1, <3>2, ConstantFacts DEF Shape
    <3> QED
        BY <3>1, <3>3, ConstantFacts
  <2>2. bars[s][clock.now] \in Int
      BY <2>1, RecordsAssumption DEF Shape
  <2> QED
      BY <1>8, <2>2 DEF Shape
<1>9. money'.cash \in Int
    BY <1>5, <1>7, <1>8
<1>10. /\ buffers' = [buffers EXCEPT
                         !.span = AfterNow(s, filled, decision).span,
                         !.traces = Kept(EmittedNow(s, filled, decision), ChunkSize)]
       /\ DOMAIN buffers = {"span", "traces", "points"}
  <2>1. buffers' = [buffers EXCEPT
                       !.span = AfterNow(s, filled, decision).span,
                       !.traces = Kept(EmittedNow(s, filled, decision), ChunkSize)]
      BY StepBarBuffers
  <2> QED
      BY <2>1 DEF Shape
<1>11. /\ buffers'.span = AfterNow(s, filled, decision).span
       /\ buffers'.traces = Kept(EmittedNow(s, filled, decision), ChunkSize)
       /\ buffers'.points = buffers.points
       /\ DOMAIN buffers' = DOMAIN buffers
    BY <1>10
<1>12. PICK written \in InsertedRows(Flushed(EmittedNow(s, filled, decision), ChunkSize),
                                     OrderRowNow(s, filled, decision), FillRowNow(filled)) :
           IsRowsAfter(s, filled, decision, written)
    BY StepBarRows
<1>13. DOMAIN rows = RowNames
    BY DEF Shape
<1>14. /\ rows'.orders = OrdersNow(s, filled, decision)
       /\ rows'.fills = rows.fills \o FillRows(Sorted(filled), maps.orders, clock.now)
       /\ rows'.traces = rows.traces \o written
       /\ rows'.series = rows.series /\ rows'.summary = rows.summary
       /\ rows'.status = rows.status /\ rows'.risk = rows.risk
       /\ DOMAIN rows' = DOMAIN rows
    BY <1>12, <1>13 DEF RowNames, IsRowsAfter
<1> QED
    BY <1>3, <1>6, <1>8, <1>9, <1>11, <1>14, <1>15

LEMMA StepBarOrders ==
    ASSUME Shape, NEW s, NEW filled, NEW decision, StepBar(s, filled, decision)
    PROVE  rows'.orders = OrdersNow(s, filled, decision)
<1>1. PICK written \in InsertedRows(Flushed(EmittedNow(s, filled, decision), ChunkSize),
                                    OrderRowNow(s, filled, decision), FillRowNow(filled)) :
          IsRowsAfter(s, filled, decision, written)
    BY StepBarRows
<1>2. DOMAIN rows = RowNames
    BY DEF Shape
<1> QED
    BY <1>1, <1>2 DEF RowNames, IsRowsAfter

\* The end of a group, field by field.
PointsNow == Append(buffers.points, PointNow)
PeakNow == Max({money.peak, Equity(money)})
Deepest == Deeper(money.drawdown, PointNow.drawdown)
IsFull == Len(PointsNow) >= ChunkSize

LEMMA EndGroupParts ==
    ASSUME NEW next, EndGroup(next)
    PROVE  /\ phase = "running" /\ phase' = "running" /\ options' = options /\ bars' = bars
           /\ clock.now <= NTimes /\ clock.last > 0 /\ next \in NextTimes
           /\ clock' = [clock EXCEPT !.now = next,
                                     !.last = IF next > NTimes THEN NSymbols ELSE 0]
           /\ money' = [money EXCEPT !.peak = PeakNow, !.drawdown = Deepest]
           /\ buffers' = [buffers EXCEPT !.points = IF IsFull THEN <<>> ELSE PointsNow]
           /\ rows' = [rows EXCEPT !.series = IF IsFull THEN WithPoints(rows.series, PointsNow)
                                              ELSE rows.series]
           /\ cursors' = cursors /\ pending' = pending /\ sides' = sides /\ traced' = traced
           /\ counts' = counts /\ maps' = maps /\ steps' = steps
BY DEF EndGroup, PointsNow, PeakNow, Deepest, IsFull, data

LEMMA EndGroupFields ==
    ASSUME Shape, NEW next, EndGroup(next)
    PROVE  /\ clock' \in [now : 1..(NTimes + 1), last : 0..NSymbols, step : Nat]
           /\ clock'.now = next /\ clock'.last = (IF next > NTimes THEN NSymbols ELSE 0)
           /\ clock'.step = clock.step
           /\ money'.cash = money.cash /\ money'.qty = money.qty /\ money'.marks = money.marks
           /\ money'.peak = PeakNow /\ money'.drawdown = Deepest
           /\ DOMAIN money' = DOMAIN money
           /\ buffers'.span = buffers.span /\ buffers'.traces = buffers.traces
           /\ buffers'.points = (IF IsFull THEN <<>> ELSE PointsNow)
           /\ DOMAIN buffers' = DOMAIN buffers
           /\ rows'.series = (IF IsFull THEN WithPoints(rows.series, PointsNow) ELSE rows.series)
           /\ rows'.orders = rows.orders /\ rows'.fills = rows.fills
           /\ rows'.traces = rows.traces /\ rows'.summary = rows.summary
           /\ rows'.status = rows.status /\ rows'.risk = rows.risk
           /\ DOMAIN rows' = DOMAIN rows
<1>1. /\ clock \in [now : 1..(NTimes + 1), last : 0..NSymbols, step : Nat]
      /\ DOMAIN money = {"cash", "qty", "marks", "peak", "drawdown"}
      /\ DOMAIN buffers = {"span", "traces", "points"}
      /\ DOMAIN rows = RowNames
    BY DEF Shape
<1>2. next \in 1..(NTimes + 1) /\ NSymbols \in 0..NSymbols /\ 0 \in 0..NSymbols
  <2>1. next \in NextTimes
      BY EndGroupParts
  <2>2. clock.now \in Nat
      BY <1>1
  <2> QED
      BY <2>1, <2>2, ConstantFacts DEF NextTimes
<1>3. /\ clock' \in [now : 1..(NTimes + 1), last : 0..NSymbols, step : Nat]
      /\ clock'.now = next /\ clock'.last = (IF next > NTimes THEN NSymbols ELSE 0)
      /\ clock'.step = clock.step
  <2>1. clock' = [clock EXCEPT !.now = next, !.last = IF next > NTimes THEN NSymbols ELSE 0]
      BY EndGroupParts
  <2> QED
      BY <1>1, <1>2, <2>1
<1>4. /\ money'.cash = money.cash /\ money'.qty = money.qty /\ money'.marks = money.marks
      /\ money'.peak = PeakNow /\ money'.drawdown = Deepest
      /\ DOMAIN money' = DOMAIN money
  <2>1. money' = [money EXCEPT !.peak = PeakNow, !.drawdown = Deepest]
      BY EndGroupParts
  <2> QED
      BY <1>1, <2>1
<1>5. /\ buffers'.span = buffers.span /\ buffers'.traces = buffers.traces
      /\ buffers'.points = (IF IsFull THEN <<>> ELSE PointsNow)
      /\ DOMAIN buffers' = DOMAIN buffers
  <2>1. buffers' = [buffers EXCEPT !.points = IF IsFull THEN <<>> ELSE PointsNow]
      BY EndGroupParts
  <2> QED
      BY <1>1, <2>1
<1>6. /\ rows'.series = (IF IsFull THEN WithPoints(rows.series, PointsNow) ELSE rows.series)
      /\ rows'.orders = rows.orders /\ rows'.fills = rows.fills
      /\ rows'.traces = rows.traces /\ rows'.summary = rows.summary
      /\ rows'.status = rows.status /\ rows'.risk = rows.risk
      /\ DOMAIN rows' = DOMAIN rows
  <2>1. rows' = [rows EXCEPT !.series = IF IsFull THEN WithPoints(rows.series, PointsNow)
                                        ELSE rows.series]
      BY EndGroupParts
  <2> QED
      BY <1>1, <2>1 DEF RowNames
<1> QED
    BY <1>3, <1>4, <1>5, <1>6

\* The end of a run, field by field.
OpenNow == UNION {pending[s] : s \in Symbols}
LastEmitted == buffers.traces \o SelectedRecords(buffers.span)
TracesInAll == counts.traces + Len(SelectedRecords(buffers.span))

IsRowsAtEnd(now, last) ==
    rows' = [rows EXCEPT
                !.orders = WithStatus(rows.orders, OpenNow, maps.orders, "expired"),
                !.series = WithPoints(rows.series, buffers.points),
                !.traces = rows.traces \o now \o last,
                !.summary = <<[finalEquity |-> Equity(money), drawdown |-> money.drawdown]>>,
                !.status = "finished",
                !.risk = [blocked |-> counts.blocked, traces |-> TracesInAll]]

LEMMA FinishParts ==
    ASSUME Finish
    PROVE  /\ phase = "running" /\ phase' = "finished" /\ clock.now = NTimes + 1
           /\ options' = options /\ bars' = bars
           /\ pending' = NoPending /\ buffers' = NoBuffers
           /\ counts' = [counts EXCEPT !.traces = TracesInAll]
           /\ clock' = clock /\ cursors' = cursors /\ sides' = sides /\ money' = money
           /\ traced' = traced /\ maps' = maps /\ steps' = steps
BY DEF Finish, TracesInAll, data

LEMMA FinishRows ==
    ASSUME Finish
    PROVE  \E now \in InsertedRows(Flushed(LastEmitted, ChunkSize), maps.orders, maps.fills) :
           \E last \in InsertedRows(Kept(LastEmitted, ChunkSize), maps.orders, maps.fills) :
               IsRowsAtEnd(now, last)
BY DEF Finish, LastEmitted, OpenNow, TracesInAll, IsRowsAtEnd

LEMMA FinishFields ==
    ASSUME Shape, Finish
    PROVE  /\ rows'.orders = WithStatus(rows.orders, OpenNow, maps.orders, "expired")
           /\ rows'.fills = rows.fills
           /\ rows'.series = WithPoints(rows.series, buffers.points)
           /\ rows'.summary = <<[finalEquity |-> Equity(money), drawdown |-> money.drawdown]>>
           /\ rows'.status = "finished"
           /\ rows'.risk = [blocked |-> counts.blocked, traces |-> TracesInAll]
           /\ DOMAIN rows' = DOMAIN rows
           /\ counts'.signals = counts.signals /\ counts'.blocked = counts.blocked
           /\ counts'.traces = TracesInAll /\ DOMAIN counts' = DOMAIN counts
           /\ \E now \in InsertedRows(Flushed(LastEmitted, ChunkSize), maps.orders, maps.fills) :
              \E last \in InsertedRows(Kept(LastEmitted, ChunkSize), maps.orders, maps.fills) :
                  rows'.traces = rows.traces \o now \o last
<1>1. DOMAIN rows = RowNames /\ DOMAIN counts = {"signals", "blocked", "traces"}
    BY DEF Shape
<1>2. PICK now \in InsertedRows(Flushed(LastEmitted, ChunkSize), maps.orders, maps.fills) :
      \E last \in InsertedRows(Kept(LastEmitted, ChunkSize), maps.orders, maps.fills) :
          IsRowsAtEnd(now, last)
    BY FinishRows
<1>3. PICK last \in InsertedRows(Kept(LastEmitted, ChunkSize), maps.orders, maps.fills) :
          IsRowsAtEnd(now, last)
    BY <1>2
<1>4. /\ rows'.orders = WithStatus(rows.orders, OpenNow, maps.orders, "expired")
      /\ rows'.fills = rows.fills
      /\ rows'.series = WithPoints(rows.series, buffers.points)
      /\ rows'.summary = <<[finalEquity |-> Equity(money), drawdown |-> money.drawdown]>>
      /\ rows'.status = "finished"
      /\ rows'.risk = [blocked |-> counts.blocked, traces |-> TracesInAll]
      /\ DOMAIN rows' = DOMAIN rows
      /\ rows'.traces = rows.traces \o now \o last
    BY <1>1, <1>3 DEF RowNames, IsRowsAtEnd
<1>5. /\ counts'.signals = counts.signals /\ counts'.blocked = counts.blocked
      /\ counts'.traces = TracesInAll /\ DOMAIN counts' = DOMAIN counts
  <2>1. counts' = [counts EXCEPT !.traces = TracesInAll]
      BY FinishParts
  <2> QED
      BY <1>1, <2>1
<1>6. \E n \in InsertedRows(Flushed(LastEmitted, ChunkSize), maps.orders, maps.fills) :
      \E l \in InsertedRows(Kept(LastEmitted, ChunkSize), maps.orders, maps.fills) :
          rows'.traces = rows.traces \o n \o l
    BY <1>4, Zenon
<1> QED
    BY <1>4, <1>5, <1>6

\* What is left of a run that was undone.
LEMMA UndoneParts ==
    ASSUME NEW how \in {"canceled", "raised"}, Undone(how)
    PROVE  /\ phase' \in {"canceled", "raised"} /\ rows' = NoRows
           /\ clock' = NoClock /\ cursors' = AtFirstRows /\ pending' = NoPending
           /\ sides' = <<>> /\ money' = AtStart /\ traced' = NotTraced /\ buffers' = NoBuffers
           /\ counts' = NoCounts /\ maps' = NoMaps /\ steps' = <<>>
           /\ options' = options /\ bars' = bars
BY DEF Undone, data

-----------------------------------------------------------------------------
(* The shape of the state is kept.                                         *)

LEMMA ShapeAtRest ==
    /\ NoClock \in [now : 1..(NTimes + 1), last : 0..NSymbols, step : Nat]
    /\ \A first \in 1..NTimes : [NoClock EXCEPT !.now = first]
           \in [now : 1..(NTimes + 1), last : 0..NSymbols, step : Nat]
    /\ \A first \in 1..NTimes : [NoClock EXCEPT !.now = first].now # NTimes + 1
    /\ \A first \in 1..NTimes : [NoClock EXCEPT !.now = first].step = 0
    /\ NoClock.step = 0 /\ NoClock.now # NTimes + 1
    /\ IsSeq(<<>>) /\ Len(<<>>) = 0 /\ <<>> \in Seq(Sides)
    /\ DOMAIN NoPending = Symbols /\ \A s \in Symbols : NoPending[s] = {}
    /\ DOMAIN AtStart = {"cash", "qty", "marks", "peak", "drawdown"}
    /\ AtStart.cash \in Int /\ AtStart.qty \in [Symbols -> Int] /\ AtStart.marks \in [Symbols -> Int]
    /\ NotTraced = [cash |-> AtStart.cash, qty |-> AtStart.qty]
    /\ DOMAIN NoBuffers = {"span", "traces", "points"}
    /\ DOMAIN NoCounts = {"signals", "blocked", "traces"}
    /\ DOMAIN NoRows = RowNames
    /\ DOMAIN [NoRows EXCEPT !.status = "running"] = RowNames
<1>1. NSymbols \in Nat /\ NTimes \in Nat \ {0} /\ InitialCash \in Int
    BY RecordsAssumption
<1>2. /\ NoClock \in [now : 1..(NTimes + 1), last : 0..NSymbols, step : Nat]
      /\ \A first \in 1..NTimes : [NoClock EXCEPT !.now = first]
             \in [now : 1..(NTimes + 1), last : 0..NSymbols, step : Nat]
      /\ \A first \in 1..NTimes : [NoClock EXCEPT !.now = first].now # NTimes + 1
      /\ \A first \in 1..NTimes : [NoClock EXCEPT !.now = first].step = 0
      /\ NoClock.step = 0 /\ NoClock.now # NTimes + 1
    BY <1>1 DEF NoClock
<1>3. Flat \in [Symbols -> Int]
    BY DEF Flat
<1>4. /\ DOMAIN AtStart = {"cash", "qty", "marks", "peak", "drawdown"}
      /\ AtStart.cash \in Int /\ AtStart.qty \in [Symbols -> Int]
      /\ AtStart.marks \in [Symbols -> Int]
      /\ NotTraced = [cash |-> AtStart.cash, qty |-> AtStart.qty]
    BY <1>1, <1>3 DEF AtStart, NotTraced
<1>5. /\ DOMAIN NoBuffers = {"span", "traces", "points"}
      /\ DOMAIN NoCounts = {"signals", "blocked", "traces"}
      /\ DOMAIN NoRows = RowNames
      /\ DOMAIN [NoRows EXCEPT !.status = "running"] = RowNames
    BY DEF NoBuffers, NoCounts, NoRows, RowNames
<1>6. DOMAIN NoPending = Symbols /\ \A s \in Symbols : NoPending[s] = {}
    BY DEF NoPending
<1>7. IsSeq(<<>>) /\ Len(<<>>) = 0 /\ <<>> \in Seq(Sides)
    BY EmptySeqFacts
<1> QED
    BY <1>2, <1>4, <1>5, <1>6, <1>7

LEMMA ShapeInit == Init => Shape
<1> SUFFICES ASSUME Init PROVE Shape
    OBVIOUS
<1>1. PICK first \in 1..NTimes : clock = [NoClock EXCEPT !.now = first]
    BY DEF Init
<1>2. /\ clock \in [now : 1..(NTimes + 1), last : 0..NSymbols, step : Nat]
      /\ clock.now # NTimes + 1 /\ clock.step = 0
    BY <1>1, ShapeAtRest
<1>3. rows = [NoRows EXCEPT !.status = "running"]
    BY DEF Init
<1>4. DOMAIN rows = RowNames
    BY <1>3, ShapeAtRest
<1> QED
    BY <1>2, <1>4, ShapeAtRest, Zenon DEF Init, Shape

LEMMA ShapeStepBar ==
    ASSUME Shape, NEW s \in Symbols, NEW filled, NEW decision, StepBar(s, filled, decision)
    PROVE  Shape'
<1>1. /\ phase' = "running" /\ options' = options /\ bars' = bars
      /\ filled \subseteq pending[s] /\ clock.last < s
      /\ pending' = [pending EXCEPT ![s] =
             (@ \ filled) \union IF Created(decision) THEN {Len(sides) + 1} ELSE {}]
      /\ sides' = IF Created(decision) THEN Append(sides, Side(decision)) ELSE sides
      /\ traced' = [cash |-> money.cash - SideSum(filled), qty |-> QtyNow(s, filled)]
      /\ steps' = Append(steps, StepNow(s, filled, decision))
    BY StepBarParts
<1>2. /\ sides \in Seq(Sides) /\ IsSeq(steps) /\ clock.step = Len(steps)
      /\ DOMAIN pending = Symbols /\ \A x \in Symbols : pending[x] \subseteq DOMAIN sides
      /\ options \in Options /\ bars \in Paths
    BY DEF Shape
<1>3. sides' \in Seq(Sides) /\ DOMAIN sides \subseteq DOMAIN sides'
      /\ (Created(decision) => Len(sides) + 1 \in DOMAIN sides')
  <2>1. Side(decision) \in Sides
      BY DEF Side, Sides
  <2> QED
      BY <1>1, <1>2, <2>1, AppendFacts, LenProperties
<1>4. /\ DOMAIN pending' = Symbols
      /\ \A x \in Symbols : pending'[x] \subseteq DOMAIN sides'
  <2>1. DOMAIN pending' = Symbols
      BY <1>1, <1>2
  <2>2. \A x \in Symbols : x # s => pending'[x] = pending[x]
      BY <1>1, <1>2
  <2>3. pending'[s] =
            (pending[s] \ filled) \union IF Created(decision) THEN {Len(sides) + 1} ELSE {}
      BY <1>1, <1>2
  <2> QED
      BY <2>1, <2>2, <2>3, <1>2, <1>3
<1>5. IsSeq(steps') /\ Len(steps') = Len(steps) + 1
    BY <1>1, <1>2, AppendSeq
<1>6. /\ clock' \in [now : 1..(NTimes + 1), last : 0..NSymbols, step : Nat]
      /\ clock'.now = clock.now /\ clock'.last = s /\ clock'.step = clock.step + 1
    BY StepBarFields
<1>7. clock'.now = NTimes + 1 => clock'.last = NSymbols
  <2>1. clock.last \in Nat /\ s \in 1..NSymbols
      BY ConstantFacts DEF Shape
  <2> QED
      BY <2>1, <1>1, <1>6, ConstantFacts DEF Shape
<1>8. /\ DOMAIN money' = {"cash", "qty", "marks", "peak", "drawdown"}
      /\ money'.cash \in Int /\ money'.qty \in [Symbols -> Int]
      /\ money'.marks \in [Symbols -> Int]
      /\ money'.cash = money.cash - SideSum(filled) /\ money'.qty = QtyNow(s, filled)
  <2>1. DOMAIN money' = DOMAIN money
      BY StepBarFields
  <2>2. DOMAIN money = {"cash", "qty", "marks", "peak", "drawdown"}
      BY DEF Shape
  <2>3. /\ money'.cash \in Int /\ money'.qty \in [Symbols -> Int]
        /\ money'.marks \in [Symbols -> Int]
        /\ money'.cash = money.cash - SideSum(filled) /\ money'.qty = QtyNow(s, filled)
      BY StepBarFields
  <2> QED
      BY <2>1, <2>2, <2>3
<1>9. traced' = [cash |-> money'.cash, qty |-> money'.qty]
    BY <1>1, <1>8
<1>10. DOMAIN buffers' = {"span", "traces", "points"} /\ DOMAIN rows' = RowNames
    BY StepBarFields, Zenon DEF Shape
<1>11. DOMAIN counts' = {"signals", "blocked", "traces"}
  <2>1. counts' = [signals |-> counts.signals + StepNow(s, filled, decision).signals,
                   blocked |-> counts.blocked + Cardinality(StepNow(s, filled, decision).blocked),
                   traces |-> counts.traces + Len(AfterNow(s, filled, decision).emitted)]
      BY StepBarCounts
  <2> QED
      BY <2>1
<1> QED
    BY <1>1, <1>2, <1>3, <1>4, <1>5, <1>6, <1>7, <1>8, <1>9, <1>10, <1>11, Zenon DEF Shape

LEMMA ShapeEndGroup ==
    ASSUME Shape, NEW next, EndGroup(next)
    PROVE  Shape'
<1>1. /\ phase' = "running" /\ options' = options /\ bars' = bars /\ pending' = pending
      /\ sides' = sides /\ steps' = steps /\ traced' = traced /\ counts' = counts
    BY EndGroupParts
<1>2. /\ clock' \in [now : 1..(NTimes + 1), last : 0..NSymbols, step : Nat]
      /\ clock'.now = next /\ clock'.last = (IF next > NTimes THEN NSymbols ELSE 0)
      /\ clock'.step = clock.step
    BY EndGroupFields
<1>3. clock'.now = NTimes + 1 => clock'.last = NSymbols
    BY <1>2, ConstantFacts
<1>4. /\ money'.cash = money.cash /\ money'.qty = money.qty /\ money'.marks = money.marks
      /\ DOMAIN money' = DOMAIN money /\ DOMAIN buffers' = DOMAIN buffers
      /\ DOMAIN rows' = DOMAIN rows
    BY EndGroupFields
<1> QED
    BY <1>1, <1>2, <1>3, <1>4, Zenon DEF Shape

LEMMA ShapeFinish ==
    ASSUME Shape, Finish
    PROVE  Shape'
<1>1. /\ phase' = "finished" /\ options' = options /\ bars' = bars /\ pending' = NoPending
      /\ buffers' = NoBuffers /\ clock' = clock /\ sides' = sides /\ money' = money
      /\ steps' = steps /\ traced' = traced
    BY FinishParts
<1>2. DOMAIN rows' = DOMAIN rows /\ DOMAIN counts' = DOMAIN counts
    BY FinishFields
<1>3. DOMAIN pending' = Symbols /\ \A s \in Symbols : pending'[s] \subseteq DOMAIN sides'
    BY <1>1, ShapeAtRest
<1> QED
    BY <1>1, <1>2, <1>3, ShapeAtRest, Zenon DEF Shape

LEMMA ShapeUndone ==
    ASSUME Shape, NEW how \in {"canceled", "raised"}, Undone(how)
    PROVE  Shape'
<1>1. phase' \in {"running", "finished", "canceled", "raised"}
    BY UndoneParts
<1>2. DOMAIN pending' = Symbols /\ \A s \in Symbols : pending'[s] \subseteq DOMAIN sides'
    BY UndoneParts, ShapeAtRest
<1>3. options' \in Options /\ bars' \in Paths
    BY UndoneParts DEF Shape
<1> QED
    BY <1>1, <1>2, <1>3, UndoneParts, ShapeAtRest, Zenon DEF Shape

-----------------------------------------------------------------------------
(* The cursors.  A cursor has passed only rows that are not after the bar  *)
(* time, so that what it shows at every step is what the tables say.       *)

LEMMA StepNowFields ==
    ASSUME NEW s, NEW filled, NEW decision
    PROVE  LET step == StepNow(s, filled, decision)
           IN  /\ step.step = clock.step + 1 /\ step.at = clock.now /\ step.sym = s
               /\ step.close = bars[s][clock.now] /\ step.context = ContextNow(s)
               /\ step.signals = (IF decision = "none" THEN 0 ELSE 1)
               /\ step.orders = (IF Created(decision) THEN <<Len(sides) + 1>> ELSE <<>>)
               /\ step.fills = Sorted(filled)
               /\ step.blocked = (IF decision = "blocked" THEN {BlockCode} ELSE {})
               /\ step.cashDelta = (money.cash - SideSum(filled)) - traced.cash
BY DEF StepNow

LEMMA BarTime ==
    ASSUME Shape, NEW s \in Symbols, NEW filled, NEW decision, StepBar(s, filled, decision)
    PROVE  clock.now \in 1..NTimes /\ clock.last \in Nat /\ clock.last < s
<1>1. clock.now \in 1..(NTimes + 1) /\ clock.last \in Nat
    BY DEF Shape
<1>2. clock.last < s
    BY StepBarParts
<1>3. clock.now # NTimes + 1
    BY <1>1, <1>2, ConstantFacts DEF Shape
<1> QED
    BY <1>1, <1>2, <1>3, ConstantFacts

\* The rows that every cursor has passed are not after the time of the clock.
CursorsBehind ==
    /\ DOMAIN cursors = DOMAIN ContextTables
    /\ \A s \in DOMAIN ContextTables, d \in ContextDatasets :
           /\ cursors[s][d] \in 0..Len(Series[s][d])
           /\ \A i \in 1..cursors[s][d] : Series[s][d][i].at <= clock.now

\* Every step so far was shown what the tables say.
ContextTold ==
    \A k \in 1..Len(steps) : steps[k].sym \in DOMAIN ContextTables =>
        ContextTells(steps[k].sym, steps[k].at, steps[k].context)

LEMMA SeriesFacts ==
    ASSUME NEW s \in DOMAIN ContextTables, NEW d \in ContextDatasets
    PROVE  /\ DOMAIN Series = DOMAIN ContextTables
           /\ IsSeq(Series[s][d]) /\ Len(Series[s][d]) \in Nat
           /\ \A i \in 1..Len(Series[s][d]) : Series[s][d][i].at \in Int
           /\ \A i, j \in 1..Len(Series[s][d]) :
                  i < j => Series[s][d][i].at < Series[s][d][j].at
<1> DEFINE table == ContextTables[s][d]
           series == Series[s][d]
<1>1. DOMAIN table \subseteq Int /\ IsFiniteSet(DOMAIN table)
    BY ConstantFacts
<1>2. series = LoadedSeries(table, StartTime, NTimes) /\ DOMAIN Series = DOMAIN ContextTables
    BY DEF Series
<1> HIDE DEF table, series
<1>3. /\ IsSeq(series) /\ Len(series) \in Nat
      /\ \A i \in 1..Len(series) : series[i].at \in Int
      /\ \A i, j \in 1..Len(series) : i < j => series[i].at < series[j].at
    BY <1>1, <1>2, ConstantFacts, LoadedSeriesFacts
<1> QED
    BY <1>2, <1>3 DEF series

LEMMA MovedCursorFacts ==
    ASSUME Shape, CursorsBehind, NEW s \in DOMAIN ContextTables, NEW d \in ContextDatasets
    PROVE  IsPassed(Series[s][d], MovedCursor(s)[d], clock.now)
<1> DEFINE series == Series[s][d]
           position == cursors[s][d]
<1>1. /\ IsSeq(series) /\ \A i \in 1..Len(series) : series[i].at \in Int
      /\ \A i, j \in 1..Len(series) : i < j => series[i].at < series[j].at
    BY SeriesFacts
<1>2. /\ position \in 0..Len(series)
      /\ \A i \in 1..position : series[i].at <= clock.now
    BY DEF CursorsBehind
<1>3. clock.now \in Int
    BY DEF Shape
<1>4. MovedCursor(s)[d] = Passed(series, position, clock.now)
    BY DEF MovedCursor
<1> HIDE DEF series, position
<1>5. IsPassed(series, Passed(series, position, clock.now), clock.now)
    BY <1>1, <1>2, <1>3, PassedFacts
<1> QED
    BY <1>4, <1>5 DEF series

LEMMA CursorsInit == Init => CursorsBehind /\ ContextTold
<1> SUFFICES ASSUME Init PROVE CursorsBehind /\ ContextTold
    OBVIOUS
<1>1. cursors = AtFirstRows /\ steps = <<>>
    BY DEF Init
<1>2. ContextTold
    BY <1>1, EmptySeqFacts DEF ContextTold
<1>3. \A s \in DOMAIN ContextTables, d \in ContextDatasets :
          cursors[s][d] = 0 /\ 0 \in 0..Len(Series[s][d])
    BY <1>1, SeriesFacts DEF AtFirstRows
<1>4. DOMAIN cursors = DOMAIN ContextTables
    BY <1>1 DEF AtFirstRows
<1> QED
    BY <1>2, <1>3, <1>4 DEF CursorsBehind

LEMMA CursorsStepBar ==
    ASSUME Shape, CursorsBehind, ContextTold,
           NEW s \in Symbols, NEW filled, NEW decision, StepBar(s, filled, decision)
    PROVE  CursorsBehind' /\ ContextTold'
<1>1. cursors' = [x \in DOMAIN Series |-> IF x = s THEN MovedCursor(s) ELSE cursors[x]]
    BY StepBarParts
<1>2. clock'.now = clock.now
    BY StepBarFields
<1>3. steps' = Append(steps, StepNow(s, filled, decision))
    BY StepBarParts
<1>4. clock.now \in 1..NTimes
    BY BarTime
<1>5. DOMAIN Series = DOMAIN ContextTables
    BY DEF Series
<1>6. CursorsBehind'
  <2>1. DOMAIN cursors' = DOMAIN ContextTables
      BY <1>1, <1>5
  <2>2. ASSUME NEW x \in DOMAIN ContextTables, NEW d \in ContextDatasets
        PROVE  /\ cursors'[x][d] \in 0..Len(Series[x][d])
               /\ \A i \in 1..cursors'[x][d] : Series[x][d][i].at <= clock.now
    <3>1. CASE x = s
      <4>1. cursors'[x][d] = MovedCursor(s)[d]
          BY <3>1, <1>1, <1>5
      <4>2. IsPassed(Series[x][d], MovedCursor(s)[d], clock.now)
          BY <3>1, MovedCursorFacts
      <4>3. Len(Series[x][d]) \in Nat
          BY SeriesFacts
      <4> QED
          BY <4>1, <4>2, <4>3 DEF IsPassed
    <3>2. CASE x # s
      <4>1. cursors'[x][d] = cursors[x][d]
          BY <3>2, <1>1, <1>5
      <4> QED
          BY <4>1 DEF CursorsBehind
    <3> QED
        BY <3>1, <3>2
  <2>3. Series' = Series
      BY DEF Series
  <2> QED
      BY <2>1, <2>2, <2>3, <1>2 DEF CursorsBehind
<1>7. ContextTold'
  <2> DEFINE step == StepNow(s, filled, decision)
             new == Append(steps, step)
  <2>1. s \in DOMAIN ContextTables => ContextTells(s, clock.now, ContextNow(s))
    <3>1. SUFFICES ASSUME s \in DOMAIN ContextTables
                   PROVE  ContextTells(s, clock.now, ContextNow(s))
        OBVIOUS
    <3>2. ContextNow(s) = ContextAt(Series[s], MovedCursor(s), clock.now)
        BY <3>1, <1>5 DEF ContextNow
    <3>3. \A d \in ContextDatasets : IsPassed(Series[s][d], MovedCursor(s)[d], clock.now)
        BY <3>1, MovedCursorFacts
    <3>4. clock.now \in Int /\ clock.now <= NTimes
        BY <1>4, ConstantFacts
    <3>5. ContextTells(s, clock.now, ContextAt(Series[s], MovedCursor(s), clock.now))
        BY <3>1, <3>3, <3>4, ContextAtTells
    <3> QED
        BY <3>2, <3>5
  <2>2. step.sym = s /\ step.at = clock.now /\ step.context = ContextNow(s)
      BY StepNowFields
  <2>3. IsSeq(steps)
      BY DEF Shape
  <2> HIDE DEF step
  <2>4. /\ Len(steps) \in Nat /\ Len(new) = Len(steps) + 1 /\ new[Len(steps) + 1] = step
        /\ \A k \in 1..Len(steps) : new[k] = steps[k]
      BY <2>3, AppendSeq
  <2>5. steps' = new
      BY <1>3 DEF step
  <2> HIDE DEF new
  <2>6. \A k \in 1..Len(new) : k \in 1..Len(steps) \/ k = Len(steps) + 1
      BY <2>4
  <2>7. \A k \in 1..Len(new) : new[k].sym \in DOMAIN ContextTables =>
            ContextTells(new[k].sym, new[k].at, new[k].context)
    <3> SUFFICES ASSUME NEW k \in 1..Len(new), new[k].sym \in DOMAIN ContextTables
                 PROVE  ContextTells(new[k].sym, new[k].at, new[k].context)
        OBVIOUS
    <3>1. CASE k \in 1..Len(steps)
      <4>1. new[k] = steps[k]
          BY <3>1, <2>4
      <4> QED
          BY <3>1, <4>1 DEF ContextTold
    <3>2. CASE k = Len(steps) + 1
      <4>1. new[k] = step
          BY <3>2, <2>4
      <4> QED
          BY <4>1, <2>1, <2>2
    <3> QED
        BY <3>1, <3>2, <2>6
  <2> QED
      BY <2>5, <2>7, Zenon DEF ContextTold, ContextTells
<1> QED
    BY <1>6, <1>7

LEMMA CursorsEndGroup ==
    ASSUME Shape, CursorsBehind, ContextTold, NEW next, EndGroup(next)
    PROVE  CursorsBehind' /\ ContextTold'
<1>1. cursors' = cursors /\ steps' = steps
    BY EndGroupParts
<1>2. next \in NextTimes
    BY EndGroupParts
<1>3. clock'.now = next
    BY EndGroupFields
<1>4. clock.now \in Int
    BY DEF Shape
<1>5. clock'.now \in Int /\ clock.now <= clock'.now
    BY <1>2, <1>3, <1>4, ConstantFacts DEF NextTimes
<1>6. \A s \in DOMAIN ContextTables, d \in ContextDatasets :
          \A i \in 1..cursors[s][d] : Series[s][d][i].at \in Int
    BY SeriesFacts DEF CursorsBehind
<1>7. \A s \in DOMAIN ContextTables, d \in ContextDatasets :
          \A i \in 1..cursors[s][d] : Series[s][d][i].at <= clock'.now
    BY <1>4, <1>5, <1>6 DEF CursorsBehind
<1>8. Series' = Series
    BY DEF Series
<1>9. CursorsBehind'
    BY <1>1, <1>7, <1>8 DEF CursorsBehind
<1>10. ContextTold'
    BY <1>1, Zenon DEF ContextTold, ContextTells
<1> QED
    BY <1>9, <1>10

-----------------------------------------------------------------------------
(* Orders and fills.  Three tables and two maps know of an order: its row, *)
(* its fills and the position that it left, which agree at every moment.   *)

\* The map of order ids names the rows in the order of the ids.
NamesRows(map) == IsSeq(map) /\ \A i \in 1..Len(map) : map[i] = <<"order", i>>

OrderFields == {"sym", "at", "status", "signal"}
IsOrderRow(row) == DOMAIN row = OrderFields /\ row.sym \in Symbols

IsFilled(i) == rows.orders[i].status = "filled"
OrderId(i) == <<"order", i>>
FillsAt(i) == {j \in 1..Len(rows.fills) : rows.fills[j].order = OrderId(i)}
FilledSides(s) ==
    [i \in 1..Len(sides) |-> IF rows.orders[i].sym = s /\ IsFilled(i) THEN sides[i] ELSE 0]

OrdersShape ==
    /\ IsSeq(rows.orders) /\ Len(rows.orders) = Len(sides)
    /\ \A i \in 1..Len(sides) : IsOrderRow(rows.orders[i])
    /\ NamesRows(maps.orders) /\ Len(maps.orders) = Len(sides)
    /\ DOMAIN maps.fills \subseteq 1..Len(sides)
    /\ IsSeq(rows.fills)

\* Every fill is of an order that is filled, and every filled order has one.
FillsTell ==
    /\ \A j \in 1..Len(rows.fills) : \E i \in 1..Len(sides) : rows.fills[j].order = OrderId(i)
    /\ \A i \in 1..Len(sides) :
           /\ IsFilled(i) => \E j : FillsAt(i) = {j}
           /\ ~IsFilled(i) => FillsAt(i) = {}

\* While the run goes on, what is not filled is pending; then it has expired.
PendingTell ==
    /\ \A s \in Symbols : \A i \in pending[s] :
           i \in 1..Len(sides) /\ rows.orders[i].sym = s /\ ~IsFilled(i)
    /\ phase = "running" =>
           \A i \in 1..Len(sides) : IsFilled(i) \/ i \in pending[rows.orders[i].sym]
    /\ phase = "finished" =>
           \A i \in 1..Len(sides) : IsFilled(i) \/ rows.orders[i].status = "expired"

PositionsTell ==
    \A s \in Symbols : money.qty[s] = Total(FilledSides(s), 1..Len(sides))

OrdersTell == OrdersShape /\ FillsTell /\ PendingTell /\ PositionsTell

Restated(row, status) == [row EXCEPT !.status = status]
IsMarked(new, table, ids, status) ==
    /\ IsSeq(new) /\ Len(new) = Len(table)
    /\ \A i \in 1..Len(table) :
           /\ i \in ids => new[i] = Restated(table[i], status)
           /\ i \notin ids => new[i] = table[i]

LEMMA WithStatusFacts ==
    ASSUME NEW table, IsSeq(table), NEW ids, NEW map, NamesRows(map),
           ids \subseteq 1..Len(map), NEW status
    PROVE  IsMarked(WithStatus(table, ids, map, status), table, ids, status)
<1> DEFINE new == WithStatus(table, ids, map, status)
           Named(i) == \E id \in ids : id \in DOMAIN map /\ map[id] = <<"order", i>>
           n == Len(table)
<1>1. /\ n \in Nat /\ DOMAIN table = 1..n /\ DOMAIN map = 1..Len(map)
      /\ \A i \in 1..Len(map) : map[i] = <<"order", i>>
    BY SeqFacts DEF NamesRows
<1>2. new = [i \in 1..n |-> IF Named(i) THEN Restated(table[i], status) ELSE table[i]]
    BY <1>1 DEF WithStatus, Restated
<1>3. \A i \in 1..n : Named(i) <=> i \in ids
  <2> SUFFICES ASSUME NEW i \in 1..n PROVE Named(i) <=> i \in ids
      OBVIOUS
  <2>1. ASSUME i \in ids PROVE Named(i)
      BY <2>1, <1>1
  <2>2. ASSUME Named(i) PROVE i \in ids
    <3>1. PICK id \in ids : id \in DOMAIN map /\ map[id] = <<"order", i>>
        BY <2>2
    <3>2. map[id] = <<"order", id>>
        BY <3>1, <1>1
    <3>3. id = i
        BY <3>1, <3>2
    <3> QED
        BY <3>1, <3>3
  <2> QED
      BY <2>1, <2>2
<1> HIDE DEF new, Named, n
<1>4. new = [i \in 1..n |-> new[i]]
    BY <1>2
<1>5. IsSeq(new) /\ Len(new) = n /\ DOMAIN new = 1..n
    BY <1>1, <1>4, SeqOfFunction
<1>6. \A i \in 1..n : /\ i \in ids => new[i] = Restated(table[i], status)
                      /\ i \notin ids => new[i] = table[i]
    BY <1>2, <1>3
<1> QED
    BY <1>5, <1>6 DEF IsMarked, new, n

\* One more row for every order that a bar fills.
LEMMA FillRowsFacts ==
    ASSUME NEW ids, ids \subseteq Int, IsFiniteSet(ids), NEW map, NEW at
    PROVE  LET new == FillRows(Sorted(ids), map, at)
           IN  /\ IsSeq(new) /\ Len(new) = Cardinality(ids) /\ Cardinality(ids) \in Nat
               /\ \A i \in 1..Cardinality(ids) :
                      /\ Sorted(ids)[i] \in ids /\ new[i].order = map[Sorted(ids)[i]]
                      /\ new[i].at = at
               /\ \A id \in ids : \E i \in 1..Cardinality(ids) : Sorted(ids)[i] = id
               /\ \A i, j \in 1..Cardinality(ids) : Sorted(ids)[i] = Sorted(ids)[j] => i = j
<1> DEFINE gone == Sorted(ids)
           n == Cardinality(ids)
           new == FillRows(gone, map, at)
<1>1. n \in Nat
    BY FS_CardinalityType
<1>2. /\ gone \in Seq(ids) /\ Len(gone) = n /\ DOMAIN gone = 1..n
      /\ \A id \in ids : \E i \in DOMAIN gone : gone[i] = id
      /\ \A i, j \in DOMAIN gone : i < j => gone[i] < gone[j]
    BY SortedFacts
<1>3. \A i \in 1..n : gone[i] \in ids /\ gone[i] \in Int
    BY <1>2, ElementOfSeq
<1>4. new = [i \in 1..n |-> [order |-> map[gone[i]], at |-> at]]
    BY <1>2 DEF FillRows
<1>5. \A i, j \in 1..n : gone[i] = gone[j] => i = j
  <2> SUFFICES ASSUME NEW i \in 1..n, NEW j \in 1..n, gone[i] = gone[j] PROVE i = j
      OBVIOUS
  <2>1. i < j \/ j < i \/ i = j
      BY <1>1
  <2> HIDE DEF gone, n
  <2> QED
      BY <2>1, <1>2, <1>3
<1> HIDE DEF new, gone, n
<1>6. new = [i \in 1..n |-> new[i]]
    BY <1>4
<1>7. IsSeq(new) /\ Len(new) = n
    BY <1>1, <1>6, SeqOfFunction
<1>8. \A i \in 1..n : new[i].order = map[gone[i]] /\ new[i].at = at
    BY <1>4
<1> QED
    BY <1>1, <1>2, <1>3, <1>5, <1>7, <1>8 DEF new, gone, n

\* The number of orders after a bar.
OrdersAfter(decision) == IF Created(decision) THEN Len(sides) + 1 ELSE Len(sides)

LEMMA FilledFacts ==
    ASSUME Shape, OrdersShape, PendingTell,
           NEW s \in Symbols, NEW filled, filled \subseteq pending[s]
    PROVE  /\ Len(sides) \in Nat /\ DOMAIN sides = 1..Len(sides)
           /\ \A i \in 1..Len(sides) : sides[i] \in Int
           /\ filled \subseteq 1..Len(sides) /\ filled \subseteq Int /\ IsFiniteSet(filled)
           /\ \A i \in filled : rows.orders[i].sym = s /\ ~IsFilled(i)
<1>1. sides \in Seq(Sides)
    BY DEF Shape
<1>2. Len(sides) \in Nat /\ DOMAIN sides = 1..Len(sides)
    BY <1>1, LenProperties
<1>3. \A i \in 1..Len(sides) : sides[i] \in Int
    BY <1>1, <1>2, ElementOfSeq DEF Sides
<1>4. filled \subseteq 1..Len(sides) /\ \A i \in filled : rows.orders[i].sym = s /\ ~IsFilled(i)
    BY DEF PendingTell
<1>5. filled \subseteq Int
    BY <1>2, <1>4
<1>6. IsFiniteSet(1..Len(sides))
    BY <1>2, FS_Interval
<1>7. IsFiniteSet(filled)
    BY <1>4, <1>6, FS_Subset
<1> QED
    BY <1>2, <1>3, <1>4, <1>5, <1>7

LEMMA OrdersNowFacts ==
    ASSUME Shape, OrdersShape, PendingTell,
           NEW s \in Symbols, NEW filled, filled \subseteq pending[s], NEW decision
    PROVE  LET new == OrdersNow(s, filled, decision)
               n   == Len(sides)
           IN  /\ IsSeq(new) /\ Len(new) = OrdersAfter(decision)
               /\ \A i \in 1..n :
                      /\ IsOrderRow(new[i]) /\ new[i].sym = rows.orders[i].sym
                      /\ i \in filled => new[i].status = "filled"
                      /\ i \notin filled => new[i].status = rows.orders[i].status
               /\ Created(decision) =>
                      IsOrderRow(new[n + 1]) /\ new[n + 1].sym = s
                      /\ new[n + 1].status = "submitted"
<1> DEFINE n == Len(sides)
           old == WithStatus(rows.orders, filled, maps.orders, "filled")
           new == OrdersNow(s, filled, decision)
<1>1. n \in Nat /\ filled \subseteq 1..n
    BY FilledFacts
<1>2. /\ IsSeq(rows.orders) /\ Len(rows.orders) = n
      /\ \A i \in 1..n : IsOrderRow(rows.orders[i])
    BY DEF OrdersShape
<1>3. NamesRows(maps.orders) /\ Len(maps.orders) = n
    BY DEF OrdersShape
<1>4. /\ IsSeq(old) /\ Len(old) = n
      /\ \A i \in 1..n : /\ i \in filled => old[i] = Restated(rows.orders[i], "filled")
                         /\ i \notin filled => old[i] = rows.orders[i]
  <2>1. IsMarked(old, rows.orders, filled, "filled")
      BY <1>1, <1>2, <1>3, WithStatusFacts
  <2> HIDE DEF old
  <2> QED
      BY <2>1, <1>2 DEF IsMarked
<1> HIDE DEF old
<1>5. \A i \in 1..n :
          /\ IsOrderRow(old[i]) /\ old[i].sym = rows.orders[i].sym
          /\ i \in filled => old[i].status = "filled"
          /\ i \notin filled => old[i].status = rows.orders[i].status
  <2> SUFFICES ASSUME NEW i \in 1..n
               PROVE  /\ IsOrderRow(old[i]) /\ old[i].sym = rows.orders[i].sym
                      /\ i \in filled => old[i].status = "filled"
                      /\ i \notin filled => old[i].status = rows.orders[i].status
      OBVIOUS
  <2>1. DOMAIN rows.orders[i] = OrderFields /\ rows.orders[i].sym \in Symbols
      BY <1>2 DEF IsOrderRow
  <2>2. CASE i \in filled
    <3> DEFINE row == rows.orders[i]
    <3>1. old[i] = [row EXCEPT !.status = "filled"]
        BY <2>2, <1>4 DEF Restated
    <3>2. DOMAIN row = {"sym", "at", "status", "signal"}
        BY <2>1 DEF OrderFields
    <3> HIDE DEF row
    <3>3. DOMAIN old[i] = DOMAIN row /\ old[i].sym = row.sym /\ old[i].status = "filled"
        BY <3>1, <3>2
    <3> QED
        BY <3>3, <2>1, <2>2 DEF IsOrderRow, row
  <2>3. CASE i \notin filled
      BY <2>3, <1>4, <2>1 DEF IsOrderRow
  <2> QED
      BY <2>2, <2>3
<1>6. CASE ~Created(decision)
  <2>1. new = old
      BY <1>6 DEF OrdersNow, old
  <2>2. OrdersAfter(decision) = n
      BY <1>6 DEF OrdersAfter
  <2> HIDE DEF new, n
  <2> QED
      BY <2>1, <2>2, <1>4, <1>5, <1>6 DEF new, n
<1>7. CASE Created(decision)
  <2>1. new = Append(old, OrderOf(s))
      BY <1>7 DEF OrdersNow, old
  <2>2. OrdersAfter(decision) = n + 1
      BY <1>7 DEF OrdersAfter
  <2>3. IsOrderRow(OrderOf(s)) /\ OrderOf(s).sym = s /\ OrderOf(s).status = "submitted"
      BY DEF OrderOf, IsOrderRow, OrderFields
  <2> HIDE DEF new, n
  <2>4. /\ IsSeq(new) /\ Len(new) = n + 1 /\ new[n + 1] = OrderOf(s)
        /\ \A i \in 1..n : new[i] = old[i]
      BY <2>1, <1>4, AppendSeq
  <2> QED
      BY <2>2, <2>3, <2>4, <1>5 DEF new, n
<1> QED
    BY <1>6, <1>7

LEMMA OrderRowNowFacts ==
    ASSUME Shape, OrdersShape, PendingTell,
           NEW s \in Symbols, NEW filled, filled \subseteq pending[s], NEW decision
    PROVE  LET new == OrderRowNow(s, filled, decision)
           IN  NamesRows(new) /\ Len(new) = OrdersAfter(decision)
<1> DEFINE n == Len(sides)
           new == OrderRowNow(s, filled, decision)
<1>1. n \in Nat
    BY FilledFacts
<1>2. /\ IsSeq(maps.orders) /\ Len(maps.orders) = n
      /\ \A i \in 1..n : maps.orders[i] = <<"order", i>>
    BY DEF OrdersShape, NamesRows
<1>3. CASE ~Created(decision)
  <2>1. new = maps.orders /\ OrdersAfter(decision) = n
      BY <1>3 DEF OrderRowNow, OrdersAfter
  <2> QED
      BY <2>1, <1>2 DEF NamesRows
<1>4. CASE Created(decision)
  <2>1. OrdersAfter(decision) = n + 1
      BY <1>4 DEF OrdersAfter
  <2>2. Len(OrdersNow(s, filled, decision)) = n + 1
      BY <2>1, OrdersNowFacts
  <2>3. new = Append(maps.orders, <<"order", n + 1>>)
      BY <1>4, <2>2 DEF OrderRowNow, IdOf
  <2> HIDE DEF new, n
  <2>4. /\ IsSeq(new) /\ Len(new) = n + 1 /\ new[n + 1] = <<"order", n + 1>>
        /\ \A i \in 1..n : new[i] = maps.orders[i]
      BY <2>3, <1>2, AppendSeq
  <2>5. \A i \in 1..(n + 1) : i \in 1..n \/ i = n + 1
      BY <1>1
  <2> QED
      BY <2>1, <2>4, <2>5, <1>2 DEF NamesRows, new, n
<1> QED
    BY <1>3, <1>4

LEMMA OrderIdFacts ==
    /\ \A i, j : OrderId(i) = OrderId(j) => i = j
    /\ \A map : NamesRows(map) => \A i \in 1..Len(map) : map[i] = OrderId(i)
BY DEF OrderId, NamesRows

LEMMA OrdersShapeStepBar ==
    ASSUME Shape, OrdersTell, NEW s \in Symbols, NEW filled, NEW decision,
           StepBar(s, filled, decision)
    PROVE  /\ OrdersShape'
           /\ Len(sides') = OrdersAfter(decision)
           /\ \A i \in 1..Len(sides) :
                  /\ rows'.orders[i].sym = rows.orders[i].sym
                  /\ i \in filled => rows'.orders[i].status = "filled"
                  /\ i \notin filled => rows'.orders[i].status = rows.orders[i].status
           /\ Created(decision) => /\ rows'.orders[Len(sides) + 1].sym = s
                                   /\ rows'.orders[Len(sides) + 1].status = "submitted"
<1> DEFINE new == OrdersNow(s, filled, decision)
           map == OrderRowNow(s, filled, decision)
           n == Len(sides)
<1>1. OrdersShape /\ PendingTell /\ filled \subseteq pending[s]
    BY StepBarParts DEF OrdersTell
<1>2. n \in Nat /\ filled \subseteq 1..n /\ filled \subseteq Int /\ IsFiniteSet(filled)
    BY <1>1, FilledFacts
<1>3. /\ IsSeq(new) /\ Len(new) = OrdersAfter(decision)
      /\ \A i \in 1..n : /\ IsOrderRow(new[i]) /\ new[i].sym = rows.orders[i].sym
                         /\ i \in filled => new[i].status = "filled"
                         /\ i \notin filled => new[i].status = rows.orders[i].status
      /\ Created(decision) =>
             IsOrderRow(new[n + 1]) /\ new[n + 1].sym = s /\ new[n + 1].status = "submitted"
    BY <1>1, OrdersNowFacts
<1>4. NamesRows(map) /\ Len(map) = OrdersAfter(decision)
    BY <1>1, OrderRowNowFacts
<1>5. /\ sides' = IF Created(decision) THEN Append(sides, Side(decision)) ELSE sides
      /\ maps' = [orders |-> map, fills |-> FillRowNow(filled)]
    BY StepBarParts
<1>6. Len(sides') = OrdersAfter(decision)
  <2>1. IsSeq(sides)
      BY DEF Shape, IsSeq
  <2>2. Len(Append(sides, Side(decision))) = n + 1
      BY <2>1, AppendSeq
  <2> QED
      BY <2>2, <1>5 DEF OrdersAfter
<1>7. /\ rows'.orders = new
      /\ rows'.fills = rows.fills \o FillRows(Sorted(filled), maps.orders, clock.now)
  <2>1. rows'.orders = new
      BY StepBarOrders
  <2>2. rows'.fills = rows.fills \o FillRows(Sorted(filled), maps.orders, clock.now)
      BY StepBarFields
  <2> QED
      BY <2>1, <2>2
<1>8. maps'.orders = map /\ maps'.fills = FillRowNow(filled)
    BY <1>5
<1>9. DOMAIN maps'.fills \subseteq 1..Len(sides')
  <2>1. DOMAIN FillRowNow(filled) = DOMAIN maps.fills \union filled
      BY DEF FillRowNow
  <2>2. DOMAIN maps.fills \subseteq 1..n
      BY <1>1 DEF OrdersShape
  <2>3. 1..n \subseteq 1..OrdersAfter(decision)
      BY <1>2 DEF OrdersAfter
  <2> QED
      BY <2>1, <2>2, <2>3, <1>2, <1>6, <1>8
<1>10. IsSeq(rows'.fills)
  <2> DEFINE more == FillRows(Sorted(filled), maps.orders, clock.now)
  <2>1. IsSeq(more)
      BY <1>2, FillRowsFacts
  <2>2. IsSeq(rows.fills)
      BY <1>1 DEF OrdersShape
  <2> HIDE DEF more
  <2>3. IsSeq(rows.fills \o more)
      BY <2>1, <2>2, ConcatSeq
  <2> QED
      BY <2>3, <1>7 DEF more
<1>11. \A i \in 1..Len(sides') : IsOrderRow(new[i])
  <2>1. \A i \in 1..Len(sides') : i \in 1..n \/ (Created(decision) /\ i = n + 1)
      BY <1>2, <1>6 DEF OrdersAfter
  <2> HIDE DEF new
  <2> QED
      BY <2>1, <1>3
<1> HIDE DEF new, map
<1>12. OrdersShape'
  <2>1. IsSeq(rows'.orders) /\ Len(rows'.orders) = Len(sides')
      BY <1>3, <1>6, <1>7
  <2>2. \A i \in 1..Len(sides') : IsOrderRow(rows'.orders[i])
      BY <1>11, <1>7
  <2>3. NamesRows(maps'.orders) /\ Len(maps'.orders) = Len(sides')
      BY <1>4, <1>6, <1>8
  <2> QED
      BY <2>1, <2>2, <2>3, <1>9, <1>10 DEF OrdersShape, NamesRows, IsOrderRow
<1> QED
    BY <1>12, <1>6, <1>3, <1>7

LEMMA FillsStepBar ==
    ASSUME Shape, OrdersTell, NEW s \in Symbols, NEW filled, NEW decision,
           StepBar(s, filled, decision)
    PROVE  FillsTell'
<1> DEFINE n == Len(sides)
           m == Len(rows.fills)
           k == Cardinality(filled)
           gone == Sorted(filled)
           more == FillRows(gone, maps.orders, clock.now)
           fills == rows.fills \o more
<1>1. OrdersShape /\ PendingTell /\ FillsTell /\ filled \subseteq pending[s]
    BY StepBarParts DEF OrdersTell
<1>2. /\ n \in Nat /\ filled \subseteq 1..n /\ filled \subseteq Int /\ IsFiniteSet(filled)
      /\ \A i \in filled : ~IsFilled(i)
    BY <1>1, FilledFacts
<1>3. /\ IsSeq(more) /\ Len(more) = k /\ k \in Nat
      /\ \A i \in 1..k : gone[i] \in filled /\ more[i].order = maps.orders[gone[i]]
      /\ \A id \in filled : \E i \in 1..k : gone[i] = id
      /\ \A i, j \in 1..k : gone[i] = gone[j] => i = j
  <2> DEFINE map == maps.orders
             at == clock.now
  <2>1. filled \subseteq Int /\ IsFiniteSet(filled)
      BY <1>2
  <2> HIDE DEF map, at
  <2>2. LET new == FillRows(Sorted(filled), map, at)
        IN  /\ IsSeq(new) /\ Len(new) = Cardinality(filled) /\ Cardinality(filled) \in Nat
            /\ \A i \in 1..Cardinality(filled) :
                   /\ Sorted(filled)[i] \in filled /\ new[i].order = map[Sorted(filled)[i]]
                   /\ new[i].at = at
            /\ \A id \in filled : \E i \in 1..Cardinality(filled) : Sorted(filled)[i] = id
            /\ \A i, j \in 1..Cardinality(filled) :
                   Sorted(filled)[i] = Sorted(filled)[j] => i = j
      BY <2>1, FillRowsFacts, Zenon
  <2> QED
      BY <2>2 DEF map, at
<1>4. \A i \in 1..n : maps.orders[i] = OrderId(i)
    BY <1>1, OrderIdFacts DEF OrdersShape
<1>5. \A i \in 1..k : more[i].order = OrderId(gone[i])
    BY <1>2, <1>3, <1>4
<1>6. /\ m \in Nat /\ Len(fills) = m + k
      /\ \A j \in 1..m : fills[j] = rows.fills[j]
      /\ \A j \in 1..k : fills[m + j] = more[j]
  <2>1. IsSeq(rows.fills)
      BY <1>1 DEF OrdersShape
  <2> DEFINE old == rows.fills
  <2> HIDE DEF more, old, k
  <2>2. IsSeq(old) /\ IsSeq(more) /\ Len(more) = k
      BY <2>1, <1>3 DEF old
  <2>3. Len(old) \in Nat /\ Len(old \o more) = Len(old) + k
      BY <2>2, ConcatSeq
  <2>4. \A j \in 1..Len(old) : (old \o more)[j] = old[j]
      BY <2>2, ConcatSeq
  <2>5. \A j \in 1..k : (old \o more)[Len(old) + j] = more[j]
      BY <2>2, ConcatSeq
  <2> QED
      BY <2>3, <2>4, <2>5 DEF old
<1>7. rows'.fills = fills
    BY StepBarFields
<1>8. /\ Len(sides') = OrdersAfter(decision)
      /\ \A i \in 1..n : /\ i \in filled => rows'.orders[i].status = "filled"
                         /\ i \notin filled => rows'.orders[i].status = rows.orders[i].status
      /\ Created(decision) => rows'.orders[n + 1].status = "submitted"
    BY OrdersShapeStepBar
<1> HIDE DEF fills, more, gone, k, m
<1>9. \A j \in 1..(m + k) : j \in 1..m \/ \E i \in 1..k : j = m + i
  <2> SUFFICES ASSUME NEW j \in 1..(m + k), j \notin 1..m PROVE \E i \in 1..k : j = m + i
      OBVIOUS
  <2>1. j - m \in 1..k /\ j = m + (j - m)
      BY <1>3, <1>6
  <2> QED
      BY <2>1
<1>10. \A i \in 1..Len(sides') : i \in 1..n \/ (Created(decision) /\ i = n + 1)
    BY <1>2, <1>8 DEF OrdersAfter
<1>11. 1..n \subseteq 1..Len(sides')
    BY <1>2, <1>8 DEF OrdersAfter
<1>12. \A j \in 1..m : \E i \in 1..n : rows.fills[j].order = OrderId(i)
    BY <1>1 DEF FillsTell, m
<1>13. \A j \in 1..Len(fills) : \E i \in 1..Len(sides') : fills[j].order = OrderId(i)
  <2> SUFFICES ASSUME NEW j \in 1..(m + k)
               PROVE  \E i \in 1..n : fills[j].order = OrderId(i)
      BY <1>6, <1>11
  <2>1. CASE j \in 1..m
      BY <2>1, <1>6, <1>12
  <2>2. ASSUME NEW i \in 1..k, j = m + i PROVE fills[j].order = OrderId(gone[i])
      BY <2>2, <1>5, <1>6
  <2> QED
      BY <2>1, <2>2, <1>2, <1>3, <1>9
<1> DEFINE At(i) == {j \in 1..Len(fills) : fills[j].order = OrderId(i)}
           Old(i) == {j \in 1..m : rows.fills[j].order = OrderId(i)}
<1>14. \A i \in 1..n : Old(i) = FillsAt(i)
    BY DEF FillsAt, m
<1>15. ASSUME NEW i \in filled PROVE \E j : At(i) = {j}
  <2>1. Old(i) = {}
    <3>1. i \in 1..n /\ ~IsFilled(i)
        BY <1>2, <1>15
    <3> QED
        BY <3>1, <1>1, <1>14 DEF FillsTell
  <2>2. PICK p \in 1..k : gone[p] = i
      BY <1>3, <1>15
  <2>3. m + p \in 1..(m + k) /\ fills[m + p].order = OrderId(i)
      BY <2>2, <1>3, <1>5, <1>6
  <2>4. \A j \in 1..(m + k) : fills[j].order = OrderId(i) => j = m + p
    <3> SUFFICES ASSUME NEW j \in 1..(m + k), fills[j].order = OrderId(i) PROVE j = m + p
        OBVIOUS
    <3>1. j \notin 1..m
        BY <2>1, <1>6
    <3>2. PICK q \in 1..k : j = m + q
        BY <3>1, <1>9
    <3>3. fills[j].order = OrderId(gone[q])
        BY <3>2, <1>5, <1>6
    <3>4. gone[q] = i
        BY <3>3, OrderIdFacts
    <3> QED
        BY <3>2, <3>4, <2>2, <1>3
  <2>5. At(i) = {m + p}
      BY <2>3, <2>4, <1>6
  <2> QED
      BY <2>5
<1>16. ASSUME NEW i, i \notin filled PROVE At(i) = Old(i)
  <2>1. \A j \in 1..(m + k) : fills[j].order = OrderId(i) => j \in 1..m
    <3> SUFFICES ASSUME NEW j \in 1..(m + k), fills[j].order = OrderId(i), j \notin 1..m
                 PROVE  FALSE
        OBVIOUS
    <3>1. PICK q \in 1..k : j = m + q
        BY <1>9
    <3>2. fills[j].order = OrderId(gone[q])
        BY <3>1, <1>5, <1>6
    <3>3. gone[q] = i
        BY <3>2, OrderIdFacts
    <3> QED
        BY <3>1, <3>3, <1>3, <1>16
  <2>2. 1..m \subseteq 1..(m + k)
      BY <1>3, <1>6
  <2> QED
      BY <2>1, <2>2, <1>6
<1>17. ASSUME NEW i \in 1..Len(sides')
       PROVE  /\ rows'.orders[i].status = "filled" => \E j : At(i) = {j}
              /\ rows'.orders[i].status # "filled" => At(i) = {}
  <2>1. CASE i \in filled
    <3>1. rows'.orders[i].status = "filled"
        BY <2>1, <1>2, <1>8
    <3> QED
        BY <3>1, <2>1, <1>15
  <2>2. CASE i \in 1..n /\ i \notin filled
    <3>1. rows'.orders[i].status = rows.orders[i].status /\ At(i) = FillsAt(i)
        BY <2>2, <1>8, <1>14, <1>16
    <3> HIDE DEF At
    <3> QED
        BY <3>1, <2>2, <1>1 DEF FillsTell, IsFilled
  <2>3. CASE Created(decision) /\ i = n + 1
    <3>1. rows'.orders[i].status = "submitted"
        BY <2>3, <1>8
    <3>2. i \notin filled /\ i \notin 1..n
        BY <2>3, <1>2
    <3>3. At(i) = Old(i)
        BY <3>2, <1>16
    <3>4. Old(i) = {}
      <4> SUFFICES ASSUME NEW j \in 1..m, rows.fills[j].order = OrderId(i) PROVE FALSE
          OBVIOUS
      <4>1. PICK x \in 1..n : rows.fills[j].order = OrderId(x)
          BY <1>12
      <4>2. x = i
          BY <4>1, OrderIdFacts
      <4> QED
          BY <4>1, <4>2, <3>2
    <3> HIDE DEF At, Old
    <3> QED
        BY <3>1, <3>3, <3>4
  <2> QED
      BY <2>1, <2>2, <2>3, <1>10
<1>18. \A j \in 1..Len(rows'.fills) :
           \E i \in 1..Len(sides') : rows'.fills[j].order = OrderId(i)
    BY <1>7, <1>13
<1>19. \A i : FillsAt(i)' = At(i)
    BY <1>7 DEF FillsAt, OrderId
<1> HIDE DEF At
<1> QED
    BY <1>17, <1>18, <1>19, Zenon DEF FillsTell, IsFilled, OrderId

LEMMA PendingStepBar ==
    ASSUME Shape, OrdersTell, NEW s \in Symbols, NEW filled, NEW decision,
           StepBar(s, filled, decision)
    PROVE  PendingTell'
<1> DEFINE n == Len(sides)
           new == IF Created(decision) THEN {n + 1} ELSE {}
<1>1. OrdersShape /\ PendingTell /\ filled \subseteq pending[s]
    BY StepBarParts DEF OrdersTell
<1>2. n \in Nat /\ filled \subseteq 1..n /\ \A i \in filled : rows.orders[i].sym = s
    BY <1>1, FilledFacts
<1>3. /\ Len(sides') = OrdersAfter(decision)
      /\ \A i \in 1..n : /\ rows'.orders[i].sym = rows.orders[i].sym
                         /\ i \in filled => rows'.orders[i].status = "filled"
                         /\ i \notin filled => rows'.orders[i].status = rows.orders[i].status
      /\ Created(decision) => /\ rows'.orders[n + 1].sym = s
                              /\ rows'.orders[n + 1].status = "submitted"
    BY OrdersShapeStepBar
<1>4. \A i \in 1..Len(sides') : i \in 1..n \/ (Created(decision) /\ i = n + 1)
    BY <1>2, <1>3 DEF OrdersAfter
<1>5. 1..n \subseteq 1..Len(sides') /\ (Created(decision) => n + 1 \in 1..Len(sides'))
    BY <1>2, <1>3 DEF OrdersAfter
<1>6. DOMAIN pending = Symbols
    BY DEF Shape
<1>7. pending' = [pending EXCEPT ![s] = (@ \ filled) \union new]
    BY StepBarParts
<1>8. /\ pending'[s] = (pending[s] \ filled) \union new
      /\ \A x \in Symbols : x # s => pending'[x] = pending[x]
    BY <1>6, <1>7
<1>9. phase' = "running"
    BY StepBarParts
<1>10. \A x \in Symbols : \A i \in pending[x] :
           i \in 1..n /\ rows.orders[i].sym = x /\ rows.orders[i].status # "filled"
    BY <1>1 DEF PendingTell, IsFilled
<1>11. \A i \in 1..n : rows.orders[i].status = "filled" \/ i \in pending[rows.orders[i].sym]
  <2>1. phase = "running"
      BY StepBarParts
  <2> QED
      BY <2>1, <1>1 DEF PendingTell, IsFilled
<1>12. \A i \in 1..n : rows.orders[i].sym \in Symbols
    BY <1>1 DEF OrdersShape, IsOrderRow
<1>13. \A x \in Symbols : \A i \in pending'[x] :
           i \in 1..Len(sides') /\ rows'.orders[i].sym = x /\ rows'.orders[i].status # "filled"
  <2> SUFFICES ASSUME NEW x \in Symbols, NEW i \in pending'[x]
               PROVE  /\ i \in 1..Len(sides') /\ rows'.orders[i].sym = x
                      /\ rows'.orders[i].status # "filled"
      OBVIOUS
  <2>1. CASE i \in pending[x] /\ ~(x = s /\ i \in filled)
    <3>1. i \in 1..n /\ rows.orders[i].sym = x /\ rows.orders[i].status # "filled"
        BY <2>1, <1>10
    <3>2. i \notin filled
        BY <2>1, <3>1, <1>2
    <3> QED
        BY <3>1, <3>2, <1>3, <1>5
  <2>2. CASE x = s /\ i \in new
      BY <2>2, <1>3, <1>5
  <2>3. (i \in pending[x] /\ ~(x = s /\ i \in filled)) \/ (x = s /\ i \in new)
      BY <1>8
  <2> QED
      BY <2>1, <2>2, <2>3
<1>14. \A i \in 1..Len(sides') :
           rows'.orders[i].status = "filled" \/ i \in pending'[rows'.orders[i].sym]
  <2> SUFFICES ASSUME NEW i \in 1..Len(sides')
               PROVE  rows'.orders[i].status = "filled" \/ i \in pending'[rows'.orders[i].sym]
      OBVIOUS
  <2>1. CASE i \in 1..n
    <3>1. CASE i \in filled
        BY <3>1, <2>1, <1>3
    <3>2. CASE i \notin filled /\ rows.orders[i].sym = s
        BY <3>2, <2>1, <1>3, <1>8, <1>11
    <3>3. CASE i \notin filled /\ rows.orders[i].sym # s
        BY <3>3, <2>1, <1>3, <1>8, <1>11, <1>12
    <3> QED
        BY <3>1, <3>2, <3>3
  <2>2. CASE Created(decision) /\ i = n + 1
      BY <2>2, <1>3, <1>8
  <2> QED
      BY <2>1, <2>2, <1>4
<1> HIDE DEF new
<1> QED
    BY <1>9, <1>13, <1>14 DEF PendingTell, IsFilled

LEMMA PositionsStepBar ==
    ASSUME Shape, OrdersTell, NEW s \in Symbols, NEW filled, NEW decision,
           StepBar(s, filled, decision)
    PROVE  PositionsTell'
<1> DEFINE n == Len(sides)
           N == 1..n
           After == 1..Len(sides')
           Before(x) == FilledSides(x)
           Later(x) == [i \in After |->
                           IF rows'.orders[i].sym = x /\ rows'.orders[i].status = "filled"
                           THEN sides'[i] ELSE 0]
           part == [i \in N |-> IF i \in filled THEN sides[i] ELSE 0]
<1>1. OrdersShape /\ PendingTell /\ PositionsTell /\ filled \subseteq pending[s]
    BY StepBarParts DEF OrdersTell
<1>2. /\ n \in Nat /\ filled \subseteq N /\ IsFiniteSet(filled) /\ DOMAIN sides = N
      /\ \A i \in N : sides[i] \in Int
      /\ \A i \in filled : rows.orders[i].sym = s /\ rows.orders[i].status # "filled"
    BY <1>1, FilledFacts DEF IsFilled
<1>3. /\ Len(sides') = OrdersAfter(decision)
      /\ \A i \in N : /\ rows'.orders[i].sym = rows.orders[i].sym
                      /\ i \in filled => rows'.orders[i].status = "filled"
                      /\ i \notin filled => rows'.orders[i].status = rows.orders[i].status
      /\ Created(decision) => rows'.orders[n + 1].status = "submitted"
    BY OrdersShapeStepBar
<1>4. /\ Created(decision) => After = N \union {n + 1}
      /\ ~Created(decision) => After = N
  <2>1. CASE Created(decision)
    <3>1. Len(sides') = n + 1
        BY <2>1, <1>3 DEF OrdersAfter
    <3> QED
        BY <2>1, <3>1, <1>2
  <2>2. CASE ~Created(decision)
    <3>1. Len(sides') = n
        BY <2>2, <1>3 DEF OrdersAfter
    <3> QED
        BY <2>2, <3>1
  <2> QED
      BY <2>1, <2>2
<1>5. IsFiniteSet(N) /\ IsFiniteSet(After) /\ N \subseteq After /\ n + 1 \notin N
  <2>1. IsFiniteSet(N)
      BY <1>2, FS_Interval
  <2>2. IsFiniteSet(N \union {n + 1})
      BY <2>1, FS_AddElement
  <2>3. n + 1 \notin N
      BY <1>2
  <2> HIDE DEF N, After
  <2> QED
      BY <2>1, <2>2, <2>3, <1>4
<1>6. \A i \in N : sides'[i] = sides[i]
  <2>1. sides' = IF Created(decision) THEN Append(sides, Side(decision)) ELSE sides
      BY StepBarParts
  <2>2. IsSeq(sides)
      BY DEF Shape, IsSeq
  <2>3. \A i \in N : Append(sides, Side(decision))[i] = sides[i]
      BY <2>2, AppendSeq
  <2> QED
      BY <2>1, <2>3
<1>7. \A x, i \in N : Before(x)[i] = IF rows.orders[i].sym = x /\ rows.orders[i].status = "filled"
                                     THEN sides[i] ELSE 0
    BY DEF FilledSides, IsFilled
<1> HIDE DEF N, After
<1>8. \A x, i : i \in N => Before(x)[i] \in Int
  <2> SUFFICES ASSUME NEW x, NEW i \in N PROVE Before(x)[i] \in Int
      OBVIOUS
  <2>1. Before(x)[i] = IF rows.orders[i].sym = x /\ rows.orders[i].status = "filled"
                       THEN sides[i] ELSE 0
      BY DEF FilledSides, IsFilled, N
  <2> QED
      BY <2>1, <1>2
<1>9. \A x : \A i \in After \ N : Later(x)[i] = 0
  <2> SUFFICES ASSUME NEW x, NEW i \in After \ N PROVE Later(x)[i] = 0
      OBVIOUS
  <2>1. i = n + 1 /\ Created(decision)
      BY <1>4
  <2>2. rows'.orders[i].status # "filled"
      BY <2>1, <1>3
  <2> QED
      BY <2>2
<1>10. ASSUME NEW x
       PROVE  /\ \A i \in N : Later(x)[i] \in Int
              /\ x # s => \A i \in N : Later(x)[i] = Before(x)[i]
              /\ x = s => \A i \in N : Later(x)[i] = Before(x)[i] + part[i]
  <2>1. ASSUME NEW i \in N
        PROVE  /\ Later(x)[i] \in Int
               /\ x # s => Later(x)[i] = Before(x)[i]
               /\ x = s => Later(x)[i] = Before(x)[i] + part[i]
    <3>1. Later(x)[i] = IF rows'.orders[i].sym = x /\ rows'.orders[i].status = "filled"
                        THEN sides[i] ELSE 0
        BY <1>5, <1>6
    <3>2. Before(x)[i] = IF rows.orders[i].sym = x /\ rows.orders[i].status = "filled"
                         THEN sides[i] ELSE 0
        BY DEF FilledSides, IsFilled, N
    <3>3. part[i] = IF i \in filled THEN sides[i] ELSE 0
        OBVIOUS
    <3>4. sides[i] \in Int
        BY <1>2
    <3> HIDE DEF Later, part
    <3>5. CASE i \in filled
      <4>1. rows'.orders[i].sym = s /\ rows'.orders[i].status = "filled"
            /\ rows.orders[i].status # "filled"
          BY <3>5, <1>2, <1>3
      <4> QED
          BY <4>1, <3>1, <3>2, <3>3, <3>4, <3>5
    <3>6. CASE i \notin filled
      <4>1. rows'.orders[i].sym = rows.orders[i].sym
            /\ rows'.orders[i].status = rows.orders[i].status
          BY <3>6, <1>3
      <4> QED
          BY <4>1, <3>1, <3>2, <3>3, <3>4, <3>6
    <3> QED
        BY <3>5, <3>6
  <2> HIDE DEF Later, part
  <2> QED
      BY <2>1
<1>11. \A i \in N : part[i] \in Int
    BY <1>2
<1>12. /\ \A i \in N \ filled : part[i] = 0
       /\ \A i \in filled : part[i] = sides[i] /\ part[i] \in Int
    BY <1>2
<1> HIDE DEF Later, part
<1>13. ASSUME NEW x PROVE Total(Later(x), After) = Total(Later(x), N)
  <2>1. \A i \in After : Later(x)[i] \in Int
      BY <1>9, <1>10
  <2> QED
      BY <2>1, <1>5, <1>9, TotalOfPart
<1>14. Total(part, N) = SideSum(filled)
  <2>1. Total(part, N) = Total(part, filled)
      BY <1>2, <1>5, <1>11, <1>12, TotalOfPart
  <2>2. Total(part, filled) = Total(sides, filled)
      BY <1>2, <1>12, TotalOfEqual
  <2>3. SideSum(filled) = Total(sides, filled)
    <3>1. sides \in Seq(Sides) /\ filled \subseteq DOMAIN sides
        BY <1>2 DEF Shape
    <3> QED
        BY <3>1, SideSumFacts
  <2> QED
      BY <2>1, <2>2, <2>3
<1>15. ASSUME NEW x \in Symbols PROVE money'.qty[x] = Total(Later(x), After)
  <2>1. money.qty[x] = Total(Before(x), N)
      BY <1>1 DEF PositionsTell, N
  <2>2. money'.qty = QtyNow(s, filled) /\ money.qty \in [Symbols -> Int]
    <3>1. money'.qty = QtyNow(s, filled)
        BY StepBarFields
    <3> QED
        BY <3>1 DEF Shape
  <2>3. CASE x # s
    <3>1. money'.qty[x] = money.qty[x]
        BY <2>2, <2>3 DEF QtyNow
    <3>2. \A i \in N : Later(x)[i] \in Int /\ Later(x)[i] = Before(x)[i]
        BY <2>3, <1>10
    <3>3. Total(Later(x), N) = Total(Before(x), N)
        BY <3>2, <1>5, TotalOfEqual
    <3> QED
        BY <2>1, <3>1, <3>3, <1>13
  <2>4. CASE x = s
    <3>1. money'.qty[x] = money.qty[x] + SideSum(filled)
        BY <2>2, <2>4 DEF QtyNow
    <3>2. \A i \in N : Before(x)[i] \in Int /\ part[i] \in Int
                       /\ Later(x)[i] = Before(x)[i] + part[i]
        BY <2>4, <1>8, <1>10, <1>11
    <3> HIDE DEF Before
    <3>3. Total(Later(x), N) = Total(Before(x), N) + Total(part, N)
        BY <3>2, <1>5, TotalOfSums
    <3> QED
        BY <2>1, <3>1, <3>3, <1>13, <1>14
  <2> QED
      BY <2>3, <2>4
<1>16. \A x : FilledSides(x)' = Later(x)
    BY DEF FilledSides, IsFilled, Later, After
<1> QED
    BY <1>15, <1>16 DEF PositionsTell, After

LEMMA OrdersStepBar ==
    ASSUME Shape, OrdersTell, NEW s \in Symbols, NEW filled, NEW decision,
           StepBar(s, filled, decision)
    PROVE  OrdersTell'
<1>1. OrdersShape'
    BY OrdersShapeStepBar
<1>2. FillsTell' /\ PendingTell' /\ PositionsTell'
    BY FillsStepBar, PendingStepBar, PositionsStepBar
<1> QED
    BY <1>1, <1>2 DEF OrdersTell

\* Where the orders, the fills and the positions stay, so does what they tell.
LEMMA OrdersStay ==
    ASSUME OrdersTell, rows'.orders = rows.orders, rows'.fills = rows.fills, maps' = maps,
           sides' = sides, pending' = pending, phase' = phase, money'.qty = money.qty
    PROVE  OrdersTell'
<1>1. OrdersShape'
    BY DEF OrdersTell, OrdersShape, NamesRows, IsOrderRow
<1>2. \A i : FillsAt(i)' = FillsAt(i)
    BY DEF FillsAt, OrderId
<1>3. \A i : IsFilled(i)' <=> IsFilled(i)
    BY DEF IsFilled
<1>4. FillsTell'
    BY <1>2, <1>3 DEF OrdersTell, FillsTell, OrderId
<1>5. PendingTell'
    BY <1>3 DEF OrdersTell, PendingTell
<1>6. \A s : FilledSides(s)' = FilledSides(s)
    BY DEF FilledSides, IsFilled
<1>7. PositionsTell'
    BY <1>6 DEF OrdersTell, PositionsTell
<1> QED
    BY <1>1, <1>4, <1>5, <1>7 DEF OrdersTell

LEMMA OrdersEndGroup ==
    ASSUME Shape, OrdersTell, NEW next, EndGroup(next)
    PROVE  OrdersTell'
<1>1. rows'.orders = rows.orders /\ rows'.fills = rows.fills /\ money'.qty = money.qty
    BY EndGroupFields
<1>2. phase' = phase /\ maps' = maps /\ sides' = sides /\ pending' = pending
    BY EndGroupParts
<1> QED
    BY <1>1, <1>2, OrdersStay

LEMMA OrdersFinish ==
    ASSUME Shape, OrdersTell, Finish
    PROVE  OrdersTell'
<1> DEFINE n == Len(sides)
           table == rows.orders
           new == WithStatus(rows.orders, OpenNow, maps.orders, "expired")
<1>1. OrdersShape /\ PendingTell /\ FillsTell /\ PositionsTell
    BY DEF OrdersTell
<1>2. /\ IsSeq(table) /\ Len(table) = n /\ NamesRows(maps.orders) /\ Len(maps.orders) = n
      /\ \A i \in 1..n : IsOrderRow(table[i])
    BY <1>1 DEF OrdersShape
<1>3. /\ phase = "running" /\ phase' = "finished" /\ pending' = NoPending /\ sides' = sides
      /\ money' = money /\ maps' = maps
    BY FinishParts
<1>4. \A i \in 1..n : i \in OpenNow <=> ~IsFilled(i)
  <2>1. \A s \in Symbols : \A i \in pending[s] : i \in 1..n /\ ~IsFilled(i)
      BY <1>1 DEF PendingTell
  <2>2. \A i \in 1..n : IsFilled(i) \/ i \in pending[table[i].sym]
      BY <1>1, <1>3 DEF PendingTell
  <2>3. \A i \in 1..n : table[i].sym \in Symbols
      BY <1>2 DEF IsOrderRow
  <2> HIDE DEF table, n
  <2> QED
      BY <2>1, <2>2, <2>3 DEF OpenNow
<1>5. OpenNow \subseteq 1..Len(maps.orders)
    BY <1>1, <1>2 DEF OpenNow, PendingTell
<1>6. /\ IsSeq(new) /\ Len(new) = n
      /\ \A i \in 1..n : /\ i \in OpenNow => new[i] = Restated(table[i], "expired")
                         /\ i \notin OpenNow => new[i] = table[i]
  <2>1. IsMarked(new, table, OpenNow, "expired")
      BY <1>2, <1>5, WithStatusFacts
  <2> HIDE DEF new
  <2> QED
      BY <2>1, <1>2 DEF IsMarked
<1> HIDE DEF table, new
<1>7. \A i \in 1..n :
          /\ IsOrderRow(new[i]) /\ new[i].sym = table[i].sym
          /\ IsFilled(i) => new[i].status = "filled"
          /\ ~IsFilled(i) => new[i].status = "expired"
  <2> SUFFICES ASSUME NEW i \in 1..n
               PROVE  /\ IsOrderRow(new[i]) /\ new[i].sym = table[i].sym
                      /\ IsFilled(i) => new[i].status = "filled"
                      /\ ~IsFilled(i) => new[i].status = "expired"
      OBVIOUS
  <2>1. IsOrderRow(table[i])
      BY <1>2
  <2>2. CASE IsFilled(i)
    <3>1. new[i] = table[i]
        BY <2>2, <1>4, <1>6
    <3>2. table[i].status = "filled"
        BY <2>2 DEF IsFilled, table
    <3> QED
        BY <3>1, <3>2, <2>1, <2>2
  <2>3. CASE ~IsFilled(i)
    <3> DEFINE row == table[i]
    <3>1. new[i] = [row EXCEPT !.status = "expired"]
        BY <2>3, <1>4, <1>6 DEF Restated
    <3>2. DOMAIN row = {"sym", "at", "status", "signal"} /\ row.sym \in Symbols
        BY <2>1 DEF OrderFields, IsOrderRow
    <3> HIDE DEF row
    <3>3. DOMAIN new[i] = DOMAIN row /\ new[i].sym = row.sym /\ new[i].status = "expired"
        BY <3>1, <3>2
    <3> QED
        BY <3>2, <3>3, <2>3 DEF IsOrderRow, OrderFields, row
  <2> QED
      BY <2>2, <2>3
<1>8. rows'.orders = new /\ rows'.fills = rows.fills
  <2>1. rows'.orders = new
      BY FinishFields DEF new
  <2>2. rows'.fills = rows.fills
      BY FinishFields
  <2> QED
      BY <2>1, <2>2
<1>9. \A i \in 1..n : (rows'.orders[i].status = "filled" <=> IsFilled(i))
                      /\ rows'.orders[i].sym = rows.orders[i].sym
    BY <1>7, <1>8 DEF table
<1>10. OrdersShape'
  <2>1. IsSeq(rows'.orders) /\ Len(rows'.orders) = Len(sides')
      BY <1>3, <1>6, <1>8
  <2>2. \A i \in 1..Len(sides') : IsOrderRow(rows'.orders[i])
      BY <1>3, <1>7, <1>8
  <2>3. IsSeq(rows'.fills)
      BY <1>1, <1>8 DEF OrdersShape
  <2>4. NamesRows(maps'.orders) /\ Len(maps'.orders) = Len(sides')
        /\ DOMAIN maps'.fills \subseteq 1..Len(sides')
      BY <1>1, <1>3 DEF OrdersShape
  <2> QED
      BY <2>1, <2>2, <2>3, <2>4 DEF OrdersShape, NamesRows, IsOrderRow
<1>11. FillsTell'
  <2>1. \A i : FillsAt(i)' = FillsAt(i)
      BY <1>8 DEF FillsAt, OrderId
  <2>2. /\ \A j \in 1..Len(rows'.fills) :
               \E i \in 1..Len(sides') : rows'.fills[j].order = OrderId(i)
        /\ \A i \in 1..Len(sides') :
               /\ rows'.orders[i].status = "filled" => \E j : FillsAt(i) = {j}
               /\ rows'.orders[i].status # "filled" => FillsAt(i) = {}
      BY <1>1, <1>3, <1>8, <1>9 DEF FillsTell
  <2> QED
      BY <2>1, <2>2, Zenon DEF FillsTell, IsFilled, OrderId
<1>12. PendingTell'
  <2>1. \A s \in Symbols : pending'[s] = {}
      BY <1>3, ShapeAtRest
  <2>2. \A i \in 1..Len(sides') :
            rows'.orders[i].status = "filled" \/ rows'.orders[i].status = "expired"
      BY <1>3, <1>7, <1>8
  <2> QED
      BY <2>1, <2>2, <1>3 DEF PendingTell, IsFilled
<1>13. PositionsTell'
  <2>1. \A s : FilledSides(s)' = FilledSides(s)
      BY <1>3, <1>9 DEF FilledSides, IsFilled
  <2> QED
      BY <2>1, <1>1, <1>3 DEF PositionsTell
<1> QED
    BY <1>10, <1>11, <1>12, <1>13 DEF OrdersTell

NoOrders ==
    /\ rows.orders = <<>> /\ rows.fills = <<>> /\ maps = NoMaps /\ sides = <<>>
    /\ pending = NoPending /\ money.qty = Flat

LEMMA OrdersAtRest == NoOrders => OrdersTell
<1> SUFFICES ASSUME NoOrders PROVE OrdersTell
    OBVIOUS
<1> USE DEF NoOrders
<1>1. Len(sides) = 0 /\ 1..Len(sides) = {}
    BY EmptySeqFacts
<1>2. OrdersShape
  <2>1. maps.orders = <<>> /\ maps.fills = <<>>
      BY DEF NoMaps
  <2>2. IsSeq(rows.orders) /\ Len(rows.orders) = Len(sides) /\ IsSeq(rows.fills)
        /\ IsSeq(maps.orders) /\ Len(maps.orders) = 0 /\ DOMAIN maps.fills = {}
      BY <2>1, EmptySeqFacts
  <2> QED
      BY <2>2, <1>1 DEF OrdersShape, NamesRows
<1>3. FillsTell
  <2>1. 1..Len(rows.fills) = {}
      BY EmptySeqFacts
  <2> QED
      BY <2>1, <1>1 DEF FillsTell
<1>4. PendingTell
    BY <1>1, ShapeAtRest DEF PendingTell
<1>5. PositionsTell
  <2> SUFFICES ASSUME NEW s \in Symbols
               PROVE  money.qty[s] = Total(FilledSides(s), 1..Len(sides))
      BY DEF PositionsTell
  <2>1. money.qty[s] = 0
      BY DEF Flat
  <2>2. IsFiniteSet({})
      BY FS_EmptySet
  <2>3. Total(FilledSides(s), {}) = 0
      BY <2>2, TotalFacts
  <2> QED
      BY <2>1, <2>3, <1>1
<1> QED
    BY <1>2, <1>3, <1>4, <1>5 DEF OrdersTell

LEMMA OrdersInit == Init => OrdersTell
<1> SUFFICES ASSUME Init PROVE OrdersTell
    OBVIOUS
<1>1. rows = [NoRows EXCEPT !.status = "running"] /\ money = AtStart
    BY DEF Init
<1>2. rows.orders = <<>> /\ rows.fills = <<>> /\ money.qty = Flat
    BY <1>1 DEF NoRows, AtStart
<1>3. maps = NoMaps /\ sides = <<>> /\ pending = NoPending
    BY DEF Init
<1> QED
    BY <1>2, <1>3, OrdersAtRest DEF NoOrders

LEMMA OrdersUndone ==
    ASSUME NEW how \in {"canceled", "raised"}, Undone(how)
    PROVE  OrdersTell'
<1>1. rows' = NoRows /\ money' = AtStart /\ maps' = NoMaps /\ sides' = <<>> /\ pending' = NoPending
    BY UndoneParts
<1>2. rows'.orders = <<>> /\ rows'.fills = <<>> /\ money'.qty = Flat
    BY <1>1 DEF NoRows, AtStart
<1>3. (NoOrders => OrdersTell)'
    BY OrdersAtRest, PTL
<1>4. NoOrders'
    BY <1>1, <1>2 DEF NoOrders, NoMaps, NoPending, Flat
<1> QED
    BY <1>3, <1>4

-----------------------------------------------------------------------------
(* The traces.  Records pass a quiet span and a buffer before they are     *)
(* rows.  First what the operators of DebugTraces do with them, ...        *)

\* Records in the order of their steps.
ByStep(W) ==
    [i \in 1..Cardinality(W) |-> CHOOSE w \in W : Cardinality({v \in W : v.step < w.step}) = i - 1]

LEMMA ByStepFacts ==
    ASSUME NEW W, IsFiniteSet(W), \A w \in W : w.step \in Int,
           \A v, w \in W : v.step = w.step => v = w
    PROVE  /\ ByStep(W) \in Seq(W)
           /\ \A w \in W : \E i \in DOMAIN ByStep(W) : ByStep(W)[i] = w
           /\ \A i, j \in DOMAIN ByStep(W) : i < j => ByStep(W)[i].step < ByStep(W)[j].step
<1> DEFINE n == Cardinality(W)
           Before(w) == {v \in W : v.step < w.step}
           rank == [w \in W |-> Cardinality(Before(w))]
<1>1. n \in Nat
    BY FS_CardinalityType
<1>2. ASSUME NEW w \in W
      PROVE  rank[w] \in 0..(n - 1) /\ IsFiniteSet(Before(w))
  <2>1. w \notin Before(w) /\ Before(w) \in SUBSET (W \ {w})
      OBVIOUS
  <2>2. IsFiniteSet(W \ {w}) /\ Cardinality(W \ {w}) = n - 1
      BY FS_RemoveElement
  <2> HIDE DEF Before, n
  <2>3. IsFiniteSet(Before(w)) /\ Cardinality(Before(w)) <= n - 1
      BY <2>1, <2>2, FS_Subset
  <2>4. Cardinality(Before(w)) \in Nat
      BY <2>3, FS_CardinalityType
  <2> QED
      BY <2>3, <2>4, <1>1
<1>3. ASSUME NEW v \in W, NEW w \in W, v.step < w.step
      PROVE  rank[v] < rank[w]
  <2>1. Before(v) \in SUBSET Before(w) /\ v \notin Before(v) /\ v \in Before(w)
    <3>1. \A u \in W : u.step \in Int
        OBVIOUS
    <3>2. \A u \in Before(v) : u \in Before(w)
        BY <1>3, <3>1
    <3>3. v.step \in Int /\ ~ (v.step < v.step)
        BY <3>1
    <3>4. v \notin Before(v) /\ v \in Before(w)
        BY <1>3, <3>3
    <3> HIDE DEF Before
    <3> QED
        BY <3>2, <3>4
  <2> HIDE DEF Before
  <2>2. /\ Cardinality(Before(v)) <= Cardinality(Before(w))
        /\ Cardinality(Before(v)) # Cardinality(Before(w))
      BY <2>1, <1>2, FS_Subset
  <2>3. Cardinality(Before(v)) \in Nat /\ Cardinality(Before(w)) \in Nat
      BY <1>2, FS_CardinalityType
  <2> QED
      BY <2>2, <2>3
<1>4. ASSUME NEW v \in W, NEW w \in W, rank[v] = rank[w]
      PROVE  v = w
  <2>1. v.step < w.step \/ w.step < v.step \/ v = w
      OBVIOUS
  <2>2. rank[v] \in Int /\ rank[w] \in Int
      BY <1>2
  <2> HIDE DEF rank, Before
  <2> QED
      BY <2>1, <2>2, <1>3, <1>4
<1>5. \A i \in 0..(n - 1) : \E w \in W : rank[w] = i
  <2>1. rank \in [W -> 0..(n - 1)]
      BY <1>2
  <2> HIDE DEF rank, n
  <2>2. rank \in Injection(W, 0..(n - 1))
      BY <2>1, <1>4 DEF Injection, IsInjective
  <2>3. IsFiniteSet(0..(n - 1)) /\ Cardinality(0..(n - 1)) = n
    <3>1. 0 \in Int /\ n - 1 \in Int /\ (IF 0 > n - 1 THEN 0 ELSE n - 1 - 0 + 1) = n
        BY <1>1
    <3> QED
        BY <3>1, FS_Interval
  <2>4. rank \in Surjection(W, 0..(n - 1))
      BY <2>2, <2>3, FS_Injection DEF n
  <2> QED
      BY <2>4 DEF Surjection
<1> DEFINE s == [i \in 1..n |-> CHOOSE w \in W : Cardinality(Before(w)) = i - 1]
<1>6. s = ByStep(W)
    BY DEF ByStep
<1>7. ASSUME NEW i \in 1..n
      PROVE  s[i] \in W /\ rank[s[i]] = i - 1
  <2>1. i - 1 \in 0..(n - 1)
      BY <1>1
  <2>2. PICK w \in W : rank[w] = i - 1
      BY <2>1, <1>5
  <2>3. Cardinality(Before(w)) = i - 1
      BY <2>2
  <2> HIDE DEF Before
  <2> QED
      BY <2>3
<1>8. s \in Seq(W) /\ DOMAIN s = 1..n /\ Len(s) = n
  <2>1. s \in [1..n -> W]
    <3>1. \A i \in 1..n : (CHOOSE w \in W : Cardinality(Before(w)) = i - 1) \in W
        BY <1>7
    <3> HIDE DEF n, Before
    <3> QED
        BY <3>1
  <2> QED
      BY <2>1, <1>1, SequenceOfFunction
<1>9. ASSUME NEW w \in W
      PROVE  \E i \in 1..n : s[i] = w
  <2>1. rank[w] \in 0..(n - 1)
      BY <1>2
  <2> DEFINE i == rank[w] + 1
  <2> HIDE DEF s, rank, n
  <2>2. i \in 1..n /\ i - 1 = rank[w]
      BY <1>1, <2>1
  <2> HIDE DEF i
  <2>3. s[i] \in W /\ rank[s[i]] = rank[w]
      BY <2>2, <1>7
  <2> DEFINE v == s[i]
  <2>4. v \in W /\ rank[v] = rank[w]
      BY <2>3
  <2> HIDE DEF v
  <2>5. v = w
      BY <2>4, <1>4
  <2> QED
      BY <2>2, <2>5 DEF v
<1>10. ASSUME NEW i \in 1..n, NEW j \in 1..n, i < j
       PROVE  s[i].step < s[j].step
  <2>1. s[i] \in W /\ s[j] \in W /\ rank[s[i]] = i - 1 /\ rank[s[j]] = j - 1
      BY <1>7
  <2> DEFINE v == s[i]
             w == s[j]
  <2>2. /\ v \in W /\ w \in W /\ rank[v] = i - 1 /\ rank[w] = j - 1
        /\ v.step \in Int /\ w.step \in Int
      BY <2>1
  <2> HIDE DEF v, w, s, rank
  <2>3. CASE w.step < v.step
      BY <2>3, <2>2, <1>3, <1>10, <1>1
  <2>4. CASE w = v
      BY <2>4, <2>2, <1>10, <1>1
  <2> QED
      BY <2>2, <2>3, <2>4 DEF v, w
<1> HIDE DEF s, n
<1> QED
    BY <1>6, <1>8, <1>9, <1>10

\* selected_records of a span: its records, once each, in the order of their steps.
IsSelection(selected, span) ==
    /\ IsSeq(selected) /\ Len(selected) \in Nat
    /\ \A i \in 1..Len(selected) : \E j \in 1..Len(span) : selected[i] = span[j]
    /\ \A j \in 1..Len(span) : \E i \in 1..Len(selected) : selected[i] = span[j]
    /\ \A i, j \in 1..Len(selected) : i < j => selected[i].step < selected[j].step

LEMMA SelectedFacts ==
    ASSUME NEW span, IsSeq(span), \A i \in 1..Len(span) : span[i].step \in Int,
           \A i, j \in 1..Len(span) : span[i].step = span[j].step => span[i] = span[j]
    PROVE  IsSelection(SelectedRecords(span), span)
<1> DEFINE n == Len(span)
           kept == {span[i] : i \in 1..n}
<1>1. n \in Nat /\ DOMAIN span = 1..n
    BY SeqFacts
<1>2. IsFiniteSet(kept)
  <2> DEFINE f == [i \in 1..n |-> span[i]]
  <2>1. IsFiniteSet(1..n)
      BY <1>1, FS_Interval
  <2> HIDE DEF n
  <2>2. f \in Surjection(1..n, kept)
      BY DEF Surjection
  <2> QED
      BY <2>1, <2>2, FS_Surjection
<1>3. /\ \A w \in kept : w.step \in Int
      /\ \A v, w \in kept : v.step = w.step => v = w
      /\ \A w \in kept : \E j \in 1..n : w = span[j]
      /\ \A j \in 1..n : span[j] \in kept
    OBVIOUS
<1>4. SelectedRecords(span) = ByStep(kept)
    BY <1>1 DEF SelectedRecords, ByStep
<1> HIDE DEF kept
<1> DEFINE s == ByStep(kept)
<1>5. /\ s \in Seq(kept) /\ \A w \in kept : \E i \in DOMAIN s : s[i] = w
      /\ \A i, j \in DOMAIN s : i < j => s[i].step < s[j].step
    BY <1>2, <1>3, ByStepFacts
<1> HIDE DEF s
<1>6. Len(s) \in Nat /\ DOMAIN s = 1..Len(s) /\ \A i \in 1..Len(s) : s[i] \in kept
    BY <1>5, LenProperties, ElementOfSeq
<1>7. IsSelection(s, span)
    BY <1>3, <1>5, <1>6 DEF IsSelection, IsSeq
<1> QED
    BY <1>4, <1>7 DEF s

\* What a row keeps of its record.
Tells(row, record) ==
    /\ row.step = record.step /\ row.close = record.close
    /\ row.blocked = record.blocked /\ row.cashDelta = record.cashDelta
AreRowsOf(written, records) ==
    /\ IsSeq(written) /\ Len(written) = Len(records)
    /\ \A i \in 1..Len(records) : Tells(written[i], records[i])

LEMMA InsertedFacts ==
    ASSUME NEW records, IsSeq(records), NEW orderRow, NEW fillRow,
           NEW written \in InsertedRows(records, orderRow, fillRow)
    PROVE  AreRowsOf(written, records)
<1> DEFINE lists == LinkLists(records, orderRow, fillRow)
           n == Len(records)
<1>1. PICK f \in Serializations(lists) : written = TraceRows(records, lists, f)
    BY DEF InsertedRows
<1>2. n \in Nat
    BY SeqFacts
<1> HIDE DEF lists
<1>3. written = [i \in 1..n |->
                    [step |-> records[i].step, at |-> records[i].at, sym |-> records[i].sym,
                     close |-> records[i].close, blocked |-> records[i].blocked,
                     cashDelta |-> records[i].cashDelta, qtyDelta |-> records[i].qtyDelta,
                     orderIds |-> lists[f[2 * i - 1]], fillIds |-> lists[f[2 * i]]]]
    BY <1>1 DEF TraceRows
<1>4. \A i \in 1..n : Tells(written[i], records[i])
    BY <1>3 DEF Tells
<1>5. written = [i \in 1..n |-> written[i]]
    BY <1>3
<1>6. IsSeq(written) /\ Len(written) = n
    BY <1>2, <1>5, SeqOfFunction
<1> QED
    BY <1>4, <1>6 DEF AreRowsOf

\* A buffer is the part that is handed over and the part that stays, which is
\* less than a chunk.
IsSplit(first, second, buffer) ==
    /\ IsSeq(first) /\ IsSeq(second) /\ Len(first) \in Nat /\ Len(second) \in Nat
    /\ Len(buffer) = Len(first) + Len(second)
    /\ \A i \in 1..Len(first) : first[i] = buffer[i]
    /\ \A i \in 1..Len(second) : second[i] = buffer[Len(first) + i]

LEMMA BufferFacts ==
    ASSUME NEW buffer, IsSeq(buffer), NEW chunk \in Nat \ {0}
    PROVE  /\ IsSplit(Flushed(buffer, chunk), Kept(buffer, chunk), buffer)
           /\ Len(Kept(buffer, chunk)) < chunk
<1> DEFINE n == Len(buffer)
           q == n \div chunk
           r == n % chunk
           full == FullChunks(buffer, chunk)
<1>1. n \in Nat
    BY SeqFacts
<1>2. q \in Nat /\ r \in 0..(chunk - 1) /\ n = chunk * q + r
  <2> HIDE DEF n
  <2> QED
      BY <1>1
<1>3. full = q * chunk
    BY DEF FullChunks
<1> HIDE DEF q, r, n, full
<1>4. q * chunk = chunk * q /\ chunk * q \in Nat
    BY <1>2
<1>5. full \in Nat /\ full <= n /\ n - full < chunk
    BY <1>1, <1>2, <1>3, <1>4
<1>6. /\ 1 \in 1..(n + 1) /\ full \in (1 - 1)..n /\ full + 1 \in 1..(n + 1)
      /\ n \in ((full + 1) - 1)..n
    BY <1>1, <1>5
<1> DEFINE first == SubSeq(buffer, 1, full)
           second == SubSeq(buffer, full + 1, n)
<1>7. /\ IsSeq(first) /\ Len(first) = full - 1 + 1
      /\ \A i \in 1..(full - 1 + 1) : first[i] = buffer[1 + i - 1]
    BY <1>6, SubSeqFacts DEF n
<1>8. /\ IsSeq(second) /\ Len(second) = n - (full + 1) + 1
      /\ \A i \in 1..(n - (full + 1) + 1) : second[i] = buffer[(full + 1) + i - 1]
    BY <1>6, SubSeqFacts DEF n
<1>9. first = Flushed(buffer, chunk) /\ second = Kept(buffer, chunk)
    BY DEF Flushed, Kept, full, n
<1> HIDE DEF first, second
<1>10. Len(first) = full /\ Len(second) = n - full
    BY <1>1, <1>5, <1>7, <1>8
<1>11. \A i \in 1..full : first[i] = buffer[i]
  <2> SUFFICES ASSUME NEW i \in 1..full PROVE first[i] = buffer[i]
      OBVIOUS
  <2>1. i \in 1..(full - 1 + 1) /\ 1 + i - 1 = i
      BY <1>5
  <2> QED
      BY <2>1, <1>7
<1>12. \A i \in 1..(n - full) : second[i] = buffer[full + i]
  <2> SUFFICES ASSUME NEW i \in 1..(n - full) PROVE second[i] = buffer[full + i]
      OBVIOUS
  <2>1. i \in 1..(n - (full + 1) + 1) /\ (full + 1) + i - 1 = full + i
      BY <1>1, <1>5
  <2> QED
      BY <2>1, <1>8
<1>13. IsSplit(first, second, buffer)
    BY <1>1, <1>5, <1>7, <1>8, <1>10, <1>11, <1>12 DEF IsSplit, n
<1> QED
    BY <1>1, <1>5, <1>9, <1>10, <1>13

-----------------------------------------------------------------------------
(* The parts together: what every step keeps.                              *)

LEMMA ShapeStep == Shape /\ [Next]_vars => Shape'
<1> SUFFICES ASSUME Shape, [Next]_vars PROVE Shape'
    OBVIOUS
<1>1. CASE UNCHANGED vars
    BY <1>1, Zenon DEF vars, data, Shape
<1>2. ASSUME NEW s \in Symbols, NEW decision \in Decisions, NEW filled \in SUBSET pending[s],
             StepBar(s, filled, decision)
      PROVE  Shape'
    BY <1>2, ShapeStepBar
<1>3. ASSUME NEW next \in NextTimes, EndGroup(next) PROVE Shape'
    BY <1>3, ShapeEndGroup
<1>4. CASE Finish
    BY <1>4, ShapeFinish
<1>5. ASSUME NEW how \in {"canceled", "raised"}, Undone(how) PROVE Shape'
    BY <1>5, ShapeUndone
<1> QED
    BY <1>1, <1>2, <1>3, <1>4, <1>5 DEF Next

LEMMA CursorsFinish ==
    ASSUME Shape, CursorsBehind, ContextTold, Finish
    PROVE  CursorsBehind' /\ ContextTold'
<1>1. cursors' = cursors /\ steps' = steps /\ clock' = clock
    BY FinishParts
<1>2. Series' = Series
    BY DEF Series
<1>3. CursorsBehind'
    BY <1>1, <1>2 DEF CursorsBehind
<1>4. ContextTold'
    BY <1>1, Zenon DEF ContextTold, ContextTells
<1> QED
    BY <1>3, <1>4

LEMMA CursorsUndone ==
    ASSUME NEW how \in {"canceled", "raised"}, Undone(how)
    PROVE  CursorsBehind' /\ ContextTold'
<1>1. cursors' = AtFirstRows /\ steps' = <<>>
    BY UndoneParts
<1>2. ContextTold'
    BY <1>1, EmptySeqFacts DEF ContextTold
<1>3. \A s \in DOMAIN ContextTables, d \in ContextDatasets :
          cursors'[s][d] = 0 /\ 0 \in 0..Len(Series[s][d])
    BY <1>1, SeriesFacts DEF AtFirstRows
<1>4. DOMAIN cursors' = DOMAIN ContextTables
    BY <1>1 DEF AtFirstRows
<1>5. Series' = Series
    BY DEF Series
<1> QED
    BY <1>2, <1>3, <1>4, <1>5 DEF CursorsBehind

LEMMA CursorsStep ==
    Shape /\ CursorsBehind /\ ContextTold /\ [Next]_vars => CursorsBehind' /\ ContextTold'
<1> SUFFICES ASSUME Shape, CursorsBehind, ContextTold, [Next]_vars
             PROVE  CursorsBehind' /\ ContextTold'
    OBVIOUS
<1>1. CASE UNCHANGED vars
  <2>1. cursors' = cursors /\ steps' = steps /\ clock' = clock /\ Series' = Series
      BY <1>1 DEF vars, Series
  <2>2. CursorsBehind'
      BY <2>1 DEF CursorsBehind
  <2>3. ContextTold'
      BY <2>1, Zenon DEF ContextTold, ContextTells
  <2> QED
      BY <2>2, <2>3
<1>2. ASSUME NEW s \in Symbols, NEW decision \in Decisions, NEW filled \in SUBSET pending[s],
             StepBar(s, filled, decision)
      PROVE  CursorsBehind' /\ ContextTold'
    BY <1>2, CursorsStepBar
<1>3. ASSUME NEW next \in NextTimes, EndGroup(next) PROVE CursorsBehind' /\ ContextTold'
    BY <1>3, CursorsEndGroup
<1>4. CASE Finish
    BY <1>4, CursorsFinish
<1>5. ASSUME NEW how \in {"canceled", "raised"}, Undone(how) PROVE CursorsBehind' /\ ContextTold'
    BY <1>5, CursorsUndone
<1> QED
    BY <1>1, <1>2, <1>3, <1>4, <1>5 DEF Next

\* At every step of every run the strategy sees of the market what the tables
\* say at the bar's time and nothing of the future, however the bars of several
\* perpetuals are interleaved and whichever times have none.
THEOREM StrategySeesTheTables == Spec => []ContextIsLatest
<1>1. Init => Shape /\ CursorsBehind /\ ContextTold
    BY ShapeInit, CursorsInit
<1>2. Shape /\ CursorsBehind /\ ContextTold /\ [Next]_vars
          => (Shape /\ CursorsBehind /\ ContextTold)'
    BY ShapeStep, CursorsStep
<1>3. Shape /\ ContextTold => ContextIsLatest
  <2> SUFFICES ASSUME Shape, ContextTold, steps # <<>>,
                      Last(steps).sym \in DOMAIN ContextTables
               PROVE  ContextTells(Last(steps).sym, Last(steps).at, Last(steps).context)
      BY DEF ContextIsLatest, ContextTells
  <2>1. IsSeq(steps)
      BY DEF Shape
  <2>2. Len(steps) \in Nat /\ Len(steps) # 0
    <3>1. PICK S : steps \in Seq(S)
        BY <2>1 DEF IsSeq
    <3> QED
        BY <3>1, LenProperties, EmptySeq
  <2>3. Len(steps) \in 1..Len(steps) /\ Last(steps) = steps[Len(steps)]
      BY <2>2 DEF Last
  <2> QED
      BY <2>3 DEF ContextTold
<1> QED
    BY <1>1, <1>2, <1>3, PTL DEF Spec

LEMMA OrdersStep == Shape /\ OrdersTell /\ [Next]_vars => OrdersTell'
<1> SUFFICES ASSUME Shape, OrdersTell, [Next]_vars PROVE OrdersTell'
    OBVIOUS
<1>1. CASE UNCHANGED vars
  <2>1. /\ rows' = rows /\ maps' = maps /\ sides' = sides /\ pending' = pending
        /\ phase' = phase /\ money' = money
      BY <1>1 DEF vars
  <2> QED
      BY <2>1, OrdersStay
<1>2. ASSUME NEW s \in Symbols, NEW decision \in Decisions, NEW filled \in SUBSET pending[s],
             StepBar(s, filled, decision)
      PROVE  OrdersTell'
    BY <1>2, OrdersStepBar
<1>3. ASSUME NEW next \in NextTimes, EndGroup(next) PROVE OrdersTell'
    BY <1>3, OrdersEndGroup
<1>4. CASE Finish
    BY <1>4, OrdersFinish
<1>5. ASSUME NEW how \in {"canceled", "raised"}, Undone(how) PROVE OrdersTell'
    BY <1>5, OrdersUndone
<1> QED
    BY <1>1, <1>2, <1>3, <1>4, <1>5 DEF Next

\* The sum over the order rows is the total of the sides of the filled orders.
OrderSum(s) ==
    LET FillsOf(i) == {j \in DOMAIN rows.fills : rows.fills[j].order = <<"order", i>>}
    IN  MapThenSumSet(LAMBDA i : IF rows.orders[i].sym = s /\ FillsOf(i) # {}
                                 THEN sides[i] ELSE 0, DOMAIN rows.orders)

LEMMA OrderSumIsTotal ==
    ASSUME Shape, OrdersTell, NEW y
    PROVE  OrderSum(y) = Total(FilledSides(y), 1..Len(sides))
<1> DEFINE N == 1..Len(sides)
           FillsOf(i) == {j \in DOMAIN rows.fills : rows.fills[j].order = <<"order", i>>}
           Term(i) == IF rows.orders[i].sym = y /\ FillsOf(i) # {} THEN sides[i] ELSE 0
           any(s) == CHOOSE x \in s : TRUE
           One(j, s) == IF s = {} THEN 0 ELSE FilledSides(y)[any(s)] + j[s \ {any(s)}]
           Two(j, s) == IF s = {} THEN 0 ELSE Term(any(s)) + j[s \ {any(s)}]
           Loop(j) == j = [s \in SUBSET N |-> Two(j, s)]
           it == CHOOSE j : Loop(j)
<1>0. OrdersShape /\ FillsTell
    BY DEF OrdersTell
<1>a. Len(sides) \in Nat /\ DOMAIN sides = N /\ \A i \in N : sides[i] \in Int
  <2>1. sides \in Seq(Sides)
      BY DEF Shape
  <2>2. Len(sides) \in Nat /\ DOMAIN sides = N
      BY <2>1, LenProperties
  <2> QED
      BY <2>1, <2>2, ElementOfSeq DEF Sides
<1>b. DOMAIN rows.orders = N /\ DOMAIN rows.fills = 1..Len(rows.fills)
    BY <1>0, SeqFacts DEF OrdersShape
<1>c. \A i \in N : FillsOf(i) # {} <=> IsFilled(i)
  <2>1. \A i : FillsOf(i) = FillsAt(i)
      BY <1>b DEF FillsAt, OrderId
  <2> HIDE DEF FillsOf
  <2> QED
      BY <2>1, <1>0 DEF FillsTell
<1>d. \A i \in N : FilledSides(y)[i] = Term(i)
  <2> HIDE DEF FillsOf
  <2> QED
      BY <1>c DEF FilledSides
<1>1. OrderSum(y) = it[N]
    BY <1>b DEF OrderSum, MapThenSumSet, MapThenFoldSet
<1>e. \A i \in N : Term(i) \in Int
  <2> HIDE DEF FillsOf
  <2> QED
      BY <1>a
<1>2. IsFiniteSet(N) /\ \A x \in N : FilledSides(y)[x] \in Int
  <2>1. IsFiniteSet(N)
      BY <1>a, FS_Interval
  <2> HIDE DEF Term
  <2> QED
      BY <2>1, <1>d, <1>e
<1> HIDE DEF Term, N
<1>3. ASSUME NEW j
      PROVE  IsSum(j, FilledSides(y), N) <=> Loop(j)
  <2>1. ASSUME NEW s \in SUBSET N
        PROVE  One(j, s) = Two(j, s)
    <3>1. s # {} => any(s) \in N
        OBVIOUS
    <3> HIDE DEF any
    <3> QED
        BY <3>1, <1>d
  <2>2. IsSum(j, FilledSides(y), N) <=> j = [s \in SUBSET N |-> One(j, s)]
      BY DEF IsSum
  <2> HIDE DEF One, Two
  <2>3. [s \in SUBSET N |-> One(j, s)] = [s \in SUBSET N |-> Two(j, s)]
      BY <2>1
  <2> QED
      BY <2>2, <2>3, Zenon
<1> HIDE DEF Loop
<1>4. PICK j : Loop(j)
    BY <1>2, <1>3, SumExists
<1>5. IsSum(it, FilledSides(y), N)
    BY <1>3, <1>4
<1> HIDE DEF it
<1>6. it[N] = Total(FilledSides(y), N)
    BY <1>2, <1>5, LoopComputesTotal
<1> QED
    BY <1>1, <1>6 DEF N

\* When a run has finished, every order that the strategy placed has its row,
\* is filled by one fill or has expired without any, and the position of every
\* symbol is what its filled orders add up to: no sink loses or doubles an order
\* that another knows.
THEOREM OrdersAndFillsSettle == Spec => []RecordsSettle
<1>1. Init => Shape /\ OrdersTell
    BY ShapeInit, OrdersInit
<1>2. Shape /\ OrdersTell /\ [Next]_vars => (Shape /\ OrdersTell)'
    BY ShapeStep, OrdersStep
<1>3. Shape /\ OrdersTell => RecordsSettle
  <2> SUFFICES ASSUME Shape, OrdersTell PROVE RecordsSettle
      OBVIOUS
  <2> DEFINE n == Len(sides)
             FillsOf(i) == {j \in DOMAIN rows.fills : rows.fills[j].order = <<"order", i>>}
  <2>1. OrdersShape /\ FillsTell /\ PendingTell /\ PositionsTell
      BY DEF OrdersTell
  <2>2. Len(rows.orders) = n /\ DOMAIN rows.orders = 1..n
        /\ DOMAIN rows.fills = 1..Len(rows.fills)
      BY <2>1, SeqFacts DEF OrdersShape
  <2>3. \A i : FillsOf(i) = FillsAt(i)
      BY <2>2 DEF FillsAt, OrderId
  <2> HIDE DEF FillsOf, n
  <2>4. ASSUME Finished, NEW i \in 1..n
        PROVE  \/ rows.orders[i].status = "filled" /\ Cardinality(FillsOf(i)) = 1
               \/ rows.orders[i].status = "expired" /\ FillsOf(i) = {}
    <3>1. CASE IsFilled(i)
      <4>1. PICK j : FillsAt(i) = {j}
          BY <3>1, <2>1 DEF FillsTell, n
      <4>2. Cardinality(FillsOf(i)) = 1
          BY <4>1, <2>3, FS_Singleton
      <4> QED
          BY <4>2, <3>1 DEF IsFilled
    <3>2. CASE ~IsFilled(i)
      <4>1. rows.orders[i].status = "expired"
          BY <3>2, <2>1, <2>4 DEF PendingTell, Finished, n
      <4>2. FillsOf(i) = {}
          BY <3>2, <2>1, <2>3 DEF FillsTell, n
      <4> QED
          BY <4>1, <4>2
    <3> QED
        BY <3>1, <3>2
  <2>5. ASSUME NEW s \in Symbols PROVE OrderSum(s) = money.qty[s]
      BY <2>1, OrderSumIsTotal DEF PositionsTell
  <2> USE DEF FillsOf
  <2>6. Finished =>
            /\ Len(rows.orders) = n
            /\ \A i \in DOMAIN rows.orders :
                   \/ rows.orders[i].status = "filled" /\ Cardinality(FillsOf(i)) = 1
                   \/ rows.orders[i].status = "expired" /\ FillsOf(i) = {}
            /\ \A s \in Symbols : OrderSum(s) = money.qty[s]
    <3> HIDE DEF FillsOf
    <3> QED
        BY <2>2, <2>4, <2>5
  <2> QED
      BY <2>6, Zenon DEF RecordsSettle, OrderSum, n
<1> QED
    BY <1>1, <1>2, <1>3, PTL DEF Spec

-----------------------------------------------------------------------------
(* The traces.  The rows and the buffer are one list of traces, which only *)
(* grows; a trace tells of a step what its record does.  The lemmas of     *)
(* this part are about any list of traces T of any steps S.                *)

LEMMA OneSeq ==
    ASSUME NEW x
    PROVE  IsSeq(<<x>>) /\ Len(<<x>>) = 1 /\ <<x>>[1] = x
<1>1. <<x>> \in Seq({x})
    OBVIOUS
<1> QED
    BY <1>1 DEF IsSeq

IsExtension(later, earlier, new) ==
    /\ IsSeq(later) /\ Len(later) = Len(earlier) + Len(new)
    /\ \A i \in 1..Len(earlier) : Tells(later[i], earlier[i])
    /\ \A i \in 1..Len(new) : Tells(later[Len(earlier) + i], new[i])

HasRowIn(T, k) == \E i \in 1..Len(T) : T[i].step = k

LEMMA ExtensionHas ==
    ASSUME NEW later, NEW earlier, IsSeq(earlier), NEW new, IsSeq(new),
           IsExtension(later, earlier, new), NEW k
    PROVE  HasRowIn(later, k) <=> HasRowIn(earlier, k) \/ HasRowIn(new, k)
<1> DEFINE n == Len(earlier)
           m == Len(new)
<1>1. n \in Nat /\ m \in Nat
    BY SeqFacts
<1>2. /\ Len(later) = n + m
      /\ \A i \in 1..n : later[i].step = earlier[i].step
      /\ \A i \in 1..m : later[n + i].step = new[i].step
    BY DEF IsExtension, Tells
<1> HIDE DEF n, m
<1>3. \A i \in 1..n : i \in 1..(n + m)
    BY <1>1
<1>4. \A i \in 1..m : n + i \in 1..(n + m)
    BY <1>1
<1>5. ASSUME NEW i \in 1..(n + m) PROVE i \in 1..n \/ \E j \in 1..m : i = n + j
  <2>1. CASE i <= n
      BY <2>1, <1>1
  <2>2. CASE ~(i <= n)
    <3>1. i - n \in 1..m /\ i = n + (i - n)
        BY <2>2, <1>1
    <3> QED
        BY <3>1
  <2> QED
      BY <2>1, <2>2
<1>6. ASSUME NEW i \in 1..(n + m), later[i].step = k
      PROVE  (\E j \in 1..n : earlier[j].step = k) \/ (\E j \in 1..m : new[j].step = k)
    BY <1>2, <1>5, <1>6
<1>7. ASSUME NEW i \in 1..n, earlier[i].step = k
      PROVE  \E j \in 1..(n + m) : later[j].step = k
    BY <1>2, <1>3, <1>7
<1>8. ASSUME NEW i \in 1..m, new[i].step = k
      PROVE  \E j \in 1..(n + m) : later[j].step = k
    BY <1>2, <1>4, <1>8
<1>9. HasRowIn(later, k) <=> \E j \in 1..(n + m) : later[j].step = k
    BY <1>2 DEF HasRowIn
<1> QED
    BY <1>6, <1>7, <1>8, <1>9 DEF HasRowIn, n, m

\* A record of the step at an index.
IsStepAt(r, k) ==
    /\ r.step = k /\ r.close \in Int /\ r.cashDelta \in Int
    /\ ~IsActivity(r) => r.cashDelta = 0
IsSteps(S) == IsSeq(S) /\ \A k \in 1..Len(S) : IsStepAt(S[k], k)

Deltas(T) == [i \in 1..Len(T) |-> T[i].cashDelta]
SumOfDeltas(T) == Total(Deltas(T), 1..Len(T))

\* The traces are of steps, in their order; the steps with activity are among
\* them, and so is all the cash that was won or lost.
Linked(T, S) ==
    \A i \in 1..Len(T) : T[i].step \in 1..Len(S) /\ Tells(T[i], S[T[i].step])
Rises(T) == \A i, j \in 1..Len(T) : i < j => T[i].step < T[j].step
TraceCore(T, S, gain) ==
    /\ IsSeq(T) /\ IsSteps(S)
    /\ Linked(T, S) /\ Rises(T)
    /\ SumOfDeltas(T) = gain
    /\ \A k \in 1..Len(S) : IsActivity(S[k]) => HasRowIn(T, k)

LEMMA DeltasFacts ==
    ASSUME NEW T, NEW S, NEW gain, TraceCore(T, S, gain)
    PROVE  /\ Len(T) \in Nat /\ IsFiniteSet(1..Len(T))
           /\ \A i \in 1..Len(T) : T[i].cashDelta \in Int /\ T[i].step \in 1..Len(S)
           /\ Len(S) \in Nat /\ gain \in Int
<1>1. Len(T) \in Nat /\ Len(S) \in Nat
    BY SeqFacts DEF TraceCore, IsSteps
<1>2. IsFiniteSet(1..Len(T))
    BY <1>1, FS_Interval
<1>3. \A i \in 1..Len(T) : T[i].cashDelta \in Int /\ T[i].step \in 1..Len(S)
    BY DEF TraceCore, Linked, Tells, IsSteps, IsStepAt
<1>4. SumOfDeltas(T) \in Int
  <2>1. \A i \in 1..Len(T) : Deltas(T)[i] \in Int
      BY <1>3 DEF Deltas
  <2> QED
      BY <1>2, <2>1, TotalFacts DEF SumOfDeltas
<1> QED
    BY <1>1, <1>2, <1>3, <1>4 DEF TraceCore

\* An extension by records whose steps come later rises.
LEMMA ExtensionRises ==
    ASSUME NEW T, IsSeq(T), NEW new, IsSeq(new), NEW U, IsExtension(U, T, new),
           Rises(T), Rises(new),
           \A i \in 1..Len(T) : \A j \in 1..Len(new) : T[i].step < new[j].step
    PROVE  Rises(U)
<1> DEFINE n == Len(T)
           m == Len(new)
<1>1. n \in Nat /\ m \in Nat /\ Len(U) = n + m
    BY SeqFacts DEF IsExtension
<1>2. /\ \A i \in 1..n : U[i].step = T[i].step
      /\ \A i \in 1..m : U[n + i].step = new[i].step
    BY DEF IsExtension, Tells
<1>3. ASSUME NEW i \in 1..(n + m), NEW j \in 1..(n + m), i < j
      PROVE  U[i].step < U[j].step
  <2>1. CASE j <= n
    <3>1. i \in 1..n /\ j \in 1..n
        BY <2>1, <1>1, <1>3
    <3> QED
        BY <3>1, <1>2, <1>3 DEF Rises
  <2>2. CASE i <= n /\ ~(j <= n)
    <3>1. i \in 1..n /\ j - n \in 1..m /\ n + (j - n) = j
        BY <2>2, <1>1, <1>3
    <3>2. U[j].step = new[j - n].step /\ U[i].step = T[i].step
        BY <3>1, <1>2
    <3> QED
        BY <3>1, <3>2
  <2>3. CASE ~(i <= n)
    <3>1. /\ i - n \in 1..m /\ n + (i - n) = i /\ i - n < j - n
          /\ j - n \in 1..m /\ n + (j - n) = j
        BY <2>3, <1>1, <1>3
    <3>2. U[j].step = new[j - n].step /\ U[i].step = new[i - n].step
        BY <3>1, <1>2
    <3> QED
        BY <3>1, <3>2 DEF Rises
  <2> QED
      BY <2>1, <2>2, <2>3
<1> QED
    BY <1>1, <1>3 DEF Rises

\* The traces of quiet steps that come later add nothing to the sum.
LEMMA CoreGrows ==
    ASSUME NEW T, NEW S, NEW gain, TraceCore(T, S, gain),
           NEW new, IsSeq(new), Rises(new),
           \A i \in 1..Len(new) : \E k \in 1..Len(S) : new[i] = S[k] /\ ~IsActivity(S[k]),
           \A i \in 1..Len(T) : \A j \in 1..Len(new) : T[i].step < new[j].step,
           NEW U, IsExtension(U, T, new)
    PROVE  TraceCore(U, S, gain)
<1> DEFINE n == Len(T)
           m == Len(new)
<1>1. n \in Nat /\ m \in Nat /\ Len(U) = n + m /\ IsSeq(T) /\ IsSeq(U)
    BY DeltasFacts, SeqFacts DEF IsExtension, TraceCore
<1>2. /\ \A i \in 1..n : Tells(U[i], T[i])
      /\ \A i \in 1..m : Tells(U[n + i], new[i])
    BY DEF IsExtension
<1>3. \A i \in 1..m : /\ new[i].step \in 1..Len(S) /\ new[i] = S[new[i].step]
                      /\ new[i].cashDelta = 0
    BY DEF TraceCore, IsSteps, IsStepAt
<1>4. Linked(T, S)
    BY DEF TraceCore
<1>5. ASSUME NEW i \in 1..(n + m)
      PROVE  /\ U[i].step \in 1..Len(S) /\ Tells(U[i], S[U[i].step])
             /\ i \notin 1..n => U[i].cashDelta = 0
  <2>1. CASE i \in 1..n
    <3>1. T[i].step \in 1..Len(S) /\ Tells(T[i], S[T[i].step]) /\ Tells(U[i], T[i])
        BY <2>1, <1>2, <1>4 DEF Linked
    <3> QED
        BY <2>1, <3>1 DEF Tells
  <2>2. CASE i \notin 1..n
    <3>1. i - n \in 1..m /\ n + (i - n) = i
        BY <2>2, <1>1
    <3>2. /\ Tells(U[i], new[i - n]) /\ new[i - n].step \in 1..Len(S)
          /\ new[i - n] = S[new[i - n].step] /\ new[i - n].cashDelta = 0
        BY <3>1, <1>2, <1>3
    <3> QED
        BY <3>2 DEF Tells
  <2> QED
      BY <2>1, <2>2
<1>6. Linked(U, S)
    BY <1>1, <1>5 DEF Linked
<1>7. Rises(U)
    BY <1>1, ExtensionRises DEF TraceCore
<1>8. SumOfDeltas(U) = gain
  <2>1. IsFiniteSet(1..(n + m)) /\ IsFiniteSet(1..n) /\ 1..n \subseteq 1..(n + m)
      BY <1>1, FS_Interval
  <2>2. \A i \in 1..(n + m) : Deltas(U)[i] = U[i].cashDelta
      BY <1>1 DEF Deltas
  <2>3. \A i \in 1..n : /\ Deltas(T)[i] = T[i].cashDelta /\ T[i].cashDelta \in Int
                        /\ U[i].cashDelta = T[i].cashDelta
      BY <1>2, DeltasFacts DEF Deltas, Tells
  <2>4. /\ \A i \in 1..n : Deltas(U)[i] \in Int /\ Deltas(U)[i] = Deltas(T)[i]
        /\ \A i \in 1..(n + m) \ 1..n : Deltas(U)[i] = 0
        /\ \A i \in 1..(n + m) : Deltas(U)[i] \in Int
    <3> HIDE DEF n, m
    <3>1. \A i \in 1..n : i \in 1..(n + m)
        BY <2>1
    <3>2. \A i \in 1..n : Deltas(U)[i] \in Int /\ Deltas(U)[i] = Deltas(T)[i]
        BY <3>1, <2>2, <2>3
    <3>3. \A i \in 1..(n + m) : i \notin 1..n => Deltas(U)[i] = 0
        BY <2>2, <1>5
    <3> QED
        BY <3>2, <3>3
  <2>5. Total(Deltas(U), 1..(n + m)) = Total(Deltas(U), 1..n)
      BY <2>1, <2>4, TotalOfPart
  <2>6. Total(Deltas(U), 1..n) = Total(Deltas(T), 1..n)
      BY <2>1, <2>4, TotalOfEqual
  <2> QED
      BY <2>5, <2>6, <1>1 DEF SumOfDeltas, TraceCore
<1>9. \A k \in 1..Len(S) : IsActivity(S[k]) => HasRowIn(U, k)
    BY <1>1, ExtensionHas DEF TraceCore
<1> QED
    BY <1>1, <1>6, <1>7, <1>8, <1>9 DEF TraceCore

LEMMA StepsGrow ==
    ASSUME NEW S, IsSteps(S), NEW r, IsStepAt(r, Len(S) + 1)
    PROVE  /\ IsSteps(Append(S, r)) /\ Len(S) \in Nat /\ Len(Append(S, r)) = Len(S) + 1
           /\ Append(S, r)[Len(S) + 1] = r
           /\ \A k \in 1..Len(S) : Append(S, r)[k] = S[k]
<1> DEFINE more == Append(S, r)
           n == Len(S)
<1>1. IsSeq(S) /\ \A k \in 1..n : IsStepAt(S[k], k)
    BY DEF IsSteps
<1>2. /\ IsSeq(more) /\ Len(more) = n + 1 /\ n \in Nat /\ more[n + 1] = r
      /\ \A k \in 1..n : more[k] = S[k]
    BY <1>1, AppendSeq
<1> HIDE DEF more, n
<1>3. \A k \in 1..(n + 1) : IsStepAt(more[k], k)
  <2> SUFFICES ASSUME NEW k \in 1..(n + 1) PROVE IsStepAt(more[k], k)
      OBVIOUS
  <2>1. CASE k \in 1..n
      BY <2>1, <1>1, <1>2
  <2>2. CASE k = n + 1
      BY <2>2, <1>2 DEF n
  <2> QED
      BY <2>1, <2>2, <1>2
<1>4. IsSteps(more)
    BY <1>2, <1>3 DEF IsSteps
<1> QED
    BY <1>2, <1>4 DEF more, n

\* One more step with its trace.
LEMMA CoreAppends ==
    ASSUME NEW T, NEW S, NEW gain, TraceCore(T, S, gain),
           NEW r, IsStepAt(r, Len(S) + 1), NEW U, IsExtension(U, T, <<r>>)
    PROVE  TraceCore(U, Append(S, r), gain + r.cashDelta)
<1> DEFINE n == Len(T)
           m == Len(S)
           more == Append(S, r)
<1>1. /\ n \in Nat /\ m \in Nat /\ gain \in Int /\ IsSeq(T) /\ IsSeq(U)
      /\ \A i \in 1..n : T[i].cashDelta \in Int /\ T[i].step \in 1..m
      /\ IsFiniteSet(1..n)
    BY DeltasFacts DEF IsExtension, TraceCore
<1>2. /\ Len(U) = n + 1 /\ Tells(U[n + 1], r)
      /\ \A i \in 1..n : Tells(U[i], T[i])
  <2>1. Len(<<r>>) = 1 /\ <<r>>[1] = r
      BY OneSeq
  <2>2. 1 \in 1..1
      OBVIOUS
  <2> QED
      BY <2>1, <2>2 DEF IsExtension
<1>3. /\ IsSteps(more) /\ Len(more) = m + 1 /\ more[m + 1] = r
      /\ \A k \in 1..m : more[k] = S[k]
    BY StepsGrow DEF TraceCore
<1>4. r.step = m + 1 /\ r.cashDelta \in Int
    BY DEF IsStepAt
<1>5. Linked(T, S) /\ Rises(T)
    BY DEF TraceCore
<1> HIDE DEF n, m, more
<1>6. \A i \in 1..(n + 1) : i \in 1..n \/ i = n + 1
    BY <1>1
<1>7. Linked(U, more)
  <2> SUFFICES ASSUME NEW i \in 1..(n + 1)
               PROVE  U[i].step \in 1..(m + 1) /\ Tells(U[i], more[U[i].step])
      BY <1>2, <1>3 DEF Linked
  <2>1. CASE i \in 1..n
    <3>1. T[i].step \in 1..m /\ Tells(T[i], S[T[i].step]) /\ Tells(U[i], T[i])
        BY <2>1, <1>2, <1>5 DEF Linked, n, m
    <3>2. U[i].step = T[i].step /\ U[i].step \in 1..(m + 1) /\ more[U[i].step] = S[T[i].step]
        BY <3>1, <1>1, <1>3 DEF Tells
    <3> QED
        BY <3>1, <3>2 DEF Tells
  <2>2. CASE i = n + 1
    <3>1. U[i].step = m + 1 /\ more[U[i].step] = r /\ Tells(U[i], r)
        BY <2>2, <1>2, <1>3, <1>4 DEF Tells
    <3> QED
        BY <3>1, <1>1
  <2> QED
      BY <2>1, <2>2, <1>6
<1>8. Rises(U)
  <2>1. IsSeq(<<r>>) /\ Len(<<r>>) = 1 /\ <<r>>[1] = r
      BY OneSeq
  <2>2. \A i \in 1..1 : i = 1
      OBVIOUS
  <2>3. Rises(<<r>>)
    <3> SUFFICES ASSUME NEW i \in 1..1, NEW j \in 1..1, i < j PROVE FALSE
        BY <2>1 DEF Rises
    <3> QED
        OBVIOUS
  <2>4. \A i \in 1..Len(T) : \A j \in 1..Len(<<r>>) : T[i].step < <<r>>[j].step
    <3> SUFFICES ASSUME NEW i \in 1..n PROVE T[i].step < r.step
        BY <2>1, <2>2 DEF n
    <3> QED
        BY <1>1, <1>4
  <2> HIDE DEF n
  <2> QED
      BY <1>1, <1>5, <2>1, <2>3, <2>4, ExtensionRises
<1>9. SumOfDeltas(U) = gain + r.cashDelta
  <2>1. \A i \in 1..(n + 1) : Deltas(U)[i] = U[i].cashDelta
      BY <1>2 DEF Deltas
  <2>2. n + 1 \in 1..(n + 1) /\ \A i \in 1..n : i \in 1..(n + 1)
      BY <1>1
  <2>3. \A i \in 1..n : /\ Deltas(T)[i] = T[i].cashDelta /\ T[i].cashDelta \in Int
                        /\ U[i].cashDelta = T[i].cashDelta
      BY <1>1, <1>2 DEF Deltas, Tells, n
  <2>4. \A i \in 1..n : Deltas(T)[i] \in Int /\ Deltas(T)[i] = Deltas(U)[i]
      BY <2>1, <2>2, <2>3
  <2>5. Deltas(U)[n + 1] = r.cashDelta
      BY <2>1, <2>2, <1>2 DEF Tells
  <2> DEFINE g == Deltas(T)
             h == Deltas(U)
             N == 1..n
             x == n + 1
  <2>6. /\ \A i \in N : g[i] \in Int /\ g[i] = h[i]
        /\ x \notin N /\ h[x] \in Int /\ IsFiniteSet(N) /\ N \union {x} = 1..(n + 1)
      BY <2>4, <2>5, <1>1, <1>4
  <2> HIDE DEF g, h, N, x
  <2>7. Total(h, N \union {x}) = Total(g, N) + h[x]
      BY <2>6, TotalOfOneMore
  <2>8. Total(g, N) = gain
      BY DEF g, N, n, TraceCore, SumOfDeltas
  <2>9. SumOfDeltas(U) = Total(h, N \union {x})
      BY <2>6, <1>2 DEF SumOfDeltas, h
  <2> QED
      BY <2>5, <2>7, <2>8, <2>9 DEF h, x
<1>10. \A k \in 1..(m + 1) : IsActivity(more[k]) => HasRowIn(U, k)
  <2> SUFFICES ASSUME NEW k \in 1..(m + 1), IsActivity(more[k]) PROVE HasRowIn(U, k)
      OBVIOUS
  <2>1. CASE k \in 1..m
    <3>1. HasRowIn(T, k)
        BY <2>1, <1>3 DEF TraceCore, m
    <3>2. PICK i \in 1..n : T[i].step = k
        BY <3>1 DEF HasRowIn, n
    <3>3. i \in 1..(n + 1) /\ U[i].step = k
        BY <3>2, <1>1, <1>2 DEF Tells
    <3> QED
        BY <3>3, <1>2 DEF HasRowIn
  <2>2. CASE k = m + 1
    <3>1. n + 1 \in 1..(n + 1) /\ U[n + 1].step = k
        BY <2>2, <1>1, <1>2, <1>4 DEF Tells
    <3> QED
        BY <3>1, <1>2 DEF HasRowIn
  <2> QED
      BY <2>1, <2>2, <1>1
<1> QED
    BY <1>1, <1>3, <1>7, <1>8, <1>9, <1>10 DEF TraceCore, more

\* One more quiet step without a trace.
LEMMA CoreSkips ==
    ASSUME NEW T, NEW S, NEW gain, TraceCore(T, S, gain),
           NEW r, IsStepAt(r, Len(S) + 1), ~IsActivity(r)
    PROVE  TraceCore(T, Append(S, r), gain)
<1> DEFINE m == Len(S)
           more == Append(S, r)
<1>1. /\ IsSteps(more) /\ Len(more) = m + 1 /\ more[m + 1] = r /\ m \in Nat
      /\ \A k \in 1..m : more[k] = S[k]
    BY StepsGrow DEF TraceCore
<1> HIDE DEF m, more
<1>2. Linked(T, more)
  <2> SUFFICES ASSUME NEW i \in 1..Len(T)
               PROVE  T[i].step \in 1..(m + 1) /\ Tells(T[i], more[T[i].step])
      BY <1>1 DEF Linked
  <2>1. T[i].step \in 1..m /\ Tells(T[i], S[T[i].step])
      BY DEF TraceCore, Linked, m
  <2> QED
      BY <2>1, <1>1
<1>3. \A k \in 1..(m + 1) : IsActivity(more[k]) => HasRowIn(T, k)
  <2> SUFFICES ASSUME NEW k \in 1..(m + 1), IsActivity(more[k]) PROVE HasRowIn(T, k)
      OBVIOUS
  <2>1. k \in 1..m
    <3>1. k \in 1..m \/ k = m + 1
        BY <1>1
    <3> QED
        BY <3>1, <1>1
  <2> QED
      BY <2>1, <1>1 DEF TraceCore, m
<1> QED
    BY <1>1, <1>2, <1>3 DEF TraceCore, more

\* All the quiet steps between two that are not, or the ends of the run.
IsQuietSpan(S, a, b) ==
    /\ a \in 1..Len(S) /\ b \in 1..Len(S) /\ a <= b
    /\ \A k \in a..b : ~IsActivity(S[k])
    /\ a > 1 => IsActivity(S[a - 1])
    /\ b < Len(S) => IsActivity(S[b + 1])

\* What the traces keep of a span: no more than four of its steps, with both ends
\* and the extremes of the close.
KeptOn(T, a, b) == {k \in a..b : HasRowIn(T, k)}
KeptWell(T, S, a, b) ==
    /\ Cardinality(KeptOn(T, a, b)) <= 4
    /\ HasRowIn(T, a) /\ HasRowIn(T, b)
    /\ \A k \in a..b : /\ \E q \in KeptOn(T, a, b) : S[q].close >= S[k].close
                       /\ \E q \in KeptOn(T, a, b) : S[q].close <= S[k].close

Wanted(o) == o.compressed /\ o.stride = 1 /\ ~o.activityOnly
SpansKept(o, T, S, m) ==
    Wanted(o) => \A a, b \in 1..Len(S) : b <= m /\ IsQuietSpan(S, a, b) => KeptWell(T, S, a, b)

\* The quiet span that is open holds four of the steps since it began, and no
\* trace of them is written yet.
OpenSpan(o, span, T, S, p, high, low) ==
    /\ o.compressed /\ ~o.activityOnly
    /\ IsSeq(span) /\ Len(span) = 4
    /\ p \in 1..Len(S) /\ high \in p..Len(S) /\ low \in p..Len(S)
    /\ span[1] = S[p] /\ span[2] = S[high] /\ span[3] = S[low] /\ span[4] = S[Len(S)]
    /\ \A k \in p..Len(S) : /\ ~IsActivity(S[k])
                            /\ S[low].close <= S[k].close /\ S[k].close <= S[high].close
    /\ \A i \in 1..Len(T) : T[i].step < p
    /\ o.stride = 1 /\ p > 1 => IsActivity(S[p - 1])
SpanTells(o, span, T, S) ==
    span = <<>> \/ \E p, high, low \in 1..Len(S) : OpenSpan(o, span, T, S, p, high, low)

\* While the run goes on ...
TraceInv(o, T, span, S, gain) ==
    /\ TraceCore(T, S, gain) /\ SpanTells(o, span, T, S) /\ SpansKept(o, T, S, Len(S) - 1)
    /\ Wanted(o) /\ Len(S) > 0 /\ ~IsActivity(S[Len(S)]) => span # <<>>
\* ... and once the span is closed.
Settled(o, T, S, gain) == TraceCore(T, S, gain) /\ SpansKept(o, T, S, Len(S))

LEMMA AtMostFour ==
    ASSUME NEW a, NEW b, NEW c, NEW d, NEW K, K \subseteq {a, b, c, d}
    PROVE  IsFiniteSet(K) /\ Cardinality(K) <= 4
<1>1. IsFiniteSet({a}) /\ Cardinality({a}) = 1
    BY FS_Singleton
<1>2. /\ IsFiniteSet({a} \union {b})
      /\ Cardinality({a} \union {b}) \in {1, 2}
    BY <1>1, FS_AddElement
<1>3. /\ IsFiniteSet(({a} \union {b}) \union {c})
      /\ Cardinality(({a} \union {b}) \union {c}) \in {1, 2, 3}
    BY <1>2, FS_AddElement
<1>4. /\ IsFiniteSet((({a} \union {b}) \union {c}) \union {d})
      /\ Cardinality((({a} \union {b}) \union {c}) \union {d}) \in {1, 2, 3, 4}
    BY <1>3, FS_AddElement
<1> DEFINE all == (({a} \union {b}) \union {c}) \union {d}
<1>5. K \subseteq all
    OBVIOUS
<1>6. IsFiniteSet(all) /\ Cardinality(all) \in {1, 2, 3, 4}
    BY <1>4
<1> HIDE DEF all
<1>7. IsFiniteSet(K) /\ Cardinality(K) <= Cardinality(all) /\ Cardinality(K) \in Nat
    BY <1>5, <1>6, FS_Subset, FS_CardinalityType
<1> QED
    BY <1>6, <1>7

\* Traces of steps elsewhere leave what is kept of a span.
LEMMA KeptWellStays ==
    ASSUME NEW T, IsSeq(T), NEW new, IsSeq(new), NEW U, IsExtension(U, T, new),
           NEW S, NEW a \in Int, NEW b \in Int, a <= b,
           \A i \in 1..Len(new) : new[i].step \notin a..b, KeptWell(T, S, a, b)
    PROVE  KeptWell(U, S, a, b)
<1>1. \A k : HasRowIn(U, k) <=> HasRowIn(T, k) \/ HasRowIn(new, k)
    BY ExtensionHas
<1>2. \A k \in a..b : ~HasRowIn(new, k)
    BY DEF HasRowIn
<1>3. \A k \in a..b : HasRowIn(U, k) <=> HasRowIn(T, k)
    BY <1>1, <1>2
<1>4. KeptOn(U, a, b) = KeptOn(T, a, b)
    BY <1>3 DEF KeptOn
<1>5. a \in a..b /\ b \in a..b
    OBVIOUS
<1> QED
    BY <1>3, <1>4, <1>5 DEF KeptWell

\* selected_records of an open span: some of its four, with the first, the high,
\* the low and the last among them.
IsChoice(new, S, p, high, low) ==
    /\ IsSeq(new) /\ Rises(new)
    /\ \A i \in 1..Len(new) :
           /\ new[i].step \in {p, high, low, Len(S)} /\ new[i].step \in p..Len(S)
           /\ new[i] = S[new[i].step]
    /\ \A k \in {p, high, low, Len(S)} : HasRowIn(new, k)

LEMMA SelectedOfOpen ==
    ASSUME NEW o, NEW span, NEW T, NEW S, IsSteps(S), NEW p, NEW high, NEW low,
           OpenSpan(o, span, T, S, p, high, low)
    PROVE  IsChoice(SelectedRecords(span), S, p, high, low)
<1> DEFINE new == SelectedRecords(span)
           n == Len(S)
           four == {p, high, low, n}
<1>1. /\ IsSeq(span) /\ Len(span) = 4
      /\ span[1] = S[p] /\ span[2] = S[high] /\ span[3] = S[low] /\ span[4] = S[n]
      /\ p \in 1..n /\ high \in p..n /\ low \in p..n
    BY DEF OpenSpan
<1>2. n \in Nat /\ \A k \in 1..n : S[k].step = k
    BY SeqFacts DEF IsSteps, IsStepAt
<1>3. four \subseteq p..n /\ four \subseteq 1..n
    BY <1>1, <1>2
<1>4. \A j \in 1..4 : j = 1 \/ j = 2 \/ j = 3 \/ j = 4
    OBVIOUS
<1> HIDE DEF n
<1>5. \A j \in 1..4 : \E k \in four : span[j] = S[k]
    BY <1>1, <1>4
<1>6. \A k \in four : \E j \in 1..4 : span[j] = S[k]
    BY <1>1
<1> HIDE DEF four
<1>7. \A j \in 1..4 : span[j].step \in four /\ span[j] = S[span[j].step]
    BY <1>2, <1>3, <1>5
<1>8. /\ \A i \in 1..Len(span) : span[i].step \in Int
      /\ \A i, j \in 1..Len(span) : span[i].step = span[j].step => span[i] = span[j]
    BY <1>1, <1>2, <1>3, <1>7
<1>9. IsSelection(new, span)
    BY <1>1, <1>8, SelectedFacts
<1> HIDE DEF new
<1>10. IsSeq(new) /\ Rises(new)
    BY <1>9 DEF IsSelection, Rises
<1>11. \A i \in 1..Len(new) : new[i].step \in four /\ new[i] = S[new[i].step]
  <2> SUFFICES ASSUME NEW i \in 1..Len(new)
               PROVE  new[i].step \in four /\ new[i] = S[new[i].step]
      OBVIOUS
  <2>1. PICK j \in 1..4 : new[i] = span[j]
      BY <1>1, <1>9 DEF IsSelection
  <2> QED
      BY <2>1, <1>7
<1>12. \A k \in four : HasRowIn(new, k)
  <2> SUFFICES ASSUME NEW k \in four PROVE HasRowIn(new, k)
      OBVIOUS
  <2>1. PICK j \in 1..4 : span[j] = S[k]
      BY <1>6
  <2>2. PICK i \in 1..Len(new) : new[i] = span[j]
      BY <2>1, <1>1, <1>9 DEF IsSelection
  <2>3. new[i].step = k
      BY <2>1, <2>2, <1>2, <1>3
  <2> QED
      BY <2>3 DEF HasRowIn
<1>13. \A i \in 1..Len(new) : new[i].step \in p..n
    BY <1>3, <1>11
<1> QED
    BY <1>10, <1>11, <1>12, <1>13 DEF new, n, four, IsChoice

LEMMA SelectedOfNone == SelectedRecords(<<>>) = <<>>
<1>1. IsSelection(SelectedRecords(<<>>), <<>>)
  <2>1. IsSeq(<<>>) /\ Len(<<>>) = 0 /\ 1..0 = {}
      BY EmptySeqFacts
  <2>2. /\ \A i \in 1..Len(<<>>) : <<>>[i].step \in Int
        /\ \A i, j \in 1..Len(<<>>) : <<>>[i].step = <<>>[j].step => <<>>[i] = <<>>[j]
      BY <2>1
  <2> DEFINE none == <<>>
  <2>3. /\ IsSeq(none)
        /\ \A i \in 1..Len(none) : none[i].step \in Int
        /\ \A i, j \in 1..Len(none) : none[i].step = none[j].step => none[i] = none[j]
      BY <2>1, <2>2
  <2> HIDE DEF none
  <2>4. IsSelection(SelectedRecords(none), none)
      BY <2>3, SelectedFacts
  <2> QED
      BY <2>4 DEF none
<1> DEFINE new == SelectedRecords(<<>>)
<1> HIDE DEF new
<1>2. IsSeq(new) /\ Len(new) \in Nat /\ \A i \in 1..Len(new) : FALSE
  <2>1. Len(<<>>) = 0 /\ 1..0 = {}
      BY EmptySeqFacts
  <2> QED
      BY <1>1, <2>1 DEF IsSelection, new
<1>3. Len(new) = 0
    BY <1>2
<1>4. PICK V : new \in Seq(V)
    BY <1>2 DEF IsSeq
<1>5. new = <<>>
    BY <1>3, <1>4, EmptySeq
<1> QED
    BY <1>5 DEF new

\* Closing the span: its selected records join the traces.
LEMMA Flushes ==
    ASSUME NEW o, NEW T, NEW span, NEW S, NEW gain, TraceInv(o, T, span, S, gain),
           NEW U, IsExtension(U, T, SelectedRecords(span))
    PROVE  /\ Settled(o, U, S, gain)
           /\ span # <<>> => o.compressed /\ ~o.activityOnly
<1> DEFINE new == SelectedRecords(span)
           n == Len(S)
<1>1. TraceCore(T, S, gain) /\ IsSteps(S) /\ IsSeq(T) /\ n \in Nat
    BY DeltasFacts DEF TraceInv, TraceCore
<1>2. SpansKept(o, T, S, n - 1)
    BY DEF TraceInv
<1>3. CASE span = <<>>
  <2>1. new = <<>> /\ IsSeq(new) /\ Len(new) = 0
      BY <1>3, SelectedOfNone, EmptySeqFacts
  <2> HIDE DEF new
  <2>2. 1..Len(new) = {} /\ IsExtension(U, T, new)
      BY <2>1 DEF new
  <2>3. TraceCore(U, S, gain)
    <3>1. Rises(new)
        BY <2>2 DEF Rises
    <3> QED
        BY <1>1, <2>1, <2>2, <3>1, CoreGrows
  <2>4. SpansKept(o, U, S, n)
    <3> SUFFICES ASSUME Wanted(o), NEW a \in 1..n, NEW b \in 1..n, IsQuietSpan(S, a, b)
                 PROVE  KeptWell(U, S, a, b)
        BY DEF SpansKept
    <3>1. b # n
      <4>1. ASSUME b = n PROVE FALSE
        <5>1. n \in a..b /\ n > 0
            BY <4>1, <1>1 DEF IsQuietSpan
        <5>2. ~IsActivity(S[n])
            BY <5>1 DEF IsQuietSpan
        <5> QED
            BY <5>1, <5>2, <1>3 DEF TraceInv
      <4> QED
          BY <4>1
    <3>2. b <= n - 1 /\ a \in Int /\ b \in Int /\ a <= b
        BY <3>1, <1>1 DEF IsQuietSpan
    <3>3. KeptWell(T, S, a, b)
        BY <3>2, <1>2 DEF SpansKept
    <3> QED
        BY <3>2, <3>3, <1>1, <2>1, <2>2, KeptWellStays
  <2> QED
      BY <2>3, <2>4, <1>3 DEF Settled
<1>4. CASE span # <<>>
  <2>1. PICK p \in 1..n, high \in 1..n, low \in 1..n : OpenSpan(o, span, T, S, p, high, low)
      BY <1>4 DEF TraceInv, SpanTells
  <2> DEFINE four == {p, high, low, n}
  <2>2. /\ IsSeq(new) /\ Rises(new)
        /\ \A i \in 1..Len(new) : /\ new[i].step \in four /\ new[i].step \in p..n
                                  /\ new[i] = S[new[i].step]
        /\ \A k \in four : HasRowIn(new, k)
    <3>1. IsChoice(new, S, p, high, low)
        BY <2>1, <1>1, SelectedOfOpen
    <3> HIDE DEF new
    <3> QED
        BY <3>1 DEF IsChoice
  <2>3. /\ high \in p..n /\ low \in p..n
        /\ \A k \in p..n : /\ ~IsActivity(S[k])
                           /\ S[low].close <= S[k].close /\ S[k].close <= S[high].close
        /\ \A i \in 1..Len(T) : T[i].step < p
        /\ o.stride = 1 /\ p > 1 => IsActivity(S[p - 1])
        /\ o.compressed /\ ~o.activityOnly
      BY <2>1 DEF OpenSpan
  <2> HIDE DEF new
  <2>4. IsExtension(U, T, new)
      BY DEF new
  <2>5. TraceCore(U, S, gain)
    <3>1. \A i \in 1..Len(new) : \E k \in 1..Len(S) : new[i] = S[k] /\ ~IsActivity(S[k])
      <4> SUFFICES ASSUME NEW i \in 1..Len(new)
                   PROVE  new[i].step \in 1..n /\ ~IsActivity(S[new[i].step])
          BY <2>2
      <4>1. new[i].step \in p..n /\ p \in 1..n
          BY <2>2
      <4> QED
          BY <4>1, <2>3
    <3>2. \A i \in 1..Len(T) : \A j \in 1..Len(new) : T[i].step < new[j].step
      <4> SUFFICES ASSUME NEW i \in 1..Len(T), NEW j \in 1..Len(new)
                   PROVE  T[i].step < new[j].step
          OBVIOUS
      <4>1. T[i].step \in 1..n
          BY <1>1, DeltasFacts
      <4> QED
          BY <4>1, <2>2, <2>3
    <3> QED
        BY <1>1, <2>2, <2>4, <3>1, <3>2, CoreGrows
  <2>6. SpansKept(o, U, S, n)
    <3> SUFFICES ASSUME Wanted(o), NEW a \in 1..n, NEW b \in 1..n, IsQuietSpan(S, a, b)
                 PROVE  KeptWell(U, S, a, b)
        BY DEF SpansKept
    <3>0. a \in Int /\ b \in Int /\ p \in Int /\ a <= b /\ b <= n
        BY <1>1 DEF IsQuietSpan
    <3>1. CASE b <= n - 1
      <4>1. IsActivity(S[b + 1]) /\ b + 1 <= n
          BY <3>0, <3>1, <1>1 DEF IsQuietSpan
      <4>2. b < p
          BY <4>1, <3>0, <1>1, <2>3
      <4>3. \A i \in 1..Len(new) : new[i].step \notin a..b
          BY <4>2, <3>0, <2>2
      <4>4. KeptWell(T, S, a, b)
          BY <3>1, <1>2 DEF SpansKept
      <4> QED
          BY <4>3, <4>4, <3>0, <1>1, <2>2, <2>4, KeptWellStays
    <3>2. CASE b = n
      <4>1. a = p
        <5>1. ~(a < p)
          <6>1. ASSUME a < p PROVE FALSE
            <7>1. p - 1 \in a..b /\ p > 1
                BY <6>1, <3>0, <3>2, <1>1
            <7>2. IsActivity(S[p - 1])
                BY <7>1, <2>3 DEF Wanted
            <7> QED
                BY <7>1, <7>2 DEF IsQuietSpan
          <6> QED
              BY <6>1
        <5>2. ~(p < a)
          <6>1. ASSUME p < a PROVE FALSE
            <7>1. a - 1 \in p..n /\ a > 1
                BY <6>1, <3>0, <3>2, <1>1
            <7> QED
                BY <7>1, <2>3 DEF IsQuietSpan
          <6> QED
              BY <6>1
        <5> QED
            BY <5>1, <5>2, <3>0
      <4>2. ASSUME NEW k \in p..n PROVE HasRowIn(U, k) <=> k \in four
        <5>1. HasRowIn(U, k) <=> HasRowIn(T, k) \/ HasRowIn(new, k)
            BY <1>1, <2>2, <2>4, ExtensionHas
        <5>2. ~HasRowIn(T, k)
          <6>1. ASSUME NEW i \in 1..Len(T), T[i].step = k PROVE FALSE
            <7>1. T[i].step < p
                BY <2>3
            <7> QED
                BY <7>1, <6>1, <3>0
          <6> QED
              BY <6>1 DEF HasRowIn
        <5>3. HasRowIn(new, k) => k \in four
            BY <2>2 DEF HasRowIn
        <5> QED
            BY <5>1, <5>2, <5>3, <2>2
      <4>3. four \subseteq p..n /\ p \in four /\ high \in four /\ low \in four /\ n \in four
          BY <2>3, <1>1
      <4>4. KeptOn(U, p, n) = four
          BY <4>2, <4>3 DEF KeptOn
      <4>5. Cardinality(KeptOn(U, p, n)) <= 4
          BY <4>4, AtMostFour
      <4>6. HasRowIn(U, p) /\ HasRowIn(U, n)
          BY <4>2, <4>3
      <4>7. \A k \in p..n : S[k].close \in Int
        <5>1. \A k \in p..n : k \in 1..n
            BY <3>0
        <5> QED
            BY <5>1, <1>1 DEF IsSteps, IsStepAt
      <4> HIDE DEF four
      <4>8. \A k \in p..n : /\ \E q \in four : S[q].close >= S[k].close
                            /\ \E q \in four : S[q].close <= S[k].close
        <5> SUFFICES ASSUME NEW k \in p..n
                     PROVE  S[high].close >= S[k].close /\ S[low].close <= S[k].close
            BY <4>3
        <5>1. /\ S[k].close <= S[high].close /\ S[low].close <= S[k].close
              /\ S[k].close \in Int /\ S[high].close \in Int
            BY <2>3, <4>7
        <5> QED
            BY <5>1
      <4> QED
          BY <3>2, <4>1, <4>4, <4>5, <4>6, <4>8 DEF KeptWell
    <3> QED
        BY <3>0, <3>1, <3>2, <1>1
  <2> QED
      BY <2>3, <2>5, <2>6 DEF Settled
<1> QED
    BY <1>3, <1>4

\* A step more leaves the spans before it as they were.
LEMMA SpansStay ==
    ASSUME NEW S, IsSteps(S), NEW r, IsStepAt(r, Len(S) + 1),
           NEW a, NEW b, IsQuietSpan(Append(S, r), a, b), b <= Len(S)
    PROVE  /\ IsQuietSpan(S, a, b)
           /\ b = Len(S) => IsActivity(r)
           /\ \A T : KeptWell(T, S, a, b) => KeptWell(T, Append(S, r), a, b)
<1> DEFINE n == Len(S)
           more == Append(S, r)
<1>1. /\ n \in Nat /\ Len(more) = n + 1 /\ more[n + 1] = r
      /\ \A k \in 1..n : more[k] = S[k]
    BY StepsGrow
<1> HIDE DEF more, n
<1>2. /\ a \in 1..(n + 1) /\ b \in 1..(n + 1) /\ a <= b
      /\ \A k \in a..b : ~IsActivity(more[k])
      /\ a > 1 => IsActivity(more[a - 1])
      /\ b < n + 1 => IsActivity(more[b + 1])
    BY <1>1 DEF IsQuietSpan, more
<1>3. a \in 1..n /\ b \in 1..n /\ \A k \in a..b : k \in 1..n
    BY <1>1, <1>2 DEF n
<1>4. /\ a > 1 => IsActivity(S[a - 1])
      /\ b < n => IsActivity(S[b + 1])
  <2>1. ASSUME a > 1 PROVE IsActivity(S[a - 1])
    <3>1. a - 1 \in 1..n
        BY <2>1, <1>1, <1>3
    <3> QED
        BY <3>1, <2>1, <1>1, <1>2
  <2>2. ASSUME b < n PROVE IsActivity(S[b + 1])
    <3>1. b + 1 \in 1..n /\ b < n + 1
        BY <2>2, <1>1, <1>3
    <3> QED
        BY <3>1, <1>1, <1>2
  <2> QED
      BY <2>1, <2>2
<1>5. \A k \in a..b : ~IsActivity(S[k])
    BY <1>1, <1>2, <1>3
<1>6. IsQuietSpan(S, a, b)
    BY <1>2, <1>3, <1>4, <1>5 DEF IsQuietSpan, n
<1>7. b = n => IsActivity(r)
  <2>1. ASSUME b = n PROVE b < n + 1
      BY <2>1, <1>1
  <2> QED
      BY <2>1, <1>1, <1>2
<1>8. ASSUME NEW T, KeptWell(T, S, a, b) PROVE KeptWell(T, more, a, b)
  <2>1. \A k \in a..b : more[k] = S[k]
      BY <1>1, <1>3
  <2>2. KeptOn(T, a, b) \subseteq a..b
      BY DEF KeptOn
  <2>3. ASSUME NEW k \in a..b
        PROVE  /\ \E q \in KeptOn(T, a, b) : more[q].close >= more[k].close
               /\ \E q \in KeptOn(T, a, b) : more[q].close <= more[k].close
    <3>1. PICK q \in KeptOn(T, a, b) : S[q].close >= S[k].close
        BY <1>8 DEF KeptWell
    <3>2. PICK l \in KeptOn(T, a, b) : S[l].close <= S[k].close
        BY <1>8 DEF KeptWell
    <3>3. more[q] = S[q] /\ more[l] = S[l] /\ more[k] = S[k]
        BY <2>1, <2>2
    <3> QED
        BY <3>1, <3>2, <3>3
  <2> QED
      BY <2>3, <1>8 DEF KeptWell
<1> QED
    BY <1>6, <1>7, <1>8 DEF n, more

\* A step with its trace, after the span was closed.
LEMMA SettledAppends ==
    ASSUME NEW o, NEW T, NEW S, NEW gain, Settled(o, T, S, gain),
           NEW r, IsStepAt(r, Len(S) + 1), Wanted(o) => IsActivity(r),
           NEW U, IsExtension(U, T, <<r>>)
    PROVE  TraceInv(o, U, <<>>, Append(S, r), gain + r.cashDelta)
<1> DEFINE n == Len(S)
           more == Append(S, r)
<1>1. TraceCore(T, S, gain) /\ IsSteps(S) /\ IsSeq(T) /\ SpansKept(o, T, S, n)
    BY DEF Settled, TraceCore
<1>2. n \in Nat /\ Len(more) = n + 1 /\ more[n + 1] = r
    BY <1>1, StepsGrow
<1>3. TraceCore(U, more, gain + r.cashDelta)
    BY <1>1, CoreAppends
<1>4. r.step = n + 1 /\ IsSeq(<<r>>) /\ Len(<<r>>) = 1 /\ <<r>>[1] = r
    BY OneSeq DEF IsStepAt
<1> HIDE DEF n, more
<1>5. SpansKept(o, U, more, n)
  <2> SUFFICES ASSUME Wanted(o), NEW a \in 1..(n + 1), NEW b \in 1..(n + 1), b <= n,
                      IsQuietSpan(more, a, b)
               PROVE  KeptWell(U, more, a, b)
      BY <1>2 DEF SpansKept
  <2>1. IsQuietSpan(S, a, b) /\ \A V : KeptWell(V, S, a, b) => KeptWell(V, more, a, b)
      BY <1>1, SpansStay DEF n, more
  <2>2. a \in 1..n /\ b \in 1..n /\ a <= b
      BY <2>1 DEF IsQuietSpan, n
  <2>3. KeptWell(T, S, a, b)
      BY <2>1, <2>2, <1>1 DEF SpansKept, n
  <2>4. \A i \in 1..Len(<<r>>) : <<r>>[i].step \notin a..b
    <3>1. n + 1 \notin a..b
        BY <2>2, <1>2
    <3>2. \A i \in 1..1 : i = 1
        OBVIOUS
    <3> QED
        BY <3>1, <3>2, <1>4
  <2>5. a \in Int /\ b \in Int
      BY <2>2
  <2>6. KeptWell(U, S, a, b)
      BY <2>2, <2>3, <2>4, <2>5, <1>1, <1>4, KeptWellStays
  <2> QED
      BY <2>1, <2>6
<1>6. (n + 1) - 1 = n
    BY <1>2
<1>7. SpanTells(o, <<>>, U, more)
    BY DEF SpanTells
<1>8. Wanted(o) => IsActivity(more[n + 1])
    BY <1>2
<1> QED
    BY <1>2, <1>3, <1>5, <1>6, <1>7, <1>8 DEF TraceInv, more

\* A quiet step of which no trace is wanted.
LEMMA SettledSkips ==
    ASSUME NEW o, ~Wanted(o), NEW T, NEW S, NEW gain, Settled(o, T, S, gain),
           NEW r, IsStepAt(r, Len(S) + 1), ~IsActivity(r)
    PROVE  TraceInv(o, T, <<>>, Append(S, r), gain + r.cashDelta)
<1>1. TraceCore(T, S, gain)
    BY DEF Settled
<1>2. TraceCore(T, Append(S, r), gain)
    BY <1>1, CoreSkips
<1>3. gain + r.cashDelta = gain
    BY <1>1, DeltasFacts DEF IsStepAt
<1>4. SpansKept(o, T, Append(S, r), Len(Append(S, r)) - 1)
    BY DEF SpansKept
<1> QED
    BY <1>2, <1>3, <1>4 DEF TraceInv, SpanTells

\* A quiet step that joins the open span, or opens one.
LEMMA SpanGrows ==
    ASSUME NEW o, o.compressed, ~o.activityOnly, NEW T, NEW span, NEW S, NEW gain,
           TraceInv(o, T, span, S, gain),
           NEW r, IsStepAt(r, Len(S) + 1), ~IsActivity(r)
    PROVE  TraceInv(o, T, SpanWith(span, r), Append(S, r), gain + r.cashDelta)
<1> DEFINE n == Len(S)
           more == Append(S, r)
           wider == SpanWith(span, r)
<1>1. TraceCore(T, S, gain) /\ IsSteps(S) /\ IsSeq(T) /\ SpansKept(o, T, S, n - 1)
    BY DEF TraceInv, TraceCore
<1>2. /\ n \in Nat /\ Len(more) = n + 1 /\ more[n + 1] = r
      /\ \A k \in 1..n : more[k] = S[k]
    BY <1>1, StepsGrow
<1>3. TraceCore(T, more, gain + r.cashDelta)
  <2>1. TraceCore(T, more, gain)
      BY <1>1, CoreSkips
  <2>2. gain + r.cashDelta = gain
      BY <1>1, DeltasFacts DEF IsStepAt
  <2> QED
      BY <2>1, <2>2
<1>4. r.step = n + 1 /\ r.close \in Int
    BY DEF IsStepAt
<1>5. \A k \in 1..n : S[k].close \in Int
    BY <1>1 DEF IsSteps, IsStepAt
<1>6. \A i \in 1..Len(T) : T[i].step \in 1..n
    BY <1>1, DeltasFacts
<1>7. \E p, high, low \in 1..(n + 1) : OpenSpan(o, wider, T, more, p, high, low)
  <2>1. CASE span = <<>>
    <3>1. wider = <<r, r, r, r>>
        BY <2>1 DEF SpanWith
    <3> HIDE DEF wider, more, n
    <3>2. /\ IsSeq(wider) /\ Len(wider) = 4
          /\ wider[1] = r /\ wider[2] = r /\ wider[3] = r /\ wider[4] = r
      <4>1. wider \in Seq({r})
          BY <3>1
      <4> QED
          BY <3>1, <4>1 DEF IsSeq
    <3>3. n + 1 \in 1..(n + 1) /\ n + 1 \in (n + 1)..(n + 1)
          /\ \A k \in (n + 1)..(n + 1) : k = n + 1
        BY <1>2
    <3>4. r.close <= r.close
        BY <1>4
    <3>5. \A i \in 1..Len(T) : T[i].step < n + 1
        BY <1>2, <1>6
    <3>6. o.stride = 1 /\ n + 1 > 1 => IsActivity(more[(n + 1) - 1])
      <4> SUFFICES ASSUME o.stride = 1, n + 1 > 1 PROVE IsActivity(more[(n + 1) - 1])
          OBVIOUS
      <4>1. (n + 1) - 1 = n /\ n \in 1..n /\ n > 0
          BY <1>2
      <4>2. IsActivity(S[n])
          BY <4>1, <2>1 DEF TraceInv, Wanted, n
      <4> QED
          BY <4>1, <4>2, <1>2
    <3>7. OpenSpan(o, wider, T, more, n + 1, n + 1, n + 1)
        BY <3>2, <3>3, <3>4, <3>5, <3>6, <1>2 DEF OpenSpan
    <3> QED
        BY <3>3, <3>7
  <2>2. CASE span # <<>>
    <3>1. PICK p \in 1..n, high \in 1..n, low \in 1..n : OpenSpan(o, span, T, S, p, high, low)
        BY <2>2 DEF TraceInv, SpanTells
    <3>2. /\ IsSeq(span) /\ Len(span) = 4
          /\ high \in p..n /\ low \in p..n
          /\ span[1] = S[p] /\ span[2] = S[high] /\ span[3] = S[low] /\ span[4] = S[n]
          /\ \A k \in p..n : /\ ~IsActivity(S[k])
                             /\ S[low].close <= S[k].close /\ S[k].close <= S[high].close
          /\ \A i \in 1..Len(T) : T[i].step < p
          /\ o.stride = 1 /\ p > 1 => IsActivity(S[p - 1])
        BY <3>1 DEF OpenSpan
    <3> DEFINE h == IF r.close > S[high].close THEN n + 1 ELSE high
               l == IF r.close < S[low].close THEN n + 1 ELSE low
               up == IF r.close > span[2].close THEN r ELSE span[2]
               down == IF r.close < span[3].close THEN r ELSE span[3]
    <3>3. wider = <<span[1], up, down, r>>
        BY <2>2 DEF SpanWith
    <3> HIDE DEF wider, more, n
    <3>4. h \in p..(n + 1) /\ l \in p..(n + 1) /\ p \in 1..(n + 1)
          /\ h \in 1..(n + 1) /\ l \in 1..(n + 1)
        BY <1>2, <3>2
    <3>5. up = more[h] /\ down = more[l] /\ span[1] = more[p]
        BY <1>2, <3>2
    <3>6. /\ more[h].close \in Int /\ more[l].close \in Int
          /\ S[high].close <= more[h].close /\ r.close <= more[h].close
          /\ more[l].close <= S[low].close /\ more[l].close <= r.close
      <4>1. S[high].close \in Int /\ S[low].close \in Int
          BY <1>5
      <4>2. more[high] = S[high] /\ more[low] = S[low] /\ more[n + 1] = r
          BY <1>2
      <4> QED
          BY <4>1, <4>2, <1>4
    <3> HIDE DEF h, l, up, down
    <3>7. /\ IsSeq(wider) /\ Len(wider) = 4
          /\ wider[1] = more[p] /\ wider[2] = more[h] /\ wider[3] = more[l]
          /\ wider[4] = more[n + 1]
      <4>1. wider \in Seq({span[1], up, down, r})
          BY <3>3
      <4>2. IsSeq(wider) /\ Len(wider) = 4
          BY <3>3, <4>1 DEF IsSeq
      <4>3. wider[1] = span[1] /\ wider[2] = up /\ wider[3] = down /\ wider[4] = r
          BY <3>3
      <4> QED
          BY <4>2, <4>3, <3>5, <1>2
    <3>8. ASSUME NEW k \in p..(n + 1)
          PROVE  /\ ~IsActivity(more[k])
                 /\ more[l].close <= more[k].close /\ more[k].close <= more[h].close
      <4>1. CASE k = n + 1
          BY <4>1, <1>2, <3>6
      <4>2. CASE k # n + 1
        <5>1. k \in p..n /\ k \in 1..n
            BY <4>2, <1>2
        <5>2. /\ ~IsActivity(S[k]) /\ more[k] = S[k] /\ S[k].close \in Int
              /\ S[low].close <= S[k].close /\ S[k].close <= S[high].close
            BY <5>1, <1>2, <1>5, <3>2
        <5>3. S[low].close \in Int /\ S[high].close \in Int
            BY <1>5
        <5> QED
            BY <5>2, <5>3, <3>6
      <4> QED
          BY <4>1, <4>2
    <3>9. o.stride = 1 /\ p > 1 => IsActivity(more[p - 1])
      <4> SUFFICES ASSUME o.stride = 1, p > 1 PROVE IsActivity(more[p - 1])
          OBVIOUS
      <4>1. p - 1 \in 1..n
          BY <1>2
      <4> QED
          BY <4>1, <1>2, <3>2
    <3>10. OpenSpan(o, wider, T, more, p, h, l)
        BY <3>2, <3>4, <3>7, <3>8, <3>9, <1>2 DEF OpenSpan
    <3> QED
        BY <3>4, <3>10
  <2> QED
      BY <2>1, <2>2
<1>8. wider # <<>>
  <2>1. \E p, high, low \in 1..(n + 1) : Len(wider) = 4
      BY <1>7 DEF OpenSpan
  <2> HIDE DEF wider
  <2> QED
      BY <2>1, EmptySeqFacts
<1> HIDE DEF n, more, wider
<1>9. SpansKept(o, T, more, n)
  <2> SUFFICES ASSUME Wanted(o), NEW a \in 1..(n + 1), NEW b \in 1..(n + 1), b <= n,
                      IsQuietSpan(more, a, b)
               PROVE  KeptWell(T, more, a, b)
      BY <1>2 DEF SpansKept
  <2>1. /\ IsQuietSpan(S, a, b) /\ b # n
        /\ \A V : KeptWell(V, S, a, b) => KeptWell(V, more, a, b)
      BY <1>1, SpansStay DEF n, more
  <2>2. a \in 1..n /\ b \in 1..n /\ b <= n - 1
      BY <2>1, <1>2 DEF IsQuietSpan, n
  <2> QED
      BY <2>1, <2>2, <1>1 DEF SpansKept, n
<1>10. (n + 1) - 1 = n
    BY <1>2
<1> QED
    BY <1>2, <1>3, <1>7, <1>8, <1>9, <1>10 DEF TraceInv, SpanTells, more, wider

\* Nothing is said of a trace that its row does not keep.
LEMMA TracesRestated ==
    ASSUME NEW o, NEW T, NEW span, NEW S, NEW gain, TraceInv(o, T, span, S, gain),
           NEW U, IsExtension(U, T, <<>>)
    PROVE  TraceInv(o, U, span, S, gain)
<1> DEFINE none == <<>>
           n == Len(S)
<1>1. TraceCore(T, S, gain) /\ IsSteps(S) /\ IsSeq(T) /\ SpansKept(o, T, S, n - 1) /\ n \in Nat
      /\ SpanTells(o, span, T, S)
    BY DeltasFacts DEF TraceInv, TraceCore
<1>2. IsSeq(none) /\ Len(none) = 0 /\ 1..Len(none) = {} /\ IsExtension(U, T, none)
    BY EmptySeqFacts
<1> HIDE DEF none
<1>3. TraceCore(U, S, gain)
  <2>1. Rises(none)
      BY <1>2 DEF Rises
  <2> QED
      BY <1>1, <1>2, <2>1, CoreGrows
<1>4. SpansKept(o, U, S, n - 1)
  <2> SUFFICES ASSUME Wanted(o), NEW a \in 1..n, NEW b \in 1..n, b <= n - 1,
                      IsQuietSpan(S, a, b)
               PROVE  KeptWell(U, S, a, b)
      BY DEF SpansKept
  <2>1. a \in Int /\ b \in Int /\ a <= b
      BY <1>1 DEF IsQuietSpan
  <2>2. KeptWell(T, S, a, b)
      BY <1>1 DEF SpansKept
  <2> QED
      BY <2>1, <2>2, <1>1, <1>2, KeptWellStays
<1>5. Len(U) = Len(T) /\ \A i \in 1..Len(T) : U[i].step = T[i].step
    BY <1>1, <1>2, DeltasFacts DEF IsExtension, Tells
<1>6. SpanTells(o, span, U, S)
  <2>1. CASE span = <<>>
      BY <2>1 DEF SpanTells
  <2>2. CASE span # <<>>
    <3>1. PICK p \in 1..n, high \in 1..n, low \in 1..n : OpenSpan(o, span, T, S, p, high, low)
        BY <2>2, <1>1 DEF SpanTells
    <3>2. OpenSpan(o, span, U, S, p, high, low)
        BY <3>1, <1>5 DEF OpenSpan
    <3> QED
        BY <3>2 DEF SpanTells
  <2> QED
      BY <2>1, <2>2
<1> QED
    BY <1>3, <1>4, <1>6 DEF TraceInv

LEMMA SelectedIsSeq ==
    ASSUME NEW o, NEW T, NEW span, NEW S, NEW gain, TraceInv(o, T, span, S, gain)
    PROVE  IsSeq(SelectedRecords(span))
<1>1. CASE span = <<>>
    BY <1>1, SelectedOfNone, EmptySeqFacts
<1>2. CASE span # <<>>
  <2>1. PICK p \in 1..Len(S), high \in 1..Len(S), low \in 1..Len(S) :
            OpenSpan(o, span, T, S, p, high, low)
      BY <1>2 DEF TraceInv, SpanTells
  <2>2. IsSteps(S)
      BY DEF TraceInv, TraceCore
  <2>3. IsChoice(SelectedRecords(span), S, p, high, low)
      BY <2>1, <2>2, SelectedOfOpen
  <2> QED
      BY <2>3 DEF IsChoice
<1> QED
    BY <1>1, <1>2

\* The trace part of a step of run_bars.
LEMMA TraceStep ==
    ASSUME NEW o, o.stride \in Nat \ {0}, NEW T, NEW span, NEW S, NEW gain,
           TraceInv(o, T, span, S, gain),
           NEW r, IsStepAt(r, Len(S) + 1),
           NEW U, IsExtension(U, T, AfterStep(o, span, r, IsActivity(r)).emitted)
    PROVE  TraceInv(o, U, AfterStep(o, span, r, IsActivity(r)).span, Append(S, r),
                    gain + r.cashDelta)
<1> DEFINE active == IsActivity(r)
           after == AfterStep(o, span, r, active)
           capture == ShouldCapture(o, r.step, active)
           selected == SelectedRecords(span)
<1>1. IsSeq(T) /\ Len(T) \in Nat /\ IsSteps(S) /\ Len(S) \in Nat
    BY DeltasFacts DEF TraceInv, TraceCore
<1>2. r.step \in Nat
    BY <1>1 DEF IsStepAt
<1>3. CASE capture /\ o.compressed /\ ~active
  <2>1. after.emitted = <<>> /\ after.span = SpanWith(span, r)
      BY <1>3 DEF AfterStep
  <2>2. ~o.activityOnly
      BY <1>3 DEF ShouldCapture
  <2>3. TraceInv(o, T, SpanWith(span, r), Append(S, r), gain + r.cashDelta)
      BY <1>3, <2>2, SpanGrows
  <2> QED
      BY <2>1, <2>3, TracesRestated
<1>4. CASE capture /\ ~(o.compressed /\ ~active)
  <2>1. after.emitted = Append(selected, r) /\ after.span = <<>>
      BY <1>4 DEF AfterStep
  <2>2. IsSeq(selected)
      BY SelectedIsSeq
  <2> HIDE DEF selected
  <2> DEFINE n == Len(T)
             m == Len(selected)
             V == [i \in 1..(n + m) |-> U[i]]
             one == <<r>>
  <2>3. /\ m \in Nat /\ n \in Nat /\ Len(Append(selected, r)) = m + 1
        /\ Append(selected, r)[m + 1] = r
        /\ \A i \in 1..m : Append(selected, r)[i] = selected[i]
      BY <1>1, <2>2, AppendSeq
  <2>4. /\ IsSeq(U) /\ Len(U) = n + (m + 1)
        /\ \A i \in 1..n : Tells(U[i], T[i])
        /\ \A i \in 1..(m + 1) : Tells(U[n + i], Append(selected, r)[i])
      BY <2>1, <2>3 DEF IsExtension
  <2>5. Tells(U[n + (m + 1)], r) /\ \A i \in 1..m : Tells(U[n + i], selected[i])
    <3>1. m + 1 \in 1..(m + 1) /\ \A i \in 1..m : i \in 1..(m + 1)
        BY <2>3
    <3> QED
        BY <3>1, <2>3, <2>4
  <2>6. IsSeq(V) /\ Len(V) = n + m /\ \A i \in 1..(n + m) : V[i] = U[i]
    <3>1. n + m \in Nat /\ V = [i \in 1..(n + m) |-> V[i]]
        BY <2>3
    <3>2. \A i \in 1..(n + m) : V[i] = U[i]
        OBVIOUS
    <3> HIDE DEF V
    <3> QED
        BY <3>1, <3>2, SeqOfFunction
  <2>7. one[1] = r /\ Len(one) = 1 /\ \A i \in 1..1 : i = 1
      BY OneSeq
  <2> HIDE DEF V, n, m, one
  <2>8. IsExtension(V, T, selected)
    <3>1. \A i \in 1..n : i \in 1..(n + m)
        BY <2>3
    <3>2. \A i \in 1..m : n + i \in 1..(n + m)
        BY <2>3
    <3>3. \A i \in 1..n : Tells(V[i], T[i])
        BY <3>1, <2>4, <2>6
    <3>4. \A i \in 1..m : Tells(V[n + i], selected[i])
        BY <3>2, <2>5, <2>6
    <3> QED
        BY <3>3, <3>4, <2>6 DEF IsExtension, n, m
  <2>9. IsExtension(U, V, one)
    <3>1. Len(U) = (n + m) + 1 /\ n + (m + 1) = (n + m) + 1
        BY <2>3, <2>4
    <3>2. ASSUME NEW i \in 1..(n + m) PROVE Tells(U[i], V[i])
      <4>1. V[i] = U[i]
          BY <2>6
      <4> QED
          BY <4>1 DEF Tells
    <3>3. Tells(U[(n + m) + 1], r)
        BY <3>1, <2>5
    <3> QED
        BY <3>1, <3>2, <3>3, <2>4, <2>6, <2>7 DEF IsExtension
  <2>10. Settled(o, V, S, gain)
      BY <2>8, Flushes DEF selected
  <2>11. Wanted(o) => IsActivity(r)
      BY <1>4 DEF Wanted
  <2>12. TraceInv(o, U, <<>>, Append(S, r), gain + r.cashDelta)
      BY <2>9, <2>10, <2>11, SettledAppends DEF one
  <2> QED
      BY <2>1, <2>12
<1>5. CASE ~capture
  <2>1. ~active /\ ~Wanted(o)
    <3>1. ~active
        BY <1>5 DEF ShouldCapture
    <3>2. o.stride = 1 => r.step % o.stride = 0
        BY <1>2
    <3> QED
        BY <3>1, <3>2, <1>5 DEF ShouldCapture, Wanted
  <2>2. after.emitted = selected /\ after.span = <<>>
    <3>1. CASE o.compressed
        BY <3>1, <1>5 DEF AfterStep
    <3>2. CASE ~o.compressed
      <4>1. span = <<>>
        <5>1. ASSUME span # <<>> PROVE FALSE
          <6>1. PICK p \in 1..Len(S), high \in 1..Len(S), low \in 1..Len(S) :
                    OpenSpan(o, span, T, S, p, high, low)
              BY <5>1 DEF TraceInv, SpanTells
          <6> QED
              BY <6>1, <3>2 DEF OpenSpan
        <5> QED
            BY <5>1
      <4> QED
          BY <4>1, <3>2, <1>5, SelectedOfNone DEF AfterStep
    <3> QED
        BY <3>1, <3>2
  <2> HIDE DEF after
  <2>3. Settled(o, U, S, gain)
    <3>1. IsExtension(U, T, SelectedRecords(span))
        BY <2>2 DEF after
    <3> QED
        BY <3>1, Flushes
  <2>4. TraceInv(o, U, <<>>, Append(S, r), gain + r.cashDelta)
      BY <2>1, <2>3, SettledSkips
  <2> QED
      BY <2>2, <2>4 DEF after
<1> QED
    BY <1>3, <1>4, <1>5

LEMMA EmittedIsSeq ==
    ASSUME NEW o, NEW T, NEW span, NEW S, NEW gain, TraceInv(o, T, span, S, gain),
           NEW r, NEW active
    PROVE  IsSeq(AfterStep(o, span, r, active).emitted)
<1> DEFINE selected == SelectedRecords(span)
<1>1. IsSeq(selected) /\ IsSeq(<<>>)
    BY SelectedIsSeq, EmptySeqFacts
<1>2. AfterStep(o, span, r, active).emitted \in {<<>>, selected, Append(selected, r)}
    BY DEF AfterStep
<1> HIDE DEF selected
<1>3. IsSeq(Append(selected, r))
    BY <1>1, AppendSeq
<1> QED
    BY <1>1, <1>2, <1>3

-----------------------------------------------------------------------------
(* Writing.  What passes the buffer and is inserted tells what was emitted.*)

LEMMA WrittenExtends ==
    ASSUME NEW rs, IsSeq(rs), NEW bs, IsSeq(bs), NEW em, IsSeq(em),
           NEW first, NEW second, IsSplit(first, second, bs \o em),
           NEW w, AreRowsOf(w, first), NEW v, AreRowsOf(v, second)
    PROVE  IsExtension((rs \o w) \o v, rs \o bs, em)
<1> DEFINE k == Len(rs)
           b == Len(bs)
           e == Len(em)
           f == Len(first)
           g == Len(second)
           old == rs \o bs
           buffer == bs \o em
           part == rs \o w
           all == part \o v
<1>1. /\ k \in Nat /\ b \in Nat /\ e \in Nat
      /\ f \in Nat /\ g \in Nat
    BY SeqFacts DEF IsSplit
<1>2. /\ IsSeq(w) /\ Len(w) = f /\ \A i \in 1..f : Tells(w[i], first[i])
      /\ IsSeq(v) /\ Len(v) = g /\ \A i \in 1..g : Tells(v[i], second[i])
    BY DEF AreRowsOf
<1>3. /\ Len(buffer) = b + e
      /\ \A i \in 1..b : buffer[i] = bs[i]
      /\ \A i \in 1..e : buffer[b + i] = em[i]
    BY ConcatSeq
<1>4. /\ Len(buffer) = f + g
      /\ \A i \in 1..f : first[i] = buffer[i]
      /\ \A i \in 1..g : second[i] = buffer[f + i]
    BY DEF IsSplit
<1>5. /\ IsSeq(part) /\ Len(part) = k + f
      /\ \A i \in 1..k : part[i] = rs[i]
      /\ \A i \in 1..f : part[k + i] = w[i]
  <2> HIDE DEF k, f
  <2>1. IsSeq(part) /\ Len(part) = Len(rs) + Len(w)
      BY <1>2, ConcatSeq
  <2>2. \A i \in 1..Len(rs) : part[i] = rs[i]
      BY <1>2, ConcatSeq
  <2>3. \A i \in 1..Len(w) : part[Len(rs) + i] = w[i]
      BY <1>2, ConcatSeq
  <2> QED
      BY <2>1, <2>2, <2>3, <1>2 DEF k
<1> HIDE DEF part
<1>6. /\ IsSeq(all) /\ Len(all) = (k + f) + g
      /\ \A i \in 1..(k + f) : all[i] = part[i]
      /\ \A i \in 1..g : all[(k + f) + i] = v[i]
  <2> HIDE DEF k, f, g
  <2>0. IsSeq(part) /\ IsSeq(v)
      BY <1>2, <1>5
  <2>1. IsSeq(all) /\ Len(all) = Len(part) + Len(v)
      BY <2>0, ConcatSeq
  <2>2. \A i \in 1..Len(part) : all[i] = part[i]
      BY <2>0, ConcatSeq
  <2>3. \A i \in 1..Len(v) : all[Len(part) + i] = v[i]
      BY <2>0, ConcatSeq
  <2> QED
      BY <2>1, <2>2, <2>3, <1>2, <1>5
<1>7. /\ IsSeq(old) /\ Len(old) = k + b
      /\ \A i \in 1..k : old[i] = rs[i]
      /\ \A i \in 1..b : old[k + i] = bs[i]
  <2>1. IsSeq(old) /\ Len(old) = k + b
      BY ConcatSeq
  <2>2. \A i \in 1..k : old[i] = rs[i]
      BY ConcatSeq
  <2>3. \A i \in 1..b : old[k + i] = bs[i]
      BY ConcatSeq
  <2> QED
      BY <2>1, <2>2, <2>3
<1> HIDE DEF all, old, buffer, k, b, e, f, g
<1>8. b + e = f + g
    BY <1>3, <1>4
<1>9. ASSUME NEW i \in 1..(b + e) PROVE Tells(all[k + i], buffer[i])
  <2>1. CASE i <= f
    <3>1. i \in 1..f /\ k + i \in 1..(k + f)
        BY <2>1, <1>1
    <3>2. all[k + i] = w[i] /\ buffer[i] = first[i]
        BY <3>1, <1>4, <1>5, <1>6
    <3> QED
        BY <3>1, <3>2, <1>2
  <2>2. CASE ~(i <= f)
    <3>1. i - f \in 1..g /\ (k + f) + (i - f) = k + i /\ f + (i - f) = i
        BY <2>2, <1>1, <1>8
    <3>2. all[k + i] = v[i - f] /\ buffer[i] = second[i - f]
        BY <3>1, <1>4, <1>6
    <3> QED
        BY <3>1, <3>2, <1>2
  <2> QED
      BY <2>1, <2>2
<1>10. ASSUME NEW i \in 1..(k + b) PROVE Tells(all[i], old[i])
  <2>1. CASE i <= k
    <3>1. i \in 1..k /\ i \in 1..(k + f)
        BY <2>1, <1>1
    <3>2. all[i] = rs[i] /\ old[i] = rs[i]
        BY <3>1, <1>5, <1>6, <1>7
    <3> QED
        BY <3>2 DEF Tells
  <2>2. CASE ~(i <= k)
    <3>1. i - k \in 1..b /\ i - k \in 1..(b + e) /\ k + (i - k) = i
        BY <2>2, <1>1
    <3>2. old[i] = bs[i - k] /\ buffer[i - k] = bs[i - k]
        BY <3>1, <1>3, <1>7
    <3>3. Tells(all[k + (i - k)], buffer[i - k])
        BY <3>1, <1>9
    <3> QED
        BY <3>1, <3>2, <3>3
  <2> QED
      BY <2>1, <2>2
<1>11. ASSUME NEW i \in 1..e PROVE Tells(all[(k + b) + i], em[i])
  <2>1. b + i \in 1..(b + e) /\ k + (b + i) = (k + b) + i
      BY <1>1
  <2>2. buffer[b + i] = em[i] /\ Tells(all[k + (b + i)], buffer[b + i])
      BY <2>1, <1>3, <1>9
  <2> QED
      BY <2>1, <2>2
<1>12. Len(all) = (k + b) + e
    BY <1>1, <1>6, <1>8
<1>13. IsExtension(all, old, em)
    BY <1>6, <1>7, <1>10, <1>11, <1>12 DEF IsExtension, e
<1> QED
    BY <1>13 DEF all, old, part

LEMMA RowsOfThemselves ==
    ASSUME NEW records, IsSeq(records)
    PROVE  AreRowsOf(records, records)
BY DEF AreRowsOf, Tells

\* The traces that are written or wait in the buffer are those of the steps so
\* far; when the run has finished, all of them are written.
Gain == money.cash - InitialCash
TracesTell ==
    /\ IsSteps(steps)
    /\ IsSeq(rows.traces) /\ IsSeq(buffers.traces) /\ Len(buffers.traces) < ChunkSize
    /\ counts.traces = Len(rows.traces) + Len(buffers.traces)
    /\ phase = "running" =>
           TraceInv(options, rows.traces \o buffers.traces, buffers.span, steps, Gain)
    /\ phase = "finished" =>
           Settled(options, rows.traces, steps, Gain) /\ rows.risk.traces = Len(rows.traces)

LEMMA NoTraces ==
    ASSUME NEW o, NEW T, IsSeq(T), Len(T) = 0
    PROVE  TraceInv(o, T, <<>>, <<>>, 0) /\ IsSteps(<<>>)
<1> DEFINE none == <<>>
<1>1. IsSeq(none) /\ Len(none) = 0 /\ 1..0 = {}
    BY EmptySeqFacts
<1>2. IsSteps(none)
    BY <1>1 DEF IsSteps
<1>3. SumOfDeltas(T) = 0
  <2>1. IsFiniteSet({}) /\ \A i \in {} : Deltas(T)[i] \in Int
      BY FS_EmptySet
  <2>2. Total(Deltas(T), {}) = 0
      BY <2>1, TotalFacts
  <2> QED
      BY <2>2, <1>1 DEF SumOfDeltas
<1>4. TraceCore(T, none, 0)
    BY <1>1, <1>2, <1>3 DEF TraceCore, Linked, Rises
<1>5. SpansKept(o, T, none, Len(none) - 1)
    BY <1>1 DEF SpansKept
<1>6. TraceInv(o, T, none, none, 0)
    BY <1>1, <1>4, <1>5 DEF TraceInv, SpanTells
<1> QED
    BY <1>2, <1>6

\* The step of a bar is a record as the traces want it.
LEMMA StepNowIsStep ==
    ASSUME Shape, OrdersTell, NEW s \in Symbols, NEW filled, NEW decision,
           StepBar(s, filled, decision)
    PROVE  /\ IsStepAt(StepNow(s, filled, decision), Len(steps) + 1)
           /\ Gain' = Gain + StepNow(s, filled, decision).cashDelta
<1> DEFINE r == StepNow(s, filled, decision)
<1>1. /\ r.step = clock.step + 1 /\ r.close = bars[s][clock.now] /\ r.fills = Sorted(filled)
      /\ r.cashDelta = (money.cash - SideSum(filled)) - traced.cash
    BY StepNowFields
<1>2. /\ clock.step = Len(steps) /\ traced.cash = money.cash /\ money.cash \in Int
      /\ bars \in Paths /\ sides \in Seq(Sides)
    BY DEF Shape
<1>3. r.close \in Int
  <2>1. clock.now \in 1..NTimes
      BY BarTime
  <2> QED
      BY <2>1, <1>1, <1>2, RecordsAssumption
<1>4. filled \subseteq pending[s] /\ filled \subseteq DOMAIN sides
    BY StepBarParts DEF Shape
<1>5. SideSum(filled) \in Int /\ SideSum(filled) = Total(sides, filled) /\ IsFiniteSet(filled)
    BY <1>2, <1>4, SideSumFacts
<1>6. r.cashDelta = 0 - SideSum(filled) /\ r.cashDelta \in Int
    BY <1>1, <1>2, <1>5
<1>7. ~IsActivity(r) => r.cashDelta = 0
  <2> SUFFICES ASSUME ~IsActivity(r) PROVE r.cashDelta = 0
      OBVIOUS
  <2>1. Sorted(filled) = <<>>
      BY <1>1 DEF IsActivity
  <2>2. filled \subseteq Int
      BY OrdersTell, FilledFacts, StepBarParts DEF OrdersTell
  <2>3. Len(Sorted(filled)) = Cardinality(filled)
      BY <2>2, <1>5, SortedFacts
  <2>4. Cardinality(filled) = 0
      BY <2>1, <2>3, EmptySeqFacts
  <2>5. filled = {}
      BY <2>4, <1>5, FS_EmptySet
  <2>6. Total(sides, filled) = 0
      BY <2>5, <1>5, TotalFacts, FS_EmptySet
  <2> QED
      BY <2>6, <1>5, <1>6
<1>8. money'.cash = money.cash - SideSum(filled)
    BY StepBarFields
<1>9. Gain' = Gain + r.cashDelta
    BY <1>2, <1>5, <1>6, <1>8, ConstantFacts DEF Gain
<1> QED
    BY <1>1, <1>2, <1>3, <1>6, <1>7, <1>9 DEF IsStepAt

LEMMA StepBarBuffered ==
    ASSUME Shape, NEW s, NEW filled, NEW decision, StepBar(s, filled, decision)
    PROVE  /\ buffers'.span = AfterNow(s, filled, decision).span
           /\ buffers'.traces = Kept(EmittedNow(s, filled, decision), ChunkSize)
           /\ \E written \in InsertedRows(Flushed(EmittedNow(s, filled, decision), ChunkSize),
                                          OrderRowNow(s, filled, decision), FillRowNow(filled)) :
                  rows'.traces = rows.traces \o written
<1>1. DOMAIN rows = RowNames /\ DOMAIN buffers = {"span", "traces", "points"}
    BY DEF Shape
<1>2. buffers' = [buffers EXCEPT
                     !.span = AfterNow(s, filled, decision).span,
                     !.traces = Kept(EmittedNow(s, filled, decision), ChunkSize)]
    BY StepBarBuffers
<1>3. /\ buffers'.span = AfterNow(s, filled, decision).span
      /\ buffers'.traces = Kept(EmittedNow(s, filled, decision), ChunkSize)
    BY <1>1, <1>2
<1>4. PICK written \in InsertedRows(Flushed(EmittedNow(s, filled, decision), ChunkSize),
                                    OrderRowNow(s, filled, decision), FillRowNow(filled)) :
          IsRowsAfter(s, filled, decision, written)
    BY StepBarRows
<1>5. rows'.traces = rows.traces \o written
    BY <1>1, <1>4 DEF RowNames, IsRowsAfter
<1> QED
    BY <1>3, <1>5, Zenon

LEMMA TracesStepBar ==
    ASSUME Shape, OrdersTell, TracesTell, NEW s \in Symbols, NEW filled, NEW decision,
           StepBar(s, filled, decision)
    PROVE  TracesTell'
<1> DEFINE r == StepNow(s, filled, decision)
           rs == rows.traces
           bs == buffers.traces
           em == AfterNow(s, filled, decision).emitted
           first == Flushed(bs \o em, ChunkSize)
           second == Kept(bs \o em, ChunkSize)
<1>1. phase = "running" /\ phase' = "running" /\ options' = options
      /\ steps' = Append(steps, r)
    BY StepBarParts
<1>2. IsStepAt(r, Len(steps) + 1) /\ Gain' = Gain + r.cashDelta
    BY StepNowIsStep
<1>3. IsSteps(steps) /\ IsSeq(rs) /\ IsSeq(bs) /\ counts.traces = Len(rs) + Len(bs)
      /\ TraceInv(options, rs \o bs, buffers.span, steps, Gain)
    BY <1>1 DEF TracesTell
<1>4. /\ buffers'.span = AfterNow(s, filled, decision).span
      /\ buffers'.traces = second
    BY StepBarBuffered DEF EmittedNow
<1>5. PICK w \in InsertedRows(first, OrderRowNow(s, filled, decision), FillRowNow(filled)) :
          rows'.traces = rs \o w
    BY StepBarBuffered DEF EmittedNow
<1>6. counts'.traces = counts.traces + Len(em)
  <2>1. counts' = [signals |-> counts.signals + StepNow(s, filled, decision).signals,
                   blocked |-> counts.blocked
                               + Cardinality(StepNow(s, filled, decision).blocked),
                   traces |-> counts.traces + Len(AfterNow(s, filled, decision).emitted)]
      BY StepBarCounts
  <2> QED
      BY <2>1
<1>7. options.stride \in Nat \ {0}
    BY RecordsAssumption DEF Shape
<1>8. AfterNow(s, filled, decision) = AfterStep(options, buffers.span, r, IsActivity(r))
    BY DEF AfterNow
<1>9. IsSeq(em)
    BY <1>3, <1>8, EmittedIsSeq
<1> HIDE DEF r, rs, bs, em
<1>10. IsSeq(bs \o em) /\ Len(bs \o em) = Len(bs) + Len(em)
    BY <1>3, <1>9, ConcatSeq
<1>11. IsSplit(first, second, bs \o em) /\ Len(second) < ChunkSize
    BY <1>10, BufferFacts, ConstantFacts
<1> HIDE DEF first, second
<1>12. IsSeq(first) /\ IsSeq(second) /\ Len(first) + Len(second) = Len(bs) + Len(em)
    BY <1>10, <1>11 DEF IsSplit
<1>13. AreRowsOf(w, first)
    BY <1>5, <1>12, InsertedFacts
<1>14. AreRowsOf(second, second)
    BY <1>12, RowsOfThemselves
<1>15. IsExtension((rs \o w) \o second, rs \o bs, em)
    BY <1>3, <1>9, <1>11, <1>13, <1>14, WrittenExtends
<1>16. IsSeq(rs \o w) /\ Len(rs \o w) = Len(rs) + Len(first)
  <2>1. IsSeq(w) /\ Len(w) = Len(first)
      BY <1>13 DEF AreRowsOf
  <2>2. IsSeq(rs)
      BY <1>3
  <2>3. IsSeq(rs \o w) /\ Len(rs \o w) = Len(rs) + Len(w)
      BY <2>1, <2>2, ConcatSeq
  <2> QED
      BY <2>1, <2>3
<1>17. TraceInv(options, (rs \o w) \o second, AfterStep(options, buffers.span, r, IsActivity(r)).span,
                Append(steps, r), Gain + r.cashDelta)
  <2> DEFINE T == rs \o bs
             U == (rs \o w) \o second
             o == options
             span == buffers.span
             S == steps
             gain == Gain
  <2>1. /\ o.stride \in Nat \ {0} /\ TraceInv(o, T, span, S, gain)
        /\ IsStepAt(r, Len(S) + 1)
        /\ IsExtension(U, T, AfterStep(o, span, r, IsActivity(r)).emitted)
      BY <1>2, <1>3, <1>7, <1>8, <1>15 DEF em, rs, bs
  <2> HIDE DEF T, U, o, span, S, gain
  <2>2. TraceInv(o, U, AfterStep(o, span, r, IsActivity(r)).span, Append(S, r),
                 gain + r.cashDelta)
      BY <2>1, TraceStep
  <2> QED
      BY <2>2 DEF U, o, span, S, gain
<1>18. TraceInv(options, rows.traces \o buffers.traces, buffers.span, steps, Gain)'
    BY <1>1, <1>2, <1>4, <1>5, <1>8, <1>17, Zenon DEF r
<1>19. counts'.traces = Len(rows'.traces) + Len(buffers'.traces)
  <2>1. Len(rs) \in Nat /\ Len(bs) \in Nat /\ Len(em) \in Nat
        /\ Len(first) \in Nat /\ Len(second) \in Nat
      BY <1>3, <1>9, <1>12, SeqFacts
  <2>2. counts'.traces = (Len(rs) + Len(bs)) + Len(em)
      BY <1>3, <1>6
  <2>3. Len(rows'.traces) = Len(rs) + Len(first)
      BY <1>5, <1>16
  <2>4. Len(buffers'.traces) = Len(second)
      BY <1>4
  <2>5. Len(first) + Len(second) = Len(bs) + Len(em)
      BY <1>12
  <2> QED
      BY <2>1, <2>2, <2>3, <2>4, <2>5
<1>20. IsSteps(steps')
    BY <1>1, <1>2, <1>3, StepsGrow DEF r
<1>21. IsSeq(rows'.traces) /\ IsSeq(buffers'.traces) /\ Len(buffers'.traces) < ChunkSize
    BY <1>4, <1>5, <1>11, <1>12, <1>16
<1> QED
    BY <1>1, <1>18, <1>19, <1>20, <1>21 DEF TracesTell

LEMMA TracesFinish ==
    ASSUME Shape, TracesTell, Finish
    PROVE  TracesTell'
<1> DEFINE rs == rows.traces
           bs == buffers.traces
           em == SelectedRecords(buffers.span)
           first == Flushed(bs \o em, ChunkSize)
           second == Kept(bs \o em, ChunkSize)
<1>1. /\ phase = "running" /\ phase' = "finished" /\ options' = options
      /\ steps' = steps /\ money' = money /\ buffers' = NoBuffers
    BY FinishParts
<1>2. IsSteps(steps) /\ IsSeq(rs) /\ IsSeq(bs) /\ counts.traces = Len(rs) + Len(bs)
      /\ TraceInv(options, rs \o bs, buffers.span, steps, Gain)
    BY <1>1 DEF TracesTell
<1>3. \E n \in InsertedRows(first, maps.orders, maps.fills) :
      \E l \in InsertedRows(second, maps.orders, maps.fills) :
          rows'.traces = (rs \o n) \o l
    BY FinishFields DEF LastEmitted
<1>4. PICK w \in InsertedRows(first, maps.orders, maps.fills) :
      \E l \in InsertedRows(second, maps.orders, maps.fills) : rows'.traces = (rs \o w) \o l
    BY <1>3
<1>5. PICK v \in InsertedRows(second, maps.orders, maps.fills) : rows'.traces = (rs \o w) \o v
    BY <1>4
<1>6. /\ rows'.risk = [blocked |-> counts.blocked, traces |-> TracesInAll]
      /\ counts'.traces = TracesInAll
    BY FinishFields
<1>7. TracesInAll = counts.traces + Len(em)
    BY DEF TracesInAll
<1>8. IsSeq(em)
    BY <1>2, SelectedIsSeq
<1> HIDE DEF rs, bs, em
<1>9. IsSeq(bs \o em) /\ Len(bs \o em) = Len(bs) + Len(em)
    BY <1>2, <1>8, ConcatSeq
<1>10. IsSplit(first, second, bs \o em)
    BY <1>9, BufferFacts, ConstantFacts
<1> HIDE DEF first, second
<1>11. IsSeq(first) /\ IsSeq(second)
    BY <1>10 DEF IsSplit
<1>12. AreRowsOf(w, first) /\ AreRowsOf(v, second)
    BY <1>4, <1>5, <1>11, InsertedFacts
<1>13. IsExtension((rs \o w) \o v, rs \o bs, em)
    BY <1>2, <1>8, <1>10, <1>12, WrittenExtends
<1>14. Settled(options, (rs \o w) \o v, steps, Gain)
  <2> DEFINE T == rs \o bs
             U == (rs \o w) \o v
             o == options
             span == buffers.span
             S == steps
             gain == Gain
  <2>1. TraceInv(o, T, span, S, gain) /\ IsExtension(U, T, SelectedRecords(span))
      BY <1>2, <1>13 DEF em, rs, bs
  <2> HIDE DEF T, U, o, span, S, gain
  <2>2. Settled(o, U, S, gain)
      BY <2>1, Flushes
  <2> QED
      BY <2>2 DEF U, o, S, gain
<1>15. Settled(options, rows.traces, steps, Gain)'
  <2>1. Gain' = Gain
      BY <1>1 DEF Gain
  <2> QED
      BY <2>1, <1>1, <1>5, <1>14, Zenon
<1>16. IsSeq(rows'.traces) /\ Len(rows'.traces) = Len(rs \o bs) + Len(em)
    BY <1>5, <1>13 DEF IsExtension
<1>17. Len(rs \o bs) = Len(rs) + Len(bs)
    BY <1>2, ConcatSeq
<1>18. rows'.risk.traces = Len(rows'.traces) /\ counts'.traces = Len(rows'.traces)
  <2>1. counts.traces = Len(rs) + Len(bs)
      BY <1>2
  <2>2. Len(rows'.traces) = TracesInAll
      BY <2>1, <1>7, <1>16, <1>17
  <2> QED
      BY <2>2, <1>6
<1>19. /\ IsSeq(buffers'.traces) /\ Len(buffers'.traces) = 0
       /\ Len(rows'.traces) \in Nat
    BY <1>1, <1>16, EmptySeqFacts, SeqFacts DEF NoBuffers
<1>20. IsSteps(steps') /\ Len(buffers'.traces) < ChunkSize
       /\ counts'.traces = Len(rows'.traces) + Len(buffers'.traces)
    BY <1>1, <1>2, <1>18, <1>19, ConstantFacts
<1>21. phase' = "finished" /\ phase' # "running"
    BY <1>1
<1> QED
    BY <1>15, <1>16, <1>18, <1>19, <1>20, <1>21 DEF TracesTell

\* Where the traces, the span, the steps and the cash stay, so does what is told.
LEMMA TracesStay ==
    ASSUME TracesTell, rows'.traces = rows.traces, rows'.risk = rows.risk,
           buffers'.traces = buffers.traces, buffers'.span = buffers.span, steps' = steps,
           counts' = counts, money'.cash = money.cash, phase' = phase, options' = options
    PROVE  TracesTell'
<1>1. Gain' = Gain
    BY DEF Gain
<1>2. phase' = "running" =>
          TraceInv(options, rows.traces \o buffers.traces, buffers.span, steps, Gain)'
  <2>1. phase = "running" =>
            TraceInv(options, rows.traces \o buffers.traces, buffers.span, steps, Gain)
      BY DEF TracesTell
  <2> QED
      BY <1>1, <2>1, Zenon
<1>3. phase' = "finished" =>
          Settled(options, rows.traces, steps, Gain)' /\ rows'.risk.traces = Len(rows'.traces)
  <2>1. phase = "finished" =>
            Settled(options, rows.traces, steps, Gain) /\ rows.risk.traces = Len(rows.traces)
      BY DEF TracesTell
  <2> QED
      BY <1>1, <2>1, Zenon
<1>4. /\ IsSteps(steps') /\ IsSeq(rows'.traces) /\ IsSeq(buffers'.traces)
      /\ Len(buffers'.traces) < ChunkSize
      /\ counts'.traces = Len(rows'.traces) + Len(buffers'.traces)
    BY Zenon DEF TracesTell
<1> QED
    BY <1>2, <1>3, <1>4, Zenon DEF TracesTell

LEMMA TracesInit == Init => TracesTell
<1> SUFFICES ASSUME Init PROVE TracesTell
    OBVIOUS
<1>1. /\ rows = [NoRows EXCEPT !.status = "running"] /\ buffers = NoBuffers
      /\ counts = NoCounts /\ money = AtStart /\ steps = <<>> /\ phase = "running"
    BY DEF Init
<1>2. /\ rows.traces = <<>> /\ buffers.traces = <<>> /\ buffers.span = <<>>
      /\ counts.traces = 0 /\ money.cash = InitialCash
    BY <1>1 DEF NoRows, NoBuffers, NoCounts, AtStart
<1>3. Gain = 0
    BY <1>2, ConstantFacts DEF Gain
<1>4. IsSeq(rows.traces) /\ IsSeq(buffers.traces)
      /\ Len(rows.traces) = 0 /\ Len(buffers.traces) = 0
    BY <1>2, EmptySeqFacts
<1> DEFINE T == rows.traces \o buffers.traces
           rs == rows.traces
           bs == buffers.traces
<1>a. IsSeq(rs) /\ IsSeq(bs) /\ Len(rs) = 0 /\ Len(bs) = 0 /\ T = rs \o bs
    BY <1>4
<1> HIDE DEF T, rs, bs
<1>b. IsSeq(rs \o bs) /\ Len(rs \o bs) = Len(rs) + Len(bs)
    BY <1>a, ConcatSeq
<1>5. IsSeq(T) /\ Len(T) = 0
    BY <1>a, <1>b
<1>6. TraceInv(options, T, <<>>, <<>>, 0) /\ IsSteps(<<>>)
    BY <1>5, NoTraces
<1>7. TraceInv(options, T, buffers.span, steps, Gain)
    BY <1>1, <1>2, <1>3, <1>6, Zenon
<1>8. phase = "running" =>
          TraceInv(options, rows.traces \o buffers.traces, buffers.span, steps, Gain)
    BY <1>7 DEF T
<1>9. IsSteps(steps) /\ phase # "finished"
    BY <1>1, <1>6, Zenon
<1>10. Len(buffers.traces) < ChunkSize
       /\ counts.traces = Len(rows.traces) + Len(buffers.traces)
    BY <1>2, <1>4, ConstantFacts
<1> QED
    BY <1>4, <1>8, <1>9, <1>10, Zenon DEF TracesTell

LEMMA TracesUndone ==
    ASSUME NEW how \in {"canceled", "raised"}, Undone(how)
    PROVE  TracesTell'
<1>1. /\ rows' = NoRows /\ buffers' = NoBuffers /\ counts' = NoCounts /\ steps' = <<>>
      /\ phase' \in {"canceled", "raised"}
    BY UndoneParts
<1>2. rows'.traces = <<>> /\ buffers'.traces = <<>> /\ counts'.traces = 0
    BY <1>1 DEF NoRows, NoBuffers, NoCounts
<1>3. IsSteps(<<>>)
    BY EmptySeqFacts, NoTraces
<1>4. phase' # "running" /\ phase' # "finished"
    BY <1>1
<1>5. IsSeq(rows'.traces) /\ IsSeq(buffers'.traces)
      /\ Len(rows'.traces) = 0 /\ Len(buffers'.traces) = 0
    BY <1>2, EmptySeqFacts
<1> QED
    BY <1>1, <1>2, <1>3, <1>4, <1>5, ConstantFacts DEF TracesTell

LEMMA TracesStep == Shape /\ OrdersTell /\ TracesTell /\ [Next]_vars => TracesTell'
<1> SUFFICES ASSUME Shape, OrdersTell, TracesTell, [Next]_vars PROVE TracesTell'
    OBVIOUS
<1>1. CASE UNCHANGED vars
  <2>1. /\ rows' = rows /\ buffers' = buffers /\ steps' = steps /\ counts' = counts
        /\ money' = money /\ phase' = phase /\ options' = options
      BY <1>1 DEF vars, data
  <2> QED
      BY <2>1, TracesStay
<1>2. ASSUME NEW s \in Symbols, NEW decision \in Decisions, NEW filled \in SUBSET pending[s],
             StepBar(s, filled, decision)
      PROVE  TracesTell'
    BY <1>2, TracesStepBar
<1>3. ASSUME NEW next \in NextTimes, EndGroup(next) PROVE TracesTell'
  <2>1. /\ rows'.traces = rows.traces /\ rows'.risk = rows.risk
        /\ buffers'.traces = buffers.traces /\ buffers'.span = buffers.span
        /\ money'.cash = money.cash
      BY <1>3, EndGroupFields
  <2>2. steps' = steps /\ counts' = counts /\ phase' = phase /\ options' = options
      BY <1>3, EndGroupParts
  <2> QED
      BY <2>1, <2>2, TracesStay
<1>4. CASE Finish
    BY <1>4, TracesFinish
<1>5. ASSUME NEW how \in {"canceled", "raised"}, Undone(how) PROVE TracesTell'
    BY <1>5, TracesUndone
<1> QED
    BY <1>1, <1>2, <1>3, <1>4, <1>5 DEF Next

\* The cash deltas of the trace rows, as the run's property sums them.
DeltaSum == MapThenSumSet(LAMBDA i : rows.traces[i].cashDelta, DOMAIN rows.traces)

LEMMA DeltaSumIsTotal ==
    ASSUME IsSeq(rows.traces), \A i \in 1..Len(rows.traces) : rows.traces[i].cashDelta \in Int
    PROVE  DeltaSum = SumOfDeltas(rows.traces)
<1> DEFINE N == 1..Len(rows.traces)
           g == Deltas(rows.traces)
           any(s) == CHOOSE x \in s : TRUE
           One(j, s) == IF s = {} THEN 0 ELSE g[any(s)] + j[s \ {any(s)}]
           Two(j, s) == IF s = {} THEN 0 ELSE rows.traces[any(s)].cashDelta + j[s \ {any(s)}]
           Loop(j) == j = [s \in SUBSET N |-> Two(j, s)]
           it == CHOOSE j : Loop(j)
<1>a. DOMAIN rows.traces = N /\ Len(rows.traces) \in Nat
    BY SeqFacts
<1>b. IsFiniteSet(N)
    BY <1>a, FS_Interval
<1>1. DOMAIN rows.traces = N /\ IsFiniteSet(N)
    BY <1>a, <1>b
<1>2. DeltaSum = it[N]
    BY <1>1 DEF DeltaSum, MapThenSumSet, MapThenFoldSet
<1>3. \A i \in N : g[i] = rows.traces[i].cashDelta /\ g[i] \in Int
    BY DEF Deltas
<1>4. g = Deltas(rows.traces)
    OBVIOUS
<1> HIDE DEF N, g
<1>5. ASSUME NEW j
      PROVE  IsSum(j, g, N) <=> Loop(j)
  <2>1. ASSUME NEW s \in SUBSET N
        PROVE  One(j, s) = Two(j, s)
    <3>1. s # {} => any(s) \in N
        OBVIOUS
    <3> HIDE DEF any
    <3> QED
        BY <3>1, <1>3
  <2>2. IsSum(j, g, N) <=> j = [s \in SUBSET N |-> One(j, s)]
      BY DEF IsSum
  <2> HIDE DEF One, Two
  <2>3. [s \in SUBSET N |-> One(j, s)] = [s \in SUBSET N |-> Two(j, s)]
      BY <2>1
  <2> QED
      BY <2>2, <2>3, Zenon
<1> HIDE DEF Loop
<1>6. PICK j : Loop(j)
    BY <1>1, <1>3, <1>5, SumExists
<1>7. IsSum(it, g, N)
    BY <1>5, <1>6
<1> HIDE DEF it
<1>8. it[N] = Total(g, N)
    BY <1>1, <1>3, <1>7, LoopComputesTotal
<1> QED
    BY <1>2, <1>4, <1>8 DEF SumOfDeltas, N

\* The trace rows of a finished run tell all of it: they follow the steps, skip
\* no step at which something happened, add up to the cash that was won or lost,
\* and of a quiet span keep the ends and the extremes, although the records
\* waited in a span and a buffer, were chosen, sampled and flushed in pieces.
THEOREM TracesAreTheRun == Spec => []TracesTellTheRun
<1>1. Init => Shape /\ OrdersTell /\ TracesTell
    BY ShapeInit, OrdersInit, TracesInit
<1>2. Shape /\ OrdersTell /\ TracesTell /\ [Next]_vars
          => (Shape /\ OrdersTell /\ TracesTell)'
    BY ShapeStep, OrdersStep, TracesStep
<1>3. TracesTell => TracesTellTheRun
  <2> SUFFICES ASSUME TracesTell, Finished PROVE TracesTellTheRun
      BY DEF TracesTellTheRun
  <2> DEFINE T == rows.traces
             HasRow(k) == \E i \in DOMAIN rows.traces : rows.traces[i].step = k
             KeptOf(span) == {k \in span[1]..span[2] : HasRow(k)}
             Tells4(span) ==
                 /\ Cardinality(KeptOf(span)) <= 4
                 /\ HasRow(span[1]) /\ HasRow(span[2])
                 /\ \A k \in span[1]..span[2] :
                        /\ \E q \in KeptOf(span) : steps[q].close >= steps[k].close
                        /\ \E q \in KeptOf(span) : steps[q].close <= steps[k].close
  <2>1. /\ TraceCore(T, steps, Gain) /\ SpansKept(options, T, steps, Len(steps))
        /\ rows.risk.traces = Len(T)
      BY DEF TracesTell, Settled, Finished
  <2>2. /\ IsSeq(T) /\ IsSteps(steps) /\ Rises(T) /\ SumOfDeltas(T) = Gain
        /\ \A k \in 1..Len(steps) : IsActivity(steps[k]) => HasRowIn(T, k)
      BY <2>1 DEF TraceCore
  <2>3. /\ DOMAIN T = 1..Len(T) /\ DOMAIN steps = 1..Len(steps) /\ Len(steps) \in Nat
        /\ \A i \in 1..Len(T) : T[i].cashDelta \in Int
      BY <2>1, <2>2, SeqFacts, DeltasFacts DEF IsSteps
  <2>4. \A k : HasRow(k) <=> HasRowIn(T, k)
      BY <2>3 DEF HasRowIn
  <2>5. Rising([i \in DOMAIN T |-> T[i].step])
      BY <2>2, <2>3 DEF Rises, Rising
  <2>6. \A k \in DOMAIN steps : ~Quiet(k) => HasRow(k)
    <3> HIDE DEF HasRow
    <3> QED
        BY <2>2, <2>3, <2>4 DEF Quiet
  <2>7. DeltaSum = money.cash - InitialCash
      BY <2>2, <2>3, DeltaSumIsTotal DEF Gain
  <2>8. ASSUME Wanted(options), NEW span \in QuietSpans PROVE Tells4(span)
    <3> DEFINE a == span[1]
               b == span[2]
    <3>1. /\ span \in (DOMAIN steps) \X (DOMAIN steps) /\ a <= b
          /\ \A k \in a..b : Quiet(k)
          /\ a > 1 => ~Quiet(a - 1)
          /\ b < Len(steps) => ~Quiet(b + 1)
        BY <2>8 DEF QuietSpans
    <3>2. a \in 1..Len(steps) /\ b \in 1..Len(steps)
        BY <3>1, <2>3
    <3> HIDE DEF a, b, T
    <3>3. IsQuietSpan(steps, a, b) /\ b <= Len(steps)
        BY <3>1, <3>2, <2>3 DEF IsQuietSpan, Quiet
    <3>4. KeptWell(T, steps, a, b)
        BY <2>1, <2>8, <3>2, <3>3 DEF SpansKept
    <3>5. KeptOf(span) = KeptOn(T, a, b)
      <4> HIDE DEF HasRow
      <4> QED
          BY <2>4 DEF KeptOn, a, b
    <3> HIDE DEF HasRow, KeptOf
    <3>6. HasRow(a) /\ HasRow(b)
        BY <3>4, <2>4 DEF KeptWell
    <3>7. /\ Cardinality(KeptOf(span)) <= 4
          /\ \A k \in a..b : /\ \E q \in KeptOf(span) : steps[q].close >= steps[k].close
                             /\ \E q \in KeptOf(span) : steps[q].close <= steps[k].close
        BY <3>4, <3>5 DEF KeptWell
    <3> QED
        BY <3>6, <3>7 DEF a, b
  <2>9. (options.compressed /\ options.stride = 1 /\ ~options.activityOnly) =>
            \A span \in QuietSpans : Tells4(span)
    <3> HIDE DEF Tells4
    <3> QED
        BY <2>8 DEF Wanted
  <2> HIDE DEF T
  <2>10. /\ Rising([i \in DOMAIN rows.traces |-> rows.traces[i].step])
         /\ rows.risk.traces = Len(rows.traces)
      BY <2>1, <2>5 DEF T
  <2> QED
      BY <2>6, <2>7, <2>9, <2>10, Zenon DEF TracesTellTheRun, DeltaSum
<1> QED
    BY <1>1, <1>2, <1>3, PTL DEF Spec
-----------------------------------------------------------------------------
(* The points.  The series and its buffer are one list of points, one for  *)
(* each time that had a bar; the peak and the deepest drawdown that the    *)
(* loop keeps are those of the list.                                       *)

LEMMA MaxOfTwo ==
    ASSUME NEW a \in Int, NEW b \in Int
    PROVE  /\ Max({a, b}) = (IF a >= b THEN a ELSE b)
           /\ Max({a, b}) \in Int /\ Max({a, b}) >= a /\ Max({a, b}) >= b
<1>1. \E x \in {a, b} : \A y \in {a, b} : x >= y
    OBVIOUS
<1>2. Max({a, b}) \in {a, b} /\ \A y \in {a, b} : Max({a, b}) >= y
    BY <1>1 DEF Max
<1> QED
    BY <1>2

IsRatio(d) == d.num \in Nat /\ d.den \in Nat \ {0}

LEMMA DrawdownIsRatio ==
    ASSUME NEW peak \in Int, NEW equity \in Int, peak >= equity
    PROVE  IsRatio(Drawdown(peak, equity))
BY DEF IsRatio, Drawdown, NoDrawdown

LEMMA DeeperFacts ==
    ASSUME NEW a, IsRatio(a), NEW b, IsRatio(b)
    PROVE  /\ IsRatio(Deeper(a, b)) /\ Deeper(a, a) = a /\ NotDeeper(a, a)
           /\ NotDeeper(a, Deeper(a, b)) /\ NotDeeper(b, Deeper(a, b))
           /\ IsRatio(NoDrawdown) /\ Deeper(NoDrawdown, b) = b
<1>1. a.num * b.den \in Int /\ b.num * a.den \in Int /\ a.num * a.den \in Int /\ b.num * b.den \in Int
    BY DEF IsRatio
<1>2. NotDeeper(a, a) /\ NotDeeper(b, b)
    BY <1>1 DEF NotDeeper
<1>3. NotDeeper(a, b) \/ NotDeeper(b, a)
    BY <1>1 DEF NotDeeper
<1>4. IsRatio(NoDrawdown) /\ NotDeeper(NoDrawdown, b)
    BY DEF IsRatio, NotDeeper, NoDrawdown
<1> QED
    BY <1>2, <1>3, <1>4 DEF Deeper

\* A drawdown that is no deeper than one that is no deeper than a third.
LEMMA NotDeeperThrough ==
    ASSUME NEW a, IsRatio(a), NEW b, IsRatio(b), NEW c, IsRatio(c),
           NotDeeper(a, b), NotDeeper(b, c)
    PROVE  NotDeeper(a, c)
<1> DEFINE x == a.num * c.den
           y == c.num * a.den
<1>1. /\ a.num \in Nat /\ b.num \in Nat /\ c.num \in Nat
      /\ a.den \in Nat \ {0} /\ b.den \in Nat \ {0} /\ c.den \in Nat \ {0}
    BY DEF IsRatio
<1>2. a.num * b.den <= b.num * a.den /\ b.num * c.den <= c.num * b.den
    BY DEF NotDeeper
<1>3. ASSUME NEW an \in Nat, NEW bn \in Nat, NEW cn \in Nat, NEW ad \in Nat \ {0},
             NEW bd \in Nat \ {0}, NEW cd \in Nat \ {0},
             an * bd <= bn * ad, bn * cd <= cn * bd
      PROVE  an * cd <= cn * ad
  <2>1. (an * bd) * cd <= (bn * ad) * cd
      BY <1>3
  <2>2. (bn * cd) * ad <= (cn * bd) * ad
      BY <1>3
  <2>3. (bn * ad) * cd = (bn * cd) * ad
      BY <1>3
  <2>4. (an * bd) * cd = (an * cd) * bd /\ (cn * bd) * ad = (cn * ad) * bd
      BY <1>3
  <2>5. (an * cd) * bd <= (cn * ad) * bd
      BY <2>1, <2>2, <2>3, <2>4
  <2> DEFINE p == an * cd
             q == cn * ad
  <2>6. p \in Int /\ q \in Int /\ p * bd <= q * bd
      BY <2>5
  <2> HIDE DEF p, q
  <2>7. p <= q
      BY <2>6
  <2> QED
      BY <2>7 DEF p, q
<1> QED
    BY <1>1, <1>2, <1>3 DEF NotDeeper

\* What the drawdown of one point after the other adds up to.
Deepens(P, D) ==
    /\ D[0] = NoDrawdown
    /\ \A i \in 1..Len(P) : D[i] = Deeper(D[i - 1], P[i].drawdown)
IsPoint(P, i) ==
    /\ P[i].ts \in Int /\ P[i].equity \in Int
    /\ \E peak \in Int : /\ InitialCash <= peak /\ \A j \in 1..i : P[j].equity <= peak
                         /\ P[i].drawdown = Drawdown(peak, P[i].equity)
Performed(P, peak, deepest) ==
    /\ IsSeq(P)
    /\ peak \in Int /\ InitialCash <= peak /\ \A i \in 1..Len(P) : P[i].equity <= peak
    /\ \A i \in 1..Len(P) : IsPoint(P, i)
    /\ \A i, j \in 1..Len(P) : i < j => P[i].ts < P[j].ts
    /\ \E D : Deepens(P, D) /\ deepest = D[Len(P)]

IsAppended(U, P, p) ==
    /\ IsSeq(U) /\ Len(U) = Len(P) + 1
    /\ \A i \in 1..Len(P) : U[i] = P[i]
    /\ U[Len(P) + 1] = p

LEMMA NoPoints == ASSUME NEW P, IsSeq(P), Len(P) = 0
                  PROVE  Performed(P, InitialCash, NoDrawdown)
<1> DEFINE D == [i \in {0} |-> NoDrawdown]
<1>1. D[0] = NoDrawdown /\ 1..Len(P) = {}
    OBVIOUS
<1>2. InitialCash \in Int
    BY ConstantFacts
<1> HIDE DEF D
<1>3. Deepens(P, D) /\ NoDrawdown = D[Len(P)]
    BY <1>1 DEF Deepens
<1> QED
    BY <1>1, <1>2, <1>3 DEF Performed

LEMMA PointAppended ==
    ASSUME NEW P, NEW peak, NEW deepest, Performed(P, peak, deepest),
           NEW p, p.ts \in Int, p.equity \in Int,
           \A i \in 1..Len(P) : P[i].ts < p.ts,
           NEW high, high = Max({peak, p.equity}), p.drawdown = Drawdown(high, p.equity),
           NEW U, IsAppended(U, P, p)
    PROVE  Performed(U, high, Deeper(deepest, p.drawdown))
<1> DEFINE n == Len(P)
<1>1. /\ n \in Nat /\ Len(U) = n + 1 /\ IsSeq(U)
      /\ \A i \in 1..n : U[i] = P[i]
      /\ U[n + 1] = p
    BY SeqFacts DEF IsAppended, Performed
<1>a. /\ peak \in Int /\ InitialCash <= peak
      /\ \A i \in 1..n : P[i].equity <= peak
      /\ \A i \in 1..n : IsPoint(P, i)
      /\ \A i, j \in 1..n : i < j => P[i].ts < P[j].ts
    BY DEF Performed
<1>b. \A i \in 1..n : P[i].equity \in Int
    BY <1>a DEF IsPoint
<1>2. /\ peak \in Int /\ InitialCash \in Int /\ InitialCash <= peak
      /\ \A i \in 1..n : P[i].equity <= peak /\ P[i].equity \in Int
      /\ \A i \in 1..n : IsPoint(P, i)
      /\ \A i, j \in 1..n : i < j => P[i].ts < P[j].ts
    BY <1>a, <1>b, ConstantFacts
<1>3. high \in Int /\ peak <= high /\ p.equity <= high
    BY <1>2, MaxOfTwo
<1>4. \A i \in 1..(n + 1) : U[i].equity <= high
  <2>1. ASSUME NEW i \in 1..n PROVE U[i].equity <= high
      BY <1>1, <1>2, <1>3
  <2>2. \A i \in 1..(n + 1) : i \in 1..n \/ i = n + 1
      BY <1>1
  <2> QED
      BY <2>1, <2>2, <1>1, <1>3
<1>5. ASSUME NEW i \in 1..(n + 1) PROVE IsPoint(U, i)
  <2>1. CASE i \in 1..n
    <3>1. IsPoint(P, i) /\ U[i] = P[i] /\ \A j \in 1..i : U[j] = P[j]
        BY <2>1, <1>1, <1>2
    <3> QED
        BY <3>1 DEF IsPoint
  <2>2. CASE i = n + 1
    <3>1. InitialCash <= high
        BY <1>2, <1>3
    <3> QED
        BY <2>2, <3>1, <1>1, <1>3, <1>4 DEF IsPoint
  <2> QED
      BY <2>1, <2>2, <1>1
<1>6. ASSUME NEW i \in 1..(n + 1), NEW j \in 1..(n + 1), i < j PROVE U[i].ts < U[j].ts
  <2>1. CASE j \in 1..n
    <3>1. i \in 1..n
        BY <2>1, <1>1, <1>6
    <3> QED
        BY <2>1, <3>1, <1>1, <1>2, <1>6
  <2>2. CASE j = n + 1
    <3>1. i \in 1..n
        BY <2>2, <1>1, <1>6
    <3> QED
        BY <2>2, <3>1, <1>1
  <2> QED
      BY <2>1, <2>2, <1>1
<1>7. PICK D : Deepens(P, D) /\ deepest = D[n]
    BY DEF Performed
<1> DEFINE E == [i \in 0..(n + 1) |-> IF i = n + 1 THEN Deeper(D[n], p.drawdown) ELSE D[i]]
<1>8. /\ E[0] = NoDrawdown /\ E[n + 1] = Deeper(deepest, p.drawdown)
      /\ \A i \in 0..n : E[i] = D[i]
    BY <1>1, <1>7 DEF Deepens
<1> HIDE DEF E
<1>9. ASSUME NEW i \in 1..(n + 1) PROVE E[i] = Deeper(E[i - 1], U[i].drawdown)
  <2>1. CASE i \in 1..n
    <3>1. i \in 0..n /\ i - 1 \in 0..n
        BY <2>1, <1>1
    <3> QED
        BY <2>1, <3>1, <1>1, <1>7, <1>8 DEF Deepens
  <2>2. CASE i = n + 1
    <3>1. i - 1 = n /\ n \in 0..n
        BY <2>2, <1>1
    <3> QED
        BY <2>2, <3>1, <1>1, <1>7, <1>8
  <2> QED
      BY <2>1, <2>2, <1>1
<1>10. Deepens(U, E) /\ Deeper(deepest, p.drawdown) = E[Len(U)]
    BY <1>1, <1>8, <1>9 DEF Deepens
<1>11. InitialCash <= high
    BY <1>2, <1>3
<1> HIDE DEF n
<1> QED
    BY <1>1, <1>3, <1>4, <1>5, <1>6, <1>10, <1>11 DEF Performed

LEMMA RowsAtAll ==
    ASSUME NEW table, IsSeq(table)
    PROVE  RowsAt(table, DOMAIN table) = table
<1> DEFINE n == Len(table)
           N == 1..n
           same == [i \in N |-> i]
<1>1. n \in Nat /\ DOMAIN table = N /\ table = [i \in N |-> table[i]]
    BY SeqFacts
<1>2. N \subseteq Int /\ IsFiniteSet(N) /\ Cardinality(N) = n
    BY <1>1, FS_Interval
<1>3. /\ DOMAIN Sorted(N) = N
      /\ \A w \in N : \E i \in DOMAIN Sorted(N) : Sorted(N)[i] = w
      /\ \A i, j \in DOMAIN Sorted(N) : i < j => Sorted(N)[i] < Sorted(N)[j]
      /\ \A i \in N : Sorted(N)[i] \in N
  <2>1. Sorted(N) \in Seq(N) /\ DOMAIN Sorted(N) = 1..Cardinality(N)
      BY <1>2, SortedFacts
  <2>2. \A i \in DOMAIN Sorted(N) : Sorted(N)[i] \in N
      BY <2>1, ElementOfSeq, LenProperties
  <2> HIDE DEF N
  <2>3. /\ \A w \in N : \E i \in DOMAIN Sorted(N) : Sorted(N)[i] = w
        /\ \A i, j \in DOMAIN Sorted(N) : i < j => Sorted(N)[i] < Sorted(N)[j]
      BY <1>2, SortedFacts
  <2>4. DOMAIN Sorted(N) = N
      BY <2>1, <1>2 DEF N
  <2> QED
      BY <2>2, <2>3, <2>4
<1>4. Enumerates(Sorted(N), n, N)
  <2>1. \A i \in N : Sorted(N)[i] \in N /\ Sorted(N)[i] \in Int
      BY <1>2, <1>3
  <2>2. \A w \in N : \E i \in N : w = Sorted(N)[i]
      BY <1>3
  <2>3. \A i, j \in N : i < j => Sorted(N)[i] < Sorted(N)[j]
      BY <1>3
  <2> QED
      BY <1>1, <2>1, <2>2, <2>3 DEF Enumerates
<1>5. Enumerates(same, n, N)
  <2>1. \A i \in N : same[i] = i
      OBVIOUS
  <2> HIDE DEF same
  <2> QED
      BY <1>1, <1>2, <2>1 DEF Enumerates
<1>6. \A i \in N : Sorted(N)[i] = i
  <2>1. \A i \in N : Sorted(N)[i] = same[i]
      BY <1>4, <1>5, SortedIsUnique
  <2> QED
      BY <2>1
<1> HIDE DEF N
<1>7. RowsAt(table, N) = [i \in 1..n |-> table[Sorted(N)[i]]]
    BY <1>2 DEF RowsAt
<1>8. [i \in N |-> table[Sorted(N)[i]]] = [i \in N |-> table[i]]
    BY <1>6
<1> QED
    BY <1>1, <1>7, <1>8 DEF N

\* Points of other times are stored after those that are there.
LEMMA WithPointsAppends ==
    ASSUME NEW table, IsSeq(table), NEW points,
           \A i \in DOMAIN table : \A j \in DOMAIN points : points[j].ts # table[i].ts
    PROVE  WithPoints(table, points) = table \o points
<1>1. {i \in DOMAIN table : \A j \in DOMAIN points : points[j].ts # table[i].ts} = DOMAIN table
    OBVIOUS
<1>2. RowsAt(table, DOMAIN table) = table
    BY RowsAtAll
<1> QED
    BY <1>1, <1>2, Zenon DEF WithPoints

LEMMA EquityFacts ==
    ASSUME NEW m, m.cash \in Int, m.qty \in [Symbols -> Int], m.marks \in [Symbols -> Int]
    PROVE  Equity(m) \in Int
<1> DEFINE g == [s \in Symbols |-> m.qty[s] * m.marks[s]]
           any(s) == CHOOSE x \in s : TRUE
           One(j, s) == IF s = {} THEN 0 ELSE g[any(s)] + j[s \ {any(s)}]
           Two(j, s) == IF s = {} THEN 0 ELSE m.qty[any(s)] * m.marks[any(s)] + j[s \ {any(s)}]
           Loop(j) == j = [s \in SUBSET Symbols |-> Two(j, s)]
           it == CHOOSE j : Loop(j)
<1>1. IsFiniteSet(Symbols)
    BY ConstantFacts, FS_Interval
<1>2. Equity(m) = m.cash + it[Symbols]
    BY DEF Equity, MapThenSumSet, MapThenFoldSet
<1>3. \A i \in Symbols : g[i] = m.qty[i] * m.marks[i] /\ g[i] \in Int
  <2>1. \A i \in Symbols : m.qty[i] \in Int /\ m.marks[i] \in Int
      OBVIOUS
  <2>2. \A a, b \in Int : a * b \in Int
      OBVIOUS
  <2> QED
      BY <2>1, <2>2
<1> HIDE DEF g
<1>5. ASSUME NEW j
      PROVE  IsSum(j, g, Symbols) <=> Loop(j)
  <2>1. ASSUME NEW s \in SUBSET Symbols
        PROVE  One(j, s) = Two(j, s)
    <3>1. s # {} => any(s) \in Symbols
        OBVIOUS
    <3> HIDE DEF any
    <3> QED
        BY <3>1, <1>3
  <2>2. IsSum(j, g, Symbols) <=> j = [s \in SUBSET Symbols |-> One(j, s)]
      BY DEF IsSum
  <2> HIDE DEF One, Two
  <2>3. [s \in SUBSET Symbols |-> One(j, s)] = [s \in SUBSET Symbols |-> Two(j, s)]
      BY <2>1
  <2> QED
      BY <2>2, <2>3, Zenon
<1> HIDE DEF Loop
<1>6. PICK j : Loop(j)
    BY <1>1, <1>3, <1>5, SumExists
<1>7. IsSum(it, g, Symbols)
    BY <1>5, <1>6
<1> HIDE DEF it
<1>8. it[Symbols] = Total(g, Symbols) /\ Total(g, Symbols) \in Int
    BY <1>1, <1>3, <1>7, LoopComputesTotal, TotalFacts
<1> QED
    BY <1>2, <1>8

\* The times that had a bar are those of the points and, while its group is
\* open, the time of the clock; the run counts the steps that were blocked; and
\* between two groups the last point has the equity of the run.
IsOpen == clock.last > 0 /\ clock.now <= NTimes
AllPoints == rows.series \o buffers.points
TimesTell(P) ==
    /\ \A i \in 1..Len(P) : /\ P[i].ts < clock.now
                            /\ \E k \in 1..Len(steps) : steps[k].at = P[i].ts
    /\ \A k \in 1..Len(steps) : \/ IsOpen /\ steps[k].at = clock.now
                                \/ \E i \in 1..Len(P) : steps[k].at = P[i].ts
    /\ IsOpen => \E k \in 1..Len(steps) : steps[k].at = clock.now
    /\ ~IsOpen /\ Len(P) # 0 => P[Len(P)].equity = Equity(money)
    /\ clock.now > NTimes => Len(P) # 0
BlocksTell ==
    /\ counts.blocked \in Nat
    /\ counts.blocked = 0 <=> \A k \in 1..Len(steps) : steps[k].blocked = {}
    /\ \A k \in 1..Len(steps) : steps[k].blocked \in {{}, {BlockCode}}
    /\ phase = "finished" => rows.risk.blocked = counts.blocked
PointsTell ==
    /\ IsSeq(rows.series) /\ IsSeq(buffers.points) /\ Len(buffers.points) < ChunkSize
    /\ Performed(AllPoints, money.peak, money.drawdown)
    /\ TimesTell(AllPoints)
    /\ phase = "finished" =>
           /\ buffers.points = <<>> /\ clock.now > NTimes
           /\ rows.summary = <<[finalEquity |-> Equity(money), drawdown |-> money.drawdown]>>
    /\ phase \in {"canceled", "raised"} => rows = NoRows

LEMMA StepBarPoints ==
    ASSUME Shape, NEW s, NEW filled, NEW decision, StepBar(s, filled, decision)
    PROVE  /\ rows'.series = rows.series /\ buffers'.points = buffers.points
           /\ rows'.summary = rows.summary /\ rows'.risk = rows.risk
           /\ money'.peak = money.peak /\ money'.drawdown = money.drawdown
<1>1. PICK written \in InsertedRows(Flushed(EmittedNow(s, filled, decision), ChunkSize),
                                    OrderRowNow(s, filled, decision), FillRowNow(filled)) :
          IsRowsAfter(s, filled, decision, written)
    BY StepBarRows
<1>2. DOMAIN rows = RowNames
    BY DEF Shape
<1>3. rows'.series = rows.series /\ rows'.summary = rows.summary /\ rows'.risk = rows.risk
    BY <1>1, <1>2 DEF RowNames, IsRowsAfter
<1>4. buffers' = [buffers EXCEPT
                     !.span = AfterNow(s, filled, decision).span,
                     !.traces = Kept(EmittedNow(s, filled, decision), ChunkSize)]
    BY StepBarBuffers
<1>5. DOMAIN buffers = {"span", "traces", "points"}
    BY DEF Shape
<1>6. buffers'.points = buffers.points
    BY <1>4, <1>5
<1>7. money' = [money EXCEPT !.cash = money.cash - SideSum(filled),
                             !.qty = QtyNow(s, filled), !.marks[s] = bars[s][clock.now]]
    BY StepBarParts
<1>8. DOMAIN money = {"cash", "qty", "marks", "peak", "drawdown"}
    BY DEF Shape
<1>9. money'.peak = money.peak /\ money'.drawdown = money.drawdown
    BY <1>7, <1>8
<1> QED
    BY <1>3, <1>6, <1>9

LEMMA BlocksStepBar ==
    ASSUME Shape, BlocksTell, NEW s \in Symbols, NEW filled, NEW decision,
           StepBar(s, filled, decision)
    PROVE  BlocksTell'
<1> DEFINE step == StepNow(s, filled, decision)
           n == Len(steps)
<1>1. steps' = Append(steps, step) /\ phase' = "running"
    BY StepBarParts
<1>2. counts' = [signals |-> counts.signals + step.signals,
                 blocked |-> counts.blocked + Cardinality(step.blocked),
                 traces |-> counts.traces + Len(AfterNow(s, filled, decision).emitted)]
    BY StepBarCounts
<1>3. step.blocked = (IF decision = "blocked" THEN {BlockCode} ELSE {})
    BY StepNowFields
<1> HIDE DEF step
<1>4. counts'.blocked = counts.blocked + Cardinality(step.blocked)
    BY <1>2
<1>5. IsSeq(steps)
    BY DEF Shape
<1>6. /\ Len(steps') = n + 1 /\ n \in Nat /\ steps'[n + 1] = step
      /\ \A k \in 1..n : steps'[k] = steps[k]
    BY <1>1, <1>5, AppendSeq
<1>7. \/ step.blocked = {} /\ counts'.blocked = counts.blocked
      \/ step.blocked = {BlockCode} /\ counts'.blocked = counts.blocked + 1
  <2>1. counts.blocked \in Nat
      BY DEF BlocksTell
  <2>2. CASE decision = "blocked"
    <3>1. Cardinality({BlockCode}) = 1
        BY FS_Singleton
    <3> QED
        BY <3>1, <2>2, <1>3, <1>4
  <2>3. CASE decision # "blocked"
    <3>1. Cardinality({}) = 0
        BY FS_EmptySet
    <3> QED
        BY <3>1, <2>1, <2>3, <1>3, <1>4
  <2> QED
      BY <2>2, <2>3
<1> HIDE DEF n
<1>8. \A k \in 1..(n + 1) : k \in 1..n \/ k = n + 1
    BY <1>6
<1>9. n + 1 \in 1..(n + 1) /\ \A k \in 1..n : k \in 1..(n + 1)
    BY <1>6
<1>10. /\ counts.blocked \in Nat
       /\ counts.blocked = 0 <=> \A k \in 1..n : steps[k].blocked = {}
       /\ \A k \in 1..n : steps[k].blocked \in {{}, {BlockCode}}
    BY DEF BlocksTell, n
<1>11. counts'.blocked \in Nat
    BY <1>7, <1>10
<1>12. \A k \in 1..(n + 1) : steps'[k].blocked \in {{}, {BlockCode}}
    BY <1>6, <1>7, <1>8, <1>10
<1>13. counts'.blocked = 0 <=> \A k \in 1..(n + 1) : steps'[k].blocked = {}
  <2>1. CASE step.blocked = {} /\ counts'.blocked = counts.blocked
      BY <2>1, <1>6, <1>8, <1>9, <1>10
  <2>2. CASE step.blocked = {BlockCode} /\ counts'.blocked = counts.blocked + 1
    <3>1. counts'.blocked # 0
        BY <2>2, <1>10
    <3>2. steps'[n + 1].blocked # {}
        BY <2>2, <1>6
    <3> QED
        BY <3>1, <3>2, <1>9
  <2> QED
      BY <1>7, <2>1, <2>2
<1> QED
    BY <1>1, <1>6, <1>11, <1>12, <1>13 DEF BlocksTell

LEMMA PointsStepBar ==
    ASSUME Shape, PointsTell, NEW s \in Symbols, NEW filled, NEW decision,
           StepBar(s, filled, decision)
    PROVE  PointsTell'
<1> DEFINE P == AllPoints
           n == Len(steps)
<1>1. /\ rows'.series = rows.series /\ buffers'.points = buffers.points
      /\ money'.peak = money.peak /\ money'.drawdown = money.drawdown
    BY StepBarPoints
<1>2. /\ steps' = Append(steps, StepNow(s, filled, decision)) /\ phase' = "running"
      /\ clock' = [clock EXCEPT !.last = s, !.step = @ + 1]
    BY StepBarParts
<1>3. AllPoints' = P
    BY <1>1 DEF AllPoints
<1>4. clock'.now = clock.now /\ clock'.last = s
  <2>1. clock \in [now : 1..(NTimes + 1), last : 0..NSymbols, step : Nat]
      BY DEF Shape
  <2> QED
      BY <1>2, <2>1
<1>5. IsOpen' /\ clock.now \in Nat /\ clock.now <= NTimes
  <2>1. clock.now \in 1..NTimes
      BY BarTime
  <2>2. s > 0
      BY ConstantFacts
  <2> QED
      BY <1>4, <2>1, <2>2, ConstantFacts DEF IsOpen
<1>6. StepNow(s, filled, decision).at = clock.now
    BY StepNowFields
<1>7. IsSeq(steps)
    BY DEF Shape
<1>8. /\ Len(steps') = n + 1 /\ n \in Nat /\ steps'[n + 1].at = clock.now
      /\ \A k \in 1..n : steps'[k] = steps[k]
    BY <1>2, <1>6, <1>7, AppendSeq
<1>9. /\ \A i \in 1..Len(P) : /\ P[i].ts < clock.now
                              /\ \E k \in 1..n : steps[k].at = P[i].ts
      /\ \A k \in 1..n : \/ steps[k].at = clock.now
                         \/ \E i \in 1..Len(P) : steps[k].at = P[i].ts
    BY DEF PointsTell, TimesTell
<1> HIDE DEF P, n
<1>10. \A k \in 1..(n + 1) : k \in 1..n \/ k = n + 1
    BY <1>8
<1>11. n + 1 \in 1..(n + 1) /\ \A k \in 1..n : k \in 1..(n + 1)
    BY <1>8
<1>12. \A i \in 1..Len(P) : P[i].ts < clock'.now /\ \E k \in 1..(n + 1) : steps'[k].at = P[i].ts
    BY <1>4, <1>8, <1>9, <1>11
<1>13. \A k \in 1..(n + 1) : \/ steps'[k].at = clock'.now
                             \/ \E i \in 1..Len(P) : steps'[k].at = P[i].ts
    BY <1>4, <1>8, <1>9, <1>10
<1>14. \E k \in 1..(n + 1) : steps'[k].at = clock'.now
    BY <1>4, <1>8, <1>11
<1>15. ~(clock'.now > NTimes)
    BY <1>4, <1>5, ConstantFacts
<1>16. TimesTell(AllPoints)'
    BY <1>3, <1>5, <1>8, <1>12, <1>13, <1>14, <1>15 DEF TimesTell
<1>17. Performed(AllPoints, money.peak, money.drawdown)'
  <2>1. Performed(P, money.peak, money.drawdown)
      BY DEF PointsTell, P
  <2> QED
      BY <2>1, <1>1, <1>3, Zenon
<1>18. IsSeq(rows'.series) /\ IsSeq(buffers'.points) /\ Len(buffers'.points) < ChunkSize
    BY <1>1 DEF PointsTell
<1> QED
    BY <1>2, <1>16, <1>17, <1>18 DEF PointsTell

\* A point for which there is no other of its time, put after the list.
LEMMA JoinedAppends ==
    ASSUME NEW s, IsSeq(s), NEW t, IsSeq(t), NEW p
    PROVE  IsAppended(s \o Append(t, p), s \o t, p)
<1> DEFINE n == Len(s)
           m == Len(t)
           u == Append(t, p)
           v == s \o u
           w == s \o t
<1>1. /\ IsSeq(u) /\ Len(u) = m + 1 /\ m \in Nat /\ u[m + 1] = p
      /\ \A i \in 1..m : u[i] = t[i]
    BY AppendSeq
<1> HIDE DEF u
<1>2. /\ IsSeq(w) /\ n \in Nat /\ Len(w) = n + m
      /\ \A i \in 1..n : w[i] = s[i]
      /\ \A i \in 1..m : w[n + i] = t[i]
  <2>1. IsJoined(w, s, t)
      BY ConcatJoins
  <2> HIDE DEF w
  <2> QED
      BY <2>1 DEF IsJoined
<1>a. IsSeq(s) /\ IsSeq(u)
    BY <1>1
<1>3. /\ IsSeq(v) /\ Len(v) = n + Len(u)
      /\ \A i \in 1..n : v[i] = s[i]
      /\ \A i \in 1..Len(u) : v[n + i] = u[i]
  <2>1. IsJoined(v, s, u)
      BY <1>a, ConcatJoins
  <2> HIDE DEF v
  <2> QED
      BY <2>1 DEF IsJoined
<1> HIDE DEF v, w, n, m
<1>4. ASSUME NEW i \in 1..(n + m) PROVE v[i] = w[i]
  <2>1. CASE i \in 1..n
      BY <2>1, <1>2, <1>3
  <2>2. CASE i \notin 1..n
    <3>1. i - n \in 1..m /\ n + (i - n) = i /\ i - n \in 1..(m + 1)
        BY <2>2, <1>1, <1>2
    <3> QED
        BY <3>1, <1>1, <1>2, <1>3
  <2> QED
      BY <2>1, <2>2
<1>5. Len(v) = (n + m) + 1
    BY <1>1, <1>2, <1>3
<1>6. v[(n + m) + 1] = p
  <2>1. n + (m + 1) = (n + m) + 1 /\ m + 1 \in 1..(m + 1)
      BY <1>1, <1>2
  <2> QED
      BY <2>1, <1>1, <1>3
<1> QED
    BY <1>2, <1>3, <1>4, <1>5, <1>6 DEF IsAppended, v, w, u

LEMMA JoinedEmpty ==
    ASSUME NEW s, IsSeq(s)
    PROVE  s \o <<>> = s
<1>1. PICK S : s \in Seq(S)
    BY DEF IsSeq
<1> QED
    BY <1>1, ConcatEmptySeq

LEMMA PointsAppended ==
    ASSUME Shape, PointsTell, NEW next, EndGroup(next)
    PROVE  /\ IsAppended(AllPoints', AllPoints, PointNow)
           /\ IsSeq(rows'.series) /\ IsSeq(buffers'.points) /\ Len(buffers'.points) < ChunkSize
<1> DEFINE s == rows.series
           t == buffers.points
           p == PointNow
           u == Append(t, p)
           P == s \o t
<1>1. IsSeq(s) /\ IsSeq(t)
    BY DEF PointsTell
<1>2. /\ rows'.series = (IF IsFull THEN WithPoints(s, u) ELSE s)
      /\ buffers'.points = (IF IsFull THEN <<>> ELSE u)
    BY EndGroupFields DEF PointsNow
<1>3. IsFull <=> Len(u) >= ChunkSize
    BY DEF IsFull, PointsNow
<1>4. p.ts = clock.now
    BY DEF PointNow
<1>5. /\ \A i \in 1..Len(P) : P[i].ts < clock.now
      /\ \A i, j \in 1..Len(P) : i < j => P[i].ts < P[j].ts
      /\ \A i \in 1..Len(P) : P[i].ts \in Int
  <2>1. Performed(P, money.peak, money.drawdown) /\ TimesTell(P)
      BY DEF PointsTell, AllPoints
  <2> HIDE DEF P
  <2>2. /\ \A i, j \in 1..Len(P) : i < j => P[i].ts < P[j].ts
        /\ \A i \in 1..Len(P) : IsPoint(P, i)
      BY <2>1 DEF Performed
  <2> QED
      BY <2>1, <2>2 DEF TimesTell, IsPoint
<1>6. clock.now \in Int
    BY DEF Shape
<1>7. AllPoints = P /\ AllPoints' = rows'.series \o buffers'.points
    BY DEF AllPoints
<1> HIDE DEF s, t, p
<1>8. /\ IsSeq(u) /\ Len(u) = Len(t) + 1 /\ Len(t) \in Nat /\ DOMAIN u = 1..(Len(t) + 1)
      /\ u[Len(t) + 1] = p /\ \A i \in 1..Len(t) : u[i] = t[i]
    BY <1>1, AppendSeq
<1>9. /\ Len(s) \in Nat /\ Len(P) = Len(s) + Len(t)
      /\ \A i \in 1..Len(s) : P[i] = s[i]
      /\ \A i \in 1..Len(t) : P[Len(s) + i] = t[i]
  <2>1. IsJoined(P, s, t)
      BY <1>1, ConcatJoins
  <2> HIDE DEF P
  <2> QED
      BY <2>1 DEF IsJoined
<1>10. DOMAIN s = 1..Len(s)
    BY <1>1, SeqFacts
<1>11. IsAppended(s \o u, P, p)
    BY <1>1, JoinedAppends
<1> HIDE DEF u, P
<1>12. ASSUME NEW i \in DOMAIN s, NEW j \in DOMAIN u PROVE u[j].ts # s[i].ts
  <2>1. i \in 1..Len(P) /\ P[i] = s[i] /\ i \in Int /\ i <= Len(s)
      BY <1>8, <1>9, <1>10
  <2>2. CASE j \in 1..Len(t)
    <3>1. Len(s) + j \in 1..Len(P) /\ P[Len(s) + j] = u[j] /\ i < Len(s) + j
        BY <2>1, <2>2, <1>8, <1>9
    <3>2. P[i].ts < P[Len(s) + j].ts
        BY <2>1, <3>1, <1>5
    <3> QED
        BY <2>1, <3>1, <3>2, <1>5
  <2>3. CASE j = Len(t) + 1
    <3>1. P[i].ts < clock.now /\ P[i].ts \in Int
        BY <2>1, <1>5
    <3> QED
        BY <2>1, <2>3, <3>1, <1>4, <1>6, <1>8
  <2> QED
      BY <2>2, <2>3, <1>8
<1>13. WithPoints(s, u) = s \o u
    BY <1>1, <1>12, WithPointsAppends
<1>14. CASE IsFull
  <2>1. rows'.series = s \o u /\ buffers'.points = <<>>
      BY <1>2, <1>13, <1>14
  <2>2. IsSeq(s \o u)
      BY <1>11 DEF IsAppended
  <2>3. AllPoints' = s \o u
      BY <2>1, <2>2, <1>7, JoinedEmpty
  <2>4. IsSeq(<<>>) /\ Len(<<>>) = 0
      BY EmptySeqFacts
  <2> QED
      BY <2>1, <2>2, <2>3, <2>4, <1>7, <1>11, ConstantFacts DEF p
<1>15. CASE ~IsFull
  <2>1. rows'.series = s /\ buffers'.points = u
      BY <1>2, <1>15
  <2>2. Len(u) < ChunkSize
      BY <1>3, <1>8, <1>15, ConstantFacts
  <2>3. AllPoints' = s \o u
      BY <2>1, <1>7
  <2> QED
      BY <2>1, <2>2, <2>3, <1>1, <1>7, <1>8, <1>11 DEF p
<1> QED
    BY <1>14, <1>15

LEMMA SameEquity ==
    ASSUME NEW m, NEW w, w.cash = m.cash, w.qty = m.qty, w.marks = m.marks
    PROVE  Equity(w) = Equity(m)
BY DEF Equity, MapThenSumSet, MapThenFoldSet

LEMMA PointsEndGroup ==
    ASSUME Shape, PointsTell, NEW next, EndGroup(next)
    PROVE  PointsTell'
<1> DEFINE P == AllPoints
           U == AllPoints'
           p == PointNow
           n == Len(P)
<1>1. /\ IsAppended(U, P, p)
      /\ IsSeq(rows'.series) /\ IsSeq(buffers'.points) /\ Len(buffers'.points) < ChunkSize
    BY PointsAppended
<1>2. /\ clock'.now = next /\ clock'.last = (IF next > NTimes THEN NSymbols ELSE 0)
      /\ money'.cash = money.cash /\ money'.qty = money.qty /\ money'.marks = money.marks
      /\ money'.peak = PeakNow /\ money'.drawdown = Deepest
    BY EndGroupFields
<1>3. /\ clock.now <= NTimes /\ clock.last > 0 /\ next \in NextTimes
      /\ phase' = "running" /\ steps' = steps
    BY EndGroupParts
<1>4. clock.now \in Int /\ next \in Int /\ next > clock.now
  <2>1. clock.now \in Nat
      BY DEF Shape
  <2> QED
      BY <2>1, <1>3, ConstantFacts DEF NextTimes
<1>5. Equity(money) \in Int /\ Equity(money)' = Equity(money)
  <2>1. money.cash \in Int /\ money.qty \in [Symbols -> Int] /\ money.marks \in [Symbols -> Int]
      BY DEF Shape
  <2>2. Equity(money) \in Int
      BY <2>1, EquityFacts
  <2>3. Equity(money)' = Equity(money)
    <3> DEFINE m == money
               w == money'
    <3>1. w.cash = m.cash /\ w.qty = m.qty /\ w.marks = m.marks
        BY <1>2
    <3> HIDE DEF m, w
    <3>2. Equity(w) = Equity(m)
        BY <3>1, SameEquity
    <3> QED
        BY <3>2 DEF m, w
  <2> QED
      BY <2>2, <2>3
<1>6. /\ p.ts = clock.now /\ p.equity = Equity(money)
      /\ p.drawdown = Drawdown(PeakNow, p.equity)
      /\ PeakNow = Max({money.peak, p.equity})
      /\ Deepest = Deeper(money.drawdown, p.drawdown)
    BY DEF PointNow, PeakNow, Deepest
<1>7. Performed(P, money.peak, money.drawdown) /\ TimesTell(P)
    BY DEF PointsTell
<1> HIDE DEF p, P, U, n
<1>8. \A i \in 1..n : P[i].ts < clock.now
    BY <1>7 DEF TimesTell, n
<1>9. Performed(U, PeakNow, Deepest)
  <2> DEFINE high == PeakNow
             peak == money.peak
             deepest == money.drawdown
  <2>1. p.ts \in Int /\ p.equity \in Int
      BY <1>4, <1>5, <1>6
  <2>2. high = Max({peak, p.equity}) /\ p.drawdown = Drawdown(high, p.equity)
      BY <1>6
  <2>3. \A i \in 1..Len(P) : P[i].ts < p.ts
      BY <1>6, <1>8 DEF n
  <2>4. Performed(P, peak, deepest)
      BY <1>7
  <2> HIDE DEF high, peak, deepest
  <2>5. Performed(U, high, Deeper(deepest, p.drawdown))
      BY <1>1, <2>1, <2>2, <2>3, <2>4, PointAppended
  <2> QED
      BY <2>5, <1>6 DEF high, deepest
<1>10. Performed(AllPoints, money.peak, money.drawdown)'
    BY <1>2, <1>9, Zenon DEF U
<1>11. /\ \A i \in 1..n : \E k \in 1..Len(steps) : steps[k].at = P[i].ts
       /\ \A k \in 1..Len(steps) : \/ steps[k].at = clock.now
                                   \/ \E i \in 1..n : steps[k].at = P[i].ts
       /\ \E k \in 1..Len(steps) : steps[k].at = clock.now
    BY <1>3, <1>7 DEF TimesTell, IsOpen, n
<1>12. /\ n \in Nat /\ Len(U) = n + 1 /\ U[n + 1] = p /\ \A i \in 1..n : U[i] = P[i]
    BY <1>1, <1>7, SeqFacts DEF IsAppended, Performed, n
<1>13. \A i \in 1..(n + 1) : i \in 1..n \/ i = n + 1
    BY <1>12
<1>14. n + 1 \in 1..(n + 1) /\ \A i \in 1..n : i \in 1..(n + 1)
    BY <1>12
<1>15. ASSUME NEW i \in 1..(n + 1)
       PROVE  U[i].ts < next /\ \E k \in 1..Len(steps) : steps[k].at = U[i].ts
  <2>1. CASE i \in 1..n
    <3>1. U[i].ts < clock.now /\ U[i] = P[i]
        BY <2>1, <1>8, <1>12
    <3>2. U[i].ts \in Int
      <4>1. IsPoint(P, i)
          BY <2>1, <1>7 DEF Performed, n
      <4> QED
          BY <4>1, <3>1 DEF IsPoint
    <3> QED
        BY <2>1, <3>1, <3>2, <1>4, <1>11
  <2>2. CASE i = n + 1
      BY <2>2, <1>4, <1>6, <1>11, <1>12
  <2> QED
      BY <2>1, <2>2, <1>13
<1>16. ASSUME NEW k \in 1..Len(steps)
       PROVE  \E i \in 1..(n + 1) : steps[k].at = U[i].ts
  <2>1. CASE steps[k].at = clock.now
      BY <2>1, <1>6, <1>12, <1>14
  <2>2. CASE steps[k].at # clock.now
    <3>1. PICK i \in 1..n : steps[k].at = P[i].ts
        BY <2>2, <1>11
    <3> QED
        BY <3>1, <1>12, <1>14
  <2> QED
      BY <2>1, <2>2
<1>17. ~IsOpen'
    BY <1>2, <1>4, ConstantFacts DEF IsOpen
<1>18. U[Len(U)].equity = Equity(money)' /\ Len(U) # 0
    BY <1>5, <1>6, <1>12
<1>19. TimesTell(AllPoints)'
    BY <1>2, <1>3, <1>12, <1>15, <1>16, <1>17, <1>18 DEF TimesTell, U
<1> QED
    BY <1>1, <1>3, <1>10, <1>19 DEF PointsTell

\* The last points are stored after those that are there.
LEMMA PointsStored ==
    ASSUME PointsTell
    PROVE  WithPoints(rows.series, buffers.points) = AllPoints
<1> DEFINE s == rows.series
           t == buffers.points
           P == s \o t
<1>1. IsSeq(s) /\ IsSeq(t)
    BY DEF PointsTell
<1>2. /\ \A i, j \in 1..Len(P) : i < j => P[i].ts < P[j].ts
      /\ \A i \in 1..Len(P) : P[i].ts \in Int
  <2>1. Performed(P, money.peak, money.drawdown)
      BY DEF PointsTell, AllPoints
  <2> HIDE DEF P
  <2>2. /\ \A i, j \in 1..Len(P) : i < j => P[i].ts < P[j].ts
        /\ \A i \in 1..Len(P) : IsPoint(P, i)
      BY <2>1 DEF Performed
  <2> QED
      BY <2>2 DEF IsPoint
<1>3. AllPoints = P
    BY DEF AllPoints
<1> HIDE DEF s, t
<1>4. /\ Len(s) \in Nat /\ Len(t) \in Nat /\ Len(P) = Len(s) + Len(t)
      /\ \A i \in 1..Len(s) : P[i] = s[i]
      /\ \A i \in 1..Len(t) : P[Len(s) + i] = t[i]
  <2>1. IsJoined(P, s, t)
      BY <1>1, ConcatJoins
  <2> HIDE DEF P
  <2> QED
      BY <2>1 DEF IsJoined
<1>5. DOMAIN s = 1..Len(s) /\ DOMAIN t = 1..Len(t)
    BY <1>1, SeqFacts
<1> HIDE DEF P
<1>6. ASSUME NEW i \in DOMAIN s, NEW j \in DOMAIN t PROVE t[j].ts # s[i].ts
  <2>1. /\ i \in 1..Len(P) /\ P[i] = s[i] /\ i < Len(s) + j
        /\ Len(s) + j \in 1..Len(P) /\ P[Len(s) + j] = t[j]
      BY <1>4, <1>5
  <2>2. P[i].ts < P[Len(s) + j].ts /\ P[i].ts \in Int /\ P[Len(s) + j].ts \in Int
      BY <2>1, <1>2
  <2> QED
      BY <2>1, <2>2
<1>7. WithPoints(s, t) = s \o t
    BY <1>1, <1>6, WithPointsAppends
<1> QED
    BY <1>3, <1>7 DEF P, s, t

LEMMA PointsFinish ==
    ASSUME Shape, PointsTell, Finish
    PROVE  PointsTell' /\ rows'.series = AllPoints
<1>1. /\ phase' = "finished" /\ clock.now = NTimes + 1 /\ clock' = clock
      /\ buffers' = NoBuffers /\ money' = money /\ steps' = steps
    BY FinishParts
<1>2. /\ rows'.series = WithPoints(rows.series, buffers.points)
      /\ rows'.summary = <<[finalEquity |-> Equity(money), drawdown |-> money.drawdown]>>
    BY FinishFields
<1>3. rows'.series = AllPoints
    BY <1>2, PointsStored
<1>4. buffers'.points = <<>>
    BY <1>1 DEF NoBuffers
<1>5. IsSeq(AllPoints) /\ Performed(AllPoints, money.peak, money.drawdown) /\ TimesTell(AllPoints)
    BY DEF PointsTell, Performed
<1>6. AllPoints' = AllPoints
  <2> DEFINE P == AllPoints
  <2>1. AllPoints' = P \o <<>> /\ IsSeq(P)
      BY <1>3, <1>4, <1>5 DEF AllPoints
  <2> HIDE DEF P
  <2>2. P \o <<>> = P
      BY <2>1, JoinedEmpty
  <2> QED
      BY <2>1, <2>2 DEF P
<1>7. Performed(AllPoints, money.peak, money.drawdown)'
    BY <1>1, <1>5, <1>6, Zenon
<1>8. TimesTell(AllPoints)'
  <2> DEFINE P == AllPoints
  <2>1. TimesTell(P) /\ AllPoints' = P
      BY <1>5, <1>6
  <2>2. TimesTell(P)'
    <3>1. IsOpen' = IsOpen
        BY <1>1 DEF IsOpen
    <3>2. P' = P
        BY <2>1
    <3>3. Equity(money)' = Equity(money)
        BY <1>1
    <3> HIDE DEF P
    <3> QED
        BY <1>1, <2>1, <3>1, <3>2, <3>3 DEF TimesTell
  <2> QED
      BY <2>2
<1>9. IsSeq(rows'.series) /\ IsSeq(buffers'.points) /\ Len(buffers'.points) < ChunkSize
    BY <1>3, <1>4, <1>5, EmptySeqFacts, ConstantFacts
<1>10. clock'.now > NTimes
    BY <1>1, ConstantFacts
<1>11. rows'.summary = <<[finalEquity |-> Equity(money'), drawdown |-> money'.drawdown]>>
    BY <1>1, <1>2
<1>12. PointsTell'
    BY <1>1, <1>4, <1>7, <1>8, <1>9, <1>10, <1>11 DEF PointsTell
<1> QED
    BY <1>3, <1>12

LEMMA BlocksFinish ==
    ASSUME Shape, BlocksTell, Finish
    PROVE  BlocksTell'
<1>1. rows'.risk = [blocked |-> counts.blocked, traces |-> TracesInAll]
      /\ counts'.blocked = counts.blocked
    BY FinishFields
<1>2. steps' = steps
    BY FinishParts
<1> QED
    BY <1>1, <1>2 DEF BlocksTell

\* A run that has no bar yet, or none any more.
NoBars ==
    /\ rows.series = <<>> /\ buffers.points = <<>> /\ money = AtStart /\ steps = <<>>
    /\ clock.last = 0 /\ clock.now \in 1..NTimes /\ counts.blocked = 0
    /\ phase # "finished"
    /\ phase \in {"canceled", "raised"} => rows = NoRows

LEMMA PointsAtRest == NoBars => PointsTell /\ BlocksTell
<1> SUFFICES ASSUME NoBars PROVE PointsTell /\ BlocksTell
    OBVIOUS
<1> USE DEF NoBars
<1>1. money.peak = InitialCash /\ money.drawdown = NoDrawdown
    BY DEF AtStart
<1>2. IsSeq(<<>>) /\ Len(<<>>) = 0
    BY EmptySeqFacts
<1>3. AllPoints = <<>>
    BY <1>2, JoinedEmpty DEF AllPoints
<1>4. Performed(<<>>, InitialCash, NoDrawdown)
    BY <1>2, NoPoints
<1>5. Performed(AllPoints, money.peak, money.drawdown)
    BY <1>1, <1>3, <1>4
<1>6. ~IsOpen /\ ~(clock.now > NTimes)
    BY ConstantFacts DEF IsOpen
<1>7. Len(AllPoints) = 0 /\ Len(steps) = 0 /\ 1..0 = {}
    BY <1>2, <1>3
<1>8. TimesTell(AllPoints)
    BY <1>6, <1>7 DEF TimesTell
<1>9. BlocksTell
    BY <1>7 DEF BlocksTell
<1>10. IsSeq(rows.series) /\ IsSeq(buffers.points) /\ Len(buffers.points) < ChunkSize
    BY <1>2, ConstantFacts
<1> QED
    BY <1>5, <1>8, <1>9, <1>10 DEF PointsTell

LEMMA PointsInit == Init => PointsTell /\ BlocksTell
<1> SUFFICES ASSUME Init PROVE PointsTell /\ BlocksTell
    OBVIOUS
<1>1. /\ rows = [NoRows EXCEPT !.status = "running"] /\ buffers = NoBuffers
      /\ counts = NoCounts /\ money = AtStart /\ steps = <<>> /\ phase = "running"
      /\ \E first \in 1..NTimes : clock = [NoClock EXCEPT !.now = first]
    BY DEF Init
<1>2. rows.series = <<>> /\ buffers.points = <<>> /\ counts.blocked = 0
    BY <1>1 DEF NoRows, NoBuffers, NoCounts
<1>3. clock.last = 0 /\ clock.now \in 1..NTimes
    BY <1>1 DEF NoClock
<1>4. NoBars
    BY <1>1, <1>2, <1>3 DEF NoBars
<1> QED
    BY <1>4, PointsAtRest

LEMMA PointsUndone ==
    ASSUME NEW how \in {"canceled", "raised"}, Undone(how)
    PROVE  PointsTell' /\ BlocksTell'
<1>1. /\ rows' = NoRows /\ buffers' = NoBuffers /\ counts' = NoCounts /\ steps' = <<>>
      /\ phase' \in {"canceled", "raised"} /\ money' = AtStart /\ clock' = NoClock
    BY UndoneParts
<1>2. rows'.series = <<>> /\ buffers'.points = <<>> /\ counts'.blocked = 0
    BY <1>1 DEF NoRows, NoBuffers, NoCounts
<1>3. clock'.last = 0 /\ clock'.now \in 1..NTimes
    BY <1>1, ConstantFacts, RecordsAssumption DEF NoClock
<1>4. NoBars'
    BY <1>1, <1>2, <1>3 DEF NoBars
<1>5. (NoBars => PointsTell /\ BlocksTell)'
    BY PointsAtRest, PTL
<1> QED
    BY <1>4, <1>5

LEMMA PointsStep ==
    Shape /\ PointsTell /\ BlocksTell /\ [Next]_vars => PointsTell' /\ BlocksTell'
<1> SUFFICES ASSUME Shape, PointsTell, BlocksTell, [Next]_vars PROVE PointsTell' /\ BlocksTell'
    OBVIOUS
<1>1. CASE UNCHANGED vars
  <2>1. /\ rows' = rows /\ buffers' = buffers /\ steps' = steps /\ counts' = counts
        /\ money' = money /\ phase' = phase /\ clock' = clock
      BY <1>1 DEF vars, data
  <2>2. AllPoints' = AllPoints /\ IsOpen' = IsOpen /\ Equity(money)' = Equity(money)
      BY <2>1 DEF AllPoints, IsOpen
  <2>3. TimesTell(AllPoints)'
    <3> DEFINE P == AllPoints
    <3>1. TimesTell(P) /\ P' = P
        BY <2>2 DEF PointsTell
    <3> HIDE DEF P
    <3>2. TimesTell(P)'
        BY <2>1, <2>2, <3>1 DEF TimesTell
    <3> QED
        BY <3>2 DEF P
  <2>4. Performed(AllPoints, money.peak, money.drawdown)'
    <3>1. Performed(AllPoints, money.peak, money.drawdown)
        BY DEF PointsTell
    <3> QED
        BY <3>1, <2>1, <2>2, Zenon
  <2>5. PointsTell'
      BY <2>1, <2>3, <2>4 DEF PointsTell
  <2>6. BlocksTell'
      BY <2>1 DEF BlocksTell
  <2> QED
      BY <2>5, <2>6
<1>2. ASSUME NEW s \in Symbols, NEW decision \in Decisions, NEW filled \in SUBSET pending[s],
             StepBar(s, filled, decision)
      PROVE  PointsTell' /\ BlocksTell'
    BY <1>2, PointsStepBar, BlocksStepBar
<1>3. ASSUME NEW next \in NextTimes, EndGroup(next) PROVE PointsTell' /\ BlocksTell'
  <2>1. counts' = counts /\ steps' = steps /\ phase' = "running"
      BY <1>3, EndGroupParts
  <2>2. BlocksTell'
      BY <2>1 DEF BlocksTell
  <2> QED
      BY <1>3, <2>2, PointsEndGroup
<1>4. CASE Finish
    BY <1>4, PointsFinish, BlocksFinish
<1>5. ASSUME NEW how \in {"canceled", "raised"}, Undone(how) PROVE PointsTell' /\ BlocksTell'
    BY <1>5, PointsUndone
<1> QED
    BY <1>1, <1>2, <1>3, <1>4, <1>5 DEF Next

\* The shape of a run's rows and counters, at every step and for every run.
THEOREM RecordsTypeOK == Spec => []TypeOK
<1>1. Init => Shape /\ OrdersTell /\ TracesTell /\ PointsTell /\ BlocksTell
    BY ShapeInit, OrdersInit, TracesInit, PointsInit
<1>2. Shape /\ OrdersTell /\ TracesTell /\ PointsTell /\ BlocksTell /\ [Next]_vars
          => (Shape /\ OrdersTell /\ TracesTell /\ PointsTell /\ BlocksTell)'
    BY ShapeStep, OrdersStep, TracesStep, PointsStep
<1>3. Shape /\ OrdersTell /\ TracesTell /\ PointsTell => TypeOK
  <2> SUFFICES ASSUME Shape, OrdersTell, TracesTell, PointsTell PROVE TypeOK
      OBVIOUS
  <2>1. /\ options \in Options /\ bars \in Paths
        /\ phase \in {"running", "finished", "canceled", "raised"}
        /\ \A s \in Symbols : pending[s] \subseteq DOMAIN sides
        /\ clock.now \in 1..(NTimes + 1) /\ clock.step = Len(steps)
        /\ sides \in Seq(Sides)
      BY DEF Shape
  <2>2. /\ DOMAIN sides = 1..Len(sides)
        /\ NamesRows(maps.orders) /\ Len(maps.orders) = Len(sides)
        /\ DOMAIN maps.fills \subseteq 1..Len(sides)
      BY <2>1, LenProperties DEF OrdersTell, OrdersShape
  <2>3. DOMAIN maps.orders = DOMAIN sides /\ DOMAIN maps.fills \subseteq DOMAIN sides
      BY <2>2, SeqFacts DEF NamesRows
  <2>4. /\ Len(buffers.traces) < ChunkSize
        /\ counts.traces = Len(rows.traces) + Len(buffers.traces)
      BY DEF TracesTell
  <2>5. /\ Len(buffers.points) < ChunkSize
        /\ phase \in {"canceled", "raised"} => rows = NoRows
      BY DEF PointsTell
  <2> QED
      BY <2>1, <2>3, <2>4, <2>5 DEF TypeOK
<1> QED
    BY <1>1, <1>2, <1>3, PTL DEF Spec

\* What the other reports read of a finished run: its series, its traces and its
\* counts, and how they stand to the steps.
LEMMA PointsAtTheEnd ==
    ASSUME Shape, PointsTell, phase = "finished"
    PROVE  /\ rows.series = AllPoints /\ IsSeq(rows.series) /\ clock.now > NTimes
           /\ Performed(rows.series, money.peak, money.drawdown)
           /\ TimesTell(rows.series) /\ Len(rows.series) # 0
           /\ {rows.series[i].ts : i \in 1..Len(rows.series)} = {steps[k].at : k \in 1..Len(steps)}
<1>1. /\ IsSeq(rows.series) /\ buffers.points = <<>> /\ clock.now > NTimes
      /\ Performed(AllPoints, money.peak, money.drawdown) /\ TimesTell(AllPoints)
    BY DEF PointsTell
<1>2. AllPoints = rows.series
    BY <1>1, JoinedEmpty DEF AllPoints
<1>3. Performed(rows.series, money.peak, money.drawdown) /\ TimesTell(rows.series)
    BY <1>1, <1>2
<1> DEFINE P == rows.series
<1>4. TimesTell(P)
    BY <1>3
<1> HIDE DEF P
<1>5. ~IsOpen
  <2>1. clock.now \in Int
      BY DEF Shape
  <2> QED
      BY <2>1, <1>1, ConstantFacts DEF IsOpen
<1>6. /\ Len(P) # 0
      /\ \A i \in 1..Len(P) : \E k \in 1..Len(steps) : steps[k].at = P[i].ts
    BY <1>1, <1>4 DEF TimesTell
<1>7. \A k \in 1..Len(steps) : \E i \in 1..Len(P) : steps[k].at = P[i].ts
    BY <1>4, <1>5 DEF TimesTell
<1>8. {P[i].ts : i \in 1..Len(P)} = {steps[k].at : k \in 1..Len(steps)}
  <2>1. ASSUME NEW i \in 1..Len(P) PROVE P[i].ts \in {steps[k].at : k \in 1..Len(steps)}
    <3>1. PICK k \in 1..Len(steps) : steps[k].at = P[i].ts
        BY <1>6
    <3> QED
        BY <3>1
  <2>2. ASSUME NEW k \in 1..Len(steps) PROVE steps[k].at \in {P[i].ts : i \in 1..Len(P)}
    <3>1. PICK i \in 1..Len(P) : steps[k].at = P[i].ts
        BY <1>7
    <3> QED
        BY <3>1
  <2> QED
      BY <2>1, <2>2
<1> QED
    BY <1>1, <1>2, <1>3, <1>6, <1>8 DEF P

\* There are as many points as times that had a bar, so that no more minutes are
\* reported missing than had none.
LEMMA MissingAreMissing ==
    ASSUME Shape, PointsTell, phase = "finished"
    PROVE  MissingTimepoints(rows.series, StartTime, NTimes) <=
               Cardinality((StartTime..NTimes) \ {steps[k].at : k \in 1..Len(steps)})
<1> DEFINE P == rows.series
           n == Len(P)
           had == {steps[k].at : k \in 1..Len(steps)}
           W == StartTime..NTimes
           f == [i \in 1..n |-> P[i].ts]
           e == ExpectedTimepoints(StartTime, NTimes)
<1>1. had = {P[i].ts : i \in 1..n} /\ IsSeq(P) /\ Performed(P, money.peak, money.drawdown)
    BY PointsAtTheEnd
<1> HIDE DEF had, P
<1>2. /\ n \in Nat /\ \A i, j \in 1..n : i < j => P[i].ts < P[j].ts
      /\ \A i \in 1..n : P[i].ts \in Int
  <2>1. /\ \A i, j \in 1..n : i < j => P[i].ts < P[j].ts
        /\ \A i \in 1..n : IsPoint(P, i)
      BY <1>1 DEF Performed
  <2> QED
      BY <2>1, <1>1, SeqFacts DEF IsPoint
<1>3. IsFiniteSet(1..n) /\ Cardinality(1..n) = n
    BY <1>2, FS_Interval
<1> HIDE DEF n
<1>4. f \in Surjection(1..n, had)
    BY <1>1 DEF Surjection
<1>5. f \in Injection(1..n, had)
  <2>1. f \in [1..n -> had]
      BY <1>1
  <2>2. ASSUME NEW i \in 1..n, NEW j \in 1..n, f[i] = f[j] PROVE i = j
    <3>1. P[i].ts = P[j].ts
        BY <2>2
    <3>2. ~(i < j) /\ ~(j < i)
        BY <3>1, <1>2
    <3> QED
        BY <3>2, <1>2
  <2> QED
      BY <2>1, <2>2 DEF Injection, IsInjective
<1> HIDE DEF f
<1>6. IsFiniteSet(had) /\ Cardinality(had) = n
    BY <1>3, <1>4, <1>5, FS_Surjection
<1>7. IsFiniteSet(W) /\ Cardinality(W) = NTimes - StartTime + 1
    BY ConstantFacts, FS_Interval
<1>8. e \in Nat /\ e <= NTimes - StartTime
    BY ConstantFacts DEF ExpectedTimepoints
<1> HIDE DEF W, e
<1>9. Cardinality(W \cap had) <= n /\ Cardinality(W \cap had) \in Nat
    BY <1>6, FS_Intersection, FS_CardinalityType
<1>10. Cardinality(W \ had) = Cardinality(W) - Cardinality(W \cap had) /\ Cardinality(W \ had) \in Nat
    BY <1>7, FS_Difference, FS_CardinalityType
<1>11. e - n <= Cardinality(W \ had)
    BY <1>2, <1>7, <1>8, <1>9, <1>10, ConstantFacts
<1>12. Max({e - n, 0}) = (IF e - n >= 0 THEN e - n ELSE 0)
  <2>1. e - n \in Int /\ 0 \in Int
      BY <1>2, <1>8
  <2> QED
      BY <2>1, MaxOfTwo
<1>13. MissingTimepoints(P, StartTime, NTimes) = Max({e - n, 0})
    BY DEF MissingTimepoints, e, n
<1>14. Max({e - n, 0}) <= Cardinality(W \ had)
    BY <1>10, <1>11, <1>12
<1> QED
    BY <1>13, <1>14, Zenon DEF W, had, P

\* Where intents were blocked, the last trace that shows it is of the last step
\* at which it happened.
LEMMA AnchorsAreLast ==
    ASSUME Shape, TracesTell, BlocksTell, phase = "finished",
           NEW blocked, blocked = {k \in 1..Len(steps) : steps[k].blocked # {}}
    PROVE  /\ rows.risk.blocked \in Nat /\ (rows.risk.blocked = 0 <=> blocked = {})
           /\ Anchors(rows, {BlockCode}) =
                  (IF blocked = {} THEN {} ELSE {[code |-> BlockCode, step |-> Max(blocked)]})
<1> DEFINE T == rows.traces
           S == steps
           at == BlockedTraces(T, BlockCode)
           m == Max(at)
<1>1. /\ rows.risk.blocked \in Nat
      /\ rows.risk.blocked = 0 <=> \A k \in 1..Len(S) : S[k].blocked = {}
      /\ \A k \in 1..Len(S) : S[k].blocked \in {{}, {BlockCode}}
    BY DEF BlocksTell
<1>2. rows.risk.blocked = 0 <=> blocked = {}
    BY <1>1
<1>3. TraceCore(T, S, Gain)
    BY DEF TracesTell, Settled
<1> HIDE DEF T, S
<1>4. /\ IsSeq(T) /\ IsSteps(S) /\ Rises(T) /\ Linked(T, S)
      /\ \A k \in 1..Len(S) : IsActivity(S[k]) => HasRowIn(T, k)
    BY <1>3 DEF TraceCore
<1>5. /\ DOMAIN T = 1..Len(T) /\ Len(T) \in Nat /\ Len(S) \in Nat
      /\ \A i \in 1..Len(T) : T[i].step \in 1..Len(S) /\ T[i].blocked = S[T[i].step].blocked
    BY <1>4, SeqFacts DEF Linked, Tells, IsSteps
<1>6. at = {i \in 1..Len(T) : BlockCode \in T[i].blocked}
    BY <1>5 DEF BlockedTraces
<1>7. \A i \in at : i \in 1..Len(T) /\ T[i].step \in blocked
    BY <1>5, <1>6 DEF S
<1>8. ASSUME NEW k \in blocked PROVE \E i \in at : T[i].step = k
  <2>1. k \in 1..Len(S) /\ S[k].blocked # {} /\ BlockCode \in S[k].blocked
      BY <1>1, <1>8 DEF S
  <2>2. IsActivity(S[k])
      BY <2>1 DEF IsActivity
  <2>3. PICK i \in 1..Len(T) : T[i].step = k
      BY <2>1, <2>2, <1>4 DEF HasRowIn
  <2> QED
      BY <2>1, <2>3, <1>5, <1>6
<1> HIDE DEF at
<1>9. ASSUME blocked # {} PROVE at # {} /\ T[m].step = Max(blocked)
  <2>1. at # {} /\ at \subseteq 1..Len(T) /\ blocked \subseteq 1..Len(S)
      BY <1>7, <1>8, <1>9 DEF S
  <2>2. m \in at /\ \A i \in at : i <= m
    <3>1. 1 \in Int /\ Len(T) \in Int
        BY <1>5
    <3> QED
        BY <2>1, <3>1, MaxOfTimes, Zenon DEF m
  <2>3. Max(blocked) \in blocked /\ \A k \in blocked : k <= Max(blocked)
    <3>1. 1 \in Int /\ Len(S) \in Int
        BY <1>5
    <3> QED
        BY <2>1, <3>1, <1>9, MaxOfTimes, Zenon
  <2> HIDE DEF m
  <2>4. T[m].step \in blocked /\ m \in 1..Len(T)
      BY <2>2, <1>7
  <2>5. PICK i \in at : T[i].step = Max(blocked)
      BY <2>3, <1>8
  <2>6. T[i].step <= T[m].step
    <3>1. i \in 1..Len(T) /\ i <= m
        BY <2>2, <2>5, <1>7
    <3>2. i = m \/ i < m
        BY <3>1, <2>4
    <3> QED
        BY <3>1, <3>2, <2>4, <1>4, <1>5 DEF Rises
  <2>7. T[m].step <= Max(blocked)
      BY <2>3, <2>4
  <2>8. T[m].step \in Int /\ Max(blocked) \in Int
      BY <2>1, <2>3, <2>4
  <2> QED
      BY <2>1, <2>5, <2>6, <2>7, <2>8
<1>10. Anchors(rows, {BlockCode}) =
           (IF rows.risk.blocked = 0 THEN {}
            ELSE {[code |-> c, step |-> T[Max(BlockedTraces(T, c))].step] :
                     c \in {d \in {BlockCode} : BlockedTraces(T, d) # {}}})
    BY DEF Anchors, T
<1>11. CASE blocked = {}
    BY <1>1, <1>2, <1>10, <1>11
<1>12. CASE blocked # {}
  <2>1. {d \in {BlockCode} : BlockedTraces(T, d) # {}} = {BlockCode}
      BY <1>9, <1>12 DEF at
  <2>2. Anchors(rows, {BlockCode}) =
            {[code |-> c, step |-> T[Max(BlockedTraces(T, c))].step] : c \in {BlockCode}}
      BY <2>1, <1>2, <1>10, <1>12
  <2>3. Anchors(rows, {BlockCode}) = {[code |-> BlockCode, step |-> T[m].step]}
      BY <2>2 DEF at
  <2> QED
      BY <2>3, <1>1, <1>2, <1>9, <1>12
<1> QED
    BY <1>11, <1>12

\* What the diagnostics claim of a finished run is so, for any run.
THEOREM DiagnosticsSayWhatHappened == Spec => []DiagnosticsAreTrue
<1>1. Init => Shape /\ OrdersTell /\ TracesTell /\ PointsTell /\ BlocksTell
    BY ShapeInit, OrdersInit, TracesInit, PointsInit
<1>2. Shape /\ OrdersTell /\ TracesTell /\ PointsTell /\ BlocksTell /\ [Next]_vars
          => (Shape /\ OrdersTell /\ TracesTell /\ PointsTell /\ BlocksTell)'
    BY ShapeStep, OrdersStep, TracesStep, PointsStep
<1>3. Shape /\ OrdersTell /\ TracesTell /\ PointsTell /\ BlocksTell => DiagnosticsAreTrue
  <2> SUFFICES ASSUME Shape, OrdersTell, TracesTell, PointsTell, BlocksTell, phase = "finished"
               PROVE  DiagnosticsAreTrue
      BY DEF DiagnosticsAreTrue, Finished
  <2> DEFINE had == {steps[k].at : k \in DOMAIN steps}
             blocked == {k \in DOMAIN steps : steps[k].blocked # {}}
             flags == Flags(rows, StartTime, NTimes)
  <2>1. DOMAIN steps = 1..Len(steps)
      BY SeqFacts DEF Shape
  <2>2. MissingTimepoints(rows.series, StartTime, NTimes) <= Cardinality((StartTime..NTimes) \ had)
      BY <2>1, MissingAreMissing
  <2>3. blocked = {k \in 1..Len(steps) : steps[k].blocked # {}}
      BY <2>1
  <2> HIDE DEF blocked, had
  <2>4. /\ rows.risk.blocked \in Nat /\ (rows.risk.blocked = 0 <=> blocked = {})
        /\ Anchors(rows, {BlockCode}) =
               (IF blocked = {} THEN {} ELSE {[code |-> BlockCode, step |-> Max(blocked)]})
      BY <2>3, AnchorsAreLast
  <2>5. "risk_blocks_present" \in flags <=> rows.risk.blocked > 0
      BY DEF Flags
  <2>6. "risk_blocks_present" \in flags <=> blocked # {}
      BY <2>4, <2>5
  <2>7. "no_fills_generated" \in flags => rows.orders # <<>> /\ rows.fills = <<>>
      BY DEF Flags
  <2> HIDE DEF flags
  <2>8. ASSUME rows.fills = <<>>, NEW i \in DOMAIN rows.orders
        PROVE  rows.orders[i].status = "expired"
    <3>1. i \in 1..Len(sides)
        BY <2>8, SeqFacts DEF OrdersTell, OrdersShape
    <3>2. FillsAt(i) = {}
      <4>1. Len(rows.fills) = 0
          BY <2>8, EmptySeqFacts
      <4> QED
          BY <4>1 DEF FillsAt
    <3>3. ~IsFilled(i)
        BY <3>1, <3>2 DEF OrdersTell, FillsTell
    <3> QED
        BY <3>1, <3>3 DEF OrdersTell, PendingTell
  <2>9. "no_fills_generated" \in flags =>
            rows.orders # <<>> /\ \A i \in DOMAIN rows.orders : rows.orders[i].status = "expired"
      BY <2>7, <2>8
  <2> QED
      BY <2>2, <2>4, <2>6, <2>9, Zenon DEF DiagnosticsAreTrue, had, blocked, flags
<1> QED
    BY <1>1, <1>2, <1>3, PTL DEF Spec

-----------------------------------------------------------------------------
(* The summary and the periods, of any list of points.                     *)

Ratios == [num : Nat, den : Nat \ {0}]

LEMMA RatiosFacts ==
    /\ NoDrawdown \in Ratios
    /\ \A peak, equity \in Int : peak >= equity => Drawdown(peak, equity) \in Ratios
    /\ \A d \in Ratios : IsRatio(d)
    /\ \A a, b \in Ratios : Deeper(a, b) \in Ratios
BY DEF Ratios, Drawdown, NoDrawdown, IsRatio, Deeper

LEMMA DrawdownsFacts ==
    ASSUME NEW P, NEW peak, NEW deepest, Performed(P, peak, deepest), NEW D, Deepens(P, D)
    PROVE  /\ Len(P) \in Nat /\ \A i \in 1..Len(P) : P[i].drawdown \in Ratios
           /\ \A i \in 0..Len(P) : D[i] \in Ratios
           /\ \A i \in 1..Len(P) : NotDeeper(P[i].drawdown, D[Len(P)])
<1> DEFINE n == Len(P)
           d(i) == P[i].drawdown
<1>1. /\ n \in Nat /\ \A i \in 1..n : IsPoint(P, i)
      /\ D[0] = NoDrawdown /\ \A i \in 1..n : D[i] = Deeper(D[i - 1], d(i))
    BY SeqFacts DEF Performed, Deepens
<1> HIDE DEF n
<1>2. ASSUME NEW i \in 1..n PROVE d(i) \in Ratios
  <2>1. PICK q \in Int : /\ \A j \in 1..i : P[j].equity <= q
                         /\ d(i) = Drawdown(q, P[i].equity)
      BY <1>1 DEF IsPoint
  <2>2. P[i].equity \in Int /\ i \in 1..i
      BY <1>1 DEF IsPoint
  <2>3. q >= P[i].equity
      BY <2>1, <2>2
  <2> QED
      BY <2>1, <2>2, <2>3, RatiosFacts
<1> HIDE DEF d
<1> DEFINE Bad == {k \in Nat : k <= n /\ D[k] \notin Ratios}
<1>3. Bad = {}
  <2> SUFFICES ASSUME Bad # {} PROVE FALSE
      OBVIOUS
  <2>1. PICK k \in Bad : \A j \in Bad : k <= j
      BY LeastNatural
  <2>2. CASE k = 0
      BY <2>1, <2>2, <1>1, RatiosFacts
  <2>3. CASE k # 0
    <3>1. k \in 1..n /\ k - 1 \in Nat /\ k - 1 <= n /\ ~(k <= k - 1)
        BY <2>1, <2>3, <1>1
    <3>2. D[k - 1] \in Ratios
        BY <2>1, <3>1
    <3> QED
        BY <2>1, <3>1, <3>2, <1>1, <1>2, RatiosFacts
  <2> QED
      BY <2>2, <2>3
<1>4. \A i \in 0..n : D[i] \in Ratios
    BY <1>1, <1>3
<1>5. ASSUME NEW i \in 1..n PROVE NotDeeper(d(i), D[n])
  <2> DEFINE Late == {k \in Nat : i <= k /\ k <= n /\ ~NotDeeper(d(i), D[k])}
  <2>1. Late = {}
    <3> SUFFICES ASSUME Late # {} PROVE FALSE
        OBVIOUS
    <3>1. PICK k \in Late : \A j \in Late : k <= j
        BY LeastNatural
    <3>2. k \in 1..n /\ k \in 0..n /\ k - 1 \in 0..n /\ k - 1 \in Nat /\ ~(k <= k - 1)
        BY <3>1, <1>1
    <3>3. /\ D[k] = Deeper(D[k - 1], d(k))
          /\ IsRatio(D[k]) /\ IsRatio(D[k - 1]) /\ IsRatio(d(k)) /\ IsRatio(d(i))
        BY <3>2, <1>1, <1>2, <1>4, RatiosFacts
    <3>4. NotDeeper(D[k - 1], D[k]) /\ NotDeeper(d(k), D[k])
        BY <3>3, DeeperFacts
    <3>5. CASE k = i
        BY <3>1, <3>4, <3>5
    <3>6. CASE k # i
      <4>1. i <= k - 1 /\ k - 1 <= n
          BY <3>1, <3>2, <3>6
      <4>2. NotDeeper(d(i), D[k - 1])
          BY <4>1, <3>1, <3>2
      <4>3. NotDeeper(d(i), D[k])
          BY <4>2, <3>3, <3>4, NotDeeperThrough
      <4> QED
          BY <4>3, <3>1
    <3> QED
        BY <3>5, <3>6
  <2>2. n \in Nat /\ i <= n /\ n <= n
      BY <1>1
  <2> QED
      BY <2>1, <2>2
<1> QED
    BY <1>1, <1>2, <1>4, <1>5 DEF n, d

\* The fold of summarize_performance ends with the drawdown that the loop kept.
FoldOfDrawdowns(P) ==
    FoldLeft(LAMBDA d, p : Deeper(d, p.drawdown), P[1].drawdown, P)

LEMMA FoldIsDeepest ==
    ASSUME NEW P, NEW peak, NEW deepest, Performed(P, peak, deepest), Len(P) # 0
    PROVE  FoldOfDrawdowns(P) = deepest
<1> DEFINE n == Len(P)
           base == P[1].drawdown
           seq == [i \in 1..n |-> P[i].drawdown]
           F == [p \in Ratios \X Ratios |-> Deeper(p[1], p[2])]
           Loop(j) == j = [s \in SUBSET DOMAIN P |->
                              IF s = {} THEN base
                              ELSE Deeper(j[s \ {Max(s)}], P[Max(s)].drawdown)]
           it == CHOOSE j : Loop(j)
<1>1. PICK D : Deepens(P, D) /\ deepest = D[n]
    BY DEF Performed
<1>2. /\ n \in Nat \ {0} /\ \A i \in 1..n : P[i].drawdown \in Ratios
      /\ \A i \in 0..n : D[i] \in Ratios
    BY <1>1, DrawdownsFacts
<1>3. DOMAIN P = 1..n
    BY SeqFacts DEF Performed
<1>4. FoldOfDrawdowns(P) = it[DOMAIN P]
    BY DEF FoldOfDrawdowns, FoldLeft, MapThenFoldSet
<1>5. /\ base \in Ratios /\ \A i \in 1..n : seq[i] \in Ratios /\ seq[i] = P[i].drawdown
    BY <1>2
<1> HIDE DEF seq, n, base
<1>6. PICK j : IsFold(j, F, base, seq, n) /\ \A s \in SUBSET (1..n) : j[s] \in Ratios
  <2>1. F \in [Ratios \X Ratios -> Ratios]
    <3> HIDE DEF F
    <3>1. F = [p \in Ratios \X Ratios |-> Deeper(p[1], p[2])]
        BY DEF F
    <3>2. \A p \in Ratios \X Ratios : Deeper(p[1], p[2]) \in Ratios
        BY RatiosFacts
    <3> QED
        BY <3>1, <3>2
  <2>2. n \in Nat
      BY <1>2
  <2> HIDE DEF F
  <2> QED
      BY <2>1, <2>2, <1>5, FoldExists, Zenon
<1>7. Loop(j)
  <2> DEFINE Before(s) == IF s = {} THEN base ELSE F[<<j[s \ {Max(s)}], seq[Max(s)]>>]
             After(s) == IF s = {} THEN base ELSE Deeper(j[s \ {Max(s)}], P[Max(s)].drawdown)
  <2>1. ASSUME NEW s \in SUBSET (1..n)
        PROVE  Before(s) = After(s)
    <3>1. CASE s = {}
        BY <3>1
    <3>2. CASE s # {}
      <4>1. Max(s) \in s
        <5>1. 1 \in Int /\ n \in Int /\ s \subseteq 1..n
            BY <1>2
        <5> QED
            BY <5>1, <3>2, MaxOfTimes, Zenon
      <4>2. /\ seq[Max(s)] \in Ratios /\ seq[Max(s)] = P[Max(s)].drawdown
            /\ j[s \ {Max(s)}] \in Ratios
          BY <4>1, <1>5, <1>6
      <4>3. F[<<j[s \ {Max(s)}], seq[Max(s)]>>] = Deeper(j[s \ {Max(s)}], seq[Max(s)])
          BY <4>2
      <4> HIDE DEF F
      <4> QED
          BY <4>2, <4>3
    <3> QED
        BY <3>1, <3>2
  <2>2. j = [s \in SUBSET (1..n) |-> Before(s)]
      BY <1>6 DEF IsFold
  <2>3. Loop(j) <=> j = [s \in SUBSET (1..n) |-> After(s)]
      BY <1>3
  <2> HIDE DEF Before, After, Loop
  <2>4. [s \in SUBSET (1..n) |-> Before(s)] = [s \in SUBSET (1..n) |-> After(s)]
      BY <2>1
  <2> QED
      BY <2>2, <2>3, <2>4, Zenon
<1>8. Loop(it)
  <2> HIDE DEF Loop
  <2> QED
      BY <1>7
<1> HIDE DEF it, F
<1>9. it[{}] = base
    BY <1>8
<1>10. ASSUME NEW k \in 1..n
       PROVE  it[1..k] = Deeper(it[1..(k - 1)], P[k].drawdown)
  <2>1. /\ 1..k \in SUBSET (1..n) /\ 1..k # {}
        /\ Max(1..k) = k /\ (1..k) \ {k} = 1..(k - 1)
      BY <1>2, PrefixOfPositions
  <2>2. it[1..k] = Deeper(it[(1..k) \ {Max(1..k)}], P[Max(1..k)].drawdown)
      BY <1>8, <1>3, <2>1
  <2> QED
      BY <2>1, <2>2
<1> HIDE DEF Loop
<1>11. D[1] = base /\ it[1..1] = base
  <2>1. 1 \in 1..n /\ 1..0 = {} /\ IsRatio(base) /\ 1 - 1 = 0
      BY <1>2, <1>5, RatiosFacts
  <2>2. Deeper(NoDrawdown, base) = base /\ Deeper(base, base) = base
      BY <2>1, DeeperFacts
  <2>3. D[1] = Deeper(D[0], P[1].drawdown) /\ D[0] = NoDrawdown
      BY <2>1, <1>1 DEF Deepens, n
  <2>4. it[1..1] = Deeper(it[{}], P[1].drawdown)
      BY <2>1, <1>10
  <2> QED
      BY <2>2, <2>3, <2>4, <1>9 DEF base
<1> DEFINE Bad == {k \in Nat : k \in 1..n /\ it[1..k] # D[k]}
<1>12. Bad = {}
  <2> SUFFICES ASSUME Bad # {} PROVE FALSE
      OBVIOUS
  <2>1. PICK k \in Bad : \A i \in Bad : k <= i
      BY LeastNatural
  <2>2. k # 1 /\ k \in 1..n
      BY <2>1, <1>11
  <2>3. k - 1 \in 1..n /\ k - 1 \in Nat /\ ~(k <= k - 1)
      BY <2>2, <1>2
  <2>4. it[1..(k - 1)] = D[k - 1]
      BY <2>1, <2>3
  <2>5. D[k] = Deeper(D[k - 1], P[k].drawdown)
      BY <2>2, <1>1 DEF Deepens, n
  <2> QED
      BY <2>1, <2>2, <2>4, <2>5, <1>10
<1>13. it[1..n] = D[n]
  <2>1. n \in Nat /\ n \in 1..n
      BY <1>2
  <2> QED
      BY <2>1, <1>12
<1> QED
    BY <1>1, <1>3, <1>4, <1>13 DEF n


\* The positions at which a list of buckets changes.
Changes(B, n) == {i \in 1..n : i = 1 \/ B[i] # B[i - 1]}
EndsAt(B, n, i) == Min({j \in Changes(B, n) : j > i} \union {n + 1}) - 1

LEMMA ChangesFacts ==
    ASSUME NEW n \in Nat \ {0}, NEW B, \A i \in 1..n : B[i] \in Int,
           \A i, j \in 1..n : i <= j => B[i] <= B[j],
           NEW C, C = Changes(B, n), NEW S, S = Sorted(C), NEW m, m = Cardinality(C)
    PROVE  /\ m \in Nat \ {0} /\ S[1] = 1
           /\ \A k \in 1..m : S[k] \in C /\ S[k] \in 1..n
           /\ \A k, l \in 1..m : k < l => S[k] < S[l] /\ B[S[k]] < B[S[l]]
           /\ \A j \in 1..n : \E k \in 1..m : B[j] = B[S[k]]
           /\ \A i \in C : \E k \in 1..m : S[k] = i
<1>1. C \subseteq 1..n /\ C \subseteq Int /\ 1 \in C
    BY DEF Changes
<1>2. IsFiniteSet(C) /\ m \in Nat
  <2>1. IsFiniteSet(1..n)
    <3>1. 1 \in Int /\ n \in Int
        OBVIOUS
    <3> QED
        BY <3>1, FS_Interval
  <2>2. IsFiniteSet(C)
      BY <1>1, <2>1, FS_Subset
  <2> QED
      BY <2>2, FS_CardinalityType
<1>3. m # 0
    BY <1>1, <1>2, FS_EmptySet
<1>4. /\ DOMAIN S = 1..m /\ \A k \in 1..m : S[k] \in C
      /\ \A i \in C : \E k \in 1..m : S[k] = i
      /\ \A k, l \in 1..m : k < l => S[k] < S[l]
  <2>1. /\ S \in Seq(C) /\ Len(S) = m /\ DOMAIN S = 1..m
        /\ \A i \in C : \E k \in DOMAIN S : S[k] = i
        /\ \A k, l \in DOMAIN S : k < l => S[k] < S[l]
      BY <1>1, <1>2, SortedFacts
  <2>2. \A k \in 1..m : S[k] \in C
      BY <2>1, ElementOfSeq
  <2> QED
      BY <2>1, <2>2
<1>5. S[1] = 1
  <2>1. 1 \in 1..m /\ S[1] \in C
      BY <1>2, <1>3, <1>4
  <2>2. PICK k \in 1..m : S[k] = 1
      BY <1>1, <1>4
  <2>3. k = 1 \/ 1 < k
      BY <1>2
  <2>4. ~(S[1] < 1)
      BY <2>1, <1>1
  <2> QED
      BY <2>1, <2>2, <2>3, <2>4, <1>4
<1>6. ASSUME NEW k \in 1..m, NEW l \in 1..m, k < l PROVE B[S[k]] < B[S[l]]
  <2> DEFINE a == S[k]
             z == S[l]
  <2>1. a \in 1..n /\ z \in 1..n /\ a < z /\ z \in C
      BY <1>1, <1>4, <1>6
  <2> HIDE DEF a, z
  <2>2. z - 1 \in 1..n /\ a <= z - 1 /\ z - 1 <= z /\ z # 1
      BY <2>1
  <2>3. B[z] # B[z - 1]
      BY <2>1, <2>2 DEF Changes
  <2>4. B[a] <= B[z - 1] /\ B[z - 1] <= B[z] /\ B[a] \in Int /\ B[z - 1] \in Int /\ B[z] \in Int
      BY <2>1, <2>2
  <2> QED
      BY <2>3, <2>4 DEF a, z
<1>7. \A j \in 1..n : \E k \in 1..m : B[j] = B[S[k]]
  <2> DEFINE Bad == {j \in Nat : j \in 1..n /\ ~ \E k \in 1..m : B[j] = B[S[k]]}
  <2> SUFFICES ASSUME Bad # {} PROVE FALSE
      OBVIOUS
  <2>1. PICK j \in Bad : \A i \in Bad : j <= i
      BY LeastNatural
  <2>2. j \in 1..n /\ ~ \E k \in 1..m : B[j] = B[S[k]]
      BY <2>1
  <2>3. j \notin C
      BY <2>2, <1>4
  <2>4. j # 1 /\ B[j] = B[j - 1]
      BY <2>2, <2>3 DEF Changes
  <2>5. j - 1 \in 1..n /\ j - 1 \in Nat /\ ~(j <= j - 1)
      BY <2>2, <2>4
  <2>6. j - 1 \in Bad
      BY <2>2, <2>4, <2>5
  <2> QED
      BY <2>1, <2>5, <2>6
<1>8. \A k \in 1..m : S[k] \in 1..n
    BY <1>1, <1>4
<1>9. \A k, l \in 1..m : k < l => S[k] < S[l] /\ B[S[k]] < B[S[l]]
    BY <1>4, <1>6
<1>10. m \in Nat \ {0}
    BY <1>2, <1>3
<1> QED
    BY <1>4, <1>5, <1>7, <1>8, <1>9, <1>10

\* A period ends before the next one starts, and the last one with the list.
LEMMA EndsFacts ==
    ASSUME NEW n \in Nat \ {0}, NEW B, \A i \in 1..n : B[i] \in Int,
           \A i, j \in 1..n : i <= j => B[i] <= B[j],
           NEW C, C = Changes(B, n), NEW S, S = Sorted(C), NEW m, m = Cardinality(C)
    PROVE  /\ \A k \in 1..m : k < m => EndsAt(B, n, S[k]) = S[k + 1] - 1
           /\ EndsAt(B, n, S[m]) = n
           /\ \A k \in 1..m : S[k] <= EndsAt(B, n, S[k]) /\ EndsAt(B, n, S[k]) \in 1..n
<1>1. /\ m \in Nat \ {0}
      /\ \A k \in 1..m : S[k] \in C /\ S[k] \in 1..n
      /\ \A k, l \in 1..m : k < l => S[k] < S[l]
      /\ \A i \in C : \E k \in 1..m : S[k] = i
    BY ChangesFacts
<1>2. C \subseteq 1..n
    BY DEF Changes
<1> DEFINE Later(i) == {j \in C : j > i} \union {n + 1}
<1>3. ASSUME NEW k \in 1..m
      PROVE  Min(Later(S[k])) = (IF k < m THEN S[k + 1] ELSE n + 1)
  <2> DEFINE least == IF k < m THEN S[k + 1] ELSE n + 1
             L == Later(S[k])
  <2>1. least \in L
    <3>1. CASE k < m
      <4>1. k + 1 \in 1..m /\ k < k + 1
          BY <3>1, <1>1
      <4>2. S[k + 1] \in C /\ S[k] < S[k + 1] /\ S[k + 1] \in Int /\ S[k] \in Int
          BY <4>1, <1>1
      <4> QED
          BY <3>1, <4>2
    <3> QED
        BY <3>1
  <2>2. ASSUME NEW y \in L PROVE least <= y
    <3>1. CASE y \in C /\ y > S[k]
      <4>1. PICK l \in 1..m : S[l] = y
          BY <3>1, <1>1
      <4>2. k < l
        <5>1. ~(l < k) /\ l # k
            BY <3>1, <4>1, <1>1
        <5> QED
            BY <5>1, <1>1
      <4>3. k + 1 \in 1..m /\ (k + 1 = l \/ k + 1 < l) /\ k < m
          BY <4>2, <1>1
      <4>4. S[k + 1] <= S[l]
          BY <4>3, <1>1
      <4> QED
          BY <4>1, <4>3, <4>4
    <3>2. CASE y = n + 1
      <4>1. k < m => k + 1 \in 1..m
          BY <1>1
      <4>2. k < m => S[k + 1] <= n + 1
          BY <4>1, <1>1
      <4> QED
          BY <3>2, <4>2
    <3> QED
        BY <3>1, <3>2
  <2>3. L \subseteq Int /\ least \in Int
      BY <1>2, <2>1
  <2> HIDE DEF L, least
  <2>4. Min(L) \in L /\ \A y \in L : Min(L) <= y
      BY <2>1, <2>2 DEF Min
  <2>5. Min(L) <= least /\ least <= Min(L) /\ Min(L) \in Int
      BY <2>1, <2>2, <2>3, <2>4
  <2> QED
      BY <2>3, <2>5 DEF L, least
<1>4. \A k \in 1..m : EndsAt(B, n, S[k]) = Min(Later(S[k])) - 1
    BY DEF EndsAt
<1> HIDE DEF Later
<1>5. ASSUME NEW k \in 1..m, k < m
      PROVE  /\ EndsAt(B, n, S[k]) = S[k + 1] - 1
             /\ S[k] <= EndsAt(B, n, S[k]) /\ EndsAt(B, n, S[k]) \in 1..n
  <2>1. k + 1 \in 1..m /\ k < k + 1
      BY <1>1, <1>5
  <2>2. S[k] < S[k + 1] /\ S[k] \in 1..n /\ S[k + 1] \in 1..n
      BY <2>1, <1>1
  <2>3. EndsAt(B, n, S[k]) = S[k + 1] - 1
      BY <1>3, <1>4, <1>5
  <2> QED
      BY <2>2, <2>3
<1>6. m \in 1..m /\ EndsAt(B, n, S[m]) = n /\ S[m] <= n /\ n \in 1..n
  <2>1. m \in 1..m /\ ~(m < m)
      BY <1>1
  <2>2. EndsAt(B, n, S[m]) = (n + 1) - 1
      BY <2>1, <1>3, <1>4
  <2> QED
      BY <2>1, <2>2, <1>1
<1>7. \A k \in 1..m : k < m \/ k = m
    BY <1>1
<1> QED
    BY <1>5, <1>6, <1>7

-----------------------------------------------------------------------------
(* Every order and every fill was written at the time of a bar.            *)

HadBar(S, t) == \E k \in 1..Len(S) : S[k].at = t
WhenTell ==
    /\ \A k \in 1..Len(steps) : steps[k].at \in 1..NTimes
    /\ \A i \in 1..Len(rows.orders) : HadBar(steps, rows.orders[i].at)
    /\ \A j \in 1..Len(rows.fills) : HadBar(steps, rows.fills[j].at)

LEMMA MarkedAtTheirTimes ==
    ASSUME Shape, OrdersShape, NEW ids, ids \subseteq 1..Len(sides), NEW status
    PROVE  LET new == WithStatus(rows.orders, ids, maps.orders, status)
           IN  /\ IsSeq(new) /\ Len(new) = Len(sides)
               /\ \A i \in 1..Len(sides) : new[i].at = rows.orders[i].at
<1> DEFINE n == Len(sides)
           table == rows.orders
           new == WithStatus(table, ids, maps.orders, status)
<1>1. /\ IsSeq(table) /\ Len(table) = n /\ NamesRows(maps.orders) /\ Len(maps.orders) = n
      /\ \A i \in 1..n : IsOrderRow(table[i])
    BY DEF OrdersShape
<1>2. IsMarked(new, table, ids, status)
    BY <1>1, WithStatusFacts
<1> HIDE DEF new, table
<1>3. ASSUME NEW i \in 1..n PROVE new[i].at = table[i].at
  <2>1. DOMAIN table[i] = {"sym", "at", "status", "signal"}
      BY <1>1 DEF IsOrderRow, OrderFields
  <2>2. Restated(table[i], status).at = table[i].at
      BY <2>1 DEF Restated
  <2>3. new[i] = Restated(table[i], status) \/ new[i] = table[i]
      BY <1>1, <1>2 DEF IsMarked
  <2> QED
      BY <2>2, <2>3
<1> QED
    BY <1>1, <1>2, <1>3 DEF IsMarked, new, table

LEMMA WhenStepBar ==
    ASSUME Shape, OrdersTell, WhenTell, NEW s \in Symbols, NEW filled, NEW decision,
           StepBar(s, filled, decision)
    PROVE  WhenTell'
<1> DEFINE n == Len(steps)
           now == StepNow(s, filled, decision)
           m == Len(sides)
           old == WithStatus(rows.orders, filled, maps.orders, "filled")
           orders == OrdersNow(s, filled, decision)
           new == FillRows(Sorted(filled), maps.orders, clock.now)
           fills == rows.fills \o new
<1>1. IsSeq(steps) /\ n \in Nat
    BY SeqFacts DEF Shape
<1>2. steps' = Append(steps, now) /\ filled \subseteq pending[s]
    BY StepBarParts
<1>3. now.at = clock.now /\ clock.now \in 1..NTimes
    BY BarTime, StepNowFields
<1>4. OrdersShape /\ PendingTell
    BY DEF OrdersTell
<1>5. /\ filled \subseteq 1..m /\ m \in Nat /\ filled \subseteq Int /\ IsFiniteSet(filled)
    BY <1>2, <1>4, FilledFacts
<1>6. rows'.orders = orders /\ rows'.fills = fills
  <2>1. rows'.orders = OrdersNow(s, filled, decision)
      BY StepBarOrders
  <2>2. rows'.fills = rows.fills \o FillRows(Sorted(filled), maps.orders, clock.now)
      BY StepBarFields
  <2> QED
      BY <2>1, <2>2
<1>7. /\ IsSeq(old) /\ Len(old) = m /\ \A i \in 1..m : old[i].at = rows.orders[i].at
    BY <1>4, <1>5, MarkedAtTheirTimes
<1>8. IsSeq(new) /\ Len(new) \in Nat /\ \A i \in 1..Len(new) : new[i].at = clock.now
  <2> DEFINE map == maps.orders
             at == clock.now
             r == FillRows(Sorted(filled), map, at)
  <2> HIDE DEF map, at
  <2>1. LET rs == FillRows(Sorted(filled), map, at)
        IN  /\ IsSeq(rs) /\ Len(rs) = Cardinality(filled) /\ Cardinality(filled) \in Nat
            /\ \A i \in 1..Cardinality(filled) :
                   /\ Sorted(filled)[i] \in filled /\ rs[i].order = map[Sorted(filled)[i]]
                   /\ rs[i].at = at
            /\ \A id \in filled : \E i \in 1..Cardinality(filled) : Sorted(filled)[i] = id
            /\ \A i, j \in 1..Cardinality(filled) :
                   Sorted(filled)[i] = Sorted(filled)[j] => i = j
      BY <1>5, FillRowsFacts, Zenon
  <2>2. IsSeq(r) /\ Len(r) \in Nat /\ \A i \in 1..Len(r) : r[i].at = at
      BY <2>1
  <2> QED
      BY <2>2 DEF map, at
<1>9. IsSeq(rows.fills) /\ Len(rows.orders) = m
    BY <1>4 DEF OrdersShape
<1>10. IsJoined(fills, rows.fills, new)
    BY <1>8, <1>9, ConcatJoins
<1>11. /\ \A i \in 1..Len(orders) : (i \in 1..m /\ orders[i].at = rows.orders[i].at)
                                    \/ orders[i].at = clock.now
  <2>1. CASE Created(decision)
    <3>1. orders = Append(old, OrderOf(s)) /\ OrderOf(s).at = clock.now
        BY <2>1 DEF OrdersNow, OrderOf
    <3> HIDE DEF orders, old, m
    <3>2. /\ Len(orders) = m + 1 /\ orders[m + 1] = OrderOf(s)
          /\ \A i \in 1..m : orders[i] = old[i]
        BY <3>1, <1>7, AppendSeq
    <3>3. \A i \in 1..(m + 1) : i \in 1..m \/ i = m + 1
        BY <1>5
    <3> QED
        BY <3>1, <3>2, <3>3, <1>7
  <2>2. CASE ~Created(decision)
    <3>1. orders = old
        BY <2>2 DEF OrdersNow
    <3> HIDE DEF orders, old, m
    <3> QED
        BY <3>1, <1>7
  <2> QED
      BY <2>1, <2>2
<1>12. \A i \in 1..Len(fills) : (\E j \in 1..Len(rows.fills) : fills[i].at = rows.fills[j].at)
                                \/ fills[i].at = clock.now
  <2> DEFINE a == Len(rows.fills)
             b == Len(new)
  <2>1. /\ a \in Nat /\ b \in Nat /\ Len(fills) = a + b
        /\ \A i \in 1..a : fills[i] = rows.fills[i]
        /\ \A i \in 1..b : fills[a + i] = new[i]
      BY <1>10 DEF IsJoined
  <2> HIDE DEF a, b, fills, new
  <2> SUFFICES ASSUME NEW i \in 1..(a + b)
               PROVE  (\E j \in 1..a : fills[i].at = rows.fills[j].at) \/ fills[i].at = clock.now
      BY <2>1 DEF a
  <2>2. CASE i \in 1..a
      BY <2>1, <2>2
  <2>3. CASE i \notin 1..a
    <3>1. i - a \in 1..b /\ i = a + (i - a)
        BY <2>1, <2>3
    <3>2. fills[i] = new[i - a]
        BY <2>1, <3>1
    <3> QED
        BY <3>1, <3>2, <1>8 DEF b
  <2> QED
      BY <2>2, <2>3
<1> HIDE DEF now, orders, fills, old, new, m
<1>13. /\ IsSeq(steps') /\ Len(steps') = n + 1 /\ steps'[n + 1] = now
       /\ \A k \in 1..n : steps'[k] = steps[k]
    BY <1>1, <1>2, AppendSeq
<1>14. \A k \in 1..(n + 1) : k \in 1..n \/ k = n + 1
    BY <1>1
<1>15. /\ \A k \in 1..Len(steps') : steps'[k].at \in 1..NTimes
       /\ \A t : HadBar(steps, t) => HadBar(steps', t)
       /\ HadBar(steps', clock.now)
  <2>1. n + 1 \in 1..(n + 1) /\ 1..n \subseteq 1..(n + 1)
      BY <1>1
  <2> QED
      BY <2>1, <1>3, <1>13, <1>14 DEF WhenTell, HadBar
<1>16. \A i \in 1..Len(rows'.orders) : HadBar(steps', rows'.orders[i].at)
    BY <1>6, <1>9, <1>11, <1>15 DEF WhenTell
<1>17. \A i \in 1..Len(rows'.fills) : HadBar(steps', rows'.fills[i].at)
    BY <1>6, <1>12, <1>15 DEF WhenTell
<1> QED
    BY <1>15, <1>16, <1>17 DEF WhenTell

LEMMA WhenFinish ==
    ASSUME Shape, OrdersTell, WhenTell, Finish
    PROVE  WhenTell'
<1> DEFINE m == Len(sides)
           orders == WithStatus(rows.orders, OpenNow, maps.orders, "expired")
<1>1. OrdersShape /\ PendingTell
    BY DEF OrdersTell
<1>2. Len(rows.orders) = m
    BY <1>1 DEF OrdersShape
<1>3. OpenNow \subseteq 1..m
    BY <1>1 DEF OpenNow, PendingTell
<1>4. Len(orders) = m /\ \A i \in 1..m : orders[i].at = rows.orders[i].at
    BY <1>1, <1>3, MarkedAtTheirTimes
<1>5. rows'.orders = orders /\ rows'.fills = rows.fills /\ steps' = steps
    BY FinishFields, FinishParts
<1> HIDE DEF orders, m
<1> QED
    BY <1>2, <1>4, <1>5 DEF WhenTell

LEMMA WhenAtRest ==
    ASSUME steps = <<>>, rows.orders = <<>>, rows.fills = <<>>
    PROVE  WhenTell
BY EmptySeqFacts DEF WhenTell

LEMMA WhenInit == Init => WhenTell
<1> SUFFICES ASSUME Init PROVE WhenTell
    OBVIOUS
<1>1. steps = <<>> /\ rows = [NoRows EXCEPT !.status = "running"]
    BY DEF Init
<1>2. rows.orders = <<>> /\ rows.fills = <<>>
    BY <1>1 DEF NoRows
<1> QED
    BY <1>1, <1>2, WhenAtRest

LEMMA WhenStep == Shape /\ OrdersTell /\ WhenTell /\ [Next]_vars => WhenTell'
<1> SUFFICES ASSUME Shape, OrdersTell, WhenTell, [Next]_vars
             PROVE  WhenTell'
    OBVIOUS
<1>1. ASSUME rows'.orders = rows.orders, rows'.fills = rows.fills, steps' = steps
      PROVE  WhenTell'
    BY <1>1 DEF WhenTell
<1>2. CASE UNCHANGED vars
  <2>1. rows' = rows /\ steps' = steps
      BY <1>2 DEF vars
  <2> QED
      BY <2>1, <1>1
<1>3. ASSUME NEW s \in Symbols, NEW decision \in Decisions, NEW filled \in SUBSET pending[s],
             StepBar(s, filled, decision)
      PROVE  WhenTell'
    BY <1>3, WhenStepBar
<1>4. ASSUME NEW next \in NextTimes, EndGroup(next) PROVE WhenTell'
  <2>1. rows'.orders = rows.orders /\ rows'.fills = rows.fills /\ steps' = steps
      BY <1>4, EndGroupFields, EndGroupParts
  <2> QED
      BY <2>1, <1>1
<1>5. CASE Finish
    BY <1>5, WhenFinish
<1>6. ASSUME NEW how \in {"canceled", "raised"}, Undone(how) PROVE WhenTell'
  <2>1. rows' = NoRows /\ steps' = <<>>
      BY <1>6, UndoneParts
  <2>2. rows'.orders = <<>> /\ rows'.fills = <<>>
      BY <2>1 DEF NoRows
  <2>3. (steps = <<>> /\ rows.orders = <<>> /\ rows.fills = <<>> => WhenTell)'
      BY WhenAtRest, PTL
  <2> QED
      BY <2>1, <2>2, <2>3
<1> QED
    BY <1>2, <1>3, <1>4, <1>5, <1>6 DEF Next

\* The loop of an entry, point by point: its local peak and deepest drawdown.
IsSeen(W, Q, e0) ==
    /\ W[0] = [peak |-> e0, drawdown |-> NoDrawdown]
    /\ \A i \in 1..Len(Q) :
           /\ W[i].peak = Max({W[i - 1].peak, Q[i].equity})
           /\ W[i].drawdown = Deeper(W[i - 1].drawdown, Drawdown(W[i].peak, Q[i].equity))

IsEntry(entry, Q, fills, signals, e0) ==
    /\ entry.start = e0 /\ entry.end = Q[Len(Q)].equity
    /\ entry.fills = Cardinality(fills) /\ entry.signals = Cardinality(signals)
    /\ \E W : IsSeen(W, Q, e0) /\ entry.drawdown = W[Len(Q)].drawdown

SeenPoint == [peak : Int, drawdown : Ratios]
After(w, e) ==
    [peak |-> Max({w.peak, e}),
     drawdown |-> Deeper(w.drawdown, Drawdown(Max({w.peak, e}), e))]
IsSeenBy(W, Q, e0) ==
    W = [i \in 0..Len(Q) |-> IF i = 0 THEN [peak |-> e0, drawdown |-> NoDrawdown]
                             ELSE After(W[i - 1], Q[i].equity)]

LEMMA AfterFacts ==
    ASSUME NEW w \in SeenPoint, NEW e \in Int
    PROVE  After(w, e) \in SeenPoint
<1>1. w.peak \in Int /\ w.drawdown \in Ratios
    BY DEF SeenPoint
<1>2. Max({w.peak, e}) \in Int /\ Max({w.peak, e}) >= e
    BY <1>1, MaxOfTwo
<1> DEFINE p == Max({w.peak, e})
<1>3. p \in Int /\ p >= e
    BY <1>2
<1>4. After(w, e) = [peak |-> p, drawdown |-> Deeper(w.drawdown, Drawdown(p, e))]
    BY DEF After
<1> HIDE DEF p
<1>5. Drawdown(p, e) \in Ratios
    BY <1>3, RatiosFacts
<1>6. Deeper(w.drawdown, Drawdown(p, e)) \in Ratios
    BY <1>1, <1>5, RatiosFacts
<1> QED
    BY <1>3, <1>4, <1>6 DEF SeenPoint

\* The recursive function of an entry exists.
LEMMA SeenExists ==
    ASSUME NEW Q, IsSeq(Q), \A i \in 1..Len(Q) : Q[i].equity \in Int, NEW e0 \in Int
    PROVE  \E W : IsSeenBy(W, Q, e0)
<1> DEFINE n == Len(Q)
           base == [peak |-> e0, drawdown |-> NoDrawdown]
           seq == [i \in 1..n |-> Q[i].equity]
           F == [p \in SeenPoint \X Int |-> After(p[1], p[2])]
<1>1. n \in Nat
    BY SeqFacts
<1>2. base \in SeenPoint
    BY RatiosFacts DEF SeenPoint
<1>3. \A i \in 1..n : seq[i] \in Int /\ seq[i] = Q[i].equity
    OBVIOUS
<1>4. F \in [SeenPoint \X Int -> SeenPoint]
  <2>1. \A p \in SeenPoint \X Int : After(p[1], p[2]) \in SeenPoint
      BY AfterFacts
  <2> QED
      BY <2>1
<1>5. \A w \in SeenPoint, e \in Int : F[<<w, e>>] = After(w, e)
    OBVIOUS
<1> HIDE DEF F, seq, base, n
<1>6. PICK it : IsFold(it, F, base, seq, n) /\ \A s \in SUBSET (1..n) : it[s] \in SeenPoint
    BY <1>1, <1>2, <1>3, <1>4, FoldExists, Zenon
<1>7. it[{}] = base
    BY <1>6 DEF IsFold
<1>8. ASSUME NEW k \in 1..n
      PROVE  it[1..k] = After(it[1..(k - 1)], Q[k].equity)
  <2>1. /\ 1..k \in SUBSET (1..n) /\ 1..k # {} /\ k - 1 \in 0..(n - 1)
        /\ Max(1..k) = k /\ (1..k) \ {k} = 1..(k - 1)
      BY <1>1, PrefixOfPositions
  <2>2. it[1..k] = F[<<it[(1..k) \ {Max(1..k)}], seq[Max(1..k)]>>]
      BY <1>6, <2>1 DEF IsFold
  <2>3. 1..(k - 1) \in SUBSET (1..n)
      BY <2>1, <1>1
  <2>4. it[1..(k - 1)] \in SeenPoint /\ seq[k] \in Int /\ seq[k] = Q[k].equity
      BY <2>3, <1>3, <1>6
  <2> DEFINE w == it[1..(k - 1)]
             e == seq[k]
  <2>5. F[<<it[(1..k) \ {Max(1..k)}], seq[Max(1..k)]>>] = F[<<w, e>>]
      BY <2>1, Zenon
  <2>6. w \in SeenPoint /\ e \in Int /\ e = Q[k].equity
      BY <2>4
  <2> HIDE DEF w, e
  <2>7. F[<<w, e>>] = After(w, e)
      BY <2>6, <1>5
  <2>8. it[1..k] = After(w, e)
      BY <2>2, <2>5, <2>7
  <2> QED
      BY <2>6, <2>8 DEF w
<1> DEFINE W == [i \in 0..n |-> it[1..i]]
           Body(i) == IF i = 0 THEN base ELSE After(W[i - 1], Q[i].equity)
<1>9. ASSUME NEW i \in 0..n PROVE W[i] = Body(i)
  <2>1. CASE i = 0
    <3>1. 1..0 = {}
        OBVIOUS
    <3>2. W[0] = it[1..0]
        BY <2>1, <1>9
    <3> QED
        BY <2>1, <3>1, <3>2, <1>7
  <2>2. CASE i # 0
    <3>1. i \in 1..n /\ i - 1 \in 0..n
        BY <2>2, <1>1
    <3>2. W[i] = it[1..i] /\ W[i - 1] = it[1..(i - 1)]
        BY <3>1
    <3> HIDE DEF W
    <3> QED
        BY <2>2, <3>1, <3>2, <1>8
  <2> QED
      BY <2>1, <2>2
<1>10. W = [i \in 0..n |-> W[i]]
    OBVIOUS
<1> HIDE DEF W
<1>11. W = [i \in 0..n |-> Body(i)]
    BY <1>9, <1>10
<1>12. IsSeenBy(W, Q, e0)
    BY <1>11 DEF IsSeenBy, n, base
<1> QED
    BY <1>12

LEMMA SeenStep ==
    ASSUME NEW Q, IsSeq(Q), NEW e0, NEW W, IsSeenBy(W, Q, e0)
    PROVE  IsSeen(W, Q, e0)
<1> DEFINE n == Len(Q)
<1>1. n \in Nat
    BY SeqFacts
<1>2. W = [i \in 0..n |-> IF i = 0 THEN [peak |-> e0, drawdown |-> NoDrawdown]
                          ELSE After(W[i - 1], Q[i].equity)]
    BY DEF IsSeenBy
<1> HIDE DEF n
<1>3. W[0] = [peak |-> e0, drawdown |-> NoDrawdown]
    BY <1>1, <1>2
<1>4. ASSUME NEW i \in 1..n
      PROVE  /\ W[i].peak = Max({W[i - 1].peak, Q[i].equity})
             /\ W[i].drawdown = Deeper(W[i - 1].drawdown, Drawdown(W[i].peak, Q[i].equity))
  <2>1. i \in 0..n /\ i # 0
      BY <1>1
  <2>2. W[i] = After(W[i - 1], Q[i].equity)
      BY <1>2, <2>1
  <2> DEFINE w == W[i - 1]
             e == Q[i].equity
             v == W[i]
  <2>3. v = After(w, e)
      BY <2>2
  <2> HIDE DEF w, e, v
  <2>4. v.peak = Max({w.peak, e}) /\ v.drawdown = Deeper(w.drawdown, Drawdown(Max({w.peak, e}), e))
      BY <2>3 DEF After
  <2>5. v.drawdown = Deeper(w.drawdown, Drawdown(v.peak, e))
      BY <2>4, Zenon
  <2> QED
      BY <2>4, <2>5 DEF w, e, v
<1> QED
    BY <1>3, <1>4 DEF IsSeen, n

\* What _build_entry makes of the points, fills and signals of a period.
LEMMA EntryIsEntry ==
    ASSUME NEW Q, IsSeq(Q), \A i \in 1..Len(Q) : Q[i].equity \in Int, NEW e0 \in Int,
           NEW fills, NEW signals
    PROVE  IsEntry(Entry(Q, fills, signals, e0), Q, fills, signals, e0)
<1> DEFINE Seen == CHOOSE W : IsSeenBy(W, Q, e0)
           entry == Entry(Q, fills, signals, e0)
<1>1. IsSeenBy(Seen, Q, e0)
    BY SeenExists
<1>2. Last(Q) = Q[Len(Q)]
    BY DEF Last
<1>3. /\ entry.start = e0 /\ entry.end = Last(Q).equity
      /\ entry.fills = Cardinality(fills) /\ entry.signals = Cardinality(signals)
    BY DEF Entry
<1>4. entry.drawdown = Seen[Len(Q)].drawdown
    BY DEF Entry, IsSeenBy, After
<1> HIDE DEF Seen, entry
<1>5. IsSeen(Seen, Q, e0)
    BY <1>1, SeenStep
<1> QED
    BY <1>2, <1>3, <1>4, <1>5 DEF IsEntry, entry
\* A loss is a lesser part of a higher peak.
LEMMA HigherPeakIsDeeper ==
    ASSUME NEW p \in Int, NEW q \in Int, NEW e \in Nat, e <= p, p <= q
    PROVE  NotDeeper(Drawdown(p, e), Drawdown(q, e))
<1>1. CASE p > 0
  <2>1. q > 0
      BY <1>1
  <2>2. Drawdown(p, e) = [num |-> p - e, den |-> p] /\ Drawdown(q, e) = [num |-> q - e, den |-> q]
      BY <1>1, <2>1 DEF Drawdown
  <2>3. e * p <= e * q
      OBVIOUS
  <2>4. (p - e) * q = p * q - e * q /\ (q - e) * p = p * q - e * p
      OBVIOUS
  <2> DEFINE a == e * p
             b == e * q
             c == p * q
  <2>5. a \in Int /\ b \in Int /\ c \in Int /\ a <= b
        /\ (p - e) * q = c - b /\ (q - e) * p = c - a
      BY <2>3, <2>4
  <2> HIDE DEF a, b, c
  <2>6. (p - e) * q <= (q - e) * p
      BY <2>5
  <2> QED
      BY <2>2, <2>6 DEF NotDeeper
<1>2. CASE ~(p > 0)
  <2>1. Drawdown(p, e) = NoDrawdown
      BY <1>2 DEF Drawdown
  <2>2. IsRatio(Drawdown(q, e))
      BY DrawdownIsRatio
  <2> QED
      BY <2>1, <2>2 DEF NotDeeper, NoDrawdown, IsRatio
<1> QED
    BY <1>1, <1>2

\* The local peaks of an entry are no higher than any bound of its equity, and
\* its drawdown no deeper than one that is as deep as from such a bound.
LEMMA SeenFacts ==
    ASSUME NEW Q, IsSeq(Q), \A i \in 1..Len(Q) : Q[i].equity \in Int, NEW e0 \in Int,
           NEW W, IsSeen(W, Q, e0)
    PROVE  \A i \in 0..Len(Q) :
               /\ W[i].peak \in Int /\ W[i].drawdown \in Ratios
               /\ i # 0 => Q[i].equity <= W[i].peak
               /\ \A q \in Int : e0 <= q /\ (\A j \in 1..i : Q[j].equity <= q) => W[i].peak <= q
<1> DEFINE n == Len(Q)
           e(i) == Q[i].equity
           p(i) == W[i].peak
           d(i) == W[i].drawdown
           Bounded(i) == \A q \in Int : e0 <= q /\ (\A j \in 1..i : e(j) <= q) => p(i) <= q
           Good(i) == p(i) \in Int /\ d(i) \in Ratios /\ (i # 0 => e(i) <= p(i)) /\ Bounded(i)
           Bad == {i \in Nat : i <= n /\ ~Good(i)}
<1>1. n \in Nat /\ \A i \in 1..n : e(i) \in Int
    BY SeqFacts
<1>2. /\ p(0) = e0 /\ d(0) = NoDrawdown
      /\ \A i \in 1..n : p(i) = Max({p(i - 1), e(i)}) /\ d(i) = Deeper(d(i - 1), Drawdown(p(i), e(i)))
    BY DEF IsSeen
<1> HIDE DEF n, e, p, d
<1>3. Bad = {}
  <2> SUFFICES ASSUME Bad # {} PROVE FALSE
      OBVIOUS
  <2>1. PICK i \in Bad : \A j \in Bad : i <= j
    <3> HIDE DEF Good
    <3> QED
        BY LeastNatural
  <2>2. CASE i = 0
    <3>1. p(0) \in Int /\ d(0) \in Ratios /\ Bounded(0)
        BY <1>2, RatiosFacts
    <3> QED
        BY <2>1, <2>2, <3>1
  <2>3. CASE i # 0
    <3>1. i \in 1..n /\ i - 1 \in Nat /\ i - 1 <= n /\ ~(i <= i - 1)
        BY <2>1, <2>3, <1>1
    <3>2. Good(i - 1)
      <4> HIDE DEF Good
      <4> QED
          BY <2>1, <3>1
    <3>3. e(i) \in Int /\ p(i - 1) \in Int /\ d(i - 1) \in Ratios
        BY <1>1, <3>1, <3>2
    <3>4. p(i) = (IF p(i - 1) >= e(i) THEN p(i - 1) ELSE e(i)) /\ p(i) \in Int /\ p(i) >= e(i)
      <4> DEFINE a == p(i - 1)
                 b == e(i)
      <4>1. p(i) = Max({a, b}) /\ a \in Int /\ b \in Int
          BY <1>2, <3>1, <3>3
      <4> HIDE DEF a, b
      <4>2. Max({a, b}) = (IF a >= b THEN a ELSE b)
          BY <4>1, MaxOfTwo
      <4>3. p(i) = (IF a >= b THEN a ELSE b) /\ p(i) \in Int /\ p(i) >= b
          BY <4>1, <4>2
      <4> QED
          BY <4>3 DEF a, b
    <3>5. d(i) \in Ratios
      <4>1. Drawdown(p(i), e(i)) \in Ratios
          BY <3>3, <3>4, RatiosFacts
      <4>2. d(i) = Deeper(d(i - 1), Drawdown(p(i), e(i)))
          BY <1>2, <3>1
      <4> QED
          BY <3>3, <4>1, <4>2, RatiosFacts
    <3>6. ASSUME NEW q \in Int, e0 <= q, \A j \in 1..i : e(j) <= q
          PROVE  p(i) <= q
      <4>1. i \in 1..i /\ 1..(i - 1) \subseteq 1..i
          BY <3>1
      <4>2. e(i) <= q /\ \A j \in 1..(i - 1) : e(j) <= q
          BY <3>6, <4>1
      <4>3. p(i - 1) <= q
          BY <3>2, <3>6, <4>2
      <4> QED
          BY <3>4, <4>2, <4>3
    <3>7. Good(i)
        BY <3>3, <3>4, <3>5, <3>6
    <3> QED
        BY <2>1, <3>7
  <2> QED
      BY <2>2, <2>3
<1>4. \A i \in 0..n : Good(i)
    BY <1>1, <1>3
<1> QED
    BY <1>4 DEF n, e, p, d

LEMMA EntryNotDeeper ==
    ASSUME NEW Q, IsSeq(Q), \A i \in 1..Len(Q) : Q[i].equity \in Nat, NEW e0 \in Int,
           NEW W, IsSeen(W, Q, e0), NEW deepest \in Ratios,
           \A i \in 1..Len(Q) : \E q \in Int :
               /\ e0 <= q /\ \A j \in 1..i : Q[j].equity <= q
               /\ NotDeeper(Drawdown(q, Q[i].equity), deepest)
    PROVE  NotDeeper(W[Len(Q)].drawdown, deepest)
<1> DEFINE n == Len(Q)
<1>1. n \in Nat /\ \A i \in 1..n : Q[i].equity \in Int
    BY SeqFacts
<1>3. \A i \in 0..n :
          /\ W[i].peak \in Int /\ W[i].drawdown \in Ratios
          /\ i # 0 => Q[i].equity <= W[i].peak
          /\ \A q \in Int : e0 <= q /\ (\A j \in 1..i : Q[j].equity <= q) => W[i].peak <= q
    BY <1>1, SeenFacts
<1> DEFINE Bad == {i \in Nat : i <= n /\ ~NotDeeper(W[i].drawdown, deepest)}
<1>4. Bad = {}
  <2> SUFFICES ASSUME Bad # {} PROVE FALSE
      OBVIOUS
  <2>1. PICK i \in Bad : \A j \in Bad : i <= j
      BY LeastNatural
  <2>2. i # 0
    <3>1. W[0].drawdown = NoDrawdown
        BY DEF IsSeen
    <3>2. NotDeeper(NoDrawdown, deepest)
        BY DEF NotDeeper, NoDrawdown, Ratios
    <3> QED
        BY <2>1, <3>1, <3>2
  <2>3. i \in 1..n /\ i \in 0..n /\ i - 1 \in 0..n /\ ~(i <= i - 1)
      BY <2>1, <2>2, <1>1
  <2> DEFINE x == W[i - 1].drawdown
             y == Drawdown(W[i].peak, Q[i].equity)
  <2>4. W[i].drawdown = Deeper(x, y)
      BY <2>3 DEF IsSeen
  <2>5. NotDeeper(x, deepest) /\ IsRatio(x)
    <3>1. NotDeeper(x, deepest)
        BY <2>1, <2>3
    <3>2. x \in Ratios
        BY <1>3, <2>3
    <3> QED
        BY <3>1, <3>2, RatiosFacts
  <2>6. NotDeeper(y, deepest)
    <3>1. PICK q \in Int : /\ e0 <= q /\ \A j \in 1..i : Q[j].equity <= q
                           /\ NotDeeper(Drawdown(q, Q[i].equity), deepest)
        BY <2>3
    <3> DEFINE p == W[i].peak
               e == Q[i].equity
    <3>2. p \in Int /\ e \in Nat /\ e <= p /\ p <= q
        BY <1>3, <2>2, <2>3, <3>1
    <3> HIDE DEF p, e
    <3>3. NotDeeper(Drawdown(p, e), Drawdown(q, e))
        BY <3>2, HigherPeakIsDeeper
    <3>4. e <= q /\ e \in Int
        BY <3>2
    <3>5. IsRatio(Drawdown(p, e)) /\ IsRatio(Drawdown(q, e)) /\ IsRatio(deepest)
        BY <3>2, <3>4, DrawdownIsRatio, RatiosFacts
    <3>6. NotDeeper(Drawdown(q, e), deepest)
        BY <3>1 DEF e
    <3>7. NotDeeper(Drawdown(p, e), deepest)
        BY <3>3, <3>5, <3>6, NotDeeperThrough
    <3> QED
        BY <3>7 DEF p, e
  <2> HIDE DEF x, y
  <2>7. NotDeeper(Deeper(x, y), deepest)
      BY <2>5, <2>6 DEF Deeper
  <2> QED
      BY <2>1, <2>4, <2>7
<1>5. n <= n
    BY <1>1
<1> QED
    BY <1>1, <1>4, <1>5

\* A period starts where the bucket of the points changes.
Buckets(P, b) == [j \in 1..Len(P) |-> b[P[j].ts]]
StartOf(P, i, cash) == IF i = 1 THEN cash ELSE P[i - 1].equity
PeriodAt(P, fills, signals, cash, b, i) ==
    Entry(SubSeq(P, i, EndsAt(Buckets(P, b), Len(P), i)), InBucket(fills, b, b[P[i].ts]),
          InBucket(signals, b, b[P[i].ts]), StartOf(P, i, cash))

LEMMA PeriodsAreTheChanges ==
    ASSUME NEW P, IsSeq(P), NEW fills, NEW signals, NEW cash, NEW b,
           NEW C, C = Changes(Buckets(P, b), Len(P))
    PROVE  PeriodBreakdown(P, fills, signals, cash, b) =
               [k \in 1..Cardinality(C) |->
                   PeriodAt(P, fills, signals, cash, b, Sorted(C)[k])]
<1> DEFINE n == Len(P)
           B == Buckets(P, b)
           starts == {i \in DOMAIN P : i = 1 \/ b[P[i].ts] # b[P[i - 1].ts]}
           EndOf(i) == Min({j \in starts : j > i} \union {Len(P) + 1}) - 1
           EntryAt(i) == Entry(SubSeq(P, i, EndOf(i)), InBucket(fills, b, b[P[i].ts]),
                               InBucket(signals, b, b[P[i].ts]),
                               IF i = 1 THEN cash ELSE P[i - 1].equity)
           Nth(k) == CHOOSE i \in starts : Cardinality({j \in starts : j < i}) = k - 1
<1>1. n \in Nat /\ DOMAIN P = 1..n
    BY SeqFacts
<1>2. starts = C
  <2>1. \A i \in 1..n : B[i] = b[P[i].ts]
      BY DEF Buckets
  <2>2. \A i \in 1..n : i # 1 => i - 1 \in 1..n
      BY <1>1
  <2> HIDE DEF B, n
  <2>3. starts = {i \in 1..n : i = 1 \/ B[i] # B[i - 1]}
      BY <1>1, <2>1, <2>2
  <2> QED
      BY <2>3 DEF Changes, B, n
<1>3. PeriodBreakdown(P, fills, signals, cash, b) = [k \in 1..Cardinality(starts) |-> EntryAt(Nth(k))]
    BY DEF PeriodBreakdown
<1>4. \A k \in 1..Cardinality(C) : Nth(k) = Sorted(C)[k]
  <2> HIDE DEF starts
  <2>1. Sorted(C) = [i \in 1..Cardinality(C) |->
                        CHOOSE t \in C : Cardinality({u \in C : u < t}) = i - 1]
      BY Zenon DEF Sorted
  <2>2. ASSUME NEW k \in 1..Cardinality(C) PROVE Nth(k) = Sorted(C)[k]
    <3>1. Nth(k) = CHOOSE i \in C : Cardinality({j \in C : j < i}) = k - 1
        BY <1>2, Zenon
    <3>2. Sorted(C)[k] = CHOOSE i \in C : Cardinality({j \in C : j < i}) = k - 1
        BY <2>1, Zenon
    <3> QED
        BY <3>1, <3>2, Zenon
  <2> QED
      BY <2>2
<1> HIDE DEF starts, Nth
<1>5. \A i : EntryAt(i) = PeriodAt(P, fills, signals, cash, b, i)
    BY <1>2 DEF PeriodAt, EndsAt, StartOf
<1> HIDE DEF EntryAt
<1>6. \A k \in 1..Cardinality(C) :
          EntryAt(Nth(k)) = PeriodAt(P, fills, signals, cash, b, Sorted(C)[k])
    BY <1>4, <1>5
<1> QED
    BY <1>2, <1>3, <1>6

IsPeriod(entry, P, fills, signals, cash, b, i, j) ==
    /\ entry.start = StartOf(P, i, cash) /\ entry.end = P[j].equity
    /\ entry.fills = Cardinality(InBucket(fills, b, b[P[i].ts]))
    /\ entry.signals = Cardinality(InBucket(signals, b, b[P[i].ts]))
    /\ \E W : IsSeen(W, SubSeq(P, i, j), StartOf(P, i, cash))
              /\ entry.drawdown = W[j - i + 1].drawdown

LEMMA PeriodIsPeriod ==
    ASSUME NEW P, IsSeq(P), \A i \in 1..Len(P) : P[i].equity \in Int, NEW cash \in Int,
           NEW fills, NEW signals, NEW b,
           NEW i \in 1..Len(P), NEW j \in i..Len(P), j = EndsAt(Buckets(P, b), Len(P), i)
    PROVE  IsPeriod(PeriodAt(P, fills, signals, cash, b, i), P, fills, signals, cash, b, i, j)
<1> DEFINE n == Len(P)
           Q == SubSeq(P, i, j)
           e0 == StartOf(P, i, cash)
           F == InBucket(fills, b, b[P[i].ts])
           G == InBucket(signals, b, b[P[i].ts])
           entry == PeriodAt(P, fills, signals, cash, b, i)
<1>1. n \in Nat /\ i \in 1..(n + 1) /\ j \in (i - 1)..n /\ j - i + 1 \in Nat \ {0}
    BY SeqFacts
<1>2. /\ IsSeq(Q) /\ Len(Q) = j - i + 1
      /\ \A k \in 1..(j - i + 1) : Q[k] = P[i + k - 1]
    BY <1>1, SubSeqFacts
<1>3. e0 \in Int
  <2>1. i # 1 => i - 1 \in 1..n
      BY <1>1
  <2> QED
      BY <2>1 DEF StartOf
<1>4. entry = Entry(Q, F, G, e0)
    BY DEF PeriodAt
<1> HIDE DEF Q, e0, F, G, entry
<1>5. \A k \in 1..Len(Q) : Q[k].equity \in Int
  <2>1. \A k \in 1..(j - i + 1) : i + k - 1 \in 1..n
      BY <1>1
  <2> QED
      BY <2>1, <1>2
<1>6. IsEntry(entry, Q, F, G, e0)
  <2>1. IsEntry(Entry(Q, F, G, e0), Q, F, G, e0)
      BY <1>2, <1>3, <1>5, EntryIsEntry
  <2> QED
      BY <2>1, <1>4
<1>7. Q[Len(Q)] = P[j]
  <2>1. j - i + 1 \in 1..(j - i + 1) /\ i + (j - i + 1) - 1 = j
      BY <1>1
  <2> QED
      BY <2>1, <1>2
<1> QED
    BY <1>2, <1>6, <1>7 DEF IsEntry, IsPeriod, Q, e0, F, G, entry

\* The periods of a list of points: each starts with what the one before ended
\* with, the first with the initial cash, and the last one ends with the list.
PeriodsTell(periods, P, fills, signals, cash, b) ==
    LET n == Len(P)
        B == Buckets(P, b)
        C == Changes(B, n)
        S == Sorted(C)
        m == Cardinality(C)
    IN  /\ IsSeq(periods) /\ Len(periods) = m
        /\ \A k \in 1..m : IsPeriod(periods[k], P, fills, signals, cash, b, S[k], EndsAt(B, n, S[k]))
IsOrdered(P, b) ==
    /\ IsSeq(P) /\ Len(P) # 0
    /\ \A i \in 1..Len(P) : P[i].equity \in Int /\ Buckets(P, b)[i] \in Int
    /\ \A i, j \in 1..Len(P) : i <= j => Buckets(P, b)[i] <= Buckets(P, b)[j]

LEMMA PeriodsFacts ==
    ASSUME NEW P, NEW b, IsOrdered(P, b), NEW cash \in Int, NEW fills, NEW signals
    PROVE  PeriodsTell(PeriodBreakdown(P, fills, signals, cash, b), P, fills, signals, cash, b)
<1> DEFINE n == Len(P)
           B == Buckets(P, b)
           C == Changes(B, n)
           S == Sorted(C)
           m == Cardinality(C)
           periods == PeriodBreakdown(P, fills, signals, cash, b)
<1>1. /\ IsSeq(P) /\ n \in Nat \ {0}
      /\ \A i \in 1..n : P[i].equity \in Int /\ B[i] \in Int
      /\ \A i, j \in 1..n : i <= j => B[i] <= B[j]
    BY SeqFacts DEF IsOrdered
<1>2. periods = [k \in 1..m |-> PeriodAt(P, fills, signals, cash, b, S[k])]
    BY <1>1, PeriodsAreTheChanges
<1> HIDE DEF periods, n, B
<1>3. m \in Nat \ {0} /\ \A k \in 1..m : S[k] \in 1..n
    BY <1>1, ChangesFacts
<1>4. \A k \in 1..m : S[k] <= EndsAt(B, n, S[k]) /\ EndsAt(B, n, S[k]) \in 1..n
    BY <1>1, EndsFacts
<1> HIDE DEF C, S, m
<1>5. ASSUME NEW k \in 1..m
      PROVE  IsPeriod(periods[k], P, fills, signals, cash, b, S[k], EndsAt(B, n, S[k]))
  <2> DEFINE i == S[k]
             j == EndsAt(B, n, S[k])
  <2>1. i \in 1..n /\ j \in i..n /\ j = EndsAt(B, n, i)
      BY <1>3, <1>4
  <2> HIDE DEF i, j
  <2>2. IsPeriod(PeriodAt(P, fills, signals, cash, b, i), P, fills, signals, cash, b, i, j)
      BY <1>1, <2>1, PeriodIsPeriod DEF B, n
  <2>3. periods[k] = PeriodAt(P, fills, signals, cash, b, i)
      BY <1>2 DEF i
  <2> QED
      BY <2>2, <2>3 DEF i, j
<1>6. periods = [k \in 1..m |-> periods[k]]
    BY <1>2
<1>7. IsSeq(periods) /\ Len(periods) = m
    BY <1>3, <1>6, SeqOfFunction
<1> QED
    BY <1>5, <1>7 DEF PeriodsTell, periods, n, B, C, S, m

LEMMA PeriodsHandOn ==
    ASSUME NEW P, NEW b, IsOrdered(P, b), NEW cash \in Int, NEW fills, NEW signals, NEW periods,
           PeriodsTell(periods, P, fills, signals, cash, b)
    PROVE  /\ Len(periods) \in Nat \ {0} /\ DOMAIN periods = 1..Len(periods)
           /\ periods[1].start = cash
           /\ \A k \in 1..Len(periods) : k > 1 => periods[k].start = periods[k - 1].end
           /\ periods[Len(periods)].end = P[Len(P)].equity
<1> DEFINE n == Len(P)
           B == Buckets(P, b)
           C == Changes(B, n)
           S == Sorted(C)
           m == Cardinality(C)
           E(k) == EndsAt(B, n, S[k])
<1>1. /\ IsSeq(P) /\ n \in Nat \ {0}
      /\ \A i \in 1..n : P[i].equity \in Int /\ B[i] \in Int
      /\ \A i, j \in 1..n : i <= j => B[i] <= B[j]
    BY SeqFacts DEF IsOrdered
<1>2. /\ IsSeq(periods) /\ Len(periods) = m
      /\ \A k \in 1..m : IsPeriod(periods[k], P, fills, signals, cash, b, S[k], E(k))
    BY DEF PeriodsTell
<1>3. DOMAIN periods = 1..m
    BY <1>2, SeqFacts
<1> HIDE DEF n, B
<1>4. /\ m \in Nat \ {0} /\ S[1] = 1 /\ \A k \in 1..m : S[k] \in 1..n
      /\ \A k, l \in 1..m : k < l => S[k] < S[l]
    BY <1>1, ChangesFacts
<1>5. /\ \A k \in 1..m : k < m => E(k) = S[k + 1] - 1
      /\ E(m) = n
    BY <1>1, EndsFacts
<1> HIDE DEF C, S, m, E
<1>6. \A k \in 1..m : /\ periods[k].start = StartOf(P, S[k], cash)
                      /\ periods[k].end = P[E(k)].equity
    BY <1>2 DEF IsPeriod
<1>7. 1 \in 1..m /\ m \in 1..m
    BY <1>4
<1>8. periods[1].start = cash
    BY <1>4, <1>6, <1>7 DEF StartOf
<1>9. ASSUME NEW k \in 1..m, k > 1
      PROVE  periods[k].start = periods[k - 1].end
  <2>1. k - 1 \in 1..m /\ k - 1 < k /\ k - 1 < m /\ (k - 1) + 1 = k
      BY <1>4, <1>9
  <2>2. E(k - 1) = S[k] - 1
      BY <1>5, <2>1
  <2>3. S[k] # 1
      BY <2>1, <1>4
  <2>4. periods[k].start = P[S[k] - 1].equity
      BY <2>3, <1>6 DEF StartOf
  <2> QED
      BY <2>1, <2>2, <2>4, <1>6
<1>10. periods[m].end = P[n].equity
    BY <1>5, <1>6, <1>7
<1> QED
    BY <1>2, <1>3, <1>4, <1>8, <1>9, <1>10 DEF n

LEMMA PeriodsNotDeeper ==
    ASSUME NEW P, NEW b, IsOrdered(P, b), NEW peak, NEW deepest, Performed(P, peak, deepest),
           \A i \in 1..Len(P) : P[i].equity >= 0,
           NEW fills, NEW signals, NEW periods,
           PeriodsTell(periods, P, fills, signals, InitialCash, b)
    PROVE  \A k \in 1..Len(periods) : NotDeeper(periods[k].drawdown, deepest)
<1> DEFINE n == Len(P)
           B == Buckets(P, b)
           C == Changes(B, n)
           S == Sorted(C)
           m == Cardinality(C)
           E(k) == EndsAt(B, n, S[k])
<1>1. /\ IsSeq(P) /\ n \in Nat \ {0}
      /\ \A i \in 1..n : P[i].equity \in Int /\ B[i] \in Int
      /\ \A i, j \in 1..n : i <= j => B[i] <= B[j]
    BY SeqFacts DEF IsOrdered
<1>2. /\ Len(periods) = m
      /\ \A k \in 1..m : IsPeriod(periods[k], P, fills, signals, InitialCash, b, S[k], E(k))
    BY DEF PeriodsTell
<1> HIDE DEF n, B
<1>3. m \in Nat \ {0} /\ \A k \in 1..m : S[k] \in 1..n
    BY <1>1, ChangesFacts
<1>4. \A k \in 1..m : S[k] <= E(k) /\ E(k) \in 1..n
    BY <1>1, EndsFacts
<1> HIDE DEF C, S, m, E
<1>5. PICK D : Deepens(P, D) /\ deepest = D[n]
    BY DEF Performed, n
<1>6. /\ \A i \in 1..n : P[i].drawdown \in Ratios /\ NotDeeper(P[i].drawdown, D[n])
      /\ D[n] \in Ratios
  <2>1. n \in 0..n
      BY <1>1
  <2> QED
      BY <2>1, <1>5, DrawdownsFacts DEF n
<1>7. \A i \in 1..n : IsPoint(P, i) /\ P[i].equity \in Nat
    BY <1>1 DEF Performed, n
<1>8. ASSUME NEW k \in 1..m
      PROVE  NotDeeper(periods[k].drawdown, deepest)
  <2> DEFINE i == S[k]
             j == E(k)
             Q == SubSeq(P, i, j)
             e0 == StartOf(P, i, InitialCash)
  <2>1. i \in 1..n /\ j \in 1..n /\ i <= j
      BY <1>3, <1>4
  <2>2. PICK W : IsSeen(W, Q, e0) /\ periods[k].drawdown = W[j - i + 1].drawdown
      BY <1>2 DEF IsPeriod
  <2> HIDE DEF i, j
  <2>3. i \in 1..(Len(P) + 1) /\ j \in (i - 1)..Len(P) /\ j - i + 1 \in Nat
      BY <2>1, <1>1 DEF n
  <2>4. /\ IsSeq(Q) /\ Len(Q) = j - i + 1
        /\ \A t \in 1..(j - i + 1) : Q[t] = P[i + t - 1]
      BY <2>3, <1>1, SubSeqFacts
  <2>5. \A t \in 1..Len(Q) : i + t - 1 \in 1..n /\ Q[t] = P[i + t - 1]
    <3>1. \A t \in 1..(j - i + 1) : i + t - 1 \in 1..n
        BY <2>1, <1>1
    <3> HIDE DEF Q
    <3> QED
        BY <3>1, <2>4
  <2>6. i # 1 => i - 1 \in 1..n
      BY <2>1, <1>1
  <2>7. e0 \in Int
      BY <2>6, <1>1, ConstantFacts, RecordsAssumption DEF StartOf
  <2>8. \A t \in 1..Len(Q) : Q[t].equity \in Nat
      BY <2>5, <1>7
  <2> HIDE DEF Q
  <2>9. ASSUME NEW t \in 1..Len(Q)
        PROVE  \E q \in Int : /\ e0 <= q /\ \A x \in 1..t : Q[x].equity <= q
                              /\ NotDeeper(Drawdown(q, Q[t].equity), deepest)
    <3> DEFINE y == i + t - 1
    <3>1. y \in 1..n /\ Q[t] = P[y]
        BY <2>5
    <3>2. PICK q \in Int : /\ InitialCash <= q /\ \A x \in 1..y : P[x].equity <= q
                           /\ P[y].drawdown = Drawdown(q, P[y].equity)
        BY <3>1, <1>7 DEF IsPoint
    <3>3. e0 <= q
      <4>1. i # 1 => i - 1 \in 1..y
          BY <2>1, <2>4
      <4> QED
          BY <4>1, <3>2 DEF e0, StartOf
    <3>4. \A x \in 1..t : Q[x].equity <= q
      <4>1. \A x \in 1..t : x \in 1..Len(Q) /\ i + x - 1 \in 1..y
          BY <2>1, <2>4
      <4> QED
          BY <4>1, <2>5, <3>2
    <3>5. NotDeeper(Drawdown(q, Q[t].equity), deepest)
      <4>1. NotDeeper(P[y].drawdown, deepest)
          BY <3>1, <1>5, <1>6
      <4>2. Drawdown(q, Q[t].equity) = P[y].drawdown
          BY <3>1, <3>2
      <4> QED
          BY <4>1, <4>2
    <3> HIDE DEF e0, y
    <3> QED
        BY <3>3, <3>4, <3>5
  <2> HIDE DEF e0
  <2>10. deepest \in Ratios
      BY <1>5, <1>6
  <2>11. NotDeeper(W[Len(Q)].drawdown, deepest)
      BY <2>2, <2>4, <2>7, <2>8, <2>9, <2>10, EntryNotDeeper
  <2> QED
      BY <2>2, <2>4, <2>11
<1> QED
    BY <1>2, <1>8

\* Every record lies in the bucket of one period.
LEMMA PeriodsTakeAll ==
    ASSUME NEW P, NEW b, IsOrdered(P, b), NEW N, IsSeq(N),
           \A x \in 1..Len(N) : \E i \in 1..Len(P) : N[x].at = P[i].ts,
           NEW C, C = Changes(Buckets(P, b), Len(P)), NEW m, m = Cardinality(C),
           NEW g, \A k \in 1..m : g[k] = Cardinality(InBucket(N, b, b[P[Sorted(C)[k]].ts]))
    PROVE  Total(g, 1..m) = Len(N)
<1> DEFINE n == Len(P)
           B == Buckets(P, b)
           S == Sorted(C)
           r == Len(N)
           In(k) == InBucket(N, b, b[P[S[k]].ts])
           c == [x \in 1..r |-> CHOOSE k \in 1..m : x \in In(k)]
<1>1. /\ IsSeq(P) /\ n \in Nat \ {0}
      /\ \A i \in 1..n : P[i].equity \in Int /\ B[i] \in Int
      /\ \A i, j \in 1..n : i <= j => B[i] <= B[j]
    BY SeqFacts DEF IsOrdered
<1>2. r \in Nat /\ DOMAIN N = 1..r
    BY SeqFacts
<1>3. \A i \in 1..n : B[i] = b[P[i].ts]
    BY DEF Buckets
<1> HIDE DEF n, B
<1>4. C = Changes(B, n)
    BY DEF n, B
<1>5. /\ m \in Nat \ {0} /\ \A k \in 1..m : S[k] \in 1..n
      /\ \A k, l \in 1..m : k < l => B[S[k]] < B[S[l]]
      /\ \A j \in 1..n : \E k \in 1..m : B[j] = B[S[k]]
    BY <1>1, <1>4, ChangesFacts
<1> HIDE DEF S
<1>6. \A k \in 1..m, x \in 1..r : x \in In(k) <=> b[N[x].at] = B[S[k]]
    BY <1>2, <1>3, <1>5 DEF InBucket
<1>7. \A k \in 1..m : In(k) \subseteq 1..r
    BY <1>2 DEF InBucket
<1> HIDE DEF In, r
<1>8. ASSUME NEW x \in 1..r PROVE \E k \in 1..m : x \in In(k)
  <2>1. PICK i \in 1..n : N[x].at = P[i].ts
      BY DEF n, r
  <2>2. PICK k \in 1..m : B[i] = B[S[k]]
      BY <1>5
  <2>3. b[N[x].at] = B[S[k]]
      BY <2>1, <2>2, <1>3
  <2> QED
      BY <2>3, <1>6
<1>9. ASSUME NEW x \in 1..r, NEW k \in 1..m, NEW l \in 1..m, x \in In(k), x \in In(l)
      PROVE  k = l
  <2>1. B[S[k]] = B[S[l]]
      BY <1>6, <1>9
  <2>2. B[S[k]] \in Int
      BY <1>1, <1>5
  <2>3. ~(k < l) /\ ~(l < k)
      BY <2>1, <2>2, <1>5
  <2> QED
      BY <2>3, <1>5
<1>10. \A x \in 1..r : c[x] \in 1..m /\ x \in In(c[x])
    BY <1>8
<1> HIDE DEF c
<1>11. ASSUME NEW k \in 1..m
       PROVE  g[k] = Cardinality({x \in 1..r : c[x] = k})
  <2>1. {x \in 1..r : c[x] = k} = In(k)
      BY <1>7, <1>9, <1>10
  <2>2. g[k] = Cardinality(In(k))
      BY DEF In, S
  <2> QED
      BY <2>1, <2>2
<1>12. IsFiniteSet(1..r) /\ IsFiniteSet(1..m) /\ Cardinality(1..r) = r
  <2>1. 1 \in Int /\ r \in Int /\ m \in Int
      BY <1>2, <1>5 DEF r
  <2>2. IsFiniteSet(1..r) /\ IsFiniteSet(1..m)
      BY <2>1, FS_Interval
  <2>3. Cardinality(1..r) = (IF 1 > r THEN 0 ELSE r - 1 + 1)
      BY <2>1, FS_Interval
  <2> QED
      BY <2>2, <2>3, <1>2 DEF r
<1> DEFINE X == 1..r
           K == 1..m
<1>13. /\ IsFiniteSet(X) /\ IsFiniteSet(K) /\ \A x \in X : c[x] \in K
       /\ \A k \in K : g[k] = Cardinality(PartOf(X, c, k))
    BY <1>10, <1>11, <1>12 DEF PartOf
<1> HIDE DEF X, K
<1>14. Total(g, K) = Cardinality(X)
    BY <1>13, PartsAddUp
<1> QED
    BY <1>12, <1>14 DEF X, K, r
\* The sums of the property are totals.
LEMMA SumOfFills ==
    ASSUME NEW m \in Nat, NEW q, \A k \in 1..m : q[k].fills \in Int
    PROVE  MapThenSumSet(LAMBDA k : q[k].fills, 1..m) = Total([k \in 1..m |-> q[k].fills], 1..m)
<1> DEFINE N == 1..m
           g == [k \in N |-> q[k].fills]
           any(s) == CHOOSE x \in s : TRUE
           One(j, s) == IF s = {} THEN 0 ELSE g[any(s)] + j[s \ {any(s)}]
           Two(j, s) == IF s = {} THEN 0 ELSE q[any(s)].fills + j[s \ {any(s)}]
           Loop(j) == j = [s \in SUBSET N |-> Two(j, s)]
           it == CHOOSE j : Loop(j)
<1>1. IsFiniteSet(N)
  <2>1. 1 \in Int /\ m \in Int
      OBVIOUS
  <2> QED
      BY <2>1, FS_Interval
<1>2. MapThenSumSet(LAMBDA k : q[k].fills, N) = it[N]
    BY DEF MapThenSumSet, MapThenFoldSet
<1>3. \A k \in N : g[k] = q[k].fills /\ g[k] \in Int
    OBVIOUS
<1> HIDE DEF N, g
<1>4. ASSUME NEW j
      PROVE  IsSum(j, g, N) <=> Loop(j)
  <2>1. ASSUME NEW s \in SUBSET N
        PROVE  One(j, s) = Two(j, s)
    <3>1. s # {} => any(s) \in N
        OBVIOUS
    <3> HIDE DEF any
    <3> QED
        BY <3>1, <1>3
  <2>2. IsSum(j, g, N) <=> j = [s \in SUBSET N |-> One(j, s)]
      BY DEF IsSum
  <2> HIDE DEF One, Two
  <2>3. [s \in SUBSET N |-> One(j, s)] = [s \in SUBSET N |-> Two(j, s)]
      BY <2>1
  <2> QED
      BY <2>2, <2>3, Zenon
<1> HIDE DEF Loop
<1>5. PICK j : Loop(j)
    BY <1>1, <1>3, <1>4, SumExists
<1>6. IsSum(it, g, N)
    BY <1>4, <1>5
<1> HIDE DEF it
<1>7. it[N] = Total(g, N)
    BY <1>1, <1>3, <1>6, LoopComputesTotal
<1> QED
    BY <1>2, <1>7 DEF N, g

LEMMA SumOfSignals ==
    ASSUME NEW m \in Nat, NEW q, \A k \in 1..m : q[k].signals \in Int
    PROVE  MapThenSumSet(LAMBDA k : q[k].signals, 1..m) = Total([k \in 1..m |-> q[k].signals], 1..m)
<1> DEFINE N == 1..m
           g == [k \in N |-> q[k].signals]
           any(s) == CHOOSE x \in s : TRUE
           One(j, s) == IF s = {} THEN 0 ELSE g[any(s)] + j[s \ {any(s)}]
           Two(j, s) == IF s = {} THEN 0 ELSE q[any(s)].signals + j[s \ {any(s)}]
           Loop(j) == j = [s \in SUBSET N |-> Two(j, s)]
           it == CHOOSE j : Loop(j)
<1>1. IsFiniteSet(N)
  <2>1. 1 \in Int /\ m \in Int
      OBVIOUS
  <2> QED
      BY <2>1, FS_Interval
<1>2. MapThenSumSet(LAMBDA k : q[k].signals, N) = it[N]
    BY DEF MapThenSumSet, MapThenFoldSet
<1>3. \A k \in N : g[k] = q[k].signals /\ g[k] \in Int
    OBVIOUS
<1> HIDE DEF N, g
<1>4. ASSUME NEW j
      PROVE  IsSum(j, g, N) <=> Loop(j)
  <2>1. ASSUME NEW s \in SUBSET N
        PROVE  One(j, s) = Two(j, s)
    <3>1. s # {} => any(s) \in N
        OBVIOUS
    <3> HIDE DEF any
    <3> QED
        BY <3>1, <1>3
  <2>2. IsSum(j, g, N) <=> j = [s \in SUBSET N |-> One(j, s)]
      BY DEF IsSum
  <2> HIDE DEF One, Two
  <2>3. [s \in SUBSET N |-> One(j, s)] = [s \in SUBSET N |-> Two(j, s)]
      BY <2>1
  <2> QED
      BY <2>2, <2>3, Zenon
<1> HIDE DEF Loop
<1>5. PICK j : Loop(j)
    BY <1>1, <1>3, <1>4, SumExists
<1>6. IsSum(it, g, N)
    BY <1>4, <1>5
<1> HIDE DEF it
<1>7. it[N] = Total(g, N)
    BY <1>1, <1>3, <1>6, LoopComputesTotal
<1> QED
    BY <1>2, <1>7 DEF N, g


LEMMA SeriesIsOrdered ==
    ASSUME Shape, PointsTell, WhenTell, phase = "finished"
    PROVE  /\ IsOrdered(rows.series, Bucket)
           /\ Rising([i \in DOMAIN rows.series |-> rows.series[i].ts])
           /\ \A k \in 1..Len(steps) : \E i \in 1..Len(rows.series) : steps[k].at = rows.series[i].ts
<1> DEFINE P == rows.series
           n == Len(P)
           B == Buckets(P, Bucket)
<1>1. /\ IsSeq(P) /\ Performed(P, money.peak, money.drawdown) /\ TimesTell(P)
      /\ n # 0 /\ clock.now > NTimes
    BY PointsAtTheEnd
<1> HIDE DEF P
<1>2. n \in Nat /\ DOMAIN P = 1..n
    BY <1>1, SeqFacts
<1>3. /\ \A i \in 1..n : P[i].equity \in Int /\ P[i].ts \in Int
      /\ \A i, j \in 1..n : i < j => P[i].ts < P[j].ts
    BY <1>1 DEF Performed, IsPoint
<1>4. \A i \in 1..n : P[i].ts \in 1..NTimes
  <2>1. \A i \in 1..n : \E k \in 1..Len(steps) : steps[k].at = P[i].ts
      BY <1>1 DEF TimesTell
  <2>2. \A k \in 1..Len(steps) : steps[k].at \in 1..NTimes
      BY DEF WhenTell
  <2> QED
      BY <2>1, <2>2
<1>5. \A k \in 1..Len(steps) : \E i \in 1..n : steps[k].at = P[i].ts
  <2>1. ~IsOpen
    <3>1. clock.now \in Int
        BY DEF Shape
    <3> QED
        BY <3>1, <1>1, ConstantFacts DEF IsOpen
  <2> QED
      BY <2>1, <1>1 DEF TimesTell
<1>6. \A i \in 1..n : B[i] = Bucket[P[i].ts]
    BY DEF Buckets
<1> HIDE DEF B
<1>7. /\ \A t \in 1..NTimes : Bucket[t] \in Int
      /\ \A t, u \in 1..NTimes : t <= u => Bucket[t] <= Bucket[u]
    BY RecordsAssumption
<1>8. \A i \in 1..n : B[i] \in Int
    BY <1>4, <1>6, <1>7
<1>9. ASSUME NEW i \in 1..n, NEW j \in 1..n, i <= j PROVE B[i] <= B[j]
  <2>1. i = j \/ i < j
      BY <1>2, <1>9
  <2>2. P[i].ts <= P[j].ts
      BY <2>1, <1>3
  <2> QED
      BY <2>2, <1>4, <1>6, <1>7
<1>10. IsOrdered(P, Bucket)
    BY <1>1, <1>3, <1>8, <1>9 DEF IsOrdered, B
<1>11. Rising([i \in DOMAIN P |-> P[i].ts])
  <2> DEFINE keys == [i \in DOMAIN P |-> P[i].ts]
  <2>1. DOMAIN keys = 1..n /\ \A i \in 1..n : keys[i] = P[i].ts
      BY <1>2
  <2> HIDE DEF keys
  <2>2. Rising(keys)
      BY <2>1, <1>3 DEF Rising
  <2> QED
      BY <2>2 DEF keys
<1> QED
    BY <1>5, <1>10, <1>11 DEF P

\* The summary that the loop kept is the one recomputed from the points.
LEMMA SummaryIsRecomputed ==
    ASSUME Shape, PointsTell, phase = "finished"
    PROVE  /\ rows.summary = <<SummaryOf(rows.series, InitialCash)>>
           /\ rows.summary[1].drawdown = money.drawdown
           /\ rows.summary[1].finalEquity = rows.series[Len(rows.series)].equity
<1> DEFINE P == rows.series
           summary == [finalEquity |-> Equity(money), drawdown |-> money.drawdown]
<1>1. /\ IsSeq(P) /\ Performed(P, money.peak, money.drawdown) /\ TimesTell(P)
      /\ Len(P) # 0 /\ clock.now > NTimes
    BY PointsAtTheEnd
<1>2. rows.summary = <<[finalEquity |-> Equity(money), drawdown |-> money.drawdown]>>
    BY DEF PointsTell
<1> HIDE DEF P
<1>3. P[Len(P)].equity = Equity(money)
  <2>1. clock.now \in Int
      BY DEF Shape
  <2>2. ~IsOpen
      BY <2>1, <1>1, ConstantFacts DEF IsOpen
  <2> QED
      BY <2>2, <1>1 DEF TimesTell
<1>4. FoldOfDrawdowns(P) = money.drawdown
  <2> DEFINE peak == money.peak
             deepest == money.drawdown
  <2>1. Performed(P, peak, deepest) /\ Len(P) # 0
      BY <1>1
  <2> HIDE DEF peak, deepest
  <2>2. FoldOfDrawdowns(P) = deepest
      BY <2>1, FoldIsDeepest
  <2> QED
      BY <2>2 DEF deepest
<1>5. P # <<>>
    BY <1>1, EmptySeqFacts
<1>6. Last(P) = P[Len(P)]
    BY DEF Last
<1>7. SummaryOf(P, InitialCash) = [finalEquity |-> Last(P).equity, drawdown |-> FoldOfDrawdowns(P)]
    BY <1>5, Zenon DEF SummaryOf, FoldOfDrawdowns
<1>8. SummaryOf(P, InitialCash) = summary
    BY <1>3, <1>4, <1>6, <1>7
<1>9. summary.drawdown = money.drawdown /\ summary.finalEquity = Equity(money)
    OBVIOUS
<1> HIDE DEF summary
<1>10. rows.summary = <<summary>>
    BY <1>2 DEF summary
<1>11. rows.summary[1] = summary
    BY <1>10
<1> QED
    BY <1>3, <1>8, <1>9, <1>10, <1>11 DEF P

\* Every record of a finished run is counted by one period.
LEMMA PeriodsCountAll ==
    ASSUME Shape, OrdersTell, PointsTell, WhenTell, phase = "finished", NEW periods,
           PeriodsTell(periods, rows.series, rows.fills, rows.orders, InitialCash, Bucket)
    PROVE  /\ MapThenSumSet(LAMBDA k : periods[k].fills, DOMAIN periods) = Len(rows.fills)
           /\ MapThenSumSet(LAMBDA k : periods[k].signals, DOMAIN periods) = Len(rows.orders)
<1> DEFINE P == rows.series
           n == Len(P)
           F == rows.fills
           G == rows.orders
           C == Changes(Buckets(P, Bucket), n)
           m == Cardinality(C)
           S == Sorted(C)
<1>1. /\ IsOrdered(P, Bucket)
      /\ \A k \in 1..Len(steps) : \E i \in 1..n : steps[k].at = P[i].ts
    BY SeriesIsOrdered
<1>2. IsSeq(F) /\ IsSeq(G)
    BY DEF OrdersTell, OrdersShape
<1>3. /\ \A x \in 1..Len(F) : \E i \in 1..n : F[x].at = P[i].ts
      /\ \A x \in 1..Len(G) : \E i \in 1..n : G[x].at = P[i].ts
    BY <1>1 DEF WhenTell, HadBar
<1>4. /\ IsSeq(periods) /\ Len(periods) = m
      /\ \A k \in 1..m : /\ periods[k].fills = Cardinality(InBucket(F, Bucket, Bucket[P[S[k]].ts]))
                         /\ periods[k].signals = Cardinality(InBucket(G, Bucket, Bucket[P[S[k]].ts]))
    BY DEF PeriodsTell, IsPeriod
<1> HIDE DEF P, F, G
<1>5. m \in Nat /\ DOMAIN periods = 1..m
  <2>1. Len(periods) \in Nat /\ DOMAIN periods = 1..Len(periods)
      BY <1>4, SeqFacts
  <2> QED
      BY <2>1, <1>4
<1>6. \A k \in 1..m : periods[k].fills \in Int /\ periods[k].signals \in Int
  <2>1. ASSUME NEW N, IsSeq(N), NEW b, NEW v PROVE Cardinality(InBucket(N, b, v)) \in Int
    <3>1. Len(N) \in Int /\ 1 \in Int /\ DOMAIN N = 1..Len(N)
        BY <2>1, SeqFacts
    <3>2. IsFiniteSet(1..Len(N))
        BY <3>1, FS_Interval
    <3>3. InBucket(N, b, v) \subseteq 1..Len(N)
        BY <3>1 DEF InBucket
    <3>4. IsFiniteSet(InBucket(N, b, v))
        BY <3>2, <3>3, FS_Subset
    <3> QED
        BY <3>4, FS_CardinalityType
  <2> QED
      BY <2>1, <1>2, <1>4
<1> HIDE DEF n, C, m
<1> DEFINE g == [k \in 1..m |-> periods[k].fills]
           h == [k \in 1..m |-> periods[k].signals]
<1>7. C = Changes(Buckets(P, Bucket), Len(P)) /\ m = Cardinality(C)
    BY DEF C, m, n
<1>8. /\ \A k \in 1..m : g[k] = Cardinality(InBucket(F, Bucket, Bucket[P[Sorted(C)[k]].ts]))
      /\ \A k \in 1..m : h[k] = Cardinality(InBucket(G, Bucket, Bucket[P[Sorted(C)[k]].ts]))
    BY <1>4
<1>9. MapThenSumSet(LAMBDA k : periods[k].fills, 1..m) = Total(g, 1..m)
    BY <1>5, <1>6, SumOfFills
<1>10. MapThenSumSet(LAMBDA k : periods[k].signals, 1..m) = Total(h, 1..m)
    BY <1>5, <1>6, SumOfSignals
<1> HIDE DEF g, h
<1>11. ASSUME NEW N, IsSeq(N), \A x \in 1..Len(N) : \E i \in 1..Len(P) : N[x].at = P[i].ts,
              NEW f, \A k \in 1..m : f[k] = Cardinality(InBucket(N, Bucket, Bucket[P[Sorted(C)[k]].ts]))
       PROVE  Total(f, 1..m) = Len(N)
    BY <1>1, <1>7, <1>11, PeriodsTakeAll
<1>12. Total(g, 1..m) = Len(F)
  <2>1. \A x \in 1..Len(F) : \E i \in 1..Len(P) : F[x].at = P[i].ts
      BY <1>3 DEF n
  <2> QED
      BY <2>1, <1>2, <1>8, <1>11
<1>13. Total(h, 1..m) = Len(G)
  <2>1. \A x \in 1..Len(G) : \E i \in 1..Len(P) : G[x].at = P[i].ts
      BY <1>3 DEF n
  <2> QED
      BY <2>1, <1>2, <1>8, <1>11
<1> QED
    BY <1>5, <1>9, <1>10, <1>12, <1>13, Zenon DEF F, G

\* The reports of a finished run agree with each other and with its steps: the
\* points are the bar times, the summary that the loop kept is the one recomputed
\* from them, and the periods, cut wherever the bucket changes, hand the equity
\* on from the initial cash to the end, count each fill and each order once and,
\* as long as the equity never was below zero, show no drawdown deeper than the
\* run's.
THEOREM ReportsTellOneRun == Spec => []ReportsAgree
<1>1. Init => Shape /\ OrdersTell /\ PointsTell /\ BlocksTell /\ WhenTell
    BY ShapeInit, OrdersInit, PointsInit, WhenInit
<1>2. Shape /\ OrdersTell /\ PointsTell /\ BlocksTell /\ WhenTell /\ [Next]_vars
          => (Shape /\ OrdersTell /\ PointsTell /\ BlocksTell /\ WhenTell)'
    BY ShapeStep, OrdersStep, PointsStep, WhenStep
<1>3. Shape /\ OrdersTell /\ PointsTell /\ BlocksTell /\ WhenTell => ReportsAgree
  <2> SUFFICES ASSUME Shape, OrdersTell, PointsTell, WhenTell, phase = "finished"
               PROVE  ReportsAgree
      BY DEF ReportsAgree, Finished
  <2> DEFINE P == rows.series
             F == rows.fills
             G == rows.orders
             cash == InitialCash
             peak == money.peak
             deepest == money.drawdown
             periods == PeriodBreakdown(rows.series, rows.fills, rows.orders, InitialCash, Bucket)
  <2>1. /\ IsSeq(P) /\ Performed(P, peak, deepest) /\ DOMAIN P = 1..Len(P)
        /\ {P[i].ts : i \in 1..Len(P)} = {steps[k].at : k \in 1..Len(steps)}
    <3>1. IsSeq(P) /\ Performed(P, peak, deepest)
          /\ {P[i].ts : i \in 1..Len(P)} = {steps[k].at : k \in 1..Len(steps)}
        BY PointsAtTheEnd
    <3> QED
        BY <3>1, SeqFacts
  <2>2. DOMAIN steps = 1..Len(steps)
      BY SeqFacts DEF Shape
  <2>3. {P[i].ts : i \in DOMAIN P} = {steps[k].at : k \in DOMAIN steps}
      BY <2>1, <2>2
  <2>4. /\ IsOrdered(P, Bucket) /\ Rising([i \in DOMAIN P |-> P[i].ts])
      BY SeriesIsOrdered
  <2>5. /\ rows.summary = <<SummaryOf(P, cash)>> /\ rows.summary[1].drawdown = deepest
        /\ rows.summary[1].finalEquity = P[Len(P)].equity
      BY SummaryIsRecomputed
  <2>6. cash \in Int
      BY RecordsAssumption
  <2> HIDE DEF P, F, G, cash, peak, deepest
  <2>7. PeriodsTell(periods, P, F, G, cash, Bucket)
    <3>1. PeriodsTell(PeriodBreakdown(P, F, G, cash, Bucket), P, F, G, cash, Bucket)
        BY <2>4, <2>6, PeriodsFacts
    <3> QED
        BY <3>1 DEF P, F, G, cash
  <2> HIDE DEF periods
  <2>8. /\ Len(periods) \in Nat \ {0} /\ DOMAIN periods = 1..Len(periods)
        /\ periods[1].start = cash
        /\ \A k \in 1..Len(periods) : k > 1 => periods[k].start = periods[k - 1].end
        /\ periods[Len(periods)].end = P[Len(P)].equity
      BY <2>4, <2>6, <2>7, PeriodsHandOn
  <2>9. ASSUME \A i \in DOMAIN P : P[i].equity >= 0, NEW k \in DOMAIN periods
        PROVE  NotDeeper(periods[k].drawdown, rows.summary[1].drawdown)
    <3>1. \A j \in 1..Len(periods) : NotDeeper(periods[j].drawdown, deepest)
        BY <2>1, <2>4, <2>7, <2>9, PeriodsNotDeeper DEF cash
    <3> QED
        BY <3>1, <2>5, <2>8
  <2>10. /\ MapThenSumSet(LAMBDA k : periods[k].fills, DOMAIN periods) = Len(rows.fills)
         /\ MapThenSumSet(LAMBDA k : periods[k].signals, DOMAIN periods) = Len(rows.orders)
      BY <2>7, PeriodsCountAll DEF P, F, G, cash
  <2>11. Last(periods).end = rows.summary[1].finalEquity
      BY <2>5, <2>8 DEF Last
  <2>12. \A k \in DOMAIN periods :
             /\ k > 1 => periods[k].start = periods[k - 1].end
             /\ (\A i \in DOMAIN P : P[i].equity >= 0) =>
                    NotDeeper(periods[k].drawdown, rows.summary[1].drawdown)
      BY <2>8, <2>9
  <2> QED
      BY <2>3, <2>4, <2>5, <2>8, <2>10, <2>11, <2>12, Zenon DEF ReportsAgree, periods, P, cash
<1> QED
    BY <1>1, <1>2, <1>3, PTL DEF Spec
=============================================================================
