------------------------- MODULE HistoryBackfillProofs -------------------------
(***************************************************************************)
(* Proofs about the history backfill, for any data sets, months, venue and *)
(* contents of the tables, any number of processes, API threads, failures, *)
(* kills and API restarts.                                                 *)
(***************************************************************************)
EXTENDS HistoryBackfill, SharedLemmas

-----------------------------------------------------------------------------
(* Plans *)

Keys == HistorySets \union {SnapshotKey}
TaskSet == [key : Keys, lo : Int, hi : Int]
PartSet == [sets : SUBSET HistorySets, lo : Int, hi : Int]
WindowSet == [lo : Int, hi : Int]

\* What HistoryConstantsAssumption and PlanConstantsAssumption say of numbers.
LEMMA Numbers ==
    /\ Month \in Nat \ {0} /\ FundingInterval \in Nat \ {0}
    /\ Period \in Nat \ {0} /\ Day \in Nat \ {0} /\ Retention \in Nat
    /\ StartTime \in Nat /\ EndTime \in Nat /\ StartTime <= EndTime
    /\ MaxLaunches \in Nat /\ MaxTroubles \in Nat
    /\ Day % Period = 0
BY HistoryConstantsAssumption, PlanConstantsAssumption

\* The specs that are asked for, in order.
LEMMA OrderedFacts ==
    ASSUME NEW ds
    PROVE  /\ Ordered(ds) \in Seq(HistorySets)
           /\ \A d \in HistorySets : d \in ds =>
                  \E i \in DOMAIN Ordered(ds) : Ordered(ds)[i] = d
<1> DEFINE one == [i \in DOMAIN DatasetOrder |->
                       IF DatasetOrder[i] \in ds THEN <<DatasetOrder[i]>> ELSE <<>>]
           n == Len(DatasetOrder)
<1>1. n \in Nat /\ DOMAIN DatasetOrder = 1..n /\ \A i \in 1..n : DatasetOrder[i] \in HistorySets
    BY HistoryConstantsAssumption, LenProperties
<1>2. one \in [1..n -> Seq(HistorySets)]
  <2>1. ASSUME NEW i \in 1..n
        PROVE  (IF DatasetOrder[i] \in ds THEN <<DatasetOrder[i]>> ELSE <<>>) \in Seq(HistorySets)
      BY <1>1
  <2> QED
      BY <1>1, <2>1
<1>3. one \in Seq(Seq(HistorySets)) /\ DOMAIN one = 1..n
    BY <1>1, <1>2, SequenceOfFunction
<1>4. Ordered(ds) = FlattenSeq(one)
    BY DEF Ordered
<1>5. ASSUME NEW d \in HistorySets, d \in ds
      PROVE  \E i \in 1..n : \E j \in DOMAIN one[i] : one[i][j] = d
  <2>1. PICK i \in 1..n : DatasetOrder[i] = d
      BY <1>1 DEF HistorySets, Range
  <2>2. one[i] = <<d>>
      BY <2>1, <1>5, <1>1
  <2>3. 1 \in DOMAIN <<d>> /\ <<d>>[1] = d
      OBVIOUS
  <2> QED
      BY <2>2, <2>3
<1> HIDE DEF one
<1>6. /\ FlattenSeq(one) \in Seq(HistorySets)
      /\ \A i \in 1..n : \A j \in DOMAIN one[i] :
             \E k \in DOMAIN FlattenSeq(one) : FlattenSeq(one)[k] = one[i][j]
  <2>1. /\ FlattenSeq(one) \in Seq(HistorySets)
        /\ \A i \in DOMAIN one : \A j \in DOMAIN one[i] :
               \E k \in DOMAIN FlattenSeq(one) : FlattenSeq(one)[k] = one[i][j]
    <3>1. one \in Seq(Seq(HistorySets))
        BY <1>3
    <3> QED
        BY <3>1, FlattenFacts, Zenon
  <2> QED
      BY <2>1, <1>3
<1> QED
    BY <1>4, <1>5, <1>6

\* Chunks of any size are a sequence, and every time is in one.
LEMMA ChunkFacts ==
    ASSUME NEW lo \in Int, NEW hi \in Int, NEW size \in Nat \ {0}
    PROVE  /\ ChunkWindows(lo, hi, size) \in Seq(WindowSet)
           /\ \A t \in lo..hi : \E i \in DOMAIN ChunkWindows(lo, hi, size) :
                  /\ ChunkWindows(lo, hi, size)[i].lo <= t
                  /\ t <= ChunkWindows(lo, hi, size)[i].hi
<1> DEFINE n == IF lo > hi THEN 0 ELSE (hi - lo) \div size + 1
           From(i) == lo + (i - 1) * size
           To(i)   == IF From(i) + size - 1 < hi THEN From(i) + size - 1 ELSE hi
           c == [i \in 1..n |-> Window(From(i), To(i))]
<1>1. c = ChunkWindows(lo, hi, size)
    BY DEF ChunkWindows
<1>2. n \in Nat
  <2>1. CASE lo <= hi
      BY <2>1, ChunkOfTime
  <2> QED
      BY <2>1
<1>3. ASSUME NEW i \in 1..n
      PROVE  c[i] \in WindowSet /\ c[i].lo = From(i) /\ c[i].hi = To(i)
    BY <1>2 DEF Window, WindowSet
<1>4. c \in [1..n -> WindowSet]
    BY <1>3
<1>5. c \in Seq(WindowSet) /\ DOMAIN c = 1..n
    BY <1>2, <1>4, SequenceOfFunction
<1>6. ASSUME NEW t \in lo..hi
      PROVE  \E i \in 1..n : c[i].lo <= t /\ t <= c[i].hi
  <2> DEFINE i == (t - lo) \div size + 1
  <2>1. /\ i \in 1..n
        /\ From(i) <= t
        /\ t <= From(i) + size - 1
    <3>1. lo <= t /\ t <= hi /\ t \in Int /\ n = (hi - lo) \div size + 1
        OBVIOUS
    <3>2. /\ i \in 1..((hi - lo) \div size + 1)
          /\ lo + (i - 1) * size <= t
          /\ t <= lo + (i - 1) * size + size - 1
        BY <3>1, ChunkOfTime
    <3> HIDE DEF i
    <3> QED
        BY <3>1, <3>2
  <2>2. From(i) \in Int /\ t <= To(i)
      BY <2>1, <1>2
  <2> HIDE DEF i, c
  <2> QED
      BY <2>1, <2>2, <1>3
<1> QED
    BY <1>1, <1>5, <1>6

\* The place of the j-th month of the k-th spec among the tasks, and back.
LEMMA PlaceOfTask ==
    ASSUME NEW n \in Nat \ {0}, NEW k \in Nat \ {0}, NEW j \in 1..n
    PROVE  /\ (k - 1) * n + j \in Nat \ {0}
           /\ ((k - 1) * n + j - 1) \div n + 1 = k
           /\ (((k - 1) * n + j - 1) % n) + 1 = j
<1> DEFINE i == (k - 1) * n + j
           q == (i - 1) \div n
           r == (i - 1) % n
           m == (k - 1) * n
<1>1. m \in Nat /\ i = m + j
    OBVIOUS
<1>2. q \in Int /\ r \in 0..(n - 1) /\ i - 1 = n * q + r
    BY <1>1
<1> HIDE DEF q, r
<1>3. n * q + r = n * (k - 1) + (j - 1)
    BY <1>2
<1>4. q = k - 1
  <2>1. CASE q <= k - 2
    <3>1. n * q <= n * (k - 2)
        BY <2>1, <1>2
    <3>2. n * (k - 2) = n * (k - 1) - n
        OBVIOUS
    <3> DEFINE a == n * q
               b == n * (k - 1)
    <3>3. a \in Int /\ b \in Int /\ a <= b - n /\ a + r = b + (j - 1)
        BY <3>1, <3>2, <1>2, <1>3
    <3> HIDE DEF a, b
    <3> QED
        BY <3>3, <1>2
  <2>2. CASE q >= k
    <3>1. n * q >= n * k
        BY <2>2, <1>2
    <3>2. n * k = n * (k - 1) + n
        OBVIOUS
    <3> DEFINE a == n * q
               b == n * (k - 1)
    <3>3. a \in Int /\ b \in Int /\ a >= b + n /\ a + r = b + (j - 1)
        BY <3>1, <3>2, <1>2, <1>3
    <3> HIDE DEF a, b
    <3> QED
        BY <3>3, <1>2
  <2> QED
      BY <2>1, <2>2, <1>2
<1>5. r = j - 1
    BY <1>2, <1>3, <1>4
<1> QED
    BY <1>1, <1>4, <1>5 DEF q, r

LEMMA TaskOfPlace ==
    ASSUME NEW n \in Nat \ {0}, NEW m \in Nat, NEW i \in 1..(n * m)
    PROVE  /\ (i - 1) \div n + 1 \in 1..m
           /\ ((i - 1) % n) + 1 \in 1..n
           /\ i = ((i - 1) \div n + 1 - 1) * n + (((i - 1) % n) + 1)
<1> DEFINE q == (i - 1) \div n
           r == (i - 1) % n
<1>1. q \in Int /\ r \in 0..(n - 1) /\ i - 1 = n * q + r
    OBVIOUS
<1> HIDE DEF q, r
<1>2. q >= 0
  <2>1. CASE q <= -1
    <3>1. n * q <= n * (-1)
        BY <2>1, <1>1
    <3> QED
        BY <3>1, <1>1
  <2> QED
      BY <2>1, <1>1
<1>3. q + 1 <= m
  <2>1. CASE q >= m
    <3>1. n * q >= n * m
        BY <2>1, <1>1
    <3> DEFINE a == n * q
               b == n * m
    <3>2. a \in Int /\ b \in Int /\ a >= b /\ i <= b /\ i - 1 = a + r
        BY <3>1, <1>1
    <3> HIDE DEF a, b
    <3> QED
        BY <3>2, <1>1
  <2> QED
      BY <2>1, <1>1
<1>4. (q + 1 - 1) * n = n * q
    BY <1>1
<1>5. /\ q + 1 \in 1..m
      /\ r + 1 \in 1..n
      /\ i = (q + 1 - 1) * n + (r + 1)
    BY <1>1, <1>2, <1>3, <1>4
<1> QED
    BY <1>5 DEF q, r

\* The months from the start of the history to t.
MonthsTo(t) == t \div Month + 1
MonthLo(j) == (j - 1) * Month
MonthHi(j, t) == IF MonthLo(j) + Month - 1 < t THEN MonthLo(j) + Month - 1 ELSE t

LEMMA MonthFacts ==
    ASSUME NEW t \in Nat
    PROVE  /\ MonthsTo(t) \in Nat \ {0}
           /\ Len(MonthWindows(Window(0, t))) = MonthsTo(t)
           /\ \A j \in 1..MonthsTo(t) :
                  /\ MonthWindows(Window(0, t))[j] = Window(MonthLo(j), MonthHi(j, t))
                  /\ MonthLo(j) \in Nat /\ MonthHi(j, t) \in Int
<1>1. Month \in Nat \ {0}
    BY Numbers
<1> DEFINE n == t \div Month + 1
           f == [j \in 1..n |-> Window(MonthLo(j), MonthHi(j, t))]
<1>2. n \in Nat \ {0}
  <2>1. 0 <= t /\ t \in Int /\ t - 0 = t
      OBVIOUS
  <2>2. (t - 0) \div Month + 1 \in 1..((t - 0) \div Month + 1)
      BY <1>1, <2>1, ChunkOfTime
  <2> QED
      BY <1>1, <2>1, <2>2
<1>3. ASSUME NEW j \in 1..n
      PROVE  MonthLo(j) \in Nat /\ MonthHi(j, t) \in Int
  <2>1. (j - 1) \in Nat /\ (j - 1) * Month \in Nat
      BY <1>1, <1>2
  <2> QED
      BY <2>1, <1>1 DEF MonthLo, MonthHi
<1>4. MonthWindows(Window(0, t)) = f
  <2>1. ASSUME NEW j \in 1..n
        PROVE  /\ 0 + (j - 1) * Month = MonthLo(j)
               /\ MonthLo(j) \in Nat
      BY <1>1, <1>2, <1>3 DEF MonthLo
  <2>2. MonthWindows(Window(0, t)) = ChunkWindows(0, t, Month)
      BY DEF MonthWindows, Window
  <2>3. ~ (0 > t) /\ t - 0 = t
      OBVIOUS
  <2>4. ChunkWindows(0, t, Month) =
            [j \in 1..n |-> Window(0 + (j - 1) * Month,
                                   IF 0 + (j - 1) * Month + Month - 1 < t
                                   THEN 0 + (j - 1) * Month + Month - 1 ELSE t)]
      BY <2>3 DEF ChunkWindows
  <2>5. ASSUME NEW j \in 1..n
        PROVE  Window(0 + (j - 1) * Month,
                      IF 0 + (j - 1) * Month + Month - 1 < t
                      THEN 0 + (j - 1) * Month + Month - 1 ELSE t)
               = Window(MonthLo(j), MonthHi(j, t))
      BY <2>1 DEF MonthHi
  <2> HIDE DEF n
  <2> QED
      BY <2>2, <2>4, <2>5
<1>5. f \in Seq(WindowSet) /\ Len(f) = n
  <2>1. f \in [1..n -> WindowSet]
      BY <1>3 DEF Window, WindowSet
  <2> QED
      BY <2>1, <1>2, SequenceOfFunction
<1>6. MonthsTo(t) = n
    BY DEF MonthsTo
<1> HIDE DEF n
<1> QED
    BY <1>2, <1>3, <1>4, <1>5, <1>6

\* The month of a time, among the months to a later one.
LEMMA MonthOfTime ==
    ASSUME NEW t \in Nat, NEW x \in 0..t
    PROVE  \E j \in 1..MonthsTo(t) : MonthLo(j) <= x /\ x <= MonthHi(j, t)
<1>1. Month \in Nat \ {0} /\ x \in Int /\ 0 <= x /\ x <= t /\ t \in Int /\ t - 0 = t /\ x - 0 = x
    BY Numbers
<1> DEFINE j == (x - 0) \div Month + 1
<1>2. /\ j \in 1..((t - 0) \div Month + 1)
      /\ 0 + (j - 1) * Month <= x
      /\ x <= 0 + (j - 1) * Month + Month - 1
  <2>1. 0 \in Int /\ t \in Int /\ x \in Int /\ Month \in Nat \ {0} /\ 0 <= x /\ x <= t
      BY <1>1
  <2> HIDE <1>1
  <2> QED
      BY <2>1, ChunkOfTime
<1>3. j \in 1..MonthsTo(t)
    BY <1>1, <1>2 DEF MonthsTo
<1> HIDE DEF j
<1>4. MonthLo(j) <= x /\ x <= MonthHi(j, t)
    BY <1>1, <1>2, <1>3, MonthFacts DEF MonthLo, MonthHi
<1> QED
    BY <1>3, <1>4

\* A month that starts by a time is among the months to it.
LEMMA MonthIsThere ==
    ASSUME NEW t \in Nat, NEW j \in Nat \ {0}, MonthLo(j) <= t
    PROVE  j \in 1..MonthsTo(t)
<1>1. Month \in Nat \ {0}
    BY Numbers
<1> DEFINE q == t \div Month
           r == t % Month
<1>2. q \in Int /\ r \in 0..(Month - 1) /\ t = Month * q + r
    BY <1>1
<1>3. MonthsTo(t) = q + 1
    BY DEF MonthsTo
<1> HIDE DEF q, r
<1>4. Month * (j - 1) <= t
    BY <1>1 DEF MonthLo
<1>5. j - 1 <= q
  <2>1. CASE j - 1 >= q + 1
    <3>1. Month * (j - 1) >= Month * (q + 1)
        BY <2>1, <1>1, <1>2
    <3>2. Month * (q + 1) = Month * q + Month
        BY <1>1, <1>2
    <3> DEFINE a == Month * (j - 1)
               b == Month * q
    <3>3. a \in Int /\ b \in Int /\ a >= b + Month /\ a <= t /\ t = b + r
        BY <3>1, <3>2, <1>1, <1>2, <1>4
    <3> HIDE DEF a, b
    <3> QED
        BY <3>3, <1>1, <1>2
  <2> QED
      BY <2>1, <1>2
<1> QED
    BY <1>2, <1>3, <1>5

\* The tasks of a bootstrap to t.
PlanTo(t) == BootstrapTasks(Window(0, t))
Specs == Len(BootstrapKeys)
SpecAt(i, t) == (i - 1) \div MonthsTo(t) + 1
MonthAt(i, t) == ((i - 1) % MonthsTo(t)) + 1
PlaceAt(k, j, t) == (k - 1) * MonthsTo(t) + j

LEMMA BootstrapKeyFacts ==
    /\ BootstrapKeys \in Seq(Keys)
    /\ Specs \in Nat \ {0}
    /\ DOMAIN BootstrapKeys = 1..Specs
    /\ Range(BootstrapKeys) \subseteq Keys
<1>1. Ordered(BarDatasets) \in Seq(HistorySets)
    BY OrderedFacts
<1>2. Ordered(BarDatasets) \in Seq(Keys) /\ SnapshotKey \in Keys
    BY <1>1, SeqMonotonic DEF Keys
<1> DEFINE s == Ordered(BarDatasets)
<1> HIDE DEF s
<1>3. /\ Append(s, SnapshotKey) \in Seq(Keys)
      /\ Len(Append(s, SnapshotKey)) = Len(s) + 1
      /\ Len(s) \in Nat
    BY <1>2, AppendProperties, LenProperties DEF s
<1>4. BootstrapKeys = Append(s, SnapshotKey)
    BY DEF BootstrapKeys, s
<1>5. BootstrapKeys \in Seq(Keys) /\ Len(BootstrapKeys) \in Nat \ {0}
    BY <1>3, <1>4
<1> QED
    BY <1>5, LenProperties DEF Specs, Range

LEMMA PlanFacts ==
    ASSUME NEW t \in Nat
    PROVE  /\ PlanTo(t) \in Seq(TaskSet)
           /\ DOMAIN PlanTo(t) = 1..(MonthsTo(t) * Specs)
           /\ \A i \in 1..(MonthsTo(t) * Specs) :
                  /\ SpecAt(i, t) \in 1..Specs
                  /\ MonthAt(i, t) \in 1..MonthsTo(t)
                  /\ i = PlaceAt(SpecAt(i, t), MonthAt(i, t), t)
                  /\ PlanTo(t)[i] = [key |-> BootstrapKeys[SpecAt(i, t)],
                                     lo |-> MonthLo(MonthAt(i, t)),
                                     hi |-> MonthHi(MonthAt(i, t), t)]
<1> DEFINE n == MonthsTo(t)
           m == n * Specs
<1>1. n \in Nat \ {0} /\ Specs \in Nat \ {0}
    BY MonthFacts, BootstrapKeyFacts
<1>2. m \in Nat
    BY <1>1
<1>3. ASSUME NEW i \in 1..m
      PROVE  /\ SpecAt(i, t) \in 1..Specs
             /\ MonthAt(i, t) \in 1..n
             /\ i = PlaceAt(SpecAt(i, t), MonthAt(i, t), t)
  <2> DEFINE k == (i - 1) \div n + 1
             j == ((i - 1) % n) + 1
  <2>1. k \in 1..Specs /\ j \in 1..n /\ i = (k - 1) * n + j
    <3> HIDE DEF n
    <3> QED
        BY <1>1, TaskOfPlace
  <2>2. SpecAt(i, t) = k /\ MonthAt(i, t) = j
      BY DEF SpecAt, MonthAt
  <2> HIDE DEF k, j
  <2>3. PlaceAt(k, j, t) = (k - 1) * n + j
      BY DEF PlaceAt
  <2> QED
      BY <2>1, <2>2, <2>3
<1>4. ASSUME NEW i \in 1..m
      PROVE  Task(BootstrapKeys[SpecAt(i, t)], MonthWindows(Window(0, t))[MonthAt(i, t)])
             = [key |-> BootstrapKeys[SpecAt(i, t)],
                lo |-> MonthLo(MonthAt(i, t)), hi |-> MonthHi(MonthAt(i, t), t)]
  <2> DEFINE j == MonthAt(i, t)
  <2>1. MonthWindows(Window(0, t))[j] = Window(MonthLo(j), MonthHi(j, t))
      BY <1>3, MonthFacts
  <2> HIDE DEF j
  <2>2. Task(BootstrapKeys[SpecAt(i, t)], MonthWindows(Window(0, t))[j])
        = [key |-> BootstrapKeys[SpecAt(i, t)], lo |-> MonthLo(j), hi |-> MonthHi(j, t)]
      BY <2>1 DEF Task, Window
  <2> QED
      BY <2>2 DEF j
<1>5. PlanTo(t) = [i \in 1..m |->
                      [key |-> BootstrapKeys[SpecAt(i, t)],
                       lo |-> MonthLo(MonthAt(i, t)), hi |-> MonthHi(MonthAt(i, t), t)]]
  <2>1. PlanTo(t) = [i \in 1..m |-> Task(BootstrapKeys[SpecAt(i, t)],
                                          MonthWindows(Window(0, t))[MonthAt(i, t)])]
      BY MonthFacts DEF PlanTo, BootstrapTasks, Specs, SpecAt, MonthAt
  <2> HIDE DEF m
  <2> QED
      BY <2>1, <1>4
<1>6. ASSUME NEW i \in 1..m
      PROVE  PlanTo(t)[i] \in TaskSet
  <2>1. BootstrapKeys[SpecAt(i, t)] \in Keys
      BY <1>3, BootstrapKeyFacts, ElementOfSeq DEF Specs
  <2>2. MonthLo(MonthAt(i, t)) \in Int /\ MonthHi(MonthAt(i, t), t) \in Int
      BY <1>3, MonthFacts
  <2> HIDE DEF m
  <2> QED
      BY <2>1, <2>2, <1>5 DEF TaskSet
<1>7. PlanTo(t) \in Seq(TaskSet) /\ DOMAIN PlanTo(t) = 1..m
  <2> HIDE DEF m
  <2>1. PlanTo(t) \in [1..m -> TaskSet]
      BY <1>5, <1>6
  <2> QED
      BY <2>1, <1>2, SequenceOfFunction
<1> QED
    BY <1>3, <1>5, <1>7

\* The task of a spec for a time.
LEMMA TaskFor ==
    ASSUME NEW t \in Nat, NEW k \in 1..Specs, NEW j \in 1..MonthsTo(t)
    PROVE  /\ PlaceAt(k, j, t) \in DOMAIN PlanTo(t)
           /\ PlanTo(t)[PlaceAt(k, j, t)] = [key |-> BootstrapKeys[k],
                                             lo |-> MonthLo(j), hi |-> MonthHi(j, t)]
<1> DEFINE n == MonthsTo(t)
           i == PlaceAt(k, j, t)
<1>1. n \in Nat \ {0} /\ Specs \in Nat \ {0} /\ k \in Nat \ {0}
    BY MonthFacts, BootstrapKeyFacts
<1>2. /\ i \in Nat \ {0}
      /\ SpecAt(i, t) = k
      /\ MonthAt(i, t) = j
  <2> DEFINE m == (k - 1) * n + j
             a == (m - 1) \div n + 1
             b == ((m - 1) % n) + 1
  <2>1. m \in Nat \ {0} /\ a = k /\ b = j
    <3> HIDE DEF n, i
    <3>1. j \in 1..n
        BY DEF n
    <3> QED
        BY <1>1, <3>1, PlaceOfTask
  <2>2. i = m
      BY DEF PlaceAt
  <2>3. SpecAt(m, t) = a /\ MonthAt(m, t) = b
      BY DEF SpecAt, MonthAt
  <2> HIDE DEF m, i, a, b
  <2> QED
      BY <2>1, <2>2, <2>3
<1>3. i <= n * Specs
  <2>1. (k - 1) * n <= (Specs - 1) * n
      BY <1>1
  <2>2. (Specs - 1) * n = n * Specs - n
      BY <1>1
  <2> DEFINE a == (k - 1) * n
             b == n * Specs
  <2>3. a \in Int /\ b \in Int /\ a <= b - n /\ i = a + j
      BY <2>1, <2>2, <1>1 DEF PlaceAt
  <2> HIDE DEF a, i
  <2>4. b \in Int /\ i <= b
    <3> HIDE DEF b
    <3> QED
        BY <2>3, <1>1
  <2> QED
      BY <2>4
<1>4. i \in 1..(n * Specs)
    BY <1>1, <1>2, <1>3
<1> QED
    BY <1>2, <1>4, PlanFacts

\* build_chunk_tasks leaves no time of no spec out.
LEMMA PlanCovers ==
    ASSUME NEW t \in Nat, NEW key \in Range(BootstrapKeys), NEW x \in 0..t
    PROVE  \E i \in DOMAIN PlanTo(t) :
               PlanTo(t)[i].key = key /\ PlanTo(t)[i].lo <= x /\ x <= PlanTo(t)[i].hi
<1>1. PICK k \in 1..Specs : BootstrapKeys[k] = key
    BY BootstrapKeyFacts DEF Range
<1>2. PICK j \in 1..MonthsTo(t) : MonthLo(j) <= x /\ x <= MonthHi(j, t)
    BY MonthOfTime
<1>3. /\ PlaceAt(k, j, t) \in DOMAIN PlanTo(t)
      /\ PlanTo(t)[PlaceAt(k, j, t)] = [key |-> BootstrapKeys[k],
                                        lo |-> MonthLo(j), hi |-> MonthHi(j, t)]
    BY TaskFor
<1>4. /\ PlanTo(t)[PlaceAt(k, j, t)].key = key
      /\ PlanTo(t)[PlaceAt(k, j, t)].lo <= x
      /\ x <= PlanTo(t)[PlaceAt(k, j, t)].hi
    BY <1>1, <1>2, <1>3
<1> QED
    BY <1>3, <1>4

\* A plan to a later end has a task at the same place or a later one: skipping
\* by number skips no time that the earlier plan did not have before that place.
LEMMA PlanGrows ==
    ASSUME NEW t \in Nat, NEW u \in Nat, t <= u,
           NEW i \in DOMAIN PlanTo(u), NEW x \in 0..t,
           PlanTo(u)[i].lo <= x, x <= PlanTo(u)[i].hi
    PROVE  \E j \in DOMAIN PlanTo(t) :
               /\ j <= i
               /\ PlanTo(t)[j].key = PlanTo(u)[i].key
               /\ PlanTo(t)[j].lo <= x /\ x <= PlanTo(t)[j].hi
<1> DEFINE k == SpecAt(i, u)
           j == MonthAt(i, u)
           n == MonthsTo(t)
           m == MonthsTo(u)
           p == PlaceAt(k, j, t)
<1>1. n \in Nat \ {0} /\ m \in Nat \ {0} /\ Specs \in Nat \ {0} /\ Month \in Nat \ {0}
    BY MonthFacts, BootstrapKeyFacts, Numbers
<1>2. /\ k \in 1..Specs /\ j \in 1..m
      /\ i = PlaceAt(k, j, u)
      /\ PlanTo(u)[i] = [key |-> BootstrapKeys[k], lo |-> MonthLo(j), hi |-> MonthHi(j, u)]
    BY PlanFacts
<1> HIDE DEF k, j
<1>3. MonthLo(j) <= x /\ x <= MonthHi(j, u) /\ PlanTo(u)[i].key = BootstrapKeys[k]
    BY <1>2
<1>4. MonthLo(j) \in Nat /\ j \in Nat \ {0}
    BY <1>1, <1>2, MonthFacts
<1>5. j \in 1..n
    BY <1>3, <1>4, MonthIsThere
<1>6. x <= MonthHi(j, t)
    BY <1>1, <1>3, <1>4 DEF MonthHi
<1>7. /\ p \in DOMAIN PlanTo(t)
      /\ PlanTo(t)[p] = [key |-> BootstrapKeys[k], lo |-> MonthLo(j), hi |-> MonthHi(j, t)]
    BY <1>2, <1>5, TaskFor
<1>8. n <= m
  <2>1. MonthLo(n) \in Nat /\ MonthLo(n) <= t
    <3>1. MonthLo(n) \in Nat
      <4>1. n \in 1..MonthsTo(t)
          BY <1>1
      <4> HIDE DEF n
      <4> QED
          BY <4>1, MonthFacts
    <3> DEFINE q == t \div Month
               r == t % Month
    <3>2. q \in Int /\ r \in 0..(Month - 1) /\ t = Month * q + r /\ n = q + 1
        BY <1>1 DEF MonthsTo
    <3> HIDE DEF q, r, n
    <3> QED
        BY <3>1, <3>2, <1>1 DEF MonthLo
  <2> HIDE DEF n
  <2>2. n \in 1..MonthsTo(u)
      BY <2>1, <1>1, MonthIsThere
  <2> QED
      BY <2>2, <1>1
<1>9. p <= i
  <2> HIDE DEF n, m, p
  <2>1. (k - 1) \in Nat /\ (k - 1) * n <= (k - 1) * m
      BY <1>1, <1>2, <1>8
  <2>2. p = (k - 1) * n + j /\ i = (k - 1) * m + j
      BY <1>2 DEF PlaceAt, p, n, m
  <2> QED
      BY <2>1, <2>2, <1>1, <1>4
<1> HIDE DEF p
<1>10. /\ PlanTo(t)[p].key = PlanTo(u)[i].key
       /\ PlanTo(t)[p].lo <= x /\ x <= PlanTo(t)[p].hi
    BY <1>3, <1>6, <1>7
<1> QED
    BY <1>7, <1>9, <1>10

-----------------------------------------------------------------------------
(* The inductive invariant *)

Lives  == {"none", "alive", "zombie", "gone"}
Places == {"plan", "fill", "replace", "loop", "execute"}
Sequels == {"first", "loop", "execute", "exit"}
Inodes == {"none", "temp", "file", "lost"}

ProcSet ==
    [life : Lives, parent : {"shell", "api"}, mode : {"bootstrap", "incremental", "resume"},
     names : SUBSET HistorySets, pc : Places, after : Sequels, inode : Inodes,
     status : Reports \union {NoFile}, tasks : Seq(TaskSet), number : Nat,
     parts : Seq(PartSet), calls : Seq(PartSet)]

StateTypes ==
    /\ now \in StartTime..EndTime
    /\ rows \in [HistorySets -> SUBSET (0..EndTime)]
    /\ file \in Reports \union {Torn, NoFile}
    /\ temp \in Reports \union {Torn, NoFile}
    /\ proc \in [Pids -> ProcSet]
    /\ api \in [Clients -> SUBSET Selections]
    /\ launches \in 0..MaxLaunches /\ troubles \in 0..MaxTroubles
    /\ ran \in [Range(BootstrapKeys) -> SUBSET Int]
    /\ crowded \in BOOLEAN

\* A record is being written with more to follow, or is written and work goes on.
GoesOn(r) == \/ r.pc \in {"loop", "execute"}
             \/ r.pc \in {"fill", "replace"} /\ r.after # "exit"
AtTask(r) == \/ r.pc = "execute"
             \/ r.pc \in {"fill", "replace"} /\ r.after = "execute"

\* What a process knows of its own work.
ProcessKnows(r, p) ==
    /\ r.life # "alive" => r.pc = "plan"
    /\ r.pc = "plan" => r.number = 0
    /\ r.pc # "fill" => r.inode = "none"
    /\ r.number <= Len(r.tasks)
    /\ AtTask(r) => r.number < Len(r.tasks)
    /\ r.pc # "plan" =>
           /\ r.status \in Reports
           /\ r.status.pid = p
           /\ \/ r.status.completed = r.number
              \/ r.number = Len(r.tasks) /\ r.status.completed > r.number
           /\ r.mode = "incremental" => r.status.mode = "incremental"
    /\ GoesOn(r) => r.status.state = "running"

\* A backfill that has been alone all the time finds its files as it left them.
AloneFiles(r) ==
    /\ r.pc = "fill" => r.inode = "temp"
    /\ r.pc = "replace" => temp = r.status
    /\ r.pc \in {"loop", "execute"} => file = r.status
Alone ==
    ~crowded => /\ file # Torn
                /\ \A p, q \in Alive : p = q
                /\ \A p \in Alive : AloneFiles(proc[p])

IInv ==
    /\ StateTypes
    /\ \A p \in Pids : ProcessKnows(proc[p], p)
    /\ Alone

\* A report of a bootstrap is true at a time, when so much ran: the tasks it
\* counts ran, those of any plan from then on, and all of its window once it says
\* finished.
Ran(task, hi, done) ==
    \A x \in 0..hi : task.lo <= x /\ x <= task.hi => x \in done[task.key]
Honest(r, t, done) ==
    (r \in Reports /\ r.mode = "bootstrap") =>
        /\ r.lo = 0 /\ r.hi <= t
        /\ \A u \in t..EndTime : \A i \in DOMAIN PlanTo(u) :
               i <= r.completed => Ran(PlanTo(u)[i], r.hi, done)
        /\ r.state = "finished" =>
               \A key \in Range(BootstrapKeys) : r.lo..r.hi \subseteq done[key]

\* A process that reports on a bootstrap works on a plan made since, and the
\* tasks behind it ran.
WorksOnPlan(r, t, done) ==
    (r.pc # "plan" /\ r.status.mode = "bootstrap") =>
        /\ r.status.hi \in 0..t
        /\ \E u \in (r.status.hi)..t : r.tasks = PlanTo(u)
        /\ \A i \in 1..r.number : Ran(r.tasks[i], r.status.hi, done)

CoverInv ==
    /\ Honest(file, now, ran) /\ Honest(temp, now, ran)
    /\ \A p \in Pids : /\ Honest(proc[p].status, now, ran)
                        /\ WorksOnPlan(proc[p], now, ran)

-----------------------------------------------------------------------------
(* Types of what a process works with *)

LEMMA KindsOfDatasets ==
    /\ Datasets \subseteq HistorySets
    /\ FundingDatasets \subseteq HistorySets /\ InterestDatasets \subseteq HistorySets
    /\ PriceDatasets \subseteq HistorySets /\ RatioDatasets \subseteq HistorySets
BY HistoryConstantsAssumption DEF Datasets, RetainedDatasets

LEMMA NewStatus ==
    ASSUME NEW p \in Pids, NEW mode \in {"bootstrap", "incremental"},
           NEW t \in Nat, NEW tasks \in Seq(TaskSet), NEW keys \in SUBSET Keys
    PROVE  /\ Status(p, mode, Window(0, t), tasks, keys) \in Reports
           /\ Status(p, mode, Window(0, t), tasks, keys).pid = p
           /\ Status(p, mode, Window(0, t), tasks, keys).mode = mode
           /\ Status(p, mode, Window(0, t), tasks, keys).completed = 0
           /\ Status(p, mode, Window(0, t), tasks, keys).state = "running"
           /\ Status(p, mode, Window(0, t), tasks, keys).lo = 0
           /\ Status(p, mode, Window(0, t), tasks, keys).hi = t
<1>1. Len(tasks) \in Nat
    BY LenProperties
<1> QED
    BY <1>1 DEF Status, Window, Reports, Keys


-----------------------------------------------------------------------------
(* What an incremental run looks for *)

LEMMA PlanningStepType ==
    ASSUME NEW d
    PROVE  PlanningStep(d) \in Nat \ {0}
BY Numbers DEF PlanningStep

\* The rows that count are on the grid and in the window.
LEMMA BucketFacts ==
    ASSUME NEW d, NEW times, times \subseteq Int, NEW lo \in Int, NEW hi \in Int
    PROVE  /\ Buckets(d, times, Window(lo, hi)) \subseteq lo..hi
           /\ \A t \in Buckets(d, times, Window(lo, hi)) : t % PlanningStep(d) = 0
<1>1. SUFFICES ASSUME NEW t \in Buckets(d, times, Window(lo, hi))
               PROVE  t \in lo..hi /\ t % PlanningStep(d) = 0
    OBVIOUS
<1>2. CASE d \in FundingDatasets
  <2>1. PICK u \in times : t = FloorTo(u, FundingInterval) /\ lo <= t /\ t <= hi
      BY <1>1, <1>2 DEF Buckets, Within, Window
  <2>2. t \in Int /\ t % FundingInterval = 0
      BY <2>1, Numbers, FloorToFacts
  <2> QED
      BY <2>1, <2>2, <1>2 DEF PlanningStep
<1>3. CASE d \notin FundingDatasets
  <2>1. t \in times /\ t % PlanningStep(d) = 0 /\ lo <= t /\ t <= hi
      BY <1>1, <1>3 DEF Buckets, Within, Window
  <2> QED
      BY <2>1
<1> QED
    BY <1>2, <1>3

\* planned_gap_windows misses nothing: each point of the grid from the available
\* start on that is not stored is in a window of the plan.
LEMMA GapWindowsCover ==
    ASSUME NEW d, NEW times, times \subseteq Int, NEW end \in Int, NEW t \in Int
    PROVE  /\ GapWindows(d, times, Window(0, end), t) \in Seq(WindowSet)
           /\ \A u \in Int :
                  /\ AvailableFrom(d, 0, t) <= u /\ u <= end /\ u % PlanningStep(d) = 0
                  /\ \A w : u \notin Buckets(d, times, w)
                  => \E i \in DOMAIN GapWindows(d, times, Window(0, end), t) :
                         /\ GapWindows(d, times, Window(0, end), t)[i].lo <= u
                         /\ u <= GapWindows(d, times, Window(0, end), t)[i].hi
<1> DEFINE step    == PlanningStep(d)
           from    == AvailableFrom(d, 0, t)
           lo      == CeilTo(from, step)
           hi      == FloorTo(end, step)
           stored  == Buckets(d, times, Window(lo, hi))
           holes   == {Window(s.lo, s.hi) : s \in InternalSegments(stored, step)}
           head    == Window(lo, Min(stored) - step)
           tail    == Window(Max(stored) + step, hi)
           gaps    == {g \in {head, tail} \union holes : g.lo <= g.hi}
           G       == GapWindows(d, times, Window(0, end), t)
<1>1. step \in Nat \ {0}
    BY PlanningStepType
<1>2. from \in Int
  <2>1. t - Retention \in Int
      BY Numbers
  <2>2. RetentionFloor(t) \in Int
      BY <2>1, Numbers, FloorToFacts DEF RetentionFloor
  <2> QED
      BY <2>2 DEF AvailableFrom
<1>3. /\ lo \in Int /\ hi \in Int /\ lo % step = 0 /\ hi % step = 0
      /\ \A u \in Int : from <= u /\ u % step = 0 => lo <= u
      /\ \A u \in Int : u <= end /\ u % step = 0 => u <= hi
  <2> HIDE DEF step, from
  <2> QED
      BY <1>1, <1>2, CeilToFacts, FloorToFacts
<1>4. /\ stored \subseteq lo..hi
      /\ \A s \in stored : s % step = 0
  <2> HIDE DEF lo, hi
  <2> QED
      BY <1>3, BucketFacts
<1>5. G = IF hi < lo THEN <<>> ELSE IF stored = {} THEN <<Window(lo, hi)>> ELSE SortedWindows(gaps)
    BY DEF GapWindows, AlignWindow, Window
<1> HIDE DEF step, from, lo, hi, stored, G
<1>6. CASE hi < lo
  <2>1. G = <<>>
      BY <1>5, <1>6
  <2>2. ASSUME NEW u \in Int, from <= u, u <= end, u % step = 0
        PROVE  \E i \in DOMAIN G : G[i].lo <= u /\ u <= G[i].hi
      BY <1>3, <1>6, <2>2
  <2>3. G \in Seq(WindowSet)
      BY <2>1
  <2> QED
      BY <2>2, <2>3 DEF G, from, step
<1>7. CASE ~ (hi < lo) /\ stored = {}
  <2>1. G = <<Window(lo, hi)>>
      BY <1>5, <1>7
  <2>2. Window(lo, hi) \in WindowSet /\ Window(lo, hi).lo = lo /\ Window(lo, hi).hi = hi
      BY <1>3 DEF WindowSet, Window
  <2>3. G \in Seq(WindowSet) /\ 1 \in DOMAIN G /\ G[1].lo = lo /\ G[1].hi = hi
      BY <2>1, <2>2
  <2>4. ASSUME NEW u \in Int, from <= u, u <= end, u % step = 0
        PROVE  \E i \in DOMAIN G : G[i].lo <= u /\ u <= G[i].hi
      BY <1>3, <2>3, <2>4
  <2> QED
      BY <2>3, <2>4 DEF G, from, step
<1>8. CASE ~ (hi < lo) /\ stored # {}
  <2>1. G = SortedWindows(gaps)
      BY <1>5, <1>8
  <2>2. /\ Min(stored) \in stored /\ \A s \in stored : Min(stored) <= s
        /\ Max(stored) \in stored /\ \A s \in stored : s <= Max(stored)
        /\ Min(stored) \in lo..hi /\ Max(stored) \in lo..hi
        /\ Min(stored) % step = 0 /\ Max(stored) % step = 0
    <3>1. /\ Min(stored) \in stored /\ \A s \in stored : Min(stored) <= s
          /\ Min(stored) \in lo..hi
        BY <1>3, <1>4, <1>8, MinOfTimes
    <3>2. /\ Max(stored) \in stored /\ \A s \in stored : s <= Max(stored)
          /\ Max(stored) \in lo..hi
        BY <1>3, <1>4, <1>8, MaxOfTimes
    <3> QED
        BY <3>1, <3>2, <1>4
  <2> DEFINE least == Min(stored)
             most  == Max(stored)
  <2> HIDE DEF least, most
  <2>3. ASSUME NEW g \in gaps
        PROVE  g \in [lo : lo..hi, hi : lo..hi]
    <3>1. CASE g = head
        BY <3>1, <2>2, <1>1, <1>3 DEF Window
    <3>2. CASE g = tail
        BY <3>2, <2>2, <1>1, <1>3 DEF Window
    <3>3. CASE g \in holes
      <4>1. PICK s \in InternalSegments(stored, step) : g = Window(s.lo, s.hi)
          BY <3>3
      <4>2. PICK p \in Neighbours(stored) :
                s = [lo |-> p[1] + step, hi |-> p[2] - step, count |-> (p[2] - p[1]) \div step - 1]
          BY <4>1 DEF InternalSegments
      <4>3. p[1] \in lo..hi /\ p[2] \in lo..hi
          BY <4>2, <1>4 DEF Neighbours
      <4>4. g = [lo |-> p[1] + step, hi |-> p[2] - step] /\ g.lo <= g.hi
          BY <4>1, <4>2 DEF Window
      <4> QED
          BY <4>3, <4>4, <1>1, <1>3
    <3> QED
        BY <3>1, <3>2, <3>3
  <2>4. gaps \subseteq [lo : lo..hi, hi : lo..hi]
    <3> HIDE DEF gaps
    <3> QED
        BY <2>3
  <2> HIDE DEF gaps
  <2>5. IsFiniteSet(gaps) /\ gaps \subseteq [lo : Int, hi : Int]
    <3>1. IsFiniteSet(gaps)
        BY <2>4, <1>3, WindowsAreFinite, FS_Subset
    <3>2. \A g \in [lo : lo..hi, hi : lo..hi] : g \in [lo : Int, hi : Int]
        BY <1>3
    <3> QED
        BY <2>4, <3>1, <3>2
  <2>6. G \in Seq(gaps) /\ \A g \in gaps : \E i \in DOMAIN G : G[i] = g
      BY <2>1, <2>5, SortedWindowsFacts
  <2>7. G \in Seq(WindowSet)
      BY <2>5, <2>6, SeqMonotonic DEF WindowSet
  <2>8. ASSUME NEW u \in Int, from <= u, u <= end, u % step = 0, u \notin stored
        PROVE  \E g \in gaps : g.lo <= u /\ u <= g.hi
    <3>1. lo <= u /\ u <= hi
        BY <1>3, <2>8
    <3>2. CASE u < Min(stored)
      <4>1. u + step <= Min(stored) /\ Min(stored) \in Int
        <5>1. least \in Int /\ least % step = 0 /\ u < least
            BY <3>2, <2>2, <1>3 DEF least
        <5>2. u + step <= least
            BY <5>1, <2>8, <1>1, StepApart
        <5> QED
            BY <5>1, <5>2 DEF least
      <4>2. head.lo <= u /\ u <= head.hi /\ head.lo <= head.hi
          BY <4>1, <3>1, <1>1, <1>3 DEF Window
      <4>3. head \in gaps
          BY <4>2 DEF gaps
      <4> QED
          BY <4>2, <4>3
    <3>3. CASE u > Max(stored)
      <4>1. Max(stored) + step <= u /\ Max(stored) \in Int
        <5>1. most \in Int /\ most % step = 0 /\ most < u
            BY <3>3, <2>2, <1>3 DEF most
        <5>2. most + step <= u
            BY <5>1, <2>8, <1>1, StepApart
        <5> QED
            BY <5>1, <5>2 DEF most
      <4>2. tail.lo <= u /\ u <= tail.hi /\ tail.lo <= tail.hi
          BY <4>1, <3>1, <1>1, <1>3 DEF Window
      <4>3. tail \in gaps
          BY <4>2 DEF gaps
      <4> QED
          BY <4>2, <4>3
    <3>4. CASE Min(stored) < u /\ u < Max(stored)
      <4>1. PICK s \in InternalSegments(stored, step) : s.lo <= u /\ u <= s.hi
          BY <3>4, <2>2, <2>8, <1>1, <1>3, <1>4, SegmentsCover
      <4>2. /\ Window(s.lo, s.hi) \in holes
            /\ Window(s.lo, s.hi).lo = s.lo /\ Window(s.lo, s.hi).hi = s.hi
          BY <4>1 DEF Window
      <4>3. s.lo \in Int /\ s.hi \in Int
        <5>1. PICK p \in Neighbours(stored) :
                  s = [lo |-> p[1] + step, hi |-> p[2] - step, count |-> (p[2] - p[1]) \div step - 1]
            BY <4>1 DEF InternalSegments
        <5>2. p[1] \in lo..hi /\ p[2] \in lo..hi
            BY <5>1, <1>4 DEF Neighbours
        <5> QED
            BY <5>1, <5>2, <1>1, <1>3
      <4>4. Window(s.lo, s.hi) \in gaps
          BY <4>1, <4>2, <4>3 DEF gaps
      <4> QED
          BY <4>1, <4>2, <4>4
    <3> QED
        BY <3>2, <3>3, <3>4, <2>2, <2>8
  <2>9. ASSUME NEW u \in Int, from <= u, u <= end, u % step = 0, u \notin stored
        PROVE  \E i \in DOMAIN G : G[i].lo <= u /\ u <= G[i].hi
    <3>1. PICK g \in gaps : g.lo <= u /\ u <= g.hi
        BY <2>8, <2>9
    <3> QED
        BY <3>1, <2>6
  <2>10. \A u : (\A w : u \notin Buckets(d, times, w)) => u \notin stored
      BY DEF stored
  <2> QED
      BY <2>7, <2>9, <2>10 DEF G, from, step
<1> QED
    BY <1>6, <1>7, <1>8

LEMMA TasksOfFacts ==
    ASSUME NEW key \in Keys, NEW windows \in Seq(WindowSet)
    PROVE  /\ TasksOf(key, windows) \in Seq(TaskSet)
           /\ DOMAIN TasksOf(key, windows) = DOMAIN windows
           /\ \A i \in DOMAIN windows :
                  TasksOf(key, windows)[i] = [key |-> key, lo |-> windows[i].lo, hi |-> windows[i].hi]
<1>1. /\ Len(windows) \in Nat /\ DOMAIN windows = 1..Len(windows)
      /\ \A i \in 1..Len(windows) : windows[i] \in WindowSet
    BY LenProperties
<1> DEFINE f == [i \in 1..Len(windows) |-> [key |-> key, lo |-> windows[i].lo, hi |-> windows[i].hi]]
<1>2. TasksOf(key, windows) = f
    BY <1>1 DEF TasksOf, Task
<1>3. \A i \in 1..Len(windows) :
          [key |-> key, lo |-> windows[i].lo, hi |-> windows[i].hi] \in TaskSet
    BY <1>1 DEF TaskSet, WindowSet
<1>4. f \in [1..Len(windows) -> TaskSet]
    BY <1>3
<1>5. f \in Seq(TaskSet)
    BY <1>1, <1>4, SequenceOfFunction
<1> QED
    BY <1>1, <1>2, <1>5

\* A task of a data set for a time.
HasTask(tasks, d, x) ==
    \E k \in DOMAIN tasks : tasks[k].key = d /\ tasks[k].lo <= x /\ x <= tasks[k].hi

LEMMA GapTasksCover ==
    ASSUME NEW d \in HistorySets, NEW gaps \in Seq(WindowSet)
    PROVE  /\ GapTasks(d, gaps) \in Seq(TaskSet)
           /\ \A i \in DOMAIN gaps, x \in Int :
                  gaps[i].lo <= x /\ x <= gaps[i].hi => HasTask(GapTasks(d, gaps), d, x)
<1> DEFINE n == Len(gaps)
           one == [i \in DOMAIN gaps |-> TasksOf(d, MonthWindows(gaps[i]))]
<1>1. n \in Nat /\ DOMAIN gaps = 1..n /\ \A i \in 1..n : gaps[i] \in WindowSet
    BY LenProperties
<1>2. d \in Keys
    BY DEF Keys
<1>3. ASSUME NEW i \in 1..n
      PROVE  /\ MonthWindows(gaps[i]) \in Seq(WindowSet)
             /\ \A x \in Int : gaps[i].lo <= x /\ x <= gaps[i].hi =>
                    \E j \in DOMAIN MonthWindows(gaps[i]) :
                        MonthWindows(gaps[i])[j].lo <= x /\ x <= MonthWindows(gaps[i])[j].hi
  <2> DEFINE lo == gaps[i].lo
             hi == gaps[i].hi
  <2>1. lo \in Int /\ hi \in Int /\ Month \in Nat \ {0}
      BY <1>1, Numbers DEF WindowSet
  <2>2. MonthWindows(gaps[i]) = ChunkWindows(lo, hi, Month)
      BY DEF MonthWindows
  <2>3. \A x \in Int : lo <= x /\ x <= hi => x \in lo..hi
      BY <2>1
  <2> HIDE DEF lo, hi
  <2>4. /\ ChunkWindows(lo, hi, Month) \in Seq(WindowSet)
        /\ \A t \in lo..hi : \E j \in DOMAIN ChunkWindows(lo, hi, Month) :
               /\ ChunkWindows(lo, hi, Month)[j].lo <= t
               /\ t <= ChunkWindows(lo, hi, Month)[j].hi
      BY <2>1, ChunkFacts
  <2>5. \A x \in Int : lo <= x /\ x <= hi =>
            \E j \in DOMAIN MonthWindows(gaps[i]) :
                MonthWindows(gaps[i])[j].lo <= x /\ x <= MonthWindows(gaps[i])[j].hi
      BY <2>2, <2>3, <2>4
  <2> QED
      BY <2>2, <2>4, <2>5 DEF lo, hi
<1>4. \A i \in 1..n : one[i] = TasksOf(d, MonthWindows(gaps[i]))
    BY <1>1
<1>5. \A i \in 1..n : one[i] \in Seq(TaskSet)
    BY <1>2, <1>3, <1>4, TasksOfFacts
<1>6. one \in Seq(Seq(TaskSet)) /\ DOMAIN one = 1..n
  <2>1. one \in [1..n -> Seq(TaskSet)]
    <3>1. \A i \in 1..n : TasksOf(d, MonthWindows(gaps[i])) \in Seq(TaskSet)
        BY <1>4, <1>5
    <3> QED
        BY <3>1, <1>1
  <2> QED
      BY <2>1, <1>1, SequenceOfFunction
<1>7. GapTasks(d, gaps) = FlattenSeq(one)
    BY DEF GapTasks
<1> HIDE DEF one, n
<1>8. /\ FlattenSeq(one) \in Seq(TaskSet)
      /\ \A i \in DOMAIN one : \A j \in DOMAIN one[i] :
             \E k \in DOMAIN FlattenSeq(one) : FlattenSeq(one)[k] = one[i][j]
  <2>1. one \in Seq(Seq(TaskSet))
      BY <1>6
  <2> QED
      BY <2>1, FlattenFacts, Zenon
<1>9. ASSUME NEW i \in 1..n, NEW x \in Int, gaps[i].lo <= x, x <= gaps[i].hi
      PROVE  HasTask(FlattenSeq(one), d, x)
  <2>1. PICK j \in DOMAIN MonthWindows(gaps[i]) :
            MonthWindows(gaps[i])[j].lo <= x /\ x <= MonthWindows(gaps[i])[j].hi
      BY <1>3, <1>9
  <2>2. j \in DOMAIN one[i] /\ one[i][j] = [key |-> d, lo |-> MonthWindows(gaps[i])[j].lo,
                                            hi |-> MonthWindows(gaps[i])[j].hi]
      BY <2>1, <1>2, <1>3, <1>4, TasksOfFacts
  <2>3. PICK k \in DOMAIN FlattenSeq(one) : FlattenSeq(one)[k] = one[i][j]
      BY <2>2, <1>6, <1>8
  <2> QED
      BY <2>1, <2>2, <2>3 DEF HasTask
<1> QED
    BY <1>1, <1>7, <1>8, <1>9

\* build_incremental_tasks has a task for each point that is not stored.
LEMMA IncrementalTasksCover ==
    ASSUME NEW names, NEW contents \in [HistorySets -> SUBSET Int], NEW end \in Int, NEW t \in Int
    PROVE  /\ IncrementalTasks(names, contents, Window(0, end), t) \in Seq(TaskSet)
           /\ \A d \in Range(Selected(names)), u \in Int :
                  /\ AvailableFrom(d, 0, t) <= u /\ u <= end /\ u % PlanningStep(d) = 0
                  /\ \A w : u \notin Buckets(d, contents[d], w)
                  => HasTask(IncrementalTasks(names, contents, Window(0, end), t), d, u)
<1> DEFINE w    == Window(0, end)
           ds   == Selected(names)
           n    == Len(ds)
           Gaps(d) == GapWindows(d, contents[d], w, t)
           one  == [i \in DOMAIN ds |-> GapTasks(ds[i], Gaps(ds[i]))]
<1>1. ds \in Seq(HistorySets)
    BY OrderedFacts DEF Selected
<1>2. n \in Nat /\ DOMAIN ds = 1..n /\ \A i \in 1..n : ds[i] \in HistorySets
    BY <1>1, LenProperties
<1>3. ASSUME NEW d \in HistorySets
      PROVE  /\ Gaps(d) \in Seq(WindowSet)
             /\ \A u \in Int :
                  /\ AvailableFrom(d, 0, t) <= u /\ u <= end /\ u % PlanningStep(d) = 0
                  /\ \A v : u \notin Buckets(d, contents[d], v)
                  => \E i \in DOMAIN Gaps(d) : Gaps(d)[i].lo <= u /\ u <= Gaps(d)[i].hi
  <2>1. contents[d] \subseteq Int
      OBVIOUS
  <2> QED
      BY <2>1, GapWindowsCover
<1>4. IncrementalTasks(names, contents, w, t) = FlattenSeq(one)
    BY DEF IncrementalTasks
<1> HIDE DEF w, ds, n, Gaps
<1>5. ASSUME NEW i \in 1..n
      PROVE  one[i] = GapTasks(ds[i], Gaps(ds[i])) /\ one[i] \in Seq(TaskSet)
    BY <1>2, <1>3, GapTasksCover
<1>6. one \in Seq(Seq(TaskSet)) /\ DOMAIN one = 1..n
  <2>1. one \in [1..n -> Seq(TaskSet)]
    <3>1. \A i \in 1..n : GapTasks(ds[i], Gaps(ds[i])) \in Seq(TaskSet)
        BY <1>5
    <3> QED
        BY <3>1, <1>2
  <2> QED
      BY <2>1, <1>2, SequenceOfFunction
<1> HIDE DEF one
<1>7. /\ FlattenSeq(one) \in Seq(TaskSet)
      /\ \A i \in DOMAIN one : \A j \in DOMAIN one[i] :
             \E k \in DOMAIN FlattenSeq(one) : FlattenSeq(one)[k] = one[i][j]
  <2>1. one \in Seq(Seq(TaskSet))
      BY <1>6
  <2> QED
      BY <2>1, FlattenFacts, Zenon
<1>8. ASSUME NEW d \in Range(ds), NEW u \in Int,
             AvailableFrom(d, 0, t) <= u, u <= end, u % PlanningStep(d) = 0,
             \A v : u \notin Buckets(d, contents[d], v)
      PROVE  HasTask(FlattenSeq(one), d, u)
  <2>1. PICK i \in 1..n : ds[i] = d
      BY <1>2 DEF Range
  <2>2. d \in HistorySets
      BY <2>1, <1>2
  <2>3. PICK j \in DOMAIN Gaps(d) : Gaps(d)[j].lo <= u /\ u <= Gaps(d)[j].hi
      BY <2>2, <1>3, <1>8
  <2>4. Gaps(d) \in Seq(WindowSet)
      BY <2>2, <1>3
  <2>5. HasTask(GapTasks(d, Gaps(d)), d, u)
      BY <2>2, <2>3, <2>4, GapTasksCover
  <2>6. one[i] = GapTasks(d, Gaps(d))
      BY <2>1, <1>5
  <2>7. PICK j2 \in DOMAIN one[i] :
            one[i][j2].key = d /\ one[i][j2].lo <= u /\ u <= one[i][j2].hi
      BY <2>5, <2>6 DEF HasTask
  <2>8. PICK k \in DOMAIN FlattenSeq(one) : FlattenSeq(one)[k] = one[i][j2]
      BY <2>7, <1>6, <1>7
  <2> QED
      BY <2>7, <2>8 DEF HasTask
<1> QED
    BY <1>4, <1>7, <1>8 DEF w, ds

-----------------------------------------------------------------------------
(* What a task consists of *)

LEMMA PartFacts ==
    ASSUME NEW task \in TaskSet
    PROVE  /\ PartsOf(task) \in Seq(PartSet)
           /\ PartsOf(task) # <<>>
           /\ task.key \in HistorySets =>
                  \E hi \in Int : task.hi <= hi /\ PartsOf(task) = <<Part({task.key}, task.lo, hi)>>
<1>1. task.lo \in Int /\ task.hi \in Int /\ task.key \in Keys /\ FundingInterval \in Nat
    BY Numbers DEF TaskSet
<1>2. \A ds \in SUBSET HistorySets : Part(ds, task.lo, task.hi) \in PartSet
    BY <1>1 DEF Part, PartSet
<1>3. \A ds \in SUBSET HistorySets : Part(ds, task.lo, task.hi + FundingInterval) \in PartSet
    BY <1>1 DEF Part, PartSet
<1>4. CASE task.key = SnapshotKey
  <2> DEFINE a == Part(FundingDatasets, task.lo, task.hi)
             b == Part(InterestDatasets, task.lo, task.hi)
             c == Part(PriceDatasets, task.lo, task.hi)
             e == Part(RatioDatasets, task.lo, task.hi)
  <2>1. PartsOf(task) = <<a, b, c, e>>
      BY <1>4 DEF PartsOf
  <2>2. a \in PartSet /\ b \in PartSet /\ c \in PartSet /\ e \in PartSet
      BY <1>2, KindsOfDatasets
  <2> HIDE DEF a, b, c, e
  <2>3. <<a, b, c, e>> \in Seq(PartSet) /\ <<a, b, c, e>> # <<>>
      BY <2>2
  <2> QED
      BY <2>1, <2>3, <1>4, HistoryConstantsAssumption
<1>5. CASE task.key # SnapshotKey
  <2>1. task.key \in HistorySets /\ {task.key} \in SUBSET HistorySets
      BY <1>1, <1>5 DEF Keys
  <2>2. PICK hi \in Int : task.hi <= hi /\ PartsOf(task) = <<Part({task.key}, task.lo, hi)>>
                          /\ Part({task.key}, task.lo, hi) \in PartSet
    <3>1. CASE task.key \in FundingDatasets
      <4>1. PartsOf(task) = <<Part({task.key}, task.lo, task.hi + FundingInterval)>>
          BY <3>1, <1>5 DEF PartsOf
      <4>2. task.hi + FundingInterval \in Int /\ task.hi <= task.hi + FundingInterval
          BY <1>1
      <4> QED
          BY <4>1, <4>2, <2>1, <1>3
    <3>2. CASE task.key \notin FundingDatasets
      <4>1. PartsOf(task) = <<Part({task.key}, task.lo, task.hi)>>
          BY <3>2, <1>5 DEF PartsOf
      <4> QED
          BY <4>1, <2>1, <1>1, <1>2
    <3> QED
        BY <3>1, <3>2
  <2> DEFINE a == Part({task.key}, task.lo, hi)
  <2> HIDE DEF a
  <2>3. <<a>> \in Seq(PartSet) /\ <<a>> # <<>>
      BY <2>2 DEF a
  <2> QED
      BY <2>2, <2>3 DEF a
<1> QED
    BY <1>4, <1>5

\* The calls of a part ask for all of it that the venue may still have.
LEMMA CallFacts ==
    ASSUME NEW part \in PartSet, NEW t \in Nat
    PROVE  /\ CallsOf(part, t) \in Seq(PartSet)
           /\ \A x \in Int :
                  /\ part.lo <= x /\ x <= part.hi
                  /\ part.sets \subseteq RetainedDatasets => x >= t - Retention
                  => \E i \in DOMAIN CallsOf(part, t) :
                         /\ CallsOf(part, t)[i].sets = part.sets
                         /\ CallsOf(part, t)[i].lo <= x /\ x <= CallsOf(part, t)[i].hi
<1> DEFINE floor == RetentionFloor(t)
           from  == IF floor > part.lo THEN floor ELSE part.lo
           windows == IF part.sets \subseteq RetainedDatasets THEN DayWindows(from, part.hi)
                      ELSE <<Window(part.lo, part.hi)>>
           c == [i \in DOMAIN windows |-> Part(part.sets, windows[i].lo, windows[i].hi)]
<1>1. part.lo \in Int /\ part.hi \in Int /\ part.sets \subseteq HistorySets /\ t - Retention \in Int
    BY Numbers DEF PartSet
<1>2. floor \in Int /\ floor <= t - Retention
    BY <1>1, Numbers, FloorToFacts DEF RetentionFloor
<1>3. from \in Int
    BY <1>1, <1>2
<1>4. CallsOf(part, t) = c
    BY DEF CallsOf
<1>5. /\ windows \in Seq(WindowSet)
      /\ \A x \in Int :
             /\ part.lo <= x /\ x <= part.hi
             /\ part.sets \subseteq RetainedDatasets => x >= t - Retention
             => \E i \in DOMAIN windows : windows[i].lo <= x /\ x <= windows[i].hi
  <2>1. CASE part.sets \subseteq RetainedDatasets
    <3>1. windows = ChunkWindows(from, part.hi, Day)
        BY <2>1 DEF DayWindows
    <3>2. \A x \in Int : part.lo <= x /\ x <= part.hi /\ x >= t - Retention => x \in from..(part.hi)
        BY <1>1, <1>2
    <3> HIDE DEF windows, from
    <3>3. /\ ChunkWindows(from, part.hi, Day) \in Seq(WindowSet)
          /\ \A x \in from..(part.hi) : \E i \in DOMAIN ChunkWindows(from, part.hi, Day) :
                 /\ ChunkWindows(from, part.hi, Day)[i].lo <= x
                 /\ x <= ChunkWindows(from, part.hi, Day)[i].hi
        BY <1>1, <1>3, Numbers, ChunkFacts
    <3> QED
        BY <3>1, <3>2, <3>3, <2>1
  <2>2. CASE ~ (part.sets \subseteq RetainedDatasets)
    <3> DEFINE w == Window(part.lo, part.hi)
    <3>1. w \in WindowSet /\ w.lo = part.lo /\ w.hi = part.hi
        BY <1>1 DEF Window, WindowSet
    <3>2. windows = <<w>>
        BY <2>2
    <3> HIDE DEF windows, w
    <3>3. windows \in Seq(WindowSet) /\ 1 \in DOMAIN windows /\ windows[1] = w
        BY <3>1, <3>2
    <3> QED
        BY <3>1, <3>3
  <2> QED
      BY <2>1, <2>2
<1> HIDE DEF windows
<1>6. /\ Len(windows) \in Nat /\ DOMAIN windows = 1..Len(windows)
      /\ \A i \in 1..Len(windows) : windows[i].lo \in Int /\ windows[i].hi \in Int
  <2>1. windows \in Seq(WindowSet)
      BY <1>5
  <2>2. /\ Len(windows) \in Nat /\ DOMAIN windows = 1..Len(windows)
        /\ \A i \in 1..Len(windows) : windows[i] \in WindowSet
      BY <2>1, LenProperties
  <2> QED
      BY <2>2 DEF WindowSet
<1>7. \A i \in 1..Len(windows) : Part(part.sets, windows[i].lo, windows[i].hi) \in PartSet
    BY <1>1, <1>6 DEF Part, PartSet
<1>8. c \in [1..Len(windows) -> PartSet]
    BY <1>6, <1>7
<1>9. c \in Seq(PartSet)
    BY <1>6, <1>8, SequenceOfFunction
<1>10. \A i \in 1..Len(windows) : /\ c[i].sets = part.sets
                                  /\ c[i].lo = windows[i].lo /\ c[i].hi = windows[i].hi
    BY <1>6 DEF Part
<1> HIDE DEF c
<1>11. DOMAIN c = DOMAIN windows
    BY <1>6, <1>8
<1> QED
    BY <1>4, <1>5, <1>6, <1>9, <1>10, <1>11

LEMMA NextPartFacts ==
    ASSUME NEW parts \in Seq(PartSet), parts # <<>>, NEW t
    PROVE  NextPart(parts, t) \in 1..Len(parts)
<1> DEFINE needed == {i \in DOMAIN parts : parts[i].sets # {} /\ CallsOf(parts[i], t) # <<>>}
<1>1. Len(parts) \in Nat \ {0} /\ DOMAIN parts = 1..Len(parts)
    BY LenProperties, EmptySeq
<1>2. needed \subseteq 1..Len(parts)
    BY <1>1
<1>3. NextPart(parts, t) = IF needed = {} THEN Len(parts) ELSE Min(needed)
    BY DEF NextPart
<1> HIDE DEF needed
<1>4. ASSUME needed # {}
      PROVE  Min(needed) \in 1..Len(parts)
  <2> DEFINE n == Len(parts)
  <2>1. n \in Int /\ needed \subseteq 1..n /\ needed # {}
      BY <1>1, <1>2, <1>4
  <2>2. Min(needed) \in 1..n
    <3> HIDE DEF n
    <3>1. 1 \in Int
        OBVIOUS
    <3> QED
        BY <2>1, <3>1, MinOfTimes
  <2> QED
      BY <2>2
<1> QED
    BY <1>1, <1>3, <1>4

\* The next part's calls, and the parts after it; nothing else changes.
LEMMA WithNextPartFacts ==
    ASSUME NEW record \in ProcSet, NEW parts \in Seq(PartSet), now \in Nat
    PROVE  /\ WithNextPart(record, parts).parts \in Seq(PartSet)
           /\ WithNextPart(record, parts).calls \in Seq(PartSet)
           /\ WithNextPart(record, parts) =
                  [record EXCEPT !.parts = WithNextPart(record, parts).parts,
                                 !.calls = WithNextPart(record, parts).calls]
<1> DEFINE i == NextPart(parts, now)
           w == WithNextPart(record, parts)
           rest == SubSeq(parts, i + 1, Len(parts))
           calls == CallsOf(parts[i], now)
<1>1. CASE parts = <<>>
  <2>1. w = [record EXCEPT !.parts = <<>>, !.calls = <<>>]
      BY <1>1 DEF WithNextPart
  <2> DEFINE none == <<>>
  <2>2. none \in Seq(PartSet)
      OBVIOUS
  <2> HIDE DEF none
  <2>3. w = [record EXCEPT !.parts = none, !.calls = none]
      BY <2>1 DEF none
  <2>4. w.parts = none /\ w.calls = none
      BY <2>3 DEF ProcSet
  <2> QED
      BY <2>2, <2>3, <2>4
<1>2. CASE parts # <<>>
  <2>1. i \in 1..Len(parts) /\ Len(parts) \in Nat
      BY <1>2, NextPartFacts, LenProperties
  <2>2. w = [record EXCEPT !.parts = rest, !.calls = calls]
      BY <1>2 DEF WithNextPart
  <2>3. parts[i] \in PartSet
      BY <2>1, LenProperties
  <2>4. calls \in Seq(PartSet)
      BY <2>3, CallFacts
  <2>5. rest \in Seq(PartSet)
    <3> HIDE DEF i
    <3> QED
        BY <2>1, SubSeqProperties
  <2> HIDE DEF i, rest, calls, w
  <2>6. w.parts = rest /\ w.calls = calls
      BY <2>2 DEF ProcSet
  <2> QED
      BY <2>2, <2>4, <2>5, <2>6 DEF w
<1> QED
    BY <1>1, <1>2

-----------------------------------------------------------------------------
(* Steps of one process *)

LEMMA NoProcessFacts ==
    /\ NoProcess \in ProcSet
    /\ NoProcess.life = "none" /\ NoProcess.pc = "plan" /\ NoProcess.inode = "none"
    /\ NoProcess.number = 0 /\ Len(NoProcess.tasks) = 0
    /\ NoProcess.status = NoFile
<1> DEFINE none == <<>>
<1>1. none \in Seq(TaskSet) /\ none \in Seq(PartSet) /\ Len(none) = 0
    OBVIOUS
<1>2. NoProcess = [life |-> "none", parent |-> "shell", mode |-> "bootstrap", names |-> {},
                   pc |-> "plan", after |-> "loop", inode |-> "none", status |-> NoFile,
                   tasks |-> none, number |-> 0, parts |-> none, calls |-> none]
    BY DEF NoProcess
<1> HIDE DEF none
<1> QED
    BY <1>1, <1>2 DEF ProcSet, Lives, Places, Sequels, Inodes

LEMMA EndedFacts ==
    ASSUME NEW p \in Pids, proc \in [Pids -> ProcSet]
    PROVE  /\ Ended(p) \in ProcSet
           /\ Ended(p).life # "alive" /\ Ended(p).pc = "plan" /\ Ended(p).status = NoFile
           /\ ProcessKnows(Ended(p), p)
<1> DEFINE life == IF proc[p].parent = "api" THEN "zombie" ELSE "gone"
           r == [NoProcess EXCEPT !.life = life]
<1>1. Ended(p) = r
    BY DEF Ended
<1>2. life \in {"zombie", "gone"}
    OBVIOUS
<1> HIDE DEF life
<1>3. /\ r \in ProcSet /\ r.life = life /\ r.pc = "plan" /\ r.inode = "none"
      /\ r.number = 0 /\ r.tasks = NoProcess.tasks /\ r.status = NoFile
    BY <1>2, NoProcessFacts DEF ProcSet, Lives
<1> HIDE DEF r
<1>4. ProcessKnows(r, p)
    BY <1>2, <1>3, NoProcessFacts DEF ProcessKnows, AtTask, GoesOn
<1> QED
    BY <1>1, <1>2, <1>3, <1>4

\* One process moves, and others keep what they know.
LEMMA OneMoves ==
    ASSUME IInv, StateTypes', NEW p \in Alive, crowded' = crowded,
           \A q \in Pids : ProcessKnows(proc'[q], q),
           \A q \in Pids : proc'[q].life = "alive" => proc[q].life = "alive",
           ~crowded => file' # Torn,
           ~crowded /\ proc'[p].life = "alive" =>
               /\ proc'[p].pc = "fill" => proc'[p].inode = "temp"
               /\ proc'[p].pc = "replace" => temp' = proc'[p].status
               /\ proc'[p].pc \in {"loop", "execute"} => file' = proc'[p].status
    PROVE  IInv'
<1>1. Alive' \subseteq Alive
    BY DEF Alive
<1>2. ASSUME ~crowded'
      PROVE  /\ \A q, s \in Alive' : q = s
             /\ \A q \in Alive' : AloneFiles(proc[q])'
  <2>1. ~crowded /\ \A q, s \in Alive : q = s
      BY <1>2 DEF IInv, Alone
  <2>2. \A q \in Alive' : q = p /\ proc'[p].life = "alive"
      BY <2>1, <1>1 DEF Alive
  <2>3. \A q \in Alive' : AloneFiles(proc[q])'
      BY <2>1, <2>2 DEF AloneFiles
  <2> QED
      BY <2>1, <1>1, <2>3
<1>3. Alone'
    BY <1>2 DEF Alone
<1>4. (\A q \in Pids : ProcessKnows(proc[q], q))'
    OBVIOUS
<1> QED
    BY <1>3, <1>4 DEF IInv

LEMMA Updates ==
    ASSUME IInv, NEW p \in Alive, NEW r \in ProcSet, proc' = [proc EXCEPT ![p] = r],
           r.life = "alive" => proc[p].life = "alive",
           ProcessKnows(r, p), crowded' = crowded,
           now' \in StartTime..EndTime, rows' \in [HistorySets -> SUBSET (0..EndTime)],
           file' \in Reports \union {Torn, NoFile}, temp' \in Reports \union {Torn, NoFile},
           UNCHANGED <<api, launches>>, troubles' \in 0..MaxTroubles,
           ran' \in [Range(BootstrapKeys) -> SUBSET Int],
           ~crowded => file' # Torn,
           ~crowded /\ r.life = "alive" =>
               /\ r.pc = "fill" => r.inode = "temp"
               /\ r.pc = "replace" => temp' = r.status
               /\ r.pc \in {"loop", "execute"} => file' = r.status
    PROVE  IInv'
<1>1. proc \in [Pids -> ProcSet] /\ p \in Pids
    BY DEF IInv, StateTypes, Alive
<1>2. proc' \in [Pids -> ProcSet] /\ proc'[p] = r /\ \A q \in Pids : q # p => proc'[q] = proc[q]
    BY <1>1
<1>3. StateTypes'
    BY <1>2 DEF IInv, StateTypes
<1>4. \A q \in Pids : ProcessKnows(proc'[q], q)
  <2>1. \A q \in Pids : ProcessKnows(proc[q], q)
      BY DEF IInv
  <2> QED
      BY <1>2, <2>1
<1>5. \A q \in Pids : proc'[q].life = "alive" => proc[q].life = "alive"
    BY <1>2
<1> QED
    BY <1>2, <1>3, <1>4, <1>5, OneMoves

\* A write begins: the temporary file is torn, the status file as it was.
LEMMA Writes ==
    ASSUME IInv, NEW p \in Alive, NEW record \in ProcSet, NEW after \in Sequels,
           Write(p, record, after), 
           record.life = "alive", record.status \in Reports, record.status.pid = p,
           record.number <= Len(record.tasks),
           after = "execute" => record.number < Len(record.tasks),
           after # "exit" => record.status.state = "running",
           \/ record.status.completed = record.number
           \/ record.number = Len(record.tasks) /\ record.status.completed > record.number,
           record.mode = "incremental" => record.status.mode = "incremental",
           UNCHANGED <<now, rows, file, api, launches, crowded>>, troubles' \in 0..MaxTroubles,
           ran' \in [Range(BootstrapKeys) -> SUBSET Int]
    PROVE  IInv'
<1> DEFINE r == [record EXCEPT !.pc = "fill", !.after = after, !.inode = "temp"]
<1>1. /\ r \in ProcSet
      /\ r.life = "alive" /\ r.pc = "fill" /\ r.after = after /\ r.inode = "temp"
      /\ r.status = record.status /\ r.number = record.number /\ r.tasks = record.tasks
      /\ r.mode = record.mode
    BY DEF ProcSet, Places, Sequels, Inodes
<1>2. proc' = [proc EXCEPT ![p] = r] /\ temp' = Torn
    BY DEF Write, Update
<1> HIDE DEF r
<1>3. ProcessKnows(r, p)
    BY <1>1 DEF ProcessKnows, AtTask, GoesOn
<1>4. proc[p].life = "alive"
    BY DEF Alive
<1>5. file' # Torn \/ crowded
    BY DEF IInv, Alone
<1>6. /\ now' \in StartTime..EndTime /\ rows' \in [HistorySets -> SUBSET (0..EndTime)]
      /\ file' \in Reports \union {Torn, NoFile} /\ temp' \in Reports \union {Torn, NoFile}
    BY <1>2 DEF IInv, StateTypes
<1> QED
    BY <1>1, <1>2, <1>3, <1>4, <1>5, <1>6, Updates

LEMMA Ends ==
    ASSUME IInv, NEW p \in Alive, Update(p, Ended(p)),
           UNCHANGED <<now, rows, file, temp, api, launches, ran, crowded>>,
           troubles' \in 0..MaxTroubles
    PROVE  IInv'
<1>1. proc \in [Pids -> ProcSet] /\ p \in Pids
    BY DEF IInv, StateTypes, Alive
<1>2. Ended(p) \in ProcSet /\ Ended(p).life # "alive" /\ ProcessKnows(Ended(p), p)
    BY <1>1, EndedFacts
<1> DEFINE r == Ended(p)
<1>3. proc' = [proc EXCEPT ![p] = r]
    BY DEF Update
<1>4. /\ now' \in StartTime..EndTime /\ rows' \in [HistorySets -> SUBSET (0..EndTime)]
      /\ file' \in Reports \union {Torn, NoFile} /\ temp' \in Reports \union {Torn, NoFile}
      /\ ran' \in [Range(BootstrapKeys) -> SUBSET Int]
    BY DEF IInv, StateTypes
<1>5. ~crowded => file' # Torn
    BY DEF IInv, Alone
<1> HIDE DEF r
<1> QED
    BY <1>2, <1>3, <1>4, <1>5, Updates DEF r

\* The tasks that a run has planned, and its first report.
LEMMA PlannedTypes ==
    ASSUME StateTypes, NEW p \in Alive
    PROVE  /\ p \in Pids /\ proc[p] \in ProcSet /\ now \in Nat
           /\ PlanTo(now) \in Seq(TaskSet)
           /\ IncrementalTasks(proc[p].names, rows, Window(0, now), now) \in Seq(TaskSet)
           /\ Range(BootstrapKeys) \subseteq Keys
           /\ Range(Selected(proc[p].names)) \subseteq Keys
<1>1. p \in Pids /\ proc[p] \in ProcSet
    BY DEF StateTypes, Alive
<1>2. now \in Nat
    BY Numbers DEF StateTypes
<1>3. PlanTo(now) \in Seq(TaskSet)
    BY <1>2, PlanFacts
<1>4. rows \in [HistorySets -> SUBSET Int]
    BY Numbers DEF StateTypes
<1>5. IncrementalTasks(proc[p].names, rows, Window(0, now), now) \in Seq(TaskSet)
  <2>1. \A names : \A contents \in [HistorySets -> SUBSET Int], end \in Int, t \in Int :
            IncrementalTasks(names, contents, Window(0, end), t) \in Seq(TaskSet)
      BY IncrementalTasksCover
  <2>2. now \in Int
      BY <1>2
  <2> QED
      BY <1>4, <2>1, <2>2
<1>6. Selected(proc[p].names) \in Seq(HistorySets)
    BY OrderedFacts DEF Selected
<1>7. Range(Selected(proc[p].names)) \subseteq Keys
    BY <1>6, LenProperties DEF Range, Keys
<1> QED
    BY <1>1, <1>2, <1>3, <1>5, <1>7, BootstrapKeyFacts

LEMMA PlanTasksKeeps ==
    ASSUME IInv, NEW p \in Pids, PlanTasks(p)
    PROVE  IInv'
<1>1. /\ p \in Alive /\ proc[p].pc = "plan"
      /\ UNCHANGED <<now, rows, file, api, launches, troubles, ran, crowded>>
    BY DEF PlanTasks
<1>2. StateTypes /\ ProcessKnows(proc[p], p) /\ proc[p].life = "alive"
    BY <1>1 DEF IInv, Alive
<1>3. /\ proc[p] \in ProcSet /\ now \in Nat
      /\ PlanTo(now) \in Seq(TaskSet)
      /\ IncrementalTasks(proc[p].names, rows, Window(0, now), now) \in Seq(TaskSet)
      /\ Range(BootstrapKeys) \subseteq Keys
      /\ Range(Selected(proc[p].names)) \subseteq Keys
    BY <1>1, <1>2, PlannedTypes
<1>4. ran' \in [Range(BootstrapKeys) -> SUBSET Int] /\ troubles' \in 0..MaxTroubles
    BY <1>1, <1>2 DEF StateTypes
<1>5. ASSUME NEW mode \in {"bootstrap", "incremental"}, NEW tasks \in Seq(TaskSet),
             NEW keys \in SUBSET Keys, NEW s, s = Status(p, mode, Window(0, now), tasks, keys),
             proc[p].mode = mode,
             Write(p, [proc[p] EXCEPT !.tasks = tasks, !.status = s], "first")
      PROVE  IInv'
  <2>1. /\ s \in Reports /\ s.pid = p /\ s.mode = mode /\ s.completed = 0 /\ s.state = "running"
      BY <1>3, <1>5, NewStatus
  <2> DEFINE r == [proc[p] EXCEPT !.tasks = tasks, !.status = s]
  <2>2. /\ r \in ProcSet /\ r.life = "alive" /\ r.status = s /\ r.tasks = tasks
        /\ r.mode = mode /\ r.number = proc[p].number
      BY <1>2, <1>3, <1>5, <2>1 DEF ProcSet
  <2>3. Len(tasks) \in Nat /\ r.number = 0
      BY <1>1, <1>2, <2>2, LenProperties DEF ProcessKnows
  <2> HIDE DEF r
  <2>4. Write(p, r, "first")
      BY <1>5 DEF r
  <2> QED
      BY <1>1, <1>4, <2>1, <2>2, <2>3, <2>4, Writes DEF Sequels
<1>6. CASE PlanBootstrap(p)
  <2> DEFINE tasks == PlanTo(now)
             s == Status(p, "bootstrap", Window(0, now), tasks, Range(BootstrapKeys))
  <2>1. /\ proc[p].mode = "bootstrap"
        /\ Write(p, [proc[p] EXCEPT !.tasks = tasks, !.status = s], "first")
      BY <1>6 DEF PlanBootstrap, PlanTo
  <2> QED
      BY <2>1, <1>3, <1>5
<1>7. CASE PlanIncremental(p)
  <2> DEFINE tasks == IncrementalTasks(proc[p].names, rows, Window(0, now), now)
             s == Status(p, "incremental", Window(0, now), tasks,
                         Range(Selected(proc[p].names)))
  <2>1. /\ proc[p].mode = "incremental"
        /\ Write(p, [proc[p] EXCEPT !.tasks = tasks, !.status = s], "first")
      BY <1>7 DEF PlanIncremental
  <2> QED
      BY <2>1, <1>3, <1>5
<1>8. CASE PlanResume(p)
  <2>1. CASE file \in {NoFile, Torn}
    <3>1. Update(p, Ended(p)) /\ UNCHANGED temp
        BY <1>8, <2>1 DEF PlanResume
    <3> QED
        BY <3>1, <1>1, <1>4, Ends
  <2>2. CASE file \notin {NoFile, Torn}
    <3> DEFINE tasks == PlanTo(now)
               n == Resumed(file.completed, tasks)
               s == [file EXCEPT !.state = "running", !.pid = p]
               r == [proc[p] EXCEPT !.tasks = tasks, !.number = n, !.status = s]
    <3>1. Write(p, r, "first") /\ proc[p].mode = "resume"
        BY <1>8, <2>2 DEF PlanResume, PlanTo
    <3>2. file \in Reports
        BY <1>2, <2>2 DEF StateTypes
    <3>3. s \in Reports /\ s.state = "running" /\ s.pid = p /\ s.completed = file.completed
        BY <3>2, <1>1 DEF Reports, Alive
    <3>4. file.completed \in Nat /\ Len(tasks) \in Nat
        BY <3>2, <1>3, LenProperties DEF Reports
    <3> HIDE DEF tasks
    <3>5. /\ n \in Nat /\ n <= Len(tasks)
          /\ file.completed = n \/ (n = Len(tasks) /\ file.completed > n)
        BY <3>4 DEF Resumed
    <3> HIDE DEF n, s
    <3>6. tasks \in Seq(TaskSet)
        BY <1>3 DEF tasks
    <3>7. /\ r \in ProcSet /\ r.life = "alive" /\ r.status = s /\ r.tasks = tasks
          /\ r.number = n /\ r.mode = "resume"
        BY <1>2, <1>3, <3>1, <3>3, <3>5, <3>6 DEF ProcSet
    <3> HIDE DEF r
    <3> QED
        BY <1>1, <1>4, <3>1, <3>3, <3>5, <3>7, Writes DEF Sequels
  <2> QED
      BY <2>1, <2>2
<1> QED
    BY <1>6, <1>7, <1>8 DEF PlanTasks

\* What the invariant says of a process that runs.
LEMMA AliveFacts ==
    ASSUME IInv, NEW p \in Alive
    PROVE  /\ p \in Pids /\ proc[p] \in ProcSet /\ proc[p].life = "alive"
           /\ proc \in [Pids -> ProcSet]
           /\ ProcessKnows(proc[p], p)
           /\ proc[p].pc # "plan" => /\ proc[p].status \in Reports
                                     /\ proc[p].status.pid = p
           /\ proc[p].number \in Nat /\ Len(proc[p].tasks) \in Nat
           /\ now \in Nat /\ now \in StartTime..EndTime
           /\ rows \in [HistorySets -> SUBSET (0..EndTime)]
           /\ file \in Reports \union {Torn, NoFile}
           /\ temp \in Reports \union {Torn, NoFile}
           /\ troubles \in 0..MaxTroubles
           /\ ran \in [Range(BootstrapKeys) -> SUBSET Int]
           /\ ~crowded => file # Torn /\ AloneFiles(proc[p])
<1>1. p \in Pids /\ proc[p] \in ProcSet /\ proc[p].life = "alive" /\ proc \in [Pids -> ProcSet]
    BY DEF IInv, StateTypes, Alive
<1>2. proc[p].number \in Nat /\ proc[p].tasks \in Seq(TaskSet)
    BY <1>1 DEF ProcSet
<1>3. Len(proc[p].tasks) \in Nat
    BY <1>2, LenProperties
<1>4. ProcessKnows(proc[p], p)
    BY <1>1 DEF IInv
<1>5. now \in Nat
    BY Numbers DEF IInv, StateTypes
<1> QED
    BY <1>1, <1>2, <1>3, <1>4, <1>5 DEF IInv, StateTypes, Alone, ProcessKnows

LEMMA FillKeeps ==
    ASSUME IInv, NEW p \in Pids, Fill(p)
    PROVE  IInv'
<1>1. /\ p \in Alive /\ proc[p].pc = "fill"
      /\ UNCHANGED <<now, rows, api, launches, troubles, ran, crowded>>
      /\ temp' = IF proc[p].inode = "temp" THEN proc[p].status ELSE temp
      /\ file' = IF proc[p].inode = "file" THEN proc[p].status ELSE file
    BY DEF Fill
<1>2. /\ proc[p] \in ProcSet /\ proc[p].life = "alive" /\ proc[p].status \in Reports
      /\ ProcessKnows(proc[p], p)
      /\ now \in StartTime..EndTime
      /\ rows \in [HistorySets -> SUBSET (0..EndTime)]
      /\ file \in Reports \union {Torn, NoFile}
      /\ temp \in Reports \union {Torn, NoFile}
      /\ troubles \in 0..MaxTroubles
      /\ ran \in [Range(BootstrapKeys) -> SUBSET Int]
      /\ ~crowded => file # Torn /\ AloneFiles(proc[p])
    BY <1>1, AliveFacts
<1> DEFINE r == [proc[p] EXCEPT !.pc = "replace", !.inode = "none"]
<1>3. proc' = [proc EXCEPT ![p] = r]
    BY DEF Fill, Update
<1>4. /\ r \in ProcSet /\ r.life = "alive" /\ r.pc = "replace" /\ r.inode = "none"
      /\ r.status = proc[p].status /\ r.number = proc[p].number /\ r.tasks = proc[p].tasks
      /\ r.mode = proc[p].mode /\ r.after = proc[p].after
    BY <1>2 DEF ProcSet, Places, Inodes
<1> HIDE DEF r
<1>5. ProcessKnows(r, p)
    BY <1>1, <1>2, <1>4 DEF ProcessKnows, AtTask, GoesOn
<1>6. ~crowded => temp' = r.status /\ file' # Torn
    BY <1>1, <1>2, <1>4 DEF AloneFiles
<1>7. file' \in Reports \union {Torn, NoFile} /\ temp' \in Reports \union {Torn, NoFile}
    BY <1>1, <1>2
<1> QED
    BY <1>1, <1>2, <1>3, <1>4, <1>5, <1>6, <1>7, Updates

LEMMA StartTaskKeeps ==
    ASSUME IInv, NEW p \in Pids, StartTask(p)
    PROVE  IInv'
<1>1. /\ p \in Alive /\ proc[p].pc = "loop" /\ proc[p].number < Len(proc[p].tasks)
      /\ Write(p, proc[p], "execute")
      /\ UNCHANGED <<now, rows, file, api, launches, troubles, ran, crowded>>
    BY DEF StartTask
<1>2. /\ proc[p] \in ProcSet /\ proc[p].life = "alive" /\ ProcessKnows(proc[p], p)
      /\ troubles' \in 0..MaxTroubles
      /\ ran' \in [Range(BootstrapKeys) -> SUBSET Int]
    BY <1>1, AliveFacts
<1> DEFINE r == proc[p]
<1>3. /\ r \in ProcSet /\ r.life = "alive" /\ r.status \in Reports /\ r.status.pid = p
      /\ r.number <= Len(r.tasks) /\ r.number < Len(r.tasks)
      /\ r.status.state = "running"
      /\ \/ r.status.completed = r.number
         \/ r.number = Len(r.tasks) /\ r.status.completed > r.number
      /\ r.mode = "incremental" => r.status.mode = "incremental"
    BY <1>1, <1>2 DEF ProcessKnows, GoesOn
<1> HIDE DEF r
<1> QED
    BY <1>1, <1>2, <1>3, Writes DEF Sequels, r

\* The except branch writes a report of the failure.
LEMMA FailureFacts ==
    ASSUME IInv, NEW p \in Alive, proc[p].pc # "plan"
    PROVE  LET r == [proc[p] EXCEPT !.status.state = "failed"]
           IN  /\ r \in ProcSet /\ r.life = "alive" /\ r.status \in Reports /\ r.status.pid = p
               /\ r.number <= Len(r.tasks)
               /\ \/ r.status.completed = r.number
                  \/ r.number = Len(r.tasks) /\ r.status.completed > r.number
               /\ r.mode = "incremental" => r.status.mode = "incremental"
<1> DEFINE s == [proc[p].status EXCEPT !.state = "failed"]
           r == [proc[p] EXCEPT !.status = s]
<1>1. [proc[p] EXCEPT !.status.state = "failed"] = r
    OBVIOUS
<1>2. proc[p] \in ProcSet /\ proc[p].life = "alive" /\ ProcessKnows(proc[p], p)
    BY AliveFacts
<1>3. proc[p].status \in Reports
    BY <1>2 DEF ProcessKnows
<1>4. /\ s \in Reports /\ s.pid = proc[p].status.pid /\ s.completed = proc[p].status.completed
      /\ s.mode = proc[p].status.mode
    BY <1>3 DEF Reports
<1> HIDE DEF s
<1>5. /\ r \in ProcSet /\ r.life = "alive" /\ r.status = s /\ r.tasks = proc[p].tasks
      /\ r.number = proc[p].number /\ r.mode = proc[p].mode
    BY <1>2, <1>4 DEF ProcSet
<1> HIDE DEF r
<1>6. /\ r \in ProcSet /\ r.life = "alive" /\ r.status \in Reports /\ r.status.pid = p
      /\ r.number <= Len(r.tasks)
      /\ \/ r.status.completed = r.number
         \/ r.number = Len(r.tasks) /\ r.status.completed > r.number
      /\ r.mode = "incremental" => r.status.mode = "incremental"
    BY <1>2, <1>4, <1>5 DEF ProcessKnows
<1> QED
    BY <1>1, <1>6

LEMMA RaisesKeeps ==
    ASSUME IInv, NEW p \in Pids, Raises(p)
    PROVE  IInv'
<1>1. /\ p \in Alive /\ proc[p].pc # "plan" /\ troubles < MaxTroubles /\ troubles' = troubles + 1
      /\ WriteFailed(p, proc[p])
      /\ UNCHANGED <<now, rows, file, api, launches, ran, crowded>>
    BY DEF Raises
<1> DEFINE r == [proc[p] EXCEPT !.status.state = "failed"]
<1>2. /\ r \in ProcSet /\ r.life = "alive" /\ r.status \in Reports /\ r.status.pid = p
      /\ r.number <= Len(r.tasks)
      /\ \/ r.status.completed = r.number
         \/ r.number = Len(r.tasks) /\ r.status.completed > r.number
      /\ r.mode = "incremental" => r.status.mode = "incremental"
    BY <1>1, FailureFacts
<1>3. Write(p, r, "exit")
    BY <1>1 DEF WriteFailed
<1>4. troubles' \in 0..MaxTroubles /\ ran' \in [Range(BootstrapKeys) -> SUBSET Int]
    BY <1>1, AliveFacts, Numbers
<1> HIDE DEF r
<1> QED
    BY <1>1, <1>2, <1>3, <1>4, Writes DEF Sequels

LEMMA ReplaceFailsKeeps ==
    ASSUME IInv, NEW p \in Pids, ReplaceFails(p)
    PROVE  IInv'
<1>1. /\ p \in Alive /\ proc[p].pc # "plan"
      /\ UNCHANGED <<now, rows, file, api, launches, troubles, ran, crowded>>
    BY DEF ReplaceFails
<1>2. troubles' \in 0..MaxTroubles /\ ran' \in [Range(BootstrapKeys) -> SUBSET Int]
    BY <1>1, AliveFacts
<1>3. CASE proc[p].after = "first" \/ proc[p].status.state = "failed"
  <2>1. Update(p, Ended(p)) /\ UNCHANGED temp
      BY <1>3 DEF ReplaceFails
  <2> QED
      BY <2>1, <1>1, <1>2, Ends
<1>4. CASE ~ (proc[p].after = "first" \/ proc[p].status.state = "failed")
  <2> DEFINE r == [proc[p] EXCEPT !.status.state = "failed"]
  <2>1. Write(p, r, "exit")
      BY <1>4 DEF ReplaceFails, WriteFailed
  <2>2. /\ r \in ProcSet /\ r.life = "alive" /\ r.status \in Reports /\ r.status.pid = p
        /\ r.number <= Len(r.tasks)
        /\ \/ r.status.completed = r.number
           \/ r.number = Len(r.tasks) /\ r.status.completed > r.number
        /\ r.mode = "incremental" => r.status.mode = "incremental"
      BY <1>1, FailureFacts
  <2> HIDE DEF r
  <2> QED
      BY <1>1, <1>2, <2>1, <2>2, Writes DEF Sequels
<1> QED
    BY <1>3, <1>4

LEMMA FinishKeeps ==
    ASSUME IInv, NEW p \in Pids, Finish(p)
    PROVE  IInv'
<1>1. /\ p \in Alive /\ proc[p].pc = "loop"
      /\ Write(p, [proc[p] EXCEPT !.status.state = "finished"], "exit")
      /\ UNCHANGED <<now, rows, file, api, launches, troubles, ran, crowded>>
    BY DEF Finish
<1>2. /\ proc[p] \in ProcSet /\ proc[p].life = "alive" /\ ProcessKnows(proc[p], p)
      /\ proc[p].status \in Reports
      /\ troubles' \in 0..MaxTroubles
      /\ ran' \in [Range(BootstrapKeys) -> SUBSET Int]
    BY <1>1, AliveFacts
<1> DEFINE s == [proc[p].status EXCEPT !.state = "finished"]
           r == [proc[p] EXCEPT !.status = s]
<1>3. Write(p, r, "exit")
    BY <1>1
<1>4. /\ s \in Reports /\ s.pid = proc[p].status.pid /\ s.completed = proc[p].status.completed
      /\ s.mode = proc[p].status.mode
    BY <1>2 DEF Reports
<1> HIDE DEF s
<1>5. /\ r \in ProcSet /\ r.life = "alive" /\ r.status = s /\ r.tasks = proc[p].tasks
      /\ r.number = proc[p].number /\ r.mode = proc[p].mode
    BY <1>2, <1>4 DEF ProcSet
<1> HIDE DEF r
<1>6. /\ r.status \in Reports /\ r.status.pid = p /\ r.number <= Len(r.tasks)
      /\ \/ r.status.completed = r.number
         \/ r.number = Len(r.tasks) /\ r.status.completed > r.number
      /\ r.mode = "incremental" => r.status.mode = "incremental"
    BY <1>1, <1>2, <1>4, <1>5 DEF ProcessKnows
<1> QED
    BY <1>1, <1>2, <1>3, <1>5, <1>6, Writes DEF Sequels

LEMMA KilledKeeps ==
    ASSUME IInv, NEW p \in Pids, Killed(p)
    PROVE  IInv'
<1>1. /\ p \in Alive /\ troubles < MaxTroubles /\ troubles' = troubles + 1
      /\ Update(p, Ended(p))
      /\ UNCHANGED <<now, rows, file, temp, api, launches, ran, crowded>>
    BY DEF Killed
<1>2. troubles' \in 0..MaxTroubles
    BY <1>1, AliveFacts, Numbers
<1> QED
    BY <1>1, <1>2, Ends

\* A finished task is counted in the process and in its report.
LEMMA CountedFacts ==
    ASSUME IInv, NEW p \in Alive, proc[p].pc = "execute"
    PROVE  LET r == Counted(proc[p])
           IN  /\ r \in ProcSet /\ r.life = "alive" /\ r.status \in Reports /\ r.status.pid = p
               /\ r.number = proc[p].number + 1 /\ r.tasks = proc[p].tasks
               /\ r.number <= Len(r.tasks)
               /\ r.status.completed = r.number
               /\ r.status.state = "running"
               /\ r.mode = proc[p].mode
               /\ r.mode = "incremental" => r.status.mode = "incremental"
<1> DEFINE n == proc[p].number + 1
           s == [proc[p].status EXCEPT !.completed = n]
           r == [proc[p] EXCEPT !.number = n, !.status = s]
<1>1. /\ proc[p] \in ProcSet /\ proc[p].life = "alive" /\ ProcessKnows(proc[p], p)
      /\ proc[p].number \in Nat /\ Len(proc[p].tasks) \in Nat
    BY AliveFacts
<1>2. Counted(proc[p]) = r
    BY <1>1 DEF Counted, ProcSet
<1>3. proc[p].status \in Reports /\ proc[p].number < Len(proc[p].tasks)
    BY <1>1 DEF ProcessKnows, AtTask
<1>4. n \in Nat /\ n <= Len(proc[p].tasks)
    BY <1>1, <1>3
<1>5. /\ s \in Reports /\ s.pid = proc[p].status.pid /\ s.completed = n
      /\ s.mode = proc[p].status.mode /\ s.state = proc[p].status.state
    BY <1>3, <1>4 DEF Reports
<1> HIDE DEF s
<1>6. /\ r \in ProcSet /\ r.life = "alive" /\ r.status = s /\ r.tasks = proc[p].tasks
      /\ r.number = n /\ r.mode = proc[p].mode
    BY <1>1, <1>4, <1>5 DEF ProcSet
<1> HIDE DEF r
<1>7. proc[p].status.state = "running" /\ proc[p].status.pid = p
      /\ (proc[p].mode = "incremental" => proc[p].status.mode = "incremental")
    BY <1>1 DEF ProcessKnows, GoesOn
<1> QED
    BY <1>2, <1>4, <1>5, <1>6, <1>7

LEMMA FinishTaskKeeps ==
    ASSUME IInv, NEW p \in Pids, FinishTask(p)
    PROVE  IInv'
<1> DEFINE c == Counted(proc[p])
           task == proc[p].tasks[proc[p].number + 1]
<1>1. /\ p \in Alive /\ proc[p].pc = "execute"
      /\ UNCHANGED <<now, rows, file, api, launches, troubles, crowded>>
      /\ \/ Write(p, c, "loop")
         \/ WriteFailed(p, c)
      /\ ran' = IF proc[p].mode = "incremental" THEN ran
                ELSE [ran EXCEPT ![task.key] = @ \union task.lo..task.hi]
    BY DEF FinishTask
<1>2. /\ proc[p] \in ProcSet /\ ProcessKnows(proc[p], p)
      /\ proc[p].number \in Nat /\ Len(proc[p].tasks) \in Nat
      /\ troubles' \in 0..MaxTroubles
      /\ ran \in [Range(BootstrapKeys) -> SUBSET Int]
    BY <1>1, AliveFacts
<1>3. task \in TaskSet
  <2>1. proc[p].tasks \in Seq(TaskSet) /\ proc[p].number + 1 \in 1..Len(proc[p].tasks)
      BY <1>1, <1>2 DEF ProcSet, ProcessKnows, AtTask
  <2> QED
      BY <2>1, LenProperties
<1>4. ran' \in [Range(BootstrapKeys) -> SUBSET Int]
  <2> HIDE DEF task
  <2>1. task.lo..task.hi \subseteq Int
      BY <1>3 DEF TaskSet
  <2> QED
      BY <1>1, <1>2, <2>1
<1>5. /\ c \in ProcSet /\ c.life = "alive" /\ c.status \in Reports /\ c.status.pid = p
      /\ c.number <= Len(c.tasks)
      /\ c.status.completed = c.number
      /\ c.status.state = "running"
      /\ c.mode = "incremental" => c.status.mode = "incremental"
    BY <1>1, CountedFacts
<1> HIDE DEF c, task
<1>6. CASE Write(p, c, "loop")
    BY <1>1, <1>2, <1>4, <1>5, <1>6, Writes DEF Sequels
<1>7. CASE WriteFailed(p, c)
  <2> DEFINE s == [c.status EXCEPT !.state = "failed"]
             r == [c EXCEPT !.status = s]
  <2>1. Write(p, r, "exit")
      BY <1>7 DEF WriteFailed
  <2>2. /\ s \in Reports /\ s.pid = c.status.pid /\ s.completed = c.status.completed
        /\ s.mode = c.status.mode
      BY <1>5 DEF Reports
  <2> HIDE DEF s
  <2>3. /\ r \in ProcSet /\ r.life = "alive" /\ r.status = s /\ r.tasks = c.tasks
        /\ r.number = c.number /\ r.mode = c.mode
      BY <1>5, <2>2 DEF ProcSet
  <2> HIDE DEF r
  <2> QED
      BY <1>1, <1>2, <1>4, <1>5, <2>1, <2>2, <2>3, Writes DEF Sequels
<1> QED
    BY <1>1, <1>6, <1>7

LEMMA RunCallKeeps ==
    ASSUME IInv, NEW p \in Pids, RunCall(p)
    PROVE  IInv'
<1> DEFINE call == Head(proc[p].calls)
           w == WithNextPart(proc[p], proc[p].parts)
           r == IF Len(proc[p].calls) > 1 THEN [proc[p] EXCEPT !.calls = Tail(@)] ELSE w
<1>1. /\ p \in Alive /\ proc[p].pc = "execute" /\ proc[p].calls # <<>>
      /\ rows' = [d \in HistorySets |->
                     IF d \in call.sets
                     THEN rows[d] \union Within(Available(d, now), Window(call.lo, call.hi))
                     ELSE rows[d]]
      /\ UNCHANGED <<now, file, temp, api, launches, troubles, ran, crowded>>
      /\ proc' = [proc EXCEPT ![p] = r]
    BY DEF RunCall, Update
<1>2. /\ proc[p] \in ProcSet /\ proc[p].life = "alive" /\ proc[p].status \in Reports
      /\ ProcessKnows(proc[p], p)
      /\ now \in StartTime..EndTime /\ now \in Nat
      /\ rows \in [HistorySets -> SUBSET (0..EndTime)]
      /\ file \in Reports \union {Torn, NoFile}
      /\ temp \in Reports \union {Torn, NoFile}
      /\ troubles \in 0..MaxTroubles
      /\ ran \in [Range(BootstrapKeys) -> SUBSET Int]
      /\ ~crowded => file # Torn /\ AloneFiles(proc[p])
    BY <1>1, AliveFacts
<1>3. proc[p].parts \in Seq(PartSet) /\ proc[p].calls \in Seq(PartSet)
    BY <1>2 DEF ProcSet
<1>4. PICK parts \in Seq(PartSet), calls \in Seq(PartSet) :
          r = [proc[p] EXCEPT !.parts = parts, !.calls = calls]
  <2>1. CASE Len(proc[p].calls) > 1
    <3>1. Tail(proc[p].calls) \in Seq(PartSet)
        BY <1>1, <1>3, HeadTailProperties
    <3>2. r = [proc[p] EXCEPT !.calls = Tail(proc[p].calls)]
        BY <2>1
    <3>3. r = [proc[p] EXCEPT !.parts = proc[p].parts, !.calls = Tail(proc[p].calls)]
        BY <3>2, <1>2 DEF ProcSet
    <3> QED
        BY <3>1, <3>3, <1>3
  <2>2. CASE ~ (Len(proc[p].calls) > 1)
    <3>1. r = w
        BY <2>2
    <3>2. /\ w.parts \in Seq(PartSet) /\ w.calls \in Seq(PartSet)
          /\ w = [proc[p] EXCEPT !.parts = w.parts, !.calls = w.calls]
        BY <1>2, <1>3, WithNextPartFacts
    <3> HIDE DEF r, w
    <3> QED
        BY <3>1, <3>2
  <2> QED
      BY <2>1, <2>2
<1> HIDE DEF r, w
<1>5. /\ r \in ProcSet /\ r.life = "alive" /\ r.pc = "execute" /\ r.inode = proc[p].inode
      /\ r.status = proc[p].status /\ r.number = proc[p].number /\ r.tasks = proc[p].tasks
      /\ r.mode = proc[p].mode /\ r.after = proc[p].after
    BY <1>1, <1>2, <1>4 DEF ProcSet
<1>6. ProcessKnows(r, p)
    BY <1>1, <1>2, <1>5 DEF ProcessKnows, AtTask, GoesOn
<1>7. ~crowded => file' = r.status /\ file' # Torn
    BY <1>1, <1>2, <1>5 DEF AloneFiles
<1>8. rows' \in [HistorySets -> SUBSET (0..EndTime)]
  <2>1. ASSUME NEW d \in HistorySets
        PROVE  Available(d, now) \subseteq 0..EndTime
    <3>1. Venue[d] \subseteq Nat
        BY HistoryConstantsAssumption
    <3> QED
        BY <3>1, <1>2, Numbers DEF Available
  <2>2. ASSUME NEW d \in HistorySets
        PROVE  rows[d] \union Within(Available(d, now), Window(call.lo, call.hi)) \subseteq 0..EndTime
      BY <2>1, <1>2 DEF Within
  <2> HIDE DEF call
  <2> QED
      BY <1>1, <1>2, <2>2
<1>9. /\ now' \in StartTime..EndTime
      /\ file' \in Reports \union {Torn, NoFile} /\ temp' \in Reports \union {Torn, NoFile}
      /\ troubles' \in 0..MaxTroubles /\ ran' \in [Range(BootstrapKeys) -> SUBSET Int]
    BY <1>1, <1>2
<1> QED
    BY <1>1, <1>2, <1>5, <1>6, <1>7, <1>8, <1>9, Updates

\* What a process goes on with when its report is in place.
LEMMA ReplacedFacts ==
    ASSUME IInv, NEW p \in Alive, proc[p].pc = "replace"
    PROVE  /\ Replaced(p) \in ProcSet
           /\ ProcessKnows(Replaced(p), p)
           /\ Replaced(p).life = "alive" =>
                  /\ Replaced(p).pc \in {"loop", "execute"}
                  /\ proc[p].after # "exit"
                  /\ Replaced(p).mode = proc[p].mode /\ Replaced(p).names = proc[p].names
                  /\ Replaced(p).status = proc[p].status /\ Replaced(p).tasks = proc[p].tasks
                  /\ Replaced(p).number = proc[p].number
           /\ Replaced(p).life # "alive" => Replaced(p) = Ended(p)
<1>1. /\ p \in Pids /\ proc[p] \in ProcSet /\ proc[p].life = "alive" /\ proc[p].status \in Reports
      /\ proc \in [Pids -> ProcSet]
      /\ ProcessKnows(proc[p], p) /\ now \in Nat
      /\ proc[p].number \in Nat /\ Len(proc[p].tasks) \in Nat
    BY AliveFacts
<1>2. CASE proc[p].after = "exit"
  <2>1. Replaced(p) = Ended(p)
      BY <1>2 DEF Replaced
  <2> QED
      BY <2>1, <1>1, EndedFacts
<1>3. CASE proc[p].after = "execute"
  <2> DEFINE task == proc[p].tasks[proc[p].number + 1]
             a == PartsOf(task)
             b == [proc[p] EXCEPT !.pc = "execute"]
             w == WithNextPart(b, a)
  <2>1. task \in TaskSet
    <3>1. proc[p].tasks \in Seq(TaskSet) /\ proc[p].number + 1 \in 1..Len(proc[p].tasks)
        BY <1>1, <1>3 DEF ProcSet, ProcessKnows, AtTask
    <3> QED
        BY <3>1, LenProperties
  <2>2. Replaced(p) = w
      BY <1>3 DEF Replaced
  <2>3. a \in Seq(PartSet)
    <3> HIDE DEF task
    <3> QED
        BY <2>1, PartFacts
  <2>4. b \in ProcSet /\ b.pc = "execute" /\ b.life = "alive" /\ b.inode = proc[p].inode
        /\ b.status = proc[p].status /\ b.number = proc[p].number /\ b.tasks = proc[p].tasks
        /\ b.mode = proc[p].mode /\ b.names = proc[p].names
      BY <1>1 DEF ProcSet, Places
  <2> HIDE DEF a, b, w
  <2>5. PICK parts \in Seq(PartSet), calls \in Seq(PartSet) :
            w = [b EXCEPT !.parts = parts, !.calls = calls]
    <3>1. /\ w.parts \in Seq(PartSet) /\ w.calls \in Seq(PartSet)
          /\ w = [b EXCEPT !.parts = w.parts, !.calls = w.calls]
      <4>1. b \in ProcSet /\ a \in Seq(PartSet) /\ now \in Nat
          BY <1>1, <2>3, <2>4
      <4> QED
          BY <4>1, WithNextPartFacts DEF w
    <3> QED
        BY <3>1
  <2>6. /\ w \in ProcSet /\ w.pc = "execute" /\ w.life = "alive" /\ w.inode = proc[p].inode
        /\ w.status = proc[p].status /\ w.number = proc[p].number /\ w.tasks = proc[p].tasks
        /\ w.mode = proc[p].mode /\ w.names = proc[p].names
      BY <2>4, <2>5 DEF ProcSet
  <2>7. ProcessKnows(w, p)
      BY <1>1, <1>3, <2>6 DEF ProcessKnows, AtTask, GoesOn
  <2> QED
      BY <1>3, <2>2, <2>6, <2>7
<1>4. CASE proc[p].after \notin {"exit", "execute"}
  <2> DEFINE r == [proc[p] EXCEPT !.pc = "loop"]
  <2>1. Replaced(p) = r
      BY <1>4 DEF Replaced
  <2>2. r \in ProcSet /\ r.pc = "loop" /\ r.life = "alive" /\ r.inode = proc[p].inode
        /\ r.status = proc[p].status /\ r.number = proc[p].number /\ r.tasks = proc[p].tasks
        /\ r.mode = proc[p].mode /\ r.names = proc[p].names
      BY <1>1 DEF ProcSet, Places
  <2> HIDE DEF r
  <2>3. ProcessKnows(r, p)
      BY <1>1, <1>4, <2>2 DEF ProcessKnows, AtTask, GoesOn
  <2> QED
      BY <1>4, <2>1, <2>2, <2>3
<1> QED
    BY <1>2, <1>3, <1>4

\* Others that have a file open find it under another name, or under none.
LEMMA MovedFacts ==
    ASSUME NEW r \in ProcSet
    PROVE  LET m == [r EXCEPT !.inode = Moved(@)]
           IN  /\ m \in ProcSet
               /\ \A q \in Pids : ProcessKnows(r, q) => ProcessKnows(m, q)
               /\ m.life = r.life /\ m.pc = r.pc /\ m.after = r.after /\ m.status = r.status
               /\ m.mode = r.mode /\ m.names = r.names
               /\ m.tasks = r.tasks /\ m.number = r.number /\ m.calls = r.calls
<1> DEFINE m == [r EXCEPT !.inode = Moved(@)]
<1>1. Moved(r.inode) \in Inodes /\ (r.inode = "none" => Moved(r.inode) = "none")
    BY DEF Moved, Inodes, ProcSet
<1>2. /\ m \in ProcSet /\ m.inode = Moved(r.inode)
      /\ m.life = r.life /\ m.pc = r.pc /\ m.after = r.after /\ m.status = r.status
      /\ m.mode = r.mode /\ m.names = r.names
      /\ m.tasks = r.tasks /\ m.number = r.number /\ m.calls = r.calls
    BY <1>1 DEF ProcSet
<1> HIDE DEF m
<1>3. ASSUME NEW q \in Pids, ProcessKnows(r, q)
      PROVE  ProcessKnows(m, q)
    BY <1>1, <1>2, <1>3 DEF ProcessKnows, AtTask, GoesOn
<1> QED
    BY <1>2, <1>3 DEF m

LEMMA ReplaceKeeps ==
    ASSUME IInv, NEW p \in Pids, Replace(p)
    PROVE  IInv'
<1>1. /\ p \in Alive /\ proc[p].pc = "replace"
      /\ temp # NoFile /\ file' = temp /\ temp' = NoFile
      /\ proc' = [q \in Pids |-> IF q = p THEN Replaced(p)
                                 ELSE [proc[q] EXCEPT !.inode = Moved(@)]]
      /\ UNCHANGED <<now, rows, api, launches, troubles, ran, crowded>>
    BY DEF Replace
<1>2. /\ proc[p].status \in Reports /\ proc \in [Pids -> ProcSet]
      /\ temp \in Reports \union {Torn, NoFile}
      /\ ~crowded => temp = proc[p].status
    BY <1>1, AliveFacts DEF AloneFiles
<1>3. /\ Replaced(p) \in ProcSet /\ ProcessKnows(Replaced(p), p)
      /\ Replaced(p).life = "alive" => /\ Replaced(p).pc \in {"loop", "execute"}
                                       /\ Replaced(p).status = proc[p].status
    BY <1>1, ReplacedFacts
<1>4. ASSUME NEW q \in Pids
      PROVE  /\ proc'[q] \in ProcSet /\ ProcessKnows(proc'[q], q)
             /\ proc'[q].life = "alive" => proc[q].life = "alive"
  <2>1. CASE q = p
    <3>1. proc'[q] = Replaced(p) /\ proc[p].life = "alive"
        BY <1>1, <2>1, AliveFacts
    <3> QED
        BY <3>1, <1>3, <2>1
  <2>2. CASE q # p
    <3> DEFINE m == [proc[q] EXCEPT !.inode = Moved(@)]
    <3>1. proc'[q] = m
        BY <1>1, <2>2
    <3>2. proc[q] \in ProcSet /\ ProcessKnows(proc[q], q)
        BY <1>2 DEF IInv
    <3>3. m \in ProcSet /\ ProcessKnows(m, q) /\ m.life = proc[q].life
        BY <3>2, MovedFacts
    <3> QED
        BY <3>1, <3>3
  <2> QED
      BY <2>1, <2>2
<1>5. proc' \in [Pids -> ProcSet]
  <2>1. DOMAIN proc' = Pids /\ proc' = [q \in Pids |-> proc'[q]]
      BY <1>1
  <2> QED
      BY <1>4, <2>1
<1>6. StateTypes'
    BY <1>1, <1>2, <1>5 DEF IInv, StateTypes
<1>7. proc'[p] = Replaced(p)
    BY <1>1
<1>8. ~crowded => file' # Torn
    BY <1>1, <1>2, HistoryConstantsAssumption
<1>9. ~crowded /\ proc'[p].life = "alive" =>
          proc'[p].pc \in {"loop", "execute"} /\ file' = proc'[p].status
    BY <1>1, <1>2, <1>3, <1>7
<1> QED
    BY <1>1, <1>4, <1>6, <1>8, <1>9, OneMoves

-----------------------------------------------------------------------------
(* Steps of the API, the operator and the clock *)

\* Reaping changes no process that runs.
LEMMA ReapFacts ==
    ASSUME IInv
    PROVE  /\ Reap(proc) \in [Pids -> ProcSet]
           /\ \A q \in Pids : /\ ProcessKnows(Reap(proc)[q], q)
                              /\ proc[q].life # "zombie" => Reap(proc)[q] = proc[q]
                              /\ proc[q].life = "zombie" =>
                                     Reap(proc)[q] = [proc[q] EXCEPT !.life = "gone"]
                              /\ Reap(proc)[q].life = "alive" <=> proc[q].life = "alive"
<1>1. proc \in [Pids -> ProcSet] /\ \A q \in Pids : ProcessKnows(proc[q], q)
    BY DEF IInv, StateTypes
<1>2. ASSUME NEW q \in Pids
      PROVE  /\ Reap(proc)[q] \in ProcSet /\ ProcessKnows(Reap(proc)[q], q)
             /\ proc[q].life # "zombie" => Reap(proc)[q] = proc[q]
             /\ proc[q].life = "zombie" => Reap(proc)[q] = [proc[q] EXCEPT !.life = "gone"]
             /\ Reap(proc)[q].life = "alive" <=> proc[q].life = "alive"
  <2>1. CASE proc[q].life = "zombie"
    <3> DEFINE r == [proc[q] EXCEPT !.life = "gone"]
    <3>1. Reap(proc)[q] = r
        BY <2>1 DEF Reap
    <3>2. /\ r \in ProcSet /\ r.life = "gone" /\ r.pc = proc[q].pc /\ r.inode = proc[q].inode
          /\ r.number = proc[q].number /\ r.tasks = proc[q].tasks /\ r.status = proc[q].status
          /\ r.after = proc[q].after /\ r.mode = proc[q].mode
        BY <1>1 DEF ProcSet, Lives
    <3> HIDE DEF r
    <3>3. ProcessKnows(r, q)
        BY <1>1, <2>1, <3>2 DEF ProcessKnows, AtTask, GoesOn
    <3> QED
        BY <2>1, <3>1, <3>2, <3>3 DEF r
  <2>2. CASE proc[q].life # "zombie"
    <3>1. Reap(proc)[q] = proc[q]
        BY <2>2 DEF Reap
    <3> QED
        BY <3>1, <1>1, <2>2
  <2> QED
      BY <2>1, <2>2
<1>3. Reap(proc) = [q \in Pids |-> Reap(proc)[q]]
    BY DEF Reap
<1> QED
    BY <1>2, <1>3

\* The API's and the operator's new process has done nothing yet.
LEMMA LaunchKeeps ==
    ASSUME IInv, NEW parent \in {"shell", "api"},
           NEW mode \in {"bootstrap", "incremental", "resume"}, NEW names \in SUBSET HistorySets,
           Launch(parent, mode, names),
           UNCHANGED <<now, rows, file, temp, troubles, ran>>,
           api' \in [Clients -> SUBSET Selections]
    PROVE  IInv'
<1> DEFINE n == launches + 1
           r == [NoProcess EXCEPT !.life = "alive", !.parent = parent, !.mode = mode,
                                  !.names = names]
           old == IF parent = "api" THEN Reap(proc) ELSE proc
<1>1. /\ n \in Pids /\ launches' = n /\ launches' \in 0..MaxLaunches
      /\ proc' = [old EXCEPT ![n] = r]
      /\ crowded' = (crowded \/ Alive # {})
    BY Numbers DEF Launch, IInv, StateTypes, Pids
<1>2. /\ old \in [Pids -> ProcSet]
      /\ \A q \in Pids : ProcessKnows(old[q], q) /\ (old[q].life = "alive" => proc[q].life = "alive")
    BY ReapFacts DEF IInv, StateTypes
<1>3. r \in ProcSet /\ r.pc = "plan" /\ r.status = NoFile /\ ProcessKnows(r, n)
  <2>1. /\ r \in ProcSet /\ r.life = "alive" /\ r.pc = "plan" /\ r.inode = "none"
        /\ r.number = 0 /\ r.tasks = NoProcess.tasks /\ r.status = NoFile
      BY NoProcessFacts DEF ProcSet, Lives
  <2> HIDE DEF r
  <2> QED
      BY <2>1, NoProcessFacts DEF ProcessKnows, AtTask, GoesOn
<1> HIDE DEF r, old, n
<1>4. /\ proc' \in [Pids -> ProcSet] /\ proc'[n] = r
      /\ \A q \in Pids : q # n => proc'[q] = old[q]
    BY <1>1, <1>2, <1>3
<1>5. \A q \in Pids : ProcessKnows(proc'[q], q)
    BY <1>2, <1>3, <1>4
<1>6. StateTypes'
  <2>1. crowded' \in BOOLEAN
      BY <1>1
  <2> QED
      BY <1>1, <1>4, <2>1 DEF IInv, StateTypes
<1>7. Alone'
  <2>1. SUFFICES ASSUME ~crowded'
                 PROVE  /\ file' # Torn
                        /\ \A p, q \in Alive' : p = q
                        /\ \A p \in Alive' : AloneFiles(proc[p])'
      BY DEF Alone
  <2>2. ~crowded /\ Alive = {}
      BY <1>1, <2>1
  <2>3. \A q \in Alive' : q = n
      BY <1>2, <1>4, <2>2 DEF Alive
  <2>4. file' # Torn
      BY <2>2 DEF IInv, Alone
  <2>5. \A q \in Alive' : proc'[q].pc = "plan"
      BY <2>3, <1>3, <1>4
  <2> QED
      BY <2>3, <2>4, <2>5 DEF AloneFiles
<1> QED
    BY <1>5, <1>6, <1>7 DEF IInv

LEMMA ApiKeeps ==
    ASSUME IInv, NEW c \in Clients, ApiChecks(c) \/ ApiStarts(c)
    PROVE  IInv'
<1>1. api \in [Clients -> SUBSET Selections]
    BY DEF IInv, StateTypes
<1>2. CASE ApiChecks(c)
  <2>1. UNCHANGED <<now, rows, file, temp, proc, launches, troubles, ran, crowded>>
      BY <1>2 DEF ApiChecks
  <2>2. PICK names \in Selections : api' = [api EXCEPT ![c] = {names}]
      BY <1>2 DEF ApiChecks
  <2>3. api' \in [Clients -> SUBSET Selections]
      BY <1>1, <2>2
  <2>4. StateTypes'
      BY <2>1, <2>3 DEF IInv, StateTypes
  <2> QED
      BY <2>1, <2>4 DEF IInv, Alone, Alive, AloneFiles
<1>3. CASE ApiStarts(c)
  <2>1. PICK names \in api[c] : Launch("api", "incremental", names)
      BY <1>3 DEF ApiStarts
  <2>2. names \in SUBSET HistorySets
      BY <1>1, HistoryConstantsAssumption
  <2>3. /\ api' \in [Clients -> SUBSET Selections]
        /\ UNCHANGED <<now, rows, file, temp, troubles, ran>>
      BY <1>1, <1>3 DEF ApiStarts
  <2> QED
      BY <2>1, <2>2, <2>3, LaunchKeeps
<1> QED
    BY <1>2, <1>3

LEMMA OperatorStartsKeeps ==
    ASSUME IInv, OperatorStarts
    PROVE  IInv'
<1>1. PICK mode \in {"bootstrap", "resume"} : Launch("shell", mode, {})
    BY DEF OperatorStarts
<1>2. UNCHANGED <<now, rows, file, temp, api, troubles, ran>>
    BY DEF OperatorStarts
<1>3. api' \in [Clients -> SUBSET Selections]
    BY <1>2 DEF IInv, StateTypes
<1> QED
    BY <1>1, <1>2, <1>3, LaunchKeeps

LEMMA ApiRestartsKeeps ==
    ASSUME IInv, ApiRestarts
    PROVE  IInv'
<1>1. /\ troubles < MaxTroubles /\ troubles' = troubles + 1
      /\ api' = [c \in Clients |-> {}]
      /\ proc' = [p \in Pids |-> [Reap(proc)[p] EXCEPT !.parent = "shell"]]
      /\ UNCHANGED <<now, rows, file, temp, launches, ran, crowded>>
    BY DEF ApiRestarts
<1>2. ASSUME NEW q \in Pids
      PROVE  /\ proc'[q] \in ProcSet /\ ProcessKnows(proc'[q], q)
             /\ proc'[q].life = "alive" => proc[q].life = "alive"
             /\ proc'[q].life = "alive" => /\ proc'[q].pc = proc[q].pc
                                           /\ proc'[q].inode = proc[q].inode
                                           /\ proc'[q].status = proc[q].status
  <2> DEFINE r == Reap(proc)[q]
             m == [r EXCEPT !.parent = "shell"]
  <2>1. /\ r \in ProcSet /\ ProcessKnows(r, q)
        /\ proc[q].life # "zombie" => r = proc[q]
        /\ r.life = "alive" <=> proc[q].life = "alive"
      BY ReapFacts
  <2>2. proc'[q] = m
      BY <1>1
  <2> HIDE DEF r
  <2>3. /\ m \in ProcSet /\ m.life = r.life /\ m.pc = r.pc /\ m.inode = r.inode
        /\ m.number = r.number /\ m.tasks = r.tasks /\ m.status = r.status
        /\ m.after = r.after /\ m.mode = r.mode
      BY <2>1 DEF ProcSet
  <2> HIDE DEF m
  <2>4. ProcessKnows(m, q)
      BY <2>1, <2>3 DEF ProcessKnows, AtTask, GoesOn
  <2> QED
      BY <2>1, <2>2, <2>3, <2>4
<1>3. proc' \in [Pids -> ProcSet]
  <2>1. proc' = [q \in Pids |-> proc'[q]]
      BY <1>1
  <2> QED
      BY <1>2, <2>1
<1>4. StateTypes'
  <2>1. troubles' \in 0..MaxTroubles /\ api' \in [Clients -> SUBSET Selections]
      BY <1>1, Numbers DEF IInv, StateTypes
  <2> QED
      BY <1>1, <1>3, <2>1 DEF IInv, StateTypes
<1>5. Alone'
  <2>1. Alive' \subseteq Alive
      BY <1>2 DEF Alive
  <2>2. \A q \in Alive' : AloneFiles(proc[q]) => AloneFiles(proc[q])'
      BY <1>1, <1>2 DEF Alive, AloneFiles
  <2> QED
      BY <1>1, <2>1, <2>2 DEF IInv, Alone
<1> QED
    BY <1>2, <1>4, <1>5 DEF IInv

LEMMA TickKeeps ==
    ASSUME IInv, Tick
    PROVE  IInv'
<1>1. /\ now < EndTime /\ now' = now + 1
      /\ UNCHANGED <<rows, file, temp, proc, api, launches, troubles, ran, crowded>>
    BY DEF Tick
<1>2. StateTypes'
    BY <1>1, Numbers DEF IInv, StateTypes
<1> QED
    BY <1>1, <1>2 DEF IInv, Alone, Alive, AloneFiles

LEMMA InitHolds ==
    ASSUME Init
    PROVE  IInv
<1>1. NoProcess \in ProcSet
    BY NoProcessFacts
<1>2. \A p \in Pids : proc[p] = NoProcess /\ ProcessKnows(proc[p], p)
    BY NoProcessFacts DEF Init, ProcessKnows, AtTask, GoesOn
<1>3. StateTypes
  <2>1. proc \in [Pids -> ProcSet] /\ now \in StartTime..EndTime
      BY <1>1, Numbers DEF Init
  <2>2. rows \in [HistorySets -> SUBSET (0..EndTime)]
      BY HistoryConstantsAssumption DEF Init
  <2>3. launches \in 0..MaxLaunches /\ troubles \in 0..MaxTroubles
      BY Numbers DEF Init
  <2>4. api \in [Clients -> SUBSET Selections]
      BY DEF Init
  <2>5. ran \in [Range(BootstrapKeys) -> SUBSET Int]
      BY DEF Init
  <2>6. file = NoFile /\ temp = NoFile /\ crowded = FALSE
      BY DEF Init
  <2> QED
      BY <2>1, <2>2, <2>3, <2>4, <2>5, <2>6 DEF StateTypes
<1>4. Alive = {}
    BY <1>2, NoProcessFacts DEF Alive
<1>5. file # Torn
    BY HistoryConstantsAssumption DEF Init
<1> QED
    BY <1>2, <1>3, <1>4, <1>5 DEF IInv, Alone

LEMMA NextKeeps ==
    ASSUME IInv, [Next]_vars
    PROVE  IInv'
<1>1. CASE \E c \in Clients : ApiChecks(c) \/ ApiStarts(c)
    BY <1>1, ApiKeeps
<1>2. CASE OperatorStarts
    BY <1>2, OperatorStartsKeeps
<1>3. ASSUME NEW p \in Pids, Step(p) \/ Raises(p) \/ Killed(p)
      PROVE  IInv'
  <2>1. CASE PlanTasks(p)
      BY <2>1, PlanTasksKeeps
  <2>2. CASE Fill(p)
      BY <2>2, FillKeeps
  <2>3. CASE Replace(p)
      BY <2>3, ReplaceKeeps
  <2>4. CASE ReplaceFails(p)
      BY <2>4, ReplaceFailsKeeps
  <2>5. CASE StartTask(p)
      BY <2>5, StartTaskKeeps
  <2>6. CASE RunCall(p)
      BY <2>6, RunCallKeeps
  <2>7. CASE FinishTask(p)
      BY <2>7, FinishTaskKeeps
  <2>8. CASE Finish(p)
      BY <2>8, FinishKeeps
  <2>9. CASE Raises(p)
      BY <2>9, RaisesKeeps
  <2>10. CASE Killed(p)
      BY <2>10, KilledKeeps
  <2> QED
      BY <1>3, <2>1, <2>2, <2>3, <2>4, <2>5, <2>6, <2>7, <2>8, <2>9, <2>10 DEF Step
<1>4. CASE ApiRestarts
    BY <1>4, ApiRestartsKeeps
<1>5. CASE Tick
    BY <1>5, TickKeeps
<1>6. CASE UNCHANGED vars
    BY <1>6 DEF vars, IInv, StateTypes, Alone, Alive, AloneFiles
<1> QED
    BY <1>1, <1>2, <1>3, <1>4, <1>5, <1>6 DEF Next

\* The invariant holds in every state of every behaviour.
THEOREM InvariantHolds == Spec => []IInv
<1>1. Init => IInv
    BY InitHolds
<1>2. IInv /\ [Next]_vars => IInv'
    BY NextKeeps
<1> QED
    BY <1>1, <1>2, PTL DEF Spec

-----------------------------------------------------------------------------
(* The status file *)

\* Every variable keeps its type.
THEOREM TypesHold == Spec => []TypeOK
<1>1. IInv => TypeOK
  <2> SUFFICES ASSUME IInv
               PROVE  TypeOK
      OBVIOUS
  <2>1. ASSUME NEW p \in Pids
        PROVE  /\ proc[p].life \in Lives /\ proc[p].pc \in Places
               /\ proc[p].after \in Sequels /\ proc[p].inode \in Inodes
               /\ proc[p].number \in 0..Len(proc[p].tasks)
    <3>1. proc[p] \in ProcSet /\ ProcessKnows(proc[p], p)
        BY DEF IInv, StateTypes
    <3>2. proc[p].number \in Nat /\ Len(proc[p].tasks) \in Nat
        BY <3>1, LenProperties DEF ProcSet
    <3> QED
        BY <3>1, <3>2 DEF ProcSet, ProcessKnows
  <2> QED
      BY <2>1 DEF IInv, StateTypes, TypeOK, Lives, Places, Sequels, Inodes
<1> QED
    BY <1>1, InvariantHolds, PTL

\* As long as no two backfills run at once, whoever reads the status file finds
\* no torn report, wherever a process is killed (write_status moves a whole file).
THEOREM StatusIsWhole == Spec => []StatusIsReadable
<1>1. IInv => StatusIsReadable
    BY DEF IInv, Alone, StatusIsReadable
<1> QED
    BY <1>1, InvariantHolds, PTL

\* While a backfill that runs alone executes tasks, the file shows it running,
\* names its process and counts the tasks that are behind it.
THEOREM ReportStaysCurrent == Spec => []ReportIsCurrent
<1>1. IInv => ReportIsCurrent
  <2> SUFFICES ASSUME IInv, ~crowded, NEW p \in Alive, proc[p].pc \in {"loop", "execute"}
               PROVE  /\ ShownState = "running"
                      /\ file.pid = p
                      /\ \/ file.completed = proc[p].number
                         \/ /\ proc[p].number = Len(proc[p].tasks)
                            /\ file.completed > proc[p].number
      BY DEF ReportIsCurrent
  <2>1. /\ proc[p].status \in Reports /\ proc[p].life = "alive" /\ ProcessKnows(proc[p], p)
        /\ file = proc[p].status
      BY AliveFacts DEF AloneFiles
  <2>2. /\ file.state = "running" /\ file.pid = p
        /\ \/ file.completed = proc[p].number
           \/ /\ proc[p].number = Len(proc[p].tasks)
              /\ file.completed > proc[p].number
      BY <2>1 DEF ProcessKnows, GoesOn
  <2>3. file # NoFile /\ file # Torn
      BY <2>1, HistoryConstantsAssumption
  <2> QED
      BY <2>1, <2>2, <2>3 DEF ShownState, ProcessIsRunning
<1> QED
    BY <1>1, InvariantHolds, PTL

-----------------------------------------------------------------------------
(* Bootstraps *)

LEMMA PlanKeys ==
    ASSUME NEW t \in Nat, NEW i \in DOMAIN PlanTo(t)
    PROVE  /\ i \in Nat \ {0}
           /\ PlanTo(t)[i].key \in Range(BootstrapKeys)
<1>1. MonthsTo(t) \in Nat \ {0} /\ Specs \in Nat \ {0}
    BY MonthFacts, BootstrapKeyFacts
<1>2. /\ i \in 1..(MonthsTo(t) * Specs)
      /\ SpecAt(i, t) \in 1..Specs
      /\ PlanTo(t)[i] = [key |-> BootstrapKeys[SpecAt(i, t)],
                         lo |-> MonthLo(MonthAt(i, t)), hi |-> MonthHi(MonthAt(i, t), t)]
    BY PlanFacts
<1>3. PlanTo(t)[i].key = BootstrapKeys[SpecAt(i, t)]
    BY <1>2
<1> QED
    BY <1>1, <1>2, <1>3, BootstrapKeyFacts DEF Range

\* What is true of a report stays true, whatever runs in the meantime.
LEMMA HonestKept ==
    ASSUME NEW r, NEW t \in Nat, NEW u \in Nat, t <= u, NEW done, NEW more,
           \A key \in Range(BootstrapKeys) : done[key] \subseteq more[key],
           Honest(r, t, done)
    PROVE  Honest(r, u, more)
<1> SUFFICES ASSUME r \in Reports, r.mode = "bootstrap"
             PROVE  /\ r.lo = 0 /\ r.hi <= u
                    /\ \A v \in u..EndTime : \A i \in DOMAIN PlanTo(v) :
                           i <= r.completed => Ran(PlanTo(v)[i], r.hi, more)
                    /\ r.state = "finished" =>
                           \A key \in Range(BootstrapKeys) : r.lo..r.hi \subseteq more[key]
    BY DEF Honest
<1>1. r.lo = 0 /\ r.hi <= t /\ r.hi \in Nat
    BY DEF Honest, Reports
<1>2. ASSUME NEW v \in u..EndTime, NEW i \in DOMAIN PlanTo(v), i <= r.completed
      PROVE  Ran(PlanTo(v)[i], r.hi, more)
  <2>1. v \in t..EndTime /\ v \in Nat
      BY Numbers
  <2>2. Ran(PlanTo(v)[i], r.hi, done)
      BY <1>2, <2>1 DEF Honest
  <2>3. PlanTo(v)[i].key \in Range(BootstrapKeys)
      BY <2>1, PlanKeys
  <2> QED
      BY <2>2, <2>3 DEF Ran
<1>3. r.state = "finished" => \A key \in Range(BootstrapKeys) : r.lo..r.hi \subseteq more[key]
    BY DEF Honest
<1> QED
    BY <1>1, <1>2, <1>3

LEMMA WorkKept ==
    ASSUME NEW r \in ProcSet, r.number <= Len(r.tasks),
           NEW t \in Nat, NEW u \in Nat, t <= u, NEW done, NEW more,
           \A key \in Range(BootstrapKeys) : done[key] \subseteq more[key],
           WorksOnPlan(r, t, done)
    PROVE  WorksOnPlan(r, u, more)
<1> SUFFICES ASSUME r.pc # "plan", r.status.mode = "bootstrap"
             PROVE  /\ r.status.hi \in 0..u
                    /\ \E v \in (r.status.hi)..u : r.tasks = PlanTo(v)
                    /\ \A i \in 1..r.number : Ran(r.tasks[i], r.status.hi, more)
    BY DEF WorksOnPlan
<1>1. r.status.hi \in 0..t
    BY DEF WorksOnPlan
<1>2. PICK v \in (r.status.hi)..t : r.tasks = PlanTo(v)
    BY DEF WorksOnPlan
<1>3. v \in Nat /\ v \in (r.status.hi)..u
    BY <1>1, <1>2
<1>4. r.tasks \in Seq(TaskSet) /\ r.number \in Nat
    BY DEF ProcSet
<1>5. ASSUME NEW i \in 1..r.number
      PROVE  Ran(r.tasks[i], r.status.hi, more)
  <2>1. i \in DOMAIN r.tasks
      BY <1>4, LenProperties
  <2>2. r.tasks[i].key \in Range(BootstrapKeys)
      BY <1>2, <1>3, <2>1, PlanKeys
  <2>3. Ran(r.tasks[i], r.status.hi, done)
      BY DEF WorksOnPlan
  <2> QED
      BY <2>2, <2>3 DEF Ran
<1> QED
    BY <1>1, <1>2, <1>3, <1>5

\* What a step does to the files and to the record of one process.
LEMMA CoverUpdates ==
    ASSUME IInv, CoverInv, NEW p \in Pids, NEW r, proc' = [proc EXCEPT ![p] = r],
           now' = now, \A key \in Range(BootstrapKeys) : ran[key] \subseteq ran'[key],
           file' \in {file, temp, proc[p].status, Torn, NoFile},
           temp' \in {file, temp, proc[p].status, Torn, NoFile},
           Honest(r.status, now, ran'), WorksOnPlan(r, now, ran')
    PROVE  CoverInv'
<1>1. now \in Nat /\ proc \in [Pids -> ProcSet]
    BY Numbers DEF IInv, StateTypes
<1>2. \A x : Honest(x, now, ran) => Honest(x, now, ran')
    BY <1>1, HonestKept
<1>3. \A x \in {Torn, NoFile} : Honest(x, now, ran')
    BY HistoryConstantsAssumption DEF Honest
<1>4. Honest(file', now, ran') /\ Honest(temp', now, ran')
    BY <1>2, <1>3 DEF CoverInv
<1>5. ASSUME NEW q \in Pids
      PROVE  Honest(proc'[q].status, now, ran') /\ WorksOnPlan(proc'[q], now, ran')
  <2>1. CASE q = p
      BY <1>1, <2>1
  <2>2. CASE q # p
    <3>1. proc'[q] = proc[q] /\ proc[q] \in ProcSet /\ proc[q].number <= Len(proc[q].tasks)
        BY <1>1, <2>2 DEF IInv, ProcessKnows
    <3>2. Honest(proc[q].status, now, ran) /\ WorksOnPlan(proc[q], now, ran)
        BY DEF CoverInv
    <3>3. WorksOnPlan(proc[q], now, ran')
      <4>1. ASSUME NEW x \in ProcSet, x.number <= Len(x.tasks), WorksOnPlan(x, now, ran)
            PROVE  WorksOnPlan(x, now, ran')
        <5>1. ASSUME NEW t \in Nat, NEW done, NEW more, WorksOnPlan(x, t, done),
                     \A key \in Range(BootstrapKeys) : done[key] \subseteq more[key]
              PROVE  WorksOnPlan(x, t, more)
          <6>1. t <= t
              BY <5>1
          <6> QED
              BY <4>1, <5>1, <6>1, WorkKept
        <5>2. now \in Nat
            BY <1>1
        <5> QED
            BY <4>1, <5>1, <5>2
      <4> QED
          BY <3>1, <3>2, <4>1
    <3> QED
        BY <1>2, <3>1, <3>2, <3>3
  <2> QED
      BY <2>1, <2>2
<1> QED
    BY <1>4, <1>5 DEF CoverInv

\* A step that leaves the tasks and their report alone, but for the state.
LEMMA SameWork ==
    ASSUME IInv, CoverInv, NEW p \in Alive, proc[p].pc # "plan", NEW r,
           proc' = [proc EXCEPT ![p] = r], r.pc # "plan",
           r.tasks = proc[p].tasks, r.number = proc[p].number,
           r.status \in Reports,
           r.status.mode = proc[p].status.mode, r.status.lo = proc[p].status.lo,
           r.status.hi = proc[p].status.hi, r.status.completed = proc[p].status.completed,
           r.status.state = "finished" => proc[p].status.state = "finished",
           UNCHANGED <<now, ran>>,
           file' \in {file, temp, proc[p].status, Torn, NoFile},
           temp' \in {file, temp, proc[p].status, Torn, NoFile}
    PROVE  CoverInv'
<1>1. p \in Pids /\ proc[p].status \in Reports
    BY AliveFacts
<1>2. Honest(proc[p].status, now, ran) /\ WorksOnPlan(proc[p], now, ran)
    BY <1>1 DEF CoverInv
<1>3. Honest(r.status, now, ran)
    BY <1>1, <1>2 DEF Honest
<1>4. WorksOnPlan(r, now, ran)
    BY <1>2 DEF WorksOnPlan
<1>5. Honest(r.status, now, ran') /\ WorksOnPlan(r, now, ran')
    BY <1>3, <1>4
<1> QED
    BY <1>1, <1>5, CoverUpdates

\* A process that ends says nothing more.
LEMMA EndsWork ==
    ASSUME IInv, CoverInv, NEW p \in Alive, Update(p, Ended(p)), UNCHANGED <<now, ran, file, temp>>
    PROVE  CoverInv'
<1>1. /\ p \in Pids /\ Ended(p).pc = "plan" /\ Ended(p).status = NoFile
      /\ proc' = [proc EXCEPT ![p] = Ended(p)]
    BY AliveFacts, EndedFacts DEF Update
<1> DEFINE r == Ended(p)
<1> HIDE DEF r
<1>2. Honest(r.status, now, ran') /\ WorksOnPlan(r, now, ran')
    BY <1>1, HistoryConstantsAssumption DEF Honest, WorksOnPlan, r
<1> QED
    BY <1>1, <1>2, CoverUpdates DEF r

LEMMA PlanTasksCovers ==
    ASSUME IInv, CoverInv, NEW p \in Pids, PlanTasks(p)
    PROVE  CoverInv'
<1>1. /\ p \in Alive /\ proc[p].pc = "plan" /\ UNCHANGED <<now, file, ran>>
    BY DEF PlanTasks
<1>2. StateTypes /\ ProcessKnows(proc[p], p)
    BY DEF IInv
<1>3. /\ proc[p] \in ProcSet /\ now \in Nat /\ now \in StartTime..EndTime
      /\ PlanTo(now) \in Seq(TaskSet)
      /\ IncrementalTasks(proc[p].names, rows, Window(0, now), now) \in Seq(TaskSet)
      /\ Range(BootstrapKeys) \subseteq Keys
      /\ Range(Selected(proc[p].names)) \subseteq Keys
    BY <1>1, <1>2, PlannedTypes DEF StateTypes
<1>4. CASE PlanBootstrap(p)
  <2> DEFINE tasks == PlanTo(now)
             s == Status(p, "bootstrap", Window(0, now), tasks, Range(BootstrapKeys))
             r == [proc[p] EXCEPT !.tasks = tasks, !.status = s, !.pc = "fill",
                                  !.after = "first", !.inode = "temp"]
  <2>1. proc' = [proc EXCEPT ![p] = r] /\ temp' = Torn
      BY <1>4 DEF PlanBootstrap, PlanTo, Write, Update
  <2>2. /\ s \in Reports /\ s.lo = 0 /\ s.hi = now /\ s.completed = 0 /\ s.state = "running"
      BY <1>3, NewStatus
  <2> HIDE DEF s
  <2>3. r.status = s /\ r.tasks = tasks /\ r.number = 0
      BY <1>1, <1>2, <1>3 DEF ProcSet, ProcessKnows
  <2> HIDE DEF r
  <2>4. Honest(s, now, ran)
    <3>1. \A u \in now..EndTime : \A i \in DOMAIN PlanTo(u) : ~ (i <= 0)
      <4> SUFFICES ASSUME NEW u \in now..EndTime, NEW i \in DOMAIN PlanTo(u)
                   PROVE  ~ (i <= 0)
          OBVIOUS
      <4>1. u \in Nat
          BY <1>3, Numbers
      <4> QED
          BY <4>1, PlanKeys
    <3> QED
        BY <1>3, <2>2, <3>1 DEF Honest
  <2>5. WorksOnPlan(r, now, ran)
    <3>1. now \in now..now /\ now \in 0..now
        BY <1>3
    <3> QED
        BY <2>2, <2>3, <3>1 DEF WorksOnPlan
  <2>6. Honest(r.status, now, ran') /\ WorksOnPlan(r, now, ran')
      BY <1>1, <2>3, <2>4, <2>5
  <2> QED
      BY <1>1, <2>1, <2>6, CoverUpdates
<1>5. CASE PlanIncremental(p)
  <2> DEFINE tasks == IncrementalTasks(proc[p].names, rows, Window(0, now), now)
             s == Status(p, "incremental", Window(0, now), tasks, Range(Selected(proc[p].names)))
             r == [proc[p] EXCEPT !.tasks = tasks, !.status = s, !.pc = "fill",
                                  !.after = "first", !.inode = "temp"]
  <2>1. proc' = [proc EXCEPT ![p] = r] /\ temp' = Torn
      BY <1>5 DEF PlanIncremental, Write, Update
  <2>2. s.mode = "incremental"
      BY <1>3, NewStatus
  <2> HIDE DEF s
  <2>3. r.status = s
      BY <1>3 DEF ProcSet
  <2> HIDE DEF r
  <2>4. Honest(r.status, now, ran') /\ WorksOnPlan(r, now, ran')
      BY <2>2, <2>3 DEF Honest, WorksOnPlan
  <2> QED
      BY <1>1, <2>1, <2>4, CoverUpdates
<1>6. CASE PlanResume(p)
  <2>1. CASE file \in {NoFile, Torn}
    <3>1. Update(p, Ended(p)) /\ UNCHANGED temp
        BY <1>6, <2>1 DEF PlanResume
    <3> QED
        BY <1>1, <3>1, EndsWork
  <2>2. CASE file \notin {NoFile, Torn}
    <3> DEFINE tasks == PlanTo(now)
               n == Resumed(file.completed, tasks)
               s == [file EXCEPT !.state = "running", !.pid = p]
               r == [proc[p] EXCEPT !.tasks = tasks, !.number = n, !.status = s, !.pc = "fill",
                                    !.after = "first", !.inode = "temp"]
    <3>1. proc' = [proc EXCEPT ![p] = r] /\ temp' = Torn
        BY <1>6, <2>2 DEF PlanResume, PlanTo, Write, Update
    <3>2. file \in Reports /\ file.completed \in Nat /\ Len(tasks) \in Nat
        BY <1>2, <1>3, <2>2, LenProperties DEF StateTypes, Reports
    <3>3. /\ s.state = "running" /\ s.mode = file.mode /\ s.lo = file.lo
          /\ s.hi = file.hi /\ s.completed = file.completed
        BY <3>2 DEF Reports
    <3>4. n \in Nat /\ n <= file.completed /\ n <= Len(tasks)
        BY <3>2 DEF Resumed
    <3> HIDE DEF s, n, tasks
    <3>5. r.status = s /\ r.tasks = tasks /\ r.number = n
        BY <1>3 DEF ProcSet
    <3> HIDE DEF r
    <3>6. Honest(file, now, ran)
        BY DEF CoverInv
    <3>7. Honest(s, now, ran)
        BY <3>2, <3>3, <3>6 DEF Honest
    <3>8. WorksOnPlan(r, now, ran)
      <4> SUFFICES ASSUME file.mode = "bootstrap"
                   PROVE  /\ file.hi \in 0..now
                          /\ \E u \in (file.hi)..now : tasks = PlanTo(u)
                          /\ \A i \in 1..n : Ran(tasks[i], file.hi, ran)
          BY <3>3, <3>5 DEF WorksOnPlan
      <4>1. file.hi \in 0..now
          BY <1>3, <3>2, <3>6 DEF Honest, Reports
      <4>2. now \in (file.hi)..now /\ tasks = PlanTo(now)
          BY <1>3, <4>1 DEF tasks
      <4>3. ASSUME NEW i \in 1..n
            PROVE  Ran(tasks[i], file.hi, ran)
        <5>1. tasks \in Seq(TaskSet)
            BY <1>3 DEF tasks
        <5>2. i \in DOMAIN tasks
            BY <3>2, <3>4, <5>1, LenProperties
        <5>3. now \in now..EndTime /\ i <= file.completed
            BY <1>3, <3>2, <3>4, Numbers
        <5> QED
            BY <3>2, <3>6, <4>2, <5>2, <5>3 DEF Honest
      <4> QED
          BY <4>1, <4>2, <4>3
    <3>9. Honest(r.status, now, ran') /\ WorksOnPlan(r, now, ran')
        BY <1>1, <3>5, <3>7, <3>8
    <3> QED
        BY <1>1, <3>1, <3>9, CoverUpdates
  <2> QED
      BY <2>1, <2>2
<1> QED
    BY <1>4, <1>5, <1>6 DEF PlanTasks

LEMMA FillCovers ==
    ASSUME IInv, CoverInv, NEW p \in Pids, Fill(p)
    PROVE  CoverInv'
<1> DEFINE r == [proc[p] EXCEPT !.pc = "replace", !.inode = "none"]
<1>1. /\ p \in Alive /\ proc[p].pc # "plan" /\ UNCHANGED <<now, ran>>
      /\ temp' \in {proc[p].status, temp} /\ file' \in {proc[p].status, file}
      /\ proc' = [proc EXCEPT ![p] = r]
    BY DEF Fill, Update
<1>2. proc[p] \in ProcSet /\ proc[p].status \in Reports
    BY <1>1, AliveFacts
<1>3. /\ r.pc = "replace" /\ r.tasks = proc[p].tasks /\ r.number = proc[p].number
      /\ r.status = proc[p].status
    BY <1>2 DEF ProcSet
<1> HIDE DEF r
<1> QED
    BY <1>1, <1>2, <1>3, SameWork

\* A report that only changes its state, and not to finished, says nothing new.
LEMMA WritesSame ==
    ASSUME IInv, CoverInv, NEW p \in Alive, proc[p].pc # "plan",
           NEW r \in ProcSet, NEW after, Write(p, r, after),
           r.tasks = proc[p].tasks, r.number = proc[p].number,
           r.status \in Reports,
           r.status.mode = proc[p].status.mode, r.status.lo = proc[p].status.lo,
           r.status.hi = proc[p].status.hi, r.status.completed = proc[p].status.completed,
           r.status.state = "finished" => proc[p].status.state = "finished",
           UNCHANGED <<now, ran, file>>
    PROVE  CoverInv'
<1> DEFINE m == [r EXCEPT !.pc = "fill", !.after = after, !.inode = "temp"]
<1>1. proc' = [proc EXCEPT ![p] = m] /\ temp' = Torn
    BY DEF Write, Update
<1>2. /\ m.pc = "fill" /\ m.tasks = r.tasks /\ m.number = r.number /\ m.status = r.status
    BY DEF ProcSet
<1> HIDE DEF m
<1> QED
    BY <1>1, <1>2, SameWork

LEMMA WriteFailedCovers ==
    ASSUME IInv, CoverInv, NEW p \in Alive, proc[p].pc # "plan", WriteFailed(p, proc[p]),
           UNCHANGED <<now, ran, file>>
    PROVE  CoverInv'
<1> DEFINE s == [proc[p].status EXCEPT !.state = "failed"]
           r == [proc[p] EXCEPT !.status = s]
<1>1. Write(p, r, "exit")
    BY DEF WriteFailed
<1>2. proc[p] \in ProcSet /\ proc[p].status \in Reports
    BY AliveFacts
<1>3. /\ s \in Reports /\ s.state = "failed" /\ s.mode = proc[p].status.mode
      /\ s.lo = proc[p].status.lo /\ s.hi = proc[p].status.hi
      /\ s.completed = proc[p].status.completed
    BY <1>2 DEF Reports
<1> HIDE DEF s
<1>4. r \in ProcSet /\ r.status = s /\ r.tasks = proc[p].tasks /\ r.number = proc[p].number
    BY <1>2, <1>3 DEF ProcSet
<1> HIDE DEF r
<1> QED
    BY <1>1, <1>3, <1>4, WritesSame

LEMMA StartTaskCovers ==
    ASSUME IInv, CoverInv, NEW p \in Pids, StartTask(p)
    PROVE  CoverInv'
<1>1. /\ p \in Alive /\ proc[p].pc # "plan" /\ UNCHANGED <<now, ran, file>>
      /\ Write(p, proc[p], "execute")
    BY DEF StartTask
<1>2. proc[p] \in ProcSet /\ proc[p].status \in Reports
    BY <1>1, AliveFacts
<1> QED
    BY <1>1, <1>2, WritesSame

LEMMA ReplaceFailsCovers ==
    ASSUME IInv, CoverInv, NEW p \in Pids, ReplaceFails(p)
    PROVE  CoverInv'
<1>1. p \in Alive /\ proc[p].pc # "plan" /\ UNCHANGED <<now, ran, file>>
    BY DEF ReplaceFails
<1>2. CASE Update(p, Ended(p)) /\ UNCHANGED temp
    BY <1>1, <1>2, EndsWork
<1>3. CASE WriteFailed(p, proc[p])
    BY <1>1, <1>3, WriteFailedCovers
<1> QED
    BY <1>2, <1>3 DEF ReplaceFails

LEMMA ReplaceCovers ==
    ASSUME IInv, CoverInv, NEW p \in Pids, Replace(p)
    PROVE  CoverInv'
<1>1. /\ p \in Alive /\ proc[p].pc = "replace"
      /\ file' = temp /\ temp' = NoFile /\ UNCHANGED <<now, ran>>
      /\ proc' = [q \in Pids |-> IF q = p THEN Replaced(p)
                                 ELSE [proc[q] EXCEPT !.inode = Moved(@)]]
    BY DEF Replace
<1>2. proc \in [Pids -> ProcSet]
    BY DEF IInv, StateTypes
<1>3. ASSUME NEW q \in Pids
      PROVE  Honest(proc'[q].status, now, ran) /\ WorksOnPlan(proc'[q], now, ran)
  <2>1. Honest(proc[q].status, now, ran) /\ WorksOnPlan(proc[q], now, ran)
      BY DEF CoverInv
  <2>2. CASE q = p
    <3> DEFINE r == Replaced(p)
    <3>1. proc'[q] = r
        BY <1>1, <2>2
    <3>2. CASE r.life = "alive"
      <4>1. r.status = proc[q].status /\ r.tasks = proc[q].tasks /\ r.number = proc[q].number
          BY <1>1, <2>2, <3>2, ReplacedFacts
      <4> HIDE DEF r
      <4> QED
          BY <1>1, <2>1, <2>2, <3>1, <4>1 DEF WorksOnPlan
    <3>3. CASE r.life # "alive"
      <4>1. r = Ended(p)
          BY <1>1, <3>3, ReplacedFacts
      <4>2. r.pc = "plan" /\ r.status = NoFile
          BY <1>2, <4>1, EndedFacts
      <4> HIDE DEF r
      <4> QED
          BY <3>1, <4>2, HistoryConstantsAssumption DEF Honest, WorksOnPlan
    <3> QED
        BY <3>2, <3>3
  <2>3. CASE q # p
    <3> DEFINE m == [proc[q] EXCEPT !.inode = Moved(@)]
    <3>1. proc'[q] = m
        BY <1>1, <2>3
    <3>2. m.status = proc[q].status /\ m.tasks = proc[q].tasks /\ m.number = proc[q].number
          /\ m.pc = proc[q].pc
        BY <1>2, MovedFacts
    <3> HIDE DEF m
    <3> QED
        BY <2>1, <3>1, <3>2 DEF WorksOnPlan
  <2> QED
      BY <2>2, <2>3
<1>4. Honest(file', now, ran) /\ Honest(temp', now, ran)
    BY <1>1, HistoryConstantsAssumption DEF CoverInv, Honest
<1> QED
    BY <1>1, <1>3, <1>4 DEF CoverInv

LEMMA RunCallCovers ==
    ASSUME IInv, CoverInv, NEW p \in Pids, RunCall(p)
    PROVE  CoverInv'
<1> DEFINE w == WithNextPart(proc[p], proc[p].parts)
           r == IF Len(proc[p].calls) > 1 THEN [proc[p] EXCEPT !.calls = Tail(@)] ELSE w
<1>1. /\ p \in Alive /\ proc[p].pc = "execute"
      /\ UNCHANGED <<now, ran, file, temp>>
      /\ proc' = [proc EXCEPT ![p] = r]
    BY DEF RunCall, Update
<1>2. proc[p] \in ProcSet /\ proc[p].status \in Reports /\ now \in Nat
    BY <1>1, AliveFacts
<1>3. proc[p].parts \in Seq(PartSet)
    BY <1>2 DEF ProcSet
<1>4. w = [proc[p] EXCEPT !.parts = w.parts, !.calls = w.calls]
    BY <1>2, <1>3, WithNextPartFacts
<1> HIDE DEF w
<1>5. /\ r.pc = "execute" /\ r.tasks = proc[p].tasks /\ r.number = proc[p].number
      /\ r.status = proc[p].status
  <2>1. CASE Len(proc[p].calls) > 1
      BY <1>1, <1>2, <2>1 DEF ProcSet
  <2>2. CASE ~ (Len(proc[p].calls) > 1)
    <3>1. r = w
        BY <2>2
    <3>2. /\ w.pc = "execute" /\ w.tasks = proc[p].tasks /\ w.number = proc[p].number
          /\ w.status = proc[p].status
        BY <1>1, <1>2, <1>4 DEF ProcSet
    <3> HIDE DEF r
    <3> QED
        BY <3>1, <3>2
  <2> QED
      BY <2>1, <2>2
<1> HIDE DEF r
<1> QED
    BY <1>1, <1>2, <1>5, SameWork

\* The task that is done is behind the process now, and a task at its place or
\* before it in any later plan ran as well (PlanGrows).
LEMMA FinishTaskCovers ==
    ASSUME IInv, CoverInv, NEW p \in Pids, FinishTask(p)
    PROVE  CoverInv'
<1> DEFINE c == Counted(proc[p])
           task == proc[p].tasks[proc[p].number + 1]
           n == proc[p].number + 1
           hi == proc[p].status.hi
<1>1. /\ p \in Alive /\ proc[p].pc = "execute" /\ UNCHANGED <<now, file>>
      /\ \/ Write(p, c, "loop")
         \/ WriteFailed(p, c)
      /\ ran' = IF proc[p].mode = "incremental" THEN ran
                ELSE [ran EXCEPT ![task.key] = @ \union task.lo..task.hi]
    BY DEF FinishTask
<1>2. /\ proc[p] \in ProcSet /\ ProcessKnows(proc[p], p) /\ proc[p].status \in Reports
      /\ now \in Nat /\ now \in StartTime..EndTime
      /\ proc[p].number \in Nat /\ Len(proc[p].tasks) \in Nat
      /\ ran \in [Range(BootstrapKeys) -> SUBSET Int]
    BY <1>1, AliveFacts
<1>3. n \in 1..Len(proc[p].tasks) /\ proc[p].tasks \in Seq(TaskSet)
    BY <1>1, <1>2 DEF ProcSet, ProcessKnows, AtTask
<1>4. \A key \in Range(BootstrapKeys) : ran[key] \subseteq ran'[key]
  <2> HIDE DEF task
  <2> QED
      BY <1>1, <1>2
<1>5. /\ c \in ProcSet /\ c.status \in Reports
      /\ c.number = n /\ c.tasks = proc[p].tasks
      /\ c.status.completed = n /\ c.status.state = "running"
      /\ c.status.mode = proc[p].status.mode /\ c.status.lo = proc[p].status.lo
      /\ c.status.hi = proc[p].status.hi
  <2>1. /\ c \in ProcSet /\ c.status \in Reports
        /\ c.number = n /\ c.tasks = proc[p].tasks
        /\ c.status.completed = c.number /\ c.status.state = "running"
      BY <1>1, CountedFacts
  <2> DEFINE s == [proc[p].status EXCEPT !.completed = n]
  <2>2. c = [proc[p] EXCEPT !.number = n, !.status = s]
      BY <1>2 DEF Counted, ProcSet
  <2>3. s.mode = proc[p].status.mode /\ s.lo = proc[p].status.lo /\ s.hi = proc[p].status.hi
      BY <1>2 DEF Reports
  <2> HIDE DEF s
  <2>4. c.status = s
      BY <1>2, <2>2 DEF ProcSet
  <2> QED
      BY <2>1, <2>3, <2>4
<1>6. ASSUME proc[p].status.mode = "bootstrap"
      PROVE  /\ proc[p].status.lo = 0 /\ hi \in 0..now
             /\ \E u \in hi..now : proc[p].tasks = PlanTo(u)
             /\ \A i \in 1..n : Ran(proc[p].tasks[i], hi, ran')
             /\ \A t \in now..EndTime : \A i \in DOMAIN PlanTo(t) :
                    i <= n => Ran(PlanTo(t)[i], hi, ran')
  <2>1. Honest(proc[p].status, now, ran) /\ WorksOnPlan(proc[p], now, ran)
      BY DEF CoverInv
  <2>2. proc[p].status.lo = 0 /\ hi \in 0..now
      BY <1>1, <1>2, <1>6, <2>1 DEF Honest, WorksOnPlan
  <2>3. PICK u \in hi..now : proc[p].tasks = PlanTo(u)
      BY <1>1, <1>6, <2>1 DEF WorksOnPlan
  <2>4. u \in Nat /\ u <= now /\ hi <= u
      BY <1>2, <2>2, <2>3
  <2>5. proc[p].mode # "incremental"
      BY <1>1, <1>2, <1>6 DEF ProcessKnows
  <2>6. task.key \in Range(BootstrapKeys)
      BY <1>3, <2>3, <2>4, LenProperties, PlanKeys
  <2>7. ran'[task.key] = ran[task.key] \union task.lo..task.hi
    <3> HIDE DEF task
    <3> QED
        BY <1>1, <1>2, <2>5, <2>6
  <2>8. ASSUME NEW i \in 1..n
        PROVE  Ran(proc[p].tasks[i], hi, ran')
    <3>1. CASE i = n
      <4>1. proc[p].tasks[i] = task /\ task \in TaskSet
          BY <1>3, <3>1, LenProperties
      <4> HIDE DEF task
      <4> QED
          BY <2>7, <4>1 DEF Ran, TaskSet
    <3>2. CASE i # n
      <4>1. i \in 1..proc[p].number /\ i \in 1..Len(proc[p].tasks)
          BY <1>2, <1>3, <3>2
      <4>2. Ran(proc[p].tasks[i], hi, ran)
          BY <1>1, <1>6, <2>1, <4>1 DEF WorksOnPlan
      <4>3. proc[p].tasks[i].key \in Range(BootstrapKeys)
          BY <1>3, <2>3, <2>4, <4>1, LenProperties, PlanKeys
      <4> QED
          BY <1>4, <4>2, <4>3 DEF Ran
    <3> QED
        BY <3>1, <3>2
  <2>9. ASSUME NEW t \in now..EndTime, NEW i \in DOMAIN PlanTo(t), i <= n, NEW x \in 0..hi,
               PlanTo(t)[i].lo <= x, x <= PlanTo(t)[i].hi
        PROVE  x \in ran'[PlanTo(t)[i].key]
    <3>1. t \in Nat /\ u <= t /\ x \in 0..u
        BY <1>2, <2>2, <2>4, Numbers
    <3>2. PICK j \in DOMAIN PlanTo(u) :
              /\ j <= i
              /\ PlanTo(u)[j].key = PlanTo(t)[i].key
              /\ PlanTo(u)[j].lo <= x /\ x <= PlanTo(u)[j].hi
        BY <2>4, <2>9, <3>1, PlanGrows
    <3>3. j \in 1..n
        BY <1>2, <2>4, <2>9, <3>1, <3>2, PlanKeys
    <3>4. Ran(PlanTo(u)[j], hi, ran')
        BY <2>3, <2>8, <3>3
    <3> QED
        BY <3>2, <3>4 DEF Ran
  <2>10. \A t \in now..EndTime : \A i \in DOMAIN PlanTo(t) : i <= n => Ran(PlanTo(t)[i], hi, ran')
      BY <2>9 DEF Ran
  <2> QED
      BY <2>2, <2>3, <2>8, <2>10
<1> HIDE DEF c, n, hi, task
<1>7. ASSUME NEW s, NEW r, proc' = [proc EXCEPT ![p] = r], temp' = Torn,
             r.status = s, r.tasks = proc[p].tasks, r.number = n,
             s.mode = proc[p].status.mode, s.lo = proc[p].status.lo, s.hi = hi,
             s.completed = n, s.state # "finished"
      PROVE  CoverInv'
  <2>1. Honest(s, now, ran')
      BY <1>2, <1>6, <1>7 DEF Honest
  <2>2. WorksOnPlan(r, now, ran')
      BY <1>6, <1>7 DEF WorksOnPlan
  <2> QED
      BY <1>1, <1>4, <1>7, <2>1, <2>2, CoverUpdates
<1>8. CASE Write(p, c, "loop")
  <2> DEFINE r == [c EXCEPT !.pc = "fill", !.after = "loop", !.inode = "temp"]
  <2>1. proc' = [proc EXCEPT ![p] = r] /\ temp' = Torn
      BY <1>8 DEF Write, Update
  <2>2. r.status = c.status /\ r.tasks = c.tasks /\ r.number = c.number
      BY <1>5 DEF ProcSet
  <2> HIDE DEF r
  <2> QED
      BY <1>5, <1>7, <2>1, <2>2 DEF hi
<1>9. CASE WriteFailed(p, c)
  <2> DEFINE s == [c.status EXCEPT !.state = "failed"]
             r == [c EXCEPT !.status = s, !.pc = "fill", !.after = "exit", !.inode = "temp"]
  <2>1. proc' = [proc EXCEPT ![p] = r] /\ temp' = Torn
      BY <1>9 DEF WriteFailed, Write, Update
  <2>2. /\ s.state = "failed" /\ s.mode = c.status.mode /\ s.lo = c.status.lo
        /\ s.hi = c.status.hi /\ s.completed = c.status.completed
      BY <1>5 DEF Reports
  <2> HIDE DEF s
  <2>3. r.status = s /\ r.tasks = c.tasks /\ r.number = c.number
      BY <1>5 DEF ProcSet
  <2> HIDE DEF r
  <2> QED
      BY <1>5, <1>7, <2>1, <2>2, <2>3 DEF hi
<1> QED
    BY <1>1, <1>8, <1>9

\* All the tasks of a plan ran, and they cover all of the window (PlanCovers).
LEMMA FinishCovers ==
    ASSUME IInv, CoverInv, NEW p \in Pids, Finish(p)
    PROVE  CoverInv'
<1> DEFINE s == [proc[p].status EXCEPT !.state = "finished"]
           r == [proc[p] EXCEPT !.status = s, !.pc = "fill", !.after = "exit", !.inode = "temp"]
           hi == proc[p].status.hi
<1>1. /\ p \in Alive /\ proc[p].pc = "loop" /\ proc[p].number = Len(proc[p].tasks)
      /\ UNCHANGED <<now, ran, file>> /\ temp' = Torn
      /\ proc' = [proc EXCEPT ![p] = r]
    BY DEF Finish, Write, Update
<1>2. /\ proc[p] \in ProcSet /\ proc[p].status \in Reports /\ now \in Nat
      /\ Len(proc[p].tasks) \in Nat
    BY <1>1, AliveFacts
<1>3. /\ s \in Reports /\ s.mode = proc[p].status.mode /\ s.lo = proc[p].status.lo
      /\ s.hi = hi /\ s.completed = proc[p].status.completed
    BY <1>2 DEF Reports
<1> HIDE DEF s
<1>4. r.status = s /\ r.tasks = proc[p].tasks /\ r.number = proc[p].number
    BY <1>2 DEF ProcSet
<1> HIDE DEF r
<1>5. Honest(proc[p].status, now, ran) /\ WorksOnPlan(proc[p], now, ran)
    BY DEF CoverInv
<1>6. ASSUME proc[p].status.mode = "bootstrap", NEW key \in Range(BootstrapKeys), NEW x \in 0..hi
      PROVE  x \in ran[key]
  <2>1. PICK u \in hi..now : proc[p].tasks = PlanTo(u)
      BY <1>1, <1>5, <1>6 DEF WorksOnPlan
  <2>2. hi \in 0..now
      BY <1>1, <1>5, <1>6 DEF WorksOnPlan
  <2>3. u \in Nat /\ x \in 0..u
      BY <1>2, <2>1, <2>2
  <2>4. PICK i \in DOMAIN PlanTo(u) :
            PlanTo(u)[i].key = key /\ PlanTo(u)[i].lo <= x /\ x <= PlanTo(u)[i].hi
      BY <2>3, PlanCovers
  <2>5. i \in 1..proc[p].number
      BY <1>1, <1>2, <2>1, <2>4, LenProperties DEF ProcSet
  <2>6. Ran(proc[p].tasks[i], hi, ran)
      BY <1>1, <1>5, <1>6, <2>5 DEF WorksOnPlan
  <2> QED
      BY <2>1, <2>4, <2>6 DEF Ran
<1>7. Honest(s, now, ran)
  <2> SUFFICES ASSUME proc[p].status.mode = "bootstrap"
               PROVE  /\ s.lo = 0 /\ s.hi <= now
                      /\ \A u \in now..EndTime : \A i \in DOMAIN PlanTo(u) :
                             i <= s.completed => Ran(PlanTo(u)[i], s.hi, ran)
                      /\ \A key \in Range(BootstrapKeys) : s.lo..s.hi \subseteq ran[key]
      BY <1>3 DEF Honest
  <2>1. /\ s.lo = 0 /\ s.hi <= now
        /\ \A u \in now..EndTime : \A i \in DOMAIN PlanTo(u) :
               i <= s.completed => Ran(PlanTo(u)[i], s.hi, ran)
      BY <1>2, <1>3, <1>5 DEF Honest
  <2> QED
      BY <1>3, <1>6, <2>1
<1>8. WorksOnPlan(r, now, ran)
    BY <1>1, <1>3, <1>4, <1>5 DEF WorksOnPlan
<1>9. Honest(r.status, now, ran') /\ WorksOnPlan(r, now, ran')
    BY <1>1, <1>4, <1>7, <1>8
<1>10. p \in Pids
    OBVIOUS
<1> QED
    BY <1>1, <1>9, <1>10, CoverUpdates

LEMMA LaunchCovers ==
    ASSUME IInv, CoverInv, NEW parent, NEW mode, NEW names, Launch(parent, mode, names),
           UNCHANGED <<now, ran, file, temp>>
    PROVE  CoverInv'
<1> DEFINE n == launches + 1
           r == [NoProcess EXCEPT !.life = "alive", !.parent = parent, !.mode = mode,
                                  !.names = names]
           old == IF parent = "api" THEN Reap(proc) ELSE proc
<1>1. proc' = [old EXCEPT ![n] = r]
    BY DEF Launch
<1>2. r.pc = "plan" /\ r.status = NoFile
    BY NoProcessFacts DEF ProcSet
<1>3. /\ old \in [Pids -> ProcSet]
      /\ \A q \in Pids : old[q] = proc[q] \/ old[q] = [proc[q] EXCEPT !.life = "gone"]
    BY ReapFacts DEF IInv, StateTypes
<1> HIDE DEF n, r, old
<1>4. ASSUME NEW q \in Pids
      PROVE  Honest(proc'[q].status, now, ran) /\ WorksOnPlan(proc'[q], now, ran)
  <2>1. CASE q = n
    <3>1. proc'[q] = r
        BY <1>1, <1>3, <2>1
    <3> QED
        BY <1>2, <3>1, HistoryConstantsAssumption DEF Honest, WorksOnPlan
  <2>2. CASE q # n
    <3>1. proc'[q] = old[q]
        BY <1>1, <1>3, <2>2
    <3>2. proc[q] \in ProcSet
        BY DEF IInv, StateTypes
    <3>3. /\ old[q].status = proc[q].status /\ old[q].tasks = proc[q].tasks
          /\ old[q].number = proc[q].number /\ old[q].pc = proc[q].pc
        BY <1>3, <3>2 DEF ProcSet
    <3>4. Honest(proc[q].status, now, ran) /\ WorksOnPlan(proc[q], now, ran)
        BY DEF CoverInv
    <3> QED
        BY <3>1, <3>3, <3>4 DEF WorksOnPlan
  <2> QED
      BY <2>1, <2>2
<1> QED
    BY <1>4 DEF CoverInv

LEMMA ApiRestartsCovers ==
    ASSUME IInv, CoverInv, ApiRestarts
    PROVE  CoverInv'
<1>1. /\ proc' = [p \in Pids |-> [Reap(proc)[p] EXCEPT !.parent = "shell"]]
      /\ UNCHANGED <<now, file, temp, ran>>
    BY DEF ApiRestarts
<1>2. ASSUME NEW q \in Pids
      PROVE  Honest(proc'[q].status, now, ran) /\ WorksOnPlan(proc'[q], now, ran)
  <2> DEFINE r == Reap(proc)[q]
             m == [r EXCEPT !.parent = "shell"]
  <2>1. /\ r = proc[q] \/ r = [proc[q] EXCEPT !.life = "gone"]
        /\ proc[q] \in ProcSet
      BY ReapFacts DEF IInv, StateTypes
  <2>2. r \in ProcSet
      BY ReapFacts
  <2>3. proc'[q] = m
      BY <1>1
  <2> HIDE DEF r
  <2>4. /\ r.status = proc[q].status /\ r.tasks = proc[q].tasks
        /\ r.number = proc[q].number /\ r.pc = proc[q].pc
      BY <2>1 DEF ProcSet
  <2>5. /\ m.status = r.status /\ m.tasks = r.tasks /\ m.number = r.number /\ m.pc = r.pc
      BY <2>2 DEF ProcSet
  <2>6. Honest(proc[q].status, now, ran) /\ WorksOnPlan(proc[q], now, ran)
      BY DEF CoverInv
  <2> HIDE DEF m
  <2> QED
      BY <2>3, <2>4, <2>5, <2>6 DEF WorksOnPlan
<1> QED
    BY <1>1, <1>2 DEF CoverInv

LEMMA TickCovers ==
    ASSUME IInv, CoverInv, Tick
    PROVE  CoverInv'
<1>1. now' = now + 1 /\ UNCHANGED <<proc, file, temp, ran>>
    BY DEF Tick
<1>2. now \in Nat /\ now + 1 \in Nat /\ proc \in [Pids -> ProcSet]
    BY Numbers DEF IInv, StateTypes
<1>3. \A x : Honest(x, now, ran) => Honest(x, now + 1, ran)
    BY <1>2, HonestKept
<1>4. ASSUME NEW x \in ProcSet, x.number <= Len(x.tasks), WorksOnPlan(x, now, ran)
      PROVE  WorksOnPlan(x, now + 1, ran)
    BY <1>2, <1>4, WorkKept
<1>5. \A p \in Pids : proc[p] \in ProcSet /\ proc[p].number <= Len(proc[p].tasks)
    BY <1>2 DEF IInv, ProcessKnows
<1> QED
    BY <1>1, <1>3, <1>4, <1>5 DEF CoverInv

LEMMA InitCovers ==
    ASSUME Init
    PROVE  CoverInv
<1>1. \A p \in Pids : proc[p] = NoProcess
    BY DEF Init
<1> QED
    BY <1>1, NoProcessFacts, HistoryConstantsAssumption DEF Init, CoverInv, Honest, WorksOnPlan

LEMMA NextCovers ==
    ASSUME IInv, CoverInv, [Next]_vars
    PROVE  CoverInv'
<1>1. ASSUME NEW c \in Clients, ApiChecks(c) \/ ApiStarts(c)
      PROVE  CoverInv'
  <2>1. CASE ApiChecks(c)
      BY <2>1 DEF ApiChecks, CoverInv
  <2>2. CASE ApiStarts(c)
    <3>1. PICK names \in api[c] : Launch("api", "incremental", names)
        BY <2>2 DEF ApiStarts
    <3>2. UNCHANGED <<now, ran, file, temp>>
        BY <2>2 DEF ApiStarts
    <3> QED
        BY <3>1, <3>2, LaunchCovers
  <2> QED
      BY <1>1, <2>1, <2>2
<1>2. CASE OperatorStarts
  <2>1. PICK mode \in {"bootstrap", "resume"} : Launch("shell", mode, {})
      BY <1>2 DEF OperatorStarts
  <2>2. UNCHANGED <<now, ran, file, temp>>
      BY <1>2 DEF OperatorStarts
  <2> QED
      BY <2>1, <2>2, LaunchCovers
<1>3. ASSUME NEW p \in Pids, Step(p) \/ Raises(p) \/ Killed(p)
      PROVE  CoverInv'
  <2>1. CASE PlanTasks(p)
      BY <2>1, PlanTasksCovers
  <2>2. CASE Fill(p)
      BY <2>2, FillCovers
  <2>3. CASE Replace(p)
      BY <2>3, ReplaceCovers
  <2>4. CASE ReplaceFails(p)
      BY <2>4, ReplaceFailsCovers
  <2>5. CASE StartTask(p)
      BY <2>5, StartTaskCovers
  <2>6. CASE RunCall(p)
      BY <2>6, RunCallCovers
  <2>7. CASE FinishTask(p)
      BY <2>7, FinishTaskCovers
  <2>8. CASE Finish(p)
      BY <2>8, FinishCovers
  <2>9. CASE Raises(p)
      BY <2>9, WriteFailedCovers DEF Raises
  <2>10. CASE Killed(p)
      BY <2>10, EndsWork DEF Killed
  <2> QED
      BY <1>3, <2>1, <2>2, <2>3, <2>4, <2>5, <2>6, <2>7, <2>8, <2>9, <2>10 DEF Step
<1>4. CASE ApiRestarts
    BY <1>4, ApiRestartsCovers
<1>5. CASE Tick
    BY <1>5, TickCovers
<1>6. CASE UNCHANGED vars
    BY <1>6 DEF vars, CoverInv
<1> QED
    BY <1>1, <1>2, <1>3, <1>4, <1>5, <1>6 DEF Next

\* A bootstrap that reports that it finished ran all of its window for every data
\* set, however often it failed and was resumed, though a resumed run skips tasks
\* of a newer plan by their number.
THEOREM FinishedRunsCover == Spec => []FinishedCoversWindow
<1>1. Init => CoverInv
    BY InitCovers
<1>2. IInv /\ CoverInv /\ [Next]_vars => CoverInv'
    BY NextCovers
<1>3. IInv /\ CoverInv => FinishedCoversWindow
    BY DEF IInv, StateTypes, CoverInv, Honest, FinishedCoversWindow
<1> QED
    BY <1>1, <1>2, <1>3, InvariantHolds, PTL DEF Spec

-----------------------------------------------------------------------------
(* Incremental runs *)

Covers(w, u) == w.lo <= u /\ u <= w.hi

\* A time is ahead of a process: a task after those behind it, or a call of the
\* task it executes, fetches it.
Ahead(r, d, u) ==
    \/ \E k \in DOMAIN r.tasks :
           /\ k > r.number /\ (r.pc = "execute" => k > r.number + 1)
           /\ r.tasks[k].key = d /\ Covers(r.tasks[k], u)
    \/ /\ r.pc = "execute"
       /\ \E i \in DOMAIN r.calls : d \in r.calls[i].sets /\ Covers(r.calls[i], u)

\* Whatever an incremental run owes is stored, or ahead of it.
Pursues(r, t, stored) ==
    (GoesOn(r) /\ r.mode = "incremental") =>
        /\ r.status.hi \in 0..t
        /\ \A d \in Range(Selected(r.names)) : \A u \in Available(d, t) :
               u <= r.status.hi /\ u % PlanningStep(d) = 0 => u \in stored[d] \/ Ahead(r, d, u)

RowsInv ==
    /\ \A d \in FundingDatasets : rows[d] \subseteq Venue[d]
    /\ \A p \in Pids : Pursues(proc[p], now, rows)

\* The venue's rows that a data set may still ask for.
LEMMA AvailableFacts ==
    ASSUME NEW d \in HistorySets, NEW t \in Nat, NEW u \in Available(d, t)
    PROVE  /\ u \in Venue[d] /\ u \in Nat /\ u <= t
           /\ d \in RetainedDatasets => u >= t - Retention
           /\ AvailableFrom(d, 0, t) <= u
           /\ \A s \in Nat : u <= s /\ s <= t => u \in Available(d, s)
<1>1. /\ u \in Venue[d] /\ u <= t /\ (d \in RetainedDatasets => u >= t - Retention)
    BY DEF Available
<1>2. u \in Nat
    BY <1>1, HistoryConstantsAssumption
<1>3. t - Retention \in Int /\ Retention \in Nat
    BY Numbers
<1>4. RetentionFloor(t) \in Int /\ RetentionFloor(t) <= t - Retention
    BY <1>3, Numbers, FloorToFacts DEF RetentionFloor
<1>5. AvailableFrom(d, 0, t) <= u
    BY <1>1, <1>2, <1>3, <1>4 DEF AvailableFrom
<1>6. \A s \in Nat : u <= s /\ s <= t => u \in Available(d, s)
    BY <1>1, <1>2, <1>3 DEF Available
<1> QED
    BY <1>1, <1>2, <1>5, <1>6

\* Funding is settled once per interval: a row that an interval has is the row at
\* its boundary, if there is one.  So a row that counts is stored.
LEMMA CountedIsStored ==
    ASSUME NEW d \in HistorySets, NEW stored, stored \subseteq Int,
           d \in FundingDatasets => stored \subseteq Venue[d],
           NEW u \in Venue[d], u \in Nat, u % PlanningStep(d) = 0, NEW w,
           u \in Buckets(d, stored, w)
    PROVE  u \in stored
<1>1. CASE d \in FundingDatasets
  <2>1. PICK s \in stored : u = FloorTo(s, FundingInterval)
      BY <1>1 DEF Buckets, Within
  <2>2. s \in Venue[d] /\ s \in Int /\ u \in Int /\ u % FundingInterval = 0
      BY <1>1 DEF PlanningStep
  <2>3. u = s - (s % FundingInterval)
      BY <2>1 DEF FloorTo
  <2>4. u - (u % FundingInterval) = s - (s % FundingInterval)
      BY <2>2, <2>3
  <2>5. u = s
      BY <1>1, <2>2, <2>4, FundingAssumption
  <2> QED
      BY <2>5
<1>2. CASE d \notin FundingDatasets
    BY <1>2 DEF Buckets, Within
<1> QED
    BY <1>1, <1>2

\* Whatever was owed stays owed to no one else as time goes and rows come in.
LEMMA PursuitKept ==
    ASSUME NEW r \in ProcSet, NEW t \in Nat, NEW u \in Nat, t <= u, NEW stored, NEW more,
           \A d \in HistorySets : stored[d] \subseteq more[d], Pursues(r, t, stored)
    PROVE  Pursues(r, u, more)
<1> SUFFICES ASSUME GoesOn(r), r.mode = "incremental"
             PROVE  /\ r.status.hi \in 0..u
                    /\ \A d \in Range(Selected(r.names)) : \A x \in Available(d, u) :
                           x <= r.status.hi /\ x % PlanningStep(d) = 0
                               => x \in more[d] \/ Ahead(r, d, x)
    BY DEF Pursues
<1>1. r.status.hi \in 0..t
    BY DEF Pursues
<1>2. ASSUME NEW d \in Range(Selected(r.names)), NEW x \in Available(d, u),
             x <= r.status.hi, x % PlanningStep(d) = 0
      PROVE  x \in more[d] \/ Ahead(r, d, x)
  <2>1. d \in HistorySets
      BY OrderedFacts, LenProperties DEF Selected, Range
  <2>2. x \in Available(d, t)
      BY <1>1, <1>2, <2>1, AvailableFacts
  <2> QED
      BY <1>2, <2>1, <2>2 DEF Pursues
<1> QED
    BY <1>1, <1>2

\* A step of one process that brings in rows, or none.
LEMMA PursuitUpdates ==
    ASSUME IInv, RowsInv, NEW p \in Pids, NEW r, proc' = [proc EXCEPT ![p] = r],
           now' = now, \A d \in HistorySets : rows[d] \subseteq rows'[d],
           \A d \in FundingDatasets : rows'[d] \subseteq Venue[d],
           Pursues(r, now, rows')
    PROVE  RowsInv'
<1>1. now \in Nat /\ proc \in [Pids -> ProcSet]
    BY Numbers DEF IInv, StateTypes
<1>2. ASSUME NEW x \in ProcSet, Pursues(x, now, rows)
      PROVE  Pursues(x, now, rows')
    BY <1>1, <1>2, PursuitKept
<1>3. ASSUME NEW q \in Pids
      PROVE  Pursues(proc'[q], now, rows')
  <2>1. CASE q = p
      BY <1>1, <2>1
  <2>2. CASE q # p
      BY <1>1, <1>2, <2>2 DEF RowsInv
  <2> QED
      BY <2>1, <2>2
<1> QED
    BY <1>3 DEF RowsInv

\* A process that does not go on, or writes between two steps of the same tasks.
LEMMA PursuitEnds ==
    ASSUME IInv, RowsInv, NEW p \in Pids, NEW r, proc' = [proc EXCEPT ![p] = r],
           UNCHANGED <<now, rows>>, ~ GoesOn(r) \/ r.mode # "incremental"
    PROVE  RowsInv'
<1>1. Pursues(r, now, rows')
    BY DEF Pursues
<1> QED
    BY <1>1, PursuitUpdates DEF RowsInv

LEMMA PursuitGoesOn ==
    ASSUME IInv, RowsInv, NEW p \in Pids, NEW r, proc' = [proc EXCEPT ![p] = r],
           UNCHANGED <<now, rows>>, GoesOn(proc[p]),
           r.mode = proc[p].mode, r.names = proc[p].names, r.status.hi = proc[p].status.hi,
           \A d \in Range(Selected(proc[p].names)), u \in Int :
               Ahead(proc[p], d, u) => Ahead(r, d, u)
    PROVE  RowsInv'
<1>1. Pursues(proc[p], now, rows) /\ now \in Nat
    BY Numbers DEF RowsInv, IInv, StateTypes
<1>2. Pursues(r, now, rows)
  <2> SUFFICES ASSUME r.mode = "incremental",
                      NEW d \in Range(Selected(r.names)), NEW u \in Available(d, now),
                      u <= r.status.hi, u % PlanningStep(d) = 0
               PROVE  u \in rows[d] \/ Ahead(r, d, u)
      BY <1>1 DEF Pursues
  <2>1. d \in HistorySets
      BY OrderedFacts, LenProperties DEF Selected, Range
  <2>2. u \in Int
      BY <1>1, <2>1, AvailableFacts
  <2>3. u \in rows[d] \/ Ahead(proc[p], d, u)
      BY <1>1 DEF Pursues
  <2> QED
      BY <2>2, <2>3
<1>3. Pursues(r, now, rows')
    BY <1>2
<1> QED
    BY <1>3, PursuitUpdates DEF RowsInv

\* build_incremental_tasks plans a task for all that is owed and not stored.
LEMMA PlanTasksPursues ==
    ASSUME IInv, RowsInv, NEW p \in Pids, PlanTasks(p)
    PROVE  RowsInv'
<1>1. /\ p \in Alive /\ proc[p].pc = "plan" /\ UNCHANGED <<now, rows>>
    BY DEF PlanTasks
<1>2. /\ proc[p] \in ProcSet /\ now \in Nat /\ now \in StartTime..EndTime
      /\ Range(Selected(proc[p].names)) \subseteq Keys
      /\ IncrementalTasks(proc[p].names, rows, Window(0, now), now) \in Seq(TaskSet)
      /\ proc[p].number = 0
    BY <1>1, PlannedTypes DEF IInv, StateTypes, ProcessKnows
<1>3. CASE proc[p].mode # "incremental"
  <2>1. ASSUME Update(p, Ended(p))
        PROVE  RowsInv'
    <3>1. Ended(p).pc = "plan" /\ proc' = [proc EXCEPT ![p] = Ended(p)]
        BY <2>1, EndedFacts DEF Update, IInv, StateTypes
    <3>2. ~ GoesOn(Ended(p))
        BY <3>1 DEF GoesOn
    <3> QED
        BY <1>1, <3>1, <3>2, PursuitEnds
  <2>2. ASSUME NEW tasks, NEW number, NEW status,
               Write(p, [proc[p] EXCEPT !.tasks = tasks, !.number = number, !.status = status], "first")
        PROVE  RowsInv'
    <3> DEFINE m == [proc[p] EXCEPT !.tasks = tasks, !.number = number, !.status = status,
                                    !.pc = "fill", !.after = "first", !.inode = "temp"]
    <3>1. proc' = [proc EXCEPT ![p] = m]
        BY <2>2 DEF Write, Update
    <3>2. m.mode # "incremental"
        BY <1>2, <1>3 DEF ProcSet
    <3> HIDE DEF m
    <3> QED
        BY <1>1, <3>1, <3>2, PursuitEnds
  <2>3. CASE PlanBootstrap(p)
    <3> DEFINE tasks == PlanTo(now)
               s == Status(p, "bootstrap", Window(0, now), tasks, Range(BootstrapKeys))
               m == [proc[p] EXCEPT !.tasks = tasks, !.status = s,
                                    !.pc = "fill", !.after = "first", !.inode = "temp"]
    <3>1. proc' = [proc EXCEPT ![p] = m]
        BY <2>3 DEF PlanBootstrap, PlanTo, Write, Update
    <3> HIDE DEF s, tasks
    <3>2. m.mode # "incremental"
        BY <1>2, <1>3 DEF ProcSet
    <3> HIDE DEF m
    <3> QED
        BY <1>1, <3>1, <3>2, PursuitEnds
  <2>4. CASE PlanResume(p)
    <3>1. CASE file \in {NoFile, Torn}
        BY <2>4, <3>1, <2>1 DEF PlanResume
    <3>2. CASE file \notin {NoFile, Torn}
      <4> DEFINE tasks == BootstrapTasks(Window(0, now))
                 n == Resumed(file.completed, tasks)
                 s == [file EXCEPT !.state = "running", !.pid = p]
      <4>1. Write(p, [proc[p] EXCEPT !.tasks = tasks, !.number = n, !.status = s], "first")
          BY <2>4, <3>2 DEF PlanResume
      <4> HIDE DEF tasks, n, s
      <4> QED
          BY <4>1, <2>2
    <3> QED
        BY <3>1, <3>2
  <2> QED
      BY <1>3, <2>3, <2>4 DEF PlanTasks, PlanIncremental
<1>4. CASE proc[p].mode = "incremental"
  <2> DEFINE tasks == IncrementalTasks(proc[p].names, rows, Window(0, now), now)
             s == Status(p, "incremental", Window(0, now), tasks, Range(Selected(proc[p].names)))
             r == [proc[p] EXCEPT !.tasks = tasks, !.status = s, !.pc = "fill",
                                  !.after = "first", !.inode = "temp"]
  <2>1. proc' = [proc EXCEPT ![p] = r]
      BY <1>4 DEF PlanTasks, PlanBootstrap, PlanResume, PlanIncremental, Write, Update
  <2>2. s.hi = now
      BY <1>2, NewStatus
  <2>3. ASSUME NEW d \in Range(Selected(proc[p].names)), NEW u \in Available(d, now),
               u % PlanningStep(d) = 0, u \notin rows[d]
        PROVE  HasTask(tasks, d, u)
    <3>1. d \in HistorySets
        BY OrderedFacts, LenProperties DEF Selected, Range
    <3>2. u \in Venue[d] /\ u \in Nat /\ u <= now /\ AvailableFrom(d, 0, now) <= u
        BY <1>2, <3>1, AvailableFacts
    <3>3. rows[d] \subseteq Int /\ rows \in [HistorySets -> SUBSET Int]
        BY <3>1, Numbers DEF IInv, StateTypes
    <3>4. d \in FundingDatasets => rows[d] \subseteq Venue[d]
        BY DEF RowsInv
    <3>5. \A w : u \notin Buckets(d, rows[d], w)
      <4> DEFINE stored == rows[d]
      <4>1. stored \subseteq Int /\ (d \in FundingDatasets => stored \subseteq Venue[d])
          BY <3>3, <3>4
      <4> HIDE DEF stored
      <4>2. \A w : u \in Buckets(d, stored, w) => u \in stored
          BY <2>3, <3>1, <3>2, <4>1, CountedIsStored
      <4> QED
          BY <2>3, <4>2 DEF stored
    <3> DEFINE names == proc[p].names
               t == now
    <3>6. t \in Int /\ rows \in [HistorySets -> SUBSET Int] /\ d \in Range(Selected(names))
          /\ u \in Int /\ AvailableFrom(d, 0, t) <= u /\ u <= t
        BY <1>2, <3>2, <3>3
    <3>7. tasks = IncrementalTasks(names, rows, Window(0, t), t)
        OBVIOUS
    <3> HIDE DEF tasks, names, t
    <3> QED
        BY <2>3, <3>5, <3>6, <3>7, IncrementalTasksCover
  <2> HIDE DEF s, tasks
  <2>4. /\ r.status = s /\ r.tasks = tasks /\ r.number = 0 /\ r.pc = "fill"
        /\ r.names = proc[p].names
      BY <1>2 DEF ProcSet
  <2> HIDE DEF r
  <2>5. Pursues(r, now, rows)
    <3>1. s.hi \in 0..now
        BY <1>2, <2>2
    <3>2. ASSUME NEW d \in Range(Selected(r.names)), NEW u \in Available(d, now),
                 u % PlanningStep(d) = 0, u \notin rows[d]
          PROVE  Ahead(r, d, u)
      <4>1. PICK k \in DOMAIN tasks : tasks[k].key = d /\ tasks[k].lo <= u /\ u <= tasks[k].hi
          BY <2>3, <2>4, <3>2 DEF HasTask
      <4>2. k > 0
          BY <1>2, <4>1, LenProperties DEF tasks
      <4> QED
          BY <2>4, <4>1, <4>2 DEF Ahead, Covers
    <3> QED
        BY <2>4, <3>1, <3>2 DEF Pursues
  <2>6. Pursues(r, now, rows')
      BY <1>1, <2>5
  <2> QED
      BY <1>1, <2>1, <2>6, PursuitUpdates DEF RowsInv
<1> QED
    BY <1>3, <1>4

LEMMA FillPursues ==
    ASSUME IInv, RowsInv, NEW p \in Pids, Fill(p)
    PROVE  RowsInv'
<1> DEFINE r == [proc[p] EXCEPT !.pc = "replace", !.inode = "none"]
<1>1. /\ p \in Alive /\ proc[p].pc = "fill" /\ UNCHANGED <<now, rows>>
      /\ proc' = [proc EXCEPT ![p] = r]
    BY DEF Fill, Update
<1>2. proc[p] \in ProcSet
    BY <1>1, AliveFacts
<1>3. /\ r.pc = "replace" /\ r.after = proc[p].after /\ r.mode = proc[p].mode
      /\ r.names = proc[p].names /\ r.status = proc[p].status
      /\ r.tasks = proc[p].tasks /\ r.number = proc[p].number
    BY <1>2 DEF ProcSet
<1> HIDE DEF r
<1>4. \A d, u : Ahead(proc[p], d, u) => Ahead(r, d, u)
    BY <1>1, <1>3 DEF Ahead
<1>5. GoesOn(r) => GoesOn(proc[p])
    BY <1>1, <1>3 DEF GoesOn
<1> QED
    BY <1>1, <1>3, <1>4, <1>5, PursuitEnds, PursuitGoesOn

LEMMA StartTaskPursues ==
    ASSUME IInv, RowsInv, NEW p \in Pids, StartTask(p)
    PROVE  RowsInv'
<1> DEFINE r == [proc[p] EXCEPT !.pc = "fill", !.after = "execute", !.inode = "temp"]
<1>1. /\ p \in Alive /\ proc[p].pc = "loop" /\ UNCHANGED <<now, rows>>
      /\ proc' = [proc EXCEPT ![p] = r]
    BY DEF StartTask, Write, Update
<1>2. proc[p] \in ProcSet
    BY <1>1, AliveFacts
<1>3. /\ r.pc = "fill" /\ r.mode = proc[p].mode
      /\ r.names = proc[p].names /\ r.status = proc[p].status
      /\ r.tasks = proc[p].tasks /\ r.number = proc[p].number
    BY <1>2 DEF ProcSet
<1> HIDE DEF r
<1>4. \A d, u : Ahead(proc[p], d, u) => Ahead(r, d, u)
    BY <1>1, <1>3 DEF Ahead
<1>5. GoesOn(proc[p])
    BY <1>1 DEF GoesOn
<1> QED
    BY <1>1, <1>3, <1>4, <1>5, PursuitGoesOn

\* A report of an end ends what a process pursues.
LEMMA LastWritePursues ==
    ASSUME IInv, RowsInv, NEW p \in Pids, NEW r \in ProcSet, Write(p, r, "exit"),
           UNCHANGED <<now, rows>>
    PROVE  RowsInv'
<1> DEFINE m == [r EXCEPT !.pc = "fill", !.after = "exit", !.inode = "temp"]
<1>1. proc' = [proc EXCEPT ![p] = m]
    BY DEF Write, Update
<1>2. m.pc = "fill" /\ m.after = "exit"
    BY DEF ProcSet
<1> HIDE DEF m
<1>3. ~ GoesOn(m)
    BY <1>2 DEF GoesOn
<1> QED
    BY <1>1, <1>3, PursuitEnds

LEMMA EndsPursues ==
    ASSUME IInv, RowsInv, NEW p \in Pids, Update(p, Ended(p)), UNCHANGED <<now, rows>>
    PROVE  RowsInv'
<1>1. Ended(p).pc = "plan" /\ proc' = [proc EXCEPT ![p] = Ended(p)]
    BY EndedFacts DEF Update, IInv, StateTypes
<1>2. ~ GoesOn(Ended(p))
    BY <1>1 DEF GoesOn
<1> QED
    BY <1>1, <1>2, PursuitEnds

LEMMA WriteFailedPursues ==
    ASSUME IInv, RowsInv, NEW p \in Alive, proc[p].pc # "plan", WriteFailed(p, proc[p]),
           UNCHANGED <<now, rows>>
    PROVE  RowsInv'
<1> DEFINE r == [proc[p] EXCEPT !.status.state = "failed"]
<1>1. Write(p, r, "exit")
    BY DEF WriteFailed
<1>2. r \in ProcSet /\ p \in Pids
    BY FailureFacts, AliveFacts
<1> HIDE DEF r
<1> QED
    BY <1>1, <1>2, LastWritePursues

LEMMA ReplaceFailsPursues ==
    ASSUME IInv, RowsInv, NEW p \in Pids, ReplaceFails(p)
    PROVE  RowsInv'
<1>1. p \in Alive /\ proc[p].pc # "plan" /\ UNCHANGED <<now, rows>>
    BY DEF ReplaceFails
<1>2. CASE Update(p, Ended(p))
    BY <1>1, <1>2, EndsPursues
<1>3. CASE WriteFailed(p, proc[p])
    BY <1>1, <1>3, WriteFailedPursues
<1> QED
    BY <1>2, <1>3 DEF ReplaceFails

LEMMA FinishPursues ==
    ASSUME IInv, RowsInv, NEW p \in Pids, Finish(p)
    PROVE  RowsInv'
<1> DEFINE s == [proc[p].status EXCEPT !.state = "finished"]
           r == [proc[p] EXCEPT !.status = s]
<1>1. p \in Alive /\ proc[p].pc # "plan" /\ UNCHANGED <<now, rows>> /\ Write(p, r, "exit")
    BY DEF Finish
<1>2. proc[p] \in ProcSet /\ proc[p].status \in Reports
    BY <1>1, AliveFacts
<1>3. s \in Reports
    BY <1>2 DEF Reports
<1> HIDE DEF s
<1>4. r \in ProcSet
    BY <1>2, <1>3 DEF ProcSet
<1> HIDE DEF r
<1> QED
    BY <1>1, <1>4, LastWritePursues

\* A task has no calls left: what it owed is stored, the rest is after it.
LEMMA FinishTaskPursues ==
    ASSUME IInv, RowsInv, NEW p \in Pids, FinishTask(p)
    PROVE  RowsInv'
<1> DEFINE c == Counted(proc[p])
<1>1. /\ p \in Alive /\ proc[p].pc = "execute" /\ proc[p].calls = <<>>
      /\ UNCHANGED <<now, rows>>
      /\ Write(p, c, "loop") \/ WriteFailed(p, c)
    BY DEF FinishTask
<1>2. /\ proc[p] \in ProcSet /\ proc[p].status \in Reports
      /\ proc[p].number \in Nat /\ Len(proc[p].tasks) \in Nat
    BY <1>1, AliveFacts
<1>3. /\ c \in ProcSet /\ c.status \in Reports /\ c.number = proc[p].number + 1
      /\ c.tasks = proc[p].tasks /\ c.mode = proc[p].mode
    BY <1>1, CountedFacts
<1>4. c.names = proc[p].names /\ c.status.hi = proc[p].status.hi
  <2> DEFINE n == proc[p].number + 1
             s == [proc[p].status EXCEPT !.completed = n]
  <2>1. c = [proc[p] EXCEPT !.number = n, !.status = s]
      BY <1>2 DEF Counted, ProcSet
  <2>2. s.hi = proc[p].status.hi
      BY <1>2 DEF Reports
  <2> HIDE DEF s, c
  <2>3. c.status = s /\ c.names = proc[p].names
      BY <1>2, <2>1 DEF ProcSet
  <2> QED
      BY <2>2, <2>3
<1> HIDE DEF c
<1>5. CASE Write(p, c, "loop")
  <2> DEFINE r == [c EXCEPT !.pc = "fill", !.after = "loop", !.inode = "temp"]
  <2>1. proc' = [proc EXCEPT ![p] = r]
      BY <1>5 DEF Write, Update
  <2>2. /\ r.pc = "fill" /\ r.mode = proc[p].mode
        /\ r.names = proc[p].names /\ r.status.hi = proc[p].status.hi
        /\ r.tasks = proc[p].tasks /\ r.number = proc[p].number + 1
      BY <1>3, <1>4 DEF ProcSet
  <2> HIDE DEF r
  <2>3. ASSUME NEW d, NEW u, Ahead(proc[p], d, u)
        PROVE  Ahead(r, d, u)
    <3>1. DOMAIN proc[p].calls = {}
        BY <1>1
    <3>2. PICK k \in DOMAIN proc[p].tasks : /\ k > proc[p].number + 1
                                            /\ proc[p].tasks[k].key = d
                                            /\ Covers(proc[p].tasks[k], u)
        BY <1>1, <2>3, <3>1 DEF Ahead
    <3> QED
        BY <2>2, <3>2 DEF Ahead
  <2>4. GoesOn(proc[p])
      BY <1>1 DEF GoesOn
  <2> QED
      BY <1>1, <2>1, <2>2, <2>3, <2>4, PursuitGoesOn
<1>6. CASE WriteFailed(p, c)
  <2> DEFINE s == [c.status EXCEPT !.state = "failed"]
             r == [c EXCEPT !.status = s]
  <2>1. Write(p, r, "exit")
      BY <1>6 DEF WriteFailed
  <2>2. s \in Reports
      BY <1>3 DEF Reports
  <2> HIDE DEF s
  <2>3. r \in ProcSet
      BY <1>3, <2>2 DEF ProcSet
  <2> HIDE DEF r
  <2> QED
      BY <1>1, <2>1, <2>3, LastWritePursues
<1> QED
    BY <1>1, <1>5, <1>6

LEMMA SinglePart ==
    ASSUME NEW record \in ProcSet, NEW a \in PartSet, now \in Nat
    PROVE  WithNextPart(record, <<a>>).calls = CallsOf(a, now)
<1> DEFINE parts == <<a>>
           i == NextPart(parts, now)
           rest == SubSeq(parts, i + 1, Len(parts))
           calls == CallsOf(parts[i], now)
<1>1. parts \in Seq(PartSet) /\ parts # <<>> /\ Len(parts) = 1 /\ parts[1] = a
    OBVIOUS
<1>2. i \in 1..Len(parts)
  <2> HIDE DEF parts
  <2> QED
      BY <1>1, NextPartFacts
<1>3. i = 1
    BY <1>1, <1>2
<1>4. WithNextPart(record, parts) = [record EXCEPT !.parts = rest, !.calls = calls]
    BY <1>1 DEF WithNextPart
<1> HIDE DEF rest, calls, i, parts
<1>5. WithNextPart(record, parts).calls = calls
    BY <1>4 DEF ProcSet
<1>6. calls = CallsOf(a, now)
    BY <1>1, <1>3 DEF calls
<1> QED
    BY <1>5, <1>6 DEF parts

\* What the task owed is in its calls now.
LEMMA ReplacedPursues ==
    ASSUME IInv, RowsInv, NEW p \in Alive, proc[p].pc = "replace"
    PROVE  Pursues(Replaced(p), now, rows)
<1> DEFINE r == Replaced(p)
           task == proc[p].tasks[proc[p].number + 1]
           a == PartsOf(task)
<1>1. /\ p \in Pids /\ proc[p] \in ProcSet /\ ProcessKnows(proc[p], p) /\ now \in Nat
      /\ proc \in [Pids -> ProcSet]
      /\ proc[p].number \in Nat /\ Len(proc[p].tasks) \in Nat
    BY AliveFacts
<1>2. CASE r.life # "alive"
  <2>1. r.pc = "plan"
      BY <1>1, <1>2, ReplacedFacts, EndedFacts
  <2> HIDE DEF r
  <2>2. Pursues(r, now, rows)
      BY <2>1 DEF Pursues, GoesOn
  <2> QED
      BY <2>2 DEF r
<1>3. CASE r.life = "alive"
  <2>1. /\ r.pc \in {"loop", "execute"} /\ proc[p].after # "exit"
        /\ r.mode = proc[p].mode /\ r.names = proc[p].names /\ r.status = proc[p].status
        /\ r.tasks = proc[p].tasks /\ r.number = proc[p].number
      BY <1>3, ReplacedFacts
  <2>2. GoesOn(proc[p]) /\ Pursues(proc[p], now, rows)
      BY <1>1, <2>1 DEF GoesOn, RowsInv
  <2>3. r.pc = "execute" => proc[p].after = "execute"
    <3>1. CASE proc[p].after \notin {"exit", "execute"}
      <4>1. r = [proc[p] EXCEPT !.pc = "loop"]
          BY <3>1 DEF Replaced
      <4> HIDE DEF r
      <4> QED
          BY <1>1, <4>1 DEF ProcSet
    <3> QED
        BY <2>1, <3>1
  <2>4. ASSUME r.mode = "incremental", NEW d \in Range(Selected(r.names)),
               NEW u \in Available(d, now), u <= r.status.hi, u % PlanningStep(d) = 0,
               u \notin rows[d]
        PROVE  Ahead(r, d, u)
    <3>1. d \in HistorySets
        BY OrderedFacts, LenProperties DEF Selected, Range
    <3>2. Ahead(proc[p], d, u)
        BY <2>1, <2>2, <2>4 DEF Pursues
    <3>3. PICK k \in DOMAIN proc[p].tasks : /\ k > proc[p].number
                                            /\ proc[p].tasks[k].key = d
                                            /\ Covers(proc[p].tasks[k], u)
        BY <3>2 DEF Ahead
    <3>4. k \in Nat
        BY <1>1, <3>3, LenProperties DEF ProcSet
    <3>5. CASE k > proc[p].number + 1 \/ r.pc # "execute"
      <4> HIDE DEF r
      <4> QED
          BY <2>1, <3>3, <3>5 DEF Ahead
    <3>6. CASE k = proc[p].number + 1 /\ r.pc = "execute"
      <4>1. task \in TaskSet /\ task.key = d /\ Covers(task, u)
          BY <1>1, <3>3, <3>6, LenProperties DEF ProcSet
      <4> DEFINE b == [proc[p] EXCEPT !.pc = "execute"]
      <4>2. r = WithNextPart(b, a)
          BY <2>3, <3>6 DEF Replaced
      <4>3. b \in ProcSet
          BY <1>1 DEF ProcSet, Places
      <4> HIDE DEF task
      <4>4. PICK hi \in Int : task.hi <= hi /\ a = <<Part({d}, task.lo, hi)>>
          BY <3>1, <4>1, PartFacts
      <4> DEFINE one == Part({d}, task.lo, hi)
      <4>5. one \in PartSet /\ one.sets = {d} /\ one.lo = task.lo /\ one.hi = hi
          BY <3>1, <4>1, <4>4 DEF Part, PartSet, TaskSet
      <4> HIDE DEF b, a, one
      <4>6. r.calls = CallsOf(one, now)
        <5>1. r = WithNextPart(b, <<one>>)
            BY <4>2, <4>4 DEF one
        <5>2. WithNextPart(b, <<one>>).calls = CallsOf(one, now)
            BY <1>1, <4>3, <4>5, SinglePart
        <5> HIDE DEF r
        <5> QED
            BY <5>1, <5>2
      <4>7. /\ u \in Int /\ one.lo <= u /\ u <= one.hi
            /\ one.sets \subseteq RetainedDatasets => u >= now - Retention
        <5>1. u \in Nat /\ (d \in RetainedDatasets => u >= now - Retention)
            BY <1>1, <3>1, <2>4, AvailableFacts
        <5>2. task.lo <= u /\ u <= task.hi /\ task.hi \in Int
            BY <4>1 DEF Covers, TaskSet
        <5> QED
            BY <4>4, <4>5, <5>1, <5>2
      <4>8. PICK i \in DOMAIN CallsOf(one, now) :
                /\ CallsOf(one, now)[i].sets = one.sets
                /\ CallsOf(one, now)[i].lo <= u /\ u <= CallsOf(one, now)[i].hi
          BY <1>1, <4>5, <4>7, CallFacts
      <4> HIDE DEF r
      <4> QED
          BY <3>6, <4>5, <4>6, <4>8 DEF Ahead, Covers
    <3> QED
        BY <1>1, <3>3, <3>4, <3>5, <3>6
  <2> HIDE DEF r
  <2>5. Pursues(r, now, rows)
    <3> SUFFICES ASSUME r.mode = "incremental"
                 PROVE  /\ r.status.hi \in 0..now
                        /\ \A d \in Range(Selected(r.names)) : \A u \in Available(d, now) :
                               u <= r.status.hi /\ u % PlanningStep(d) = 0
                                   => u \in rows[d] \/ Ahead(r, d, u)
        BY DEF Pursues
    <3>1. r.status.hi \in 0..now
        BY <2>1, <2>2 DEF Pursues
    <3> QED
        BY <3>1, <2>4
  <2> QED
      BY <2>5 DEF r
<1> QED
    BY <1>2, <1>3

LEMMA ReplacePursues ==
    ASSUME IInv, RowsInv, NEW p \in Pids, Replace(p)
    PROVE  RowsInv'
<1>1. /\ p \in Alive /\ proc[p].pc = "replace" /\ UNCHANGED <<now, rows>>
      /\ proc' = [q \in Pids |-> IF q = p THEN Replaced(p)
                                 ELSE [proc[q] EXCEPT !.inode = Moved(@)]]
    BY DEF Replace
<1>2. ASSUME NEW q \in Pids
      PROVE  Pursues(proc'[q], now, rows)
  <2>1. CASE q = p
    <3>1. proc'[q] = Replaced(p) /\ Pursues(Replaced(p), now, rows)
        BY <1>1, <2>1, ReplacedPursues
    <3> QED
        BY <3>1
  <2>2. CASE q # p
    <3> DEFINE m == [proc[q] EXCEPT !.inode = Moved(@)]
    <3>1. proc'[q] = m
        BY <1>1, <2>2
    <3>2. proc[q] \in ProcSet /\ Pursues(proc[q], now, rows)
        BY DEF RowsInv, IInv, StateTypes
    <3>3. /\ m.status = proc[q].status /\ m.tasks = proc[q].tasks /\ m.number = proc[q].number
          /\ m.pc = proc[q].pc /\ m.after = proc[q].after /\ m.mode = proc[q].mode
          /\ m.names = proc[q].names /\ m.calls = proc[q].calls
        BY <3>2, MovedFacts
    <3> HIDE DEF m
    <3>4. Pursues(m, now, rows)
        BY <3>2, <3>3 DEF Pursues, GoesOn, Ahead
    <3> QED
        BY <3>1, <3>4
  <2> QED
      BY <2>1, <2>2
<1> QED
    BY <1>1, <1>2 DEF RowsInv

\* A call stores what it asks for and the venue has.
LEMMA RunCallPursues ==
    ASSUME IInv, RowsInv, NEW p \in Pids, RunCall(p)
    PROVE  RowsInv'
<1> DEFINE call == Head(proc[p].calls)
           w == WithNextPart(proc[p], proc[p].parts)
           rest == Tail(proc[p].calls)
           r == IF Len(proc[p].calls) > 1 THEN [proc[p] EXCEPT !.calls = rest] ELSE w
<1>1. /\ p \in Alive /\ proc[p].pc = "execute" /\ proc[p].calls # <<>>
      /\ now' = now
      /\ rows' = [d \in HistorySets |->
                     IF d \in call.sets
                     THEN rows[d] \union Within(Available(d, now), Window(call.lo, call.hi))
                     ELSE rows[d]]
      /\ proc' = [proc EXCEPT ![p] = r]
    BY DEF RunCall, Update
<1>2. proc[p] \in ProcSet /\ now \in Nat /\ proc[p].status \in Reports
    BY <1>1, AliveFacts
<1>3. proc[p].parts \in Seq(PartSet) /\ proc[p].calls \in Seq(PartSet)
    BY <1>2 DEF ProcSet
<1>4. w = [proc[p] EXCEPT !.parts = w.parts, !.calls = w.calls]
    BY <1>2, <1>3, WithNextPartFacts
<1> HIDE DEF w
<1>5. /\ \A d \in HistorySets : rows[d] \subseteq rows'[d]
      /\ \A d \in FundingDatasets : rows'[d] \subseteq Venue[d]
  <2>1. \A d \in HistorySets : rows[d] \subseteq rows'[d]
      BY <1>1
  <2>2. \A d \in FundingDatasets : rows'[d] \subseteq Venue[d]
    <3>1. \A d \in FundingDatasets : d \in HistorySets /\ rows[d] \subseteq Venue[d]
        BY KindsOfDatasets DEF RowsInv
    <3> QED
        BY <1>1, <3>1 DEF Available, Within
  <2> QED
      BY <2>1, <2>2
<1>6. /\ r.pc = "execute" /\ r.mode = proc[p].mode /\ r.names = proc[p].names
      /\ r.status = proc[p].status /\ r.tasks = proc[p].tasks /\ r.number = proc[p].number
      /\ Len(proc[p].calls) > 1 => r.calls = rest
  <2> HIDE DEF rest
  <2>1. CASE Len(proc[p].calls) > 1
      BY <1>1, <1>2, <2>1 DEF ProcSet
  <2>2. CASE ~ (Len(proc[p].calls) > 1)
    <3>1. r = w
        BY <2>2
    <3>2. /\ w.pc = "execute" /\ w.mode = proc[p].mode /\ w.names = proc[p].names
          /\ w.status = proc[p].status /\ w.tasks = proc[p].tasks /\ w.number = proc[p].number
        BY <1>1, <1>2, <1>4 DEF ProcSet
    <3> HIDE DEF r
    <3> QED
        BY <2>2, <3>1, <3>2
  <2> QED
      BY <2>1, <2>2
<1>7. /\ Len(proc[p].calls) \in Nat \ {0} /\ DOMAIN proc[p].calls = 1..Len(proc[p].calls)
      /\ call = proc[p].calls[1]
      /\ DOMAIN rest = 1..(Len(proc[p].calls) - 1)
      /\ \A i \in 1..(Len(proc[p].calls) - 1) : rest[i] = proc[p].calls[i + 1]
  <2> DEFINE calls == proc[p].calls
  <2>1. calls \in Seq(PartSet) /\ calls # <<>>
      BY <1>1, <1>3
  <2> HIDE DEF calls
  <2>2. /\ Len(calls) \in Nat \ {0} /\ DOMAIN calls = 1..Len(calls) /\ Head(calls) = calls[1]
        /\ Tail(calls) \in Seq(PartSet) /\ Len(Tail(calls)) = Len(calls) - 1
        /\ \A i \in 1..(Len(calls) - 1) : Tail(calls)[i] = calls[i + 1]
      BY <2>1, HeadTailProperties, LenProperties, EmptySeq
  <2>3. DOMAIN Tail(calls) = 1..(Len(calls) - 1)
      BY <2>2, LenProperties
  <2> QED
      BY <2>2, <2>3 DEF calls
<1>8. Pursues(proc[p], now, rows)
    BY DEF RowsInv
<1>9. ASSUME r.mode = "incremental", NEW d \in Range(Selected(r.names)),
             NEW u \in Available(d, now), u <= r.status.hi, u % PlanningStep(d) = 0
      PROVE  u \in rows'[d] \/ Ahead(r, d, u)
  <2> HIDE DEF r, rest, call
  <2>1. d \in HistorySets
      BY OrderedFacts, LenProperties DEF Selected, Range
  <2>2. u \in rows[d] \/ Ahead(proc[p], d, u)
      BY <1>1, <1>6, <1>8, <1>9 DEF Pursues, GoesOn
  <2>3. CASE u \in rows[d]
      BY <1>5, <2>1, <2>3
  <2>4. CASE \E k \in DOMAIN proc[p].tasks :
                 /\ k > proc[p].number /\ k > proc[p].number + 1
                 /\ proc[p].tasks[k].key = d /\ Covers(proc[p].tasks[k], u)
      BY <1>6, <2>4 DEF Ahead
  <2>5. ASSUME NEW i \in DOMAIN proc[p].calls, d \in proc[p].calls[i].sets,
               Covers(proc[p].calls[i], u)
        PROVE  u \in rows'[d] \/ Ahead(r, d, u)
    <3>1. CASE i = 1
      <4>1. d \in call.sets /\ call.lo <= u /\ u <= call.hi
          BY <1>7, <2>5, <3>1 DEF Covers
      <4> QED
          BY <1>1, <1>9, <2>1, <4>1 DEF Within, Window
    <3>2. CASE i # 1
      <4>1. /\ i - 1 \in 1..(Len(proc[p].calls) - 1) /\ Len(proc[p].calls) > 1
            /\ (i - 1) + 1 = i
          BY <1>7, <3>2
      <4>2. i - 1 \in DOMAIN r.calls /\ r.calls[i - 1] = proc[p].calls[i]
          BY <1>6, <1>7, <4>1
      <4> QED
          BY <1>6, <2>5, <4>2 DEF Ahead
    <3> QED
        BY <3>1, <3>2
  <2> QED
      BY <1>1, <2>2, <2>3, <2>4, <2>5 DEF Ahead
<1> HIDE DEF r
<1>10. Pursues(r, now, rows')
    BY <1>1, <1>6, <1>8, <1>9 DEF Pursues, GoesOn
<1>11. p \in Pids
    OBVIOUS
<1> QED
    BY <1>1, <1>5, <1>10, <1>11, PursuitUpdates

LEMMA LaunchPursues ==
    ASSUME IInv, RowsInv, NEW parent, NEW mode, NEW names, Launch(parent, mode, names),
           UNCHANGED <<now, rows>>
    PROVE  RowsInv'
<1> DEFINE n == launches + 1
           r == [NoProcess EXCEPT !.life = "alive", !.parent = parent, !.mode = mode,
                                  !.names = names]
           old == IF parent = "api" THEN Reap(proc) ELSE proc
<1>1. proc' = [old EXCEPT ![n] = r]
    BY DEF Launch
<1>2. r.pc = "plan"
    BY NoProcessFacts DEF ProcSet
<1>3. /\ old \in [Pids -> ProcSet]
      /\ \A q \in Pids : old[q] = proc[q] \/ old[q] = [proc[q] EXCEPT !.life = "gone"]
    BY ReapFacts DEF IInv, StateTypes
<1> HIDE DEF n, r, old
<1>4. ASSUME NEW q \in Pids
      PROVE  Pursues(proc'[q], now, rows)
  <2>1. CASE q = n
    <3>1. proc'[q] = r
        BY <1>1, <1>3, <2>1
    <3> QED
        BY <1>2, <3>1 DEF Pursues, GoesOn
  <2>2. CASE q # n
    <3>1. proc'[q] = old[q]
        BY <1>1, <1>3, <2>2
    <3>2. proc[q] \in ProcSet /\ Pursues(proc[q], now, rows)
        BY DEF IInv, StateTypes, RowsInv
    <3>3. /\ old[q].status = proc[q].status /\ old[q].tasks = proc[q].tasks
          /\ old[q].number = proc[q].number /\ old[q].pc = proc[q].pc
          /\ old[q].after = proc[q].after /\ old[q].mode = proc[q].mode
          /\ old[q].names = proc[q].names /\ old[q].calls = proc[q].calls
        BY <1>3, <3>2 DEF ProcSet
    <3> QED
        BY <3>1, <3>2, <3>3 DEF Pursues, GoesOn, Ahead
  <2> QED
      BY <2>1, <2>2
<1> QED
    BY <1>4 DEF RowsInv

LEMMA ApiRestartsPursues ==
    ASSUME IInv, RowsInv, ApiRestarts
    PROVE  RowsInv'
<1>1. /\ proc' = [p \in Pids |-> [Reap(proc)[p] EXCEPT !.parent = "shell"]]
      /\ UNCHANGED <<now, rows>>
    BY DEF ApiRestarts
<1>2. ASSUME NEW q \in Pids
      PROVE  Pursues(proc'[q], now, rows)
  <2> DEFINE r == Reap(proc)[q]
             m == [r EXCEPT !.parent = "shell"]
  <2>1. /\ r = proc[q] \/ r = [proc[q] EXCEPT !.life = "gone"]
        /\ proc[q] \in ProcSet
      BY ReapFacts DEF IInv, StateTypes
  <2>2. r \in ProcSet
      BY ReapFacts
  <2>3. proc'[q] = m
      BY <1>1
  <2> HIDE DEF r
  <2>4. /\ r.status = proc[q].status /\ r.tasks = proc[q].tasks
        /\ r.number = proc[q].number /\ r.pc = proc[q].pc
        /\ r.after = proc[q].after /\ r.mode = proc[q].mode
        /\ r.names = proc[q].names /\ r.calls = proc[q].calls
      BY <2>1 DEF ProcSet
  <2>5. /\ m.status = r.status /\ m.tasks = r.tasks /\ m.number = r.number /\ m.pc = r.pc
        /\ m.after = r.after /\ m.mode = r.mode /\ m.names = r.names /\ m.calls = r.calls
      BY <2>2 DEF ProcSet
  <2>6. Pursues(proc[q], now, rows)
      BY DEF RowsInv
  <2> HIDE DEF m
  <2> QED
      BY <2>3, <2>4, <2>5, <2>6 DEF Pursues, GoesOn, Ahead
<1> QED
    BY <1>1, <1>2 DEF RowsInv

LEMMA TickPursues ==
    ASSUME IInv, RowsInv, Tick
    PROVE  RowsInv'
<1>1. now' = now + 1 /\ UNCHANGED <<rows, proc>>
    BY DEF Tick
<1>2. now \in Nat /\ now + 1 \in Nat /\ proc \in [Pids -> ProcSet]
    BY Numbers DEF IInv, StateTypes
<1>3. ASSUME NEW x \in ProcSet, Pursues(x, now, rows)
      PROVE  Pursues(x, now + 1, rows)
    BY <1>2, <1>3, PursuitKept
<1> QED
    BY <1>1, <1>2, <1>3 DEF RowsInv

LEMMA InitPursues ==
    ASSUME Init
    PROVE  RowsInv
<1>1. \A p \in Pids : Pursues(proc[p], now, rows)
    BY NoProcessFacts DEF Init, Pursues, GoesOn
<1>2. \A d \in FundingDatasets : rows[d] \subseteq Venue[d]
    BY FundingAssumption DEF Init
<1> QED
    BY <1>1, <1>2 DEF RowsInv

LEMMA NextPursues ==
    ASSUME IInv, RowsInv, [Next]_vars
    PROVE  RowsInv'
<1>1. ASSUME NEW c \in Clients, ApiChecks(c) \/ ApiStarts(c)
      PROVE  RowsInv'
  <2>1. CASE ApiChecks(c)
      BY <2>1 DEF ApiChecks, RowsInv
  <2>2. CASE ApiStarts(c)
    <3>1. PICK names \in api[c] : Launch("api", "incremental", names)
        BY <2>2 DEF ApiStarts
    <3>2. UNCHANGED <<now, rows>>
        BY <2>2 DEF ApiStarts
    <3> QED
        BY <3>1, <3>2, LaunchPursues
  <2> QED
      BY <1>1, <2>1, <2>2
<1>2. CASE OperatorStarts
  <2>1. PICK mode \in {"bootstrap", "resume"} : Launch("shell", mode, {})
      BY <1>2 DEF OperatorStarts
  <2>2. UNCHANGED <<now, rows>>
      BY <1>2 DEF OperatorStarts
  <2> QED
      BY <2>1, <2>2, LaunchPursues
<1>3. ASSUME NEW p \in Pids, Step(p) \/ Raises(p) \/ Killed(p)
      PROVE  RowsInv'
  <2>1. CASE PlanTasks(p)
      BY <2>1, PlanTasksPursues
  <2>2. CASE Fill(p)
      BY <2>2, FillPursues
  <2>3. CASE Replace(p)
      BY <2>3, ReplacePursues
  <2>4. CASE ReplaceFails(p)
      BY <2>4, ReplaceFailsPursues
  <2>5. CASE StartTask(p)
      BY <2>5, StartTaskPursues
  <2>6. CASE RunCall(p)
      BY <2>6, RunCallPursues
  <2>7. CASE FinishTask(p)
      BY <2>7, FinishTaskPursues
  <2>8. CASE Finish(p)
      BY <2>8, FinishPursues
  <2>9. CASE Raises(p)
      BY <2>9, WriteFailedPursues DEF Raises
  <2>10. CASE Killed(p)
      BY <2>10, EndsPursues DEF Killed
  <2> QED
      BY <1>3, <2>1, <2>2, <2>3, <2>4, <2>5, <2>6, <2>7, <2>8, <2>9, <2>10 DEF Step
<1>4. CASE ApiRestarts
    BY <1>4, ApiRestartsPursues
<1>5. CASE Tick
    BY <1>5, TickPursues
<1>6. CASE UNCHANGED vars
    BY <1>6 DEF vars, RowsInv
<1> QED
    BY <1>1, <1>2, <1>3, <1>4, <1>5, <1>6 DEF Next

\* When an incremental run finishes, nothing is ahead of it, so that all it owes
\* is stored.
LEMMA FinishedOwesNothing ==
    ASSUME IInv, RowsInv, NEW p \in Pids, Finish(p), proc[p].mode = "incremental",
           NEW d \in Range(Selected(proc[p].names))
    PROVE  RowsOwed(d, Window(proc[p].status.lo, proc[p].status.hi)) \subseteq rows[d]
<1> DEFINE hi == proc[p].status.hi
<1>1. /\ p \in Alive /\ proc[p].pc = "loop" /\ proc[p].number = Len(proc[p].tasks)
    BY DEF Finish
<1>2. proc[p] \in ProcSet /\ proc[p].status \in Reports /\ Len(proc[p].tasks) \in Nat /\ now \in Nat
    BY <1>1, AliveFacts
<1>3. Pursues(proc[p], now, rows) /\ GoesOn(proc[p])
    BY <1>1 DEF RowsInv, GoesOn
<1>4. d \in HistorySets
    BY OrderedFacts, LenProperties DEF Selected, Range
<1>5. hi \in Int /\ PlanningStep(d) \in Nat \ {0}
    BY <1>2, PlanningStepType DEF Reports
<1>6. FloorTo(hi, PlanningStep(d)) <= hi /\ FloorTo(hi, PlanningStep(d)) \in Int
  <2> DEFINE step == PlanningStep(d)
  <2> HIDE DEF step, hi
  <2>1. FloorTo(hi, step) <= hi /\ FloorTo(hi, step) \in Int
      BY <1>5, FloorToFacts DEF step
  <2> QED
      BY <2>1 DEF step
<1>7. ASSUME NEW u \in RowsOwed(d, Window(proc[p].status.lo, hi))
      PROVE  u \in rows[d]
  <2>1. /\ u \in Available(d, now) /\ u <= FloorTo(hi, PlanningStep(d))
        /\ u % PlanningStep(d) = 0
      BY <1>7 DEF RowsOwed, Window
  <2>2. u \in Nat
      BY <1>2, <1>4, <2>1, AvailableFacts
  <2>3. u <= hi
      BY <1>5, <1>6, <2>1, <2>2
  <2>4. u \in rows[d] \/ Ahead(proc[p], d, u)
      BY <1>3, <2>1, <2>3 DEF Pursues
  <2>5. ~ Ahead(proc[p], d, u)
      BY <1>1, <1>2, LenProperties DEF Ahead, ProcSet
  <2> QED
      BY <2>4, <2>5
<1> QED
    BY <1>7

\* When an incremental run reports that it finished, its data sets have every row
\* that the venue still has in the window, gridded and up to its last boundary,
\* whatever rows others store and however time passes while it runs.
THEOREM FinishedLeavesNoHoles == Spec => IncrementalLeavesNoHoles
<1>1. Init => RowsInv
    BY InitPursues
<1>2. IInv /\ RowsInv /\ [Next]_vars => RowsInv'
    BY NextPursues
<1> DEFINE NothingOwed == \A p \in Pids : Finish(p) /\ proc[p].mode = "incremental" =>
                        \A d \in Range(Selected(proc[p].names)) :
                            RowsOwed(d, Window(proc[p].status.lo, proc[p].status.hi))
                                \subseteq rows[d]
<1>3. IInv /\ RowsInv /\ [Next]_vars => [NothingOwed]_vars
    BY FinishedOwesNothing
<1> HIDE DEF NothingOwed
<1>4. [][NothingOwed]_vars <=> IncrementalLeavesNoHoles
    BY PTL DEF IncrementalLeavesNoHoles, NothingOwed
<1> QED
    BY <1>1, <1>2, <1>3, <1>4, InvariantHolds, PTL DEF Spec
=============================================================================
