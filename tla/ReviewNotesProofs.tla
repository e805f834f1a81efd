--------------------------- MODULE ReviewNotesProofs ---------------------------
(***************************************************************************)
(* Proofs about comparisons and notes, for any runs, traces and requests,  *)
(* any number of clients, notes and anchors.                               *)
(***************************************************************************)
EXTENDS ReviewNotes, SharedLemmas

-----------------------------------------------------------------------------
(* Comparing *)

\* dict.fromkeys keeps each id, once.
LEMMA DedupedFacts ==
    ASSUME NEW S, NEW ids \in Seq(S)
    PROVE  /\ Deduped(ids) \in Seq(S)
           /\ IsInjective(Deduped(ids))
           /\ Range(Deduped(ids)) = Range(ids)
           /\ Range(ids) \subseteq S
           /\ \A i \in DOMAIN Deduped(ids) : Deduped(ids)[i] \in Range(ids)
<1> DEFINE n == Len(ids)
           First(i) == \A j \in 1..(i - 1) : ids[j] # ids[i]
           kept == {i \in DOMAIN ids : First(i)}
           m == Cardinality(kept)
           order == Sorted(kept)
           d == [k \in 1..m |-> ids[order[k]]]
<1>1. n \in Nat /\ DOMAIN ids = 1..n /\ \A i \in 1..n : ids[i] \in S
    BY LenProperties, ElementOfSeq
<1>2. Deduped(ids) = [k \in 1..m |-> ids[CHOOSE i \in kept : Cardinality({j \in kept : j < i}) = k - 1]]
    BY DEF Deduped
<1>3. order = [k \in 1..m |-> CHOOSE i \in kept : Cardinality({j \in kept : j < i}) = k - 1]
    BY DEF Sorted
<1>4. Deduped(ids) = d
  <2> DEFINE at(k) == CHOOSE i \in kept : Cardinality({j \in kept : j < i}) = k - 1
  <2>1. \A k \in 1..m : order[k] = at(k)
      BY <1>3
  <2>2. Deduped(ids) = [k \in 1..m |-> ids[at(k)]]
      BY <1>2
  <2> HIDE DEF at, kept, m, order
  <2>3. [k \in 1..m |-> ids[at(k)]] = [k \in 1..m |-> ids[order[k]]]
      BY <2>1
  <2> QED
      BY <2>2, <2>3
<1>5. kept \subseteq 1..n /\ \A i \in kept : First(i)
    BY <1>1
<1>6. kept \subseteq Int /\ IsFiniteSet(kept)
  <2> DEFINE grid == 1..n
  <2>1. IsFiniteSet(grid) /\ grid \subseteq Int
      BY <1>1, FS_Interval
  <2>2. kept \subseteq grid
      BY <1>5
  <2> HIDE DEF grid, kept
  <2> QED
      BY <2>1, <2>2, FS_Subset
<1>7. /\ order \in Seq(kept) /\ Len(order) = m /\ DOMAIN order = 1..m /\ m \in Nat
      /\ \A i \in kept : \E k \in 1..m : order[k] = i
      /\ \A h, k \in 1..m : h < k => order[h] < order[k]
  <2> HIDE DEF kept
  <2>1. m \in Nat
      BY <1>6, FS_CardinalityType
  <2> QED
      BY <1>6, <2>1, SortedFacts
<1> HIDE DEF kept, order, m
<1>8. \A k \in 1..m : order[k] \in kept
    BY <1>7, ElementOfSeq
<1>9. \A k \in 1..m : order[k] \in 1..n /\ d[k] = ids[order[k]] /\ d[k] \in S
    BY <1>1, <1>5, <1>8
<1>10. d \in Seq(S) /\ Len(d) = m /\ DOMAIN d = 1..m
  <2>1. d \in [1..m -> S]
      BY <1>9
  <2> HIDE DEF d
  <2> QED
      BY <2>1, <1>7, SequenceOfFunction
<1>11. ASSUME NEW h \in 1..m, NEW k \in 1..m, h < k
       PROVE  d[h] # d[k]
  <2> DEFINE a == order[h]
             b == order[k]
  <2>1. a \in 1..n /\ b \in 1..n /\ a < b /\ First(b)
      BY <1>5, <1>7, <1>8, <1>11
  <2>2. d[h] = ids[a] /\ d[k] = ids[b]
      BY <1>9
  <2> HIDE DEF a, b, d
  <2>3. a \in 1..(b - 1)
      BY <2>1
  <2> QED
      BY <2>1, <2>2, <2>3
<1>12. ASSUME NEW i \in 1..n
       PROVE  \E k \in 1..m : d[k] = ids[i]
  <2> DEFINE same == {j \in 1..n : ids[j] = ids[i]}
  <2>1. same \subseteq Nat /\ same # {}
      BY <1>1
  <2> HIDE DEF same
  <2>2. PICK j \in same : \A h \in same : j <= h
      BY <2>1, LeastNatural
  <2>3. j \in 1..n /\ ids[j] = ids[i]
      BY <2>2 DEF same
  <2>4. First(j)
    <3>1. SUFFICES ASSUME NEW h \in 1..(j - 1), ids[h] = ids[j]
                   PROVE  FALSE
        OBVIOUS
    <3>2. h \in 1..n /\ h < j
        BY <2>3, <1>1
    <3>3. h \in same
        BY <3>1, <3>2, <2>3 DEF same
    <3>4. j \in Int /\ h \in Int /\ j <= h
        BY <2>2, <2>3, <3>2, <3>3
    <3> QED
        BY <3>2, <3>4
  <2>5. j \in kept
      BY <1>1, <2>3, <2>4 DEF kept
  <2>6. PICK k \in 1..m : order[k] = j
      BY <1>7, <2>5
  <2> QED
      BY <1>9, <2>3, <2>6
<1> HIDE DEF d
<1>13. IsInjective(d)
  <2>1. ASSUME NEW h \in 1..m, NEW k \in 1..m, d[h] = d[k]
        PROVE  h = k
      BY <1>7, <1>11, <2>1
  <2> QED
      BY <1>10, <2>1 DEF IsInjective
<1>14. Range(d) = Range(ids)
  <2>1. \A k \in 1..m : \E i \in 1..n : d[k] = ids[i]
      BY <1>9
  <2>2. Range(d) = {d[k] : k \in 1..m}
      BY <1>10 DEF Range
  <2>3. Range(ids) = {ids[i] : i \in 1..n}
      BY <1>1 DEF Range
  <2> HIDE DEF n
  <2>4. ASSUME NEW x
        PROVE  x \in Range(d) <=> x \in Range(ids)
      BY <1>12, <2>1, <2>2, <2>3, Zenon
  <2> QED
      BY <2>4
<1>15. Range(ids) \subseteq S
    BY <1>1 DEF Range
<1>16. \A i \in DOMAIN d : d[i] \in Range(ids)
    BY <1>14 DEF Range
<1> QED
    BY <1>4, <1>10, <1>13, <1>14, <1>15, <1>16

\* A set has more than one element if two of them differ.
LEMMA MoreThanOne ==
    ASSUME NEW V, IsFiniteSet(V), V # {}
    PROVE  Cardinality(V) > 1 <=> \E x, y \in V : x # y
<1>1. PICK x \in V : TRUE
    OBVIOUS
<1>2. ASSUME ~ (Cardinality(V) > 1)
      PROVE  \A y, z \in V : y = z
  <2>1. V = {x}
      BY <1>2, LastOne
  <2> QED
      BY <2>1
<1>3. ASSUME NEW y \in V, NEW z \in V, y # z
      PROVE  Cardinality(V) > 1
  <2> DEFINE R == V \ {y}
  <2>1. IsFiniteSet(R) /\ Cardinality(R) = Cardinality(V) - 1 /\ z \in R
      BY <1>3, FS_RemoveElement
  <2> HIDE DEF R
  <2>2. Cardinality(R) \in Nat /\ Cardinality(V) \in Nat
      BY <2>1, FS_CardinalityType
  <2>3. Cardinality(R) # 0
      BY <2>1, FS_EmptySet
  <2> QED
      BY <2>1, <2>2, <2>3
<1> DEFINE many == Cardinality(V) > 1
<1>4. (\E y, z \in V : y # z) => many
    BY <1>3
<1>5. many => \E y, z \in V : y # z
  <2>1. SUFFICES ASSUME ~ \E y, z \in V : y # z
                 PROVE  ~ many
      OBVIOUS
  <2>2. V = {x}
      BY <2>1
  <2> HIDE DEF many
  <2> QED
      BY <2>2, FS_Singleton DEF many
<1> HIDE DEF many
<1> QED
    BY <1>4, <1>5 DEF many

\* The values that a run's fields take, over the runs of a comparison, differ
\* exactly in the fields of Diffs.
LEMMA DiffsFacts ==
    ASSUME NEW values, \A r, q \in RunIds : DOMAIN values[r] = DOMAIN values[q],
           NEW ids \in Seq(RunIds), ids # <<>>
    PROVE  \A r \in Range(ids) : \A f :
               f \in Diffs(values, ids) <=>
                   /\ f \in DOMAIN values[r]
                   /\ \E p, q \in Range(ids) : values[p][f] # values[q][f]
<1> DEFINE n == Len(ids)
<1>1. n \in Nat /\ DOMAIN ids = 1..n /\ 1 \in 1..n /\ \A i \in 1..n : ids[i] \in RunIds
  <2>1. n \in Nat /\ DOMAIN ids = 1..n /\ n # 0
      BY LenProperties, EmptySeq
  <2> QED
      BY <2>1, ElementOfSeq
<1> HIDE DEF n
<1>2. SUFFICES ASSUME NEW r \in Range(ids), NEW f
               PROVE  f \in Diffs(values, ids) <=>
                          /\ f \in DOMAIN values[r]
                          /\ \E p, q \in Range(ids) : values[p][f] # values[q][f]
    OBVIOUS
<1> DEFINE V == {values[ids[i]][f] : i \in DOMAIN ids}
           g == [i \in 1..n |-> values[ids[i]][f]]
<1>3. IsFiniteSet(V) /\ V # {}
  <2>1. V # {}
      BY <1>1
  <2>2. g \in Surjection(1..n, V)
    <3>1. g \in [1..n -> V] /\ \A x \in V : \E i \in 1..n : g[i] = x
        BY <1>1
    <3> QED
        BY <3>1 DEF Surjection
  <2>3. IsFiniteSet(1..n)
      BY <1>1, FS_Interval
  <2> QED
      BY <2>1, <2>2, <2>3, FS_Surjection
<1>4. DOMAIN values[r] = DOMAIN values[ids[1]]
  <2>1. r \in RunIds
      BY <1>1 DEF Range
  <2> QED
      BY <1>1, <2>1
<1>5. f \in Diffs(values, ids) <=> f \in DOMAIN values[r] /\ Cardinality(V) > 1
    BY <1>4 DEF Diffs
<1>6. Cardinality(V) > 1 <=> \E x, y \in V : x # y
  <2> HIDE DEF V
  <2> QED
      BY <1>3, MoreThanOne
<1>7. (\E x, y \in V : x # y) <=> \E p, q \in Range(ids) : values[p][f] # values[q][f]
  <2>1. ASSUME NEW i \in 1..n
        PROVE  ids[i] \in Range(ids) /\ values[ids[i]][f] \in V
      BY <1>1 DEF Range
  <2>2. ASSUME NEW p \in Range(ids)
        PROVE  \E i \in 1..n : p = ids[i]
      BY <1>1 DEF Range
  <2>3. ASSUME NEW x \in V
        PROVE  \E i \in 1..n : x = values[ids[i]][f]
      BY <1>1
  <2> HIDE DEF V
  <2>4. ASSUME NEW x \in V, NEW y \in V, x # y
        PROVE  \E p, q \in Range(ids) : values[p][f] # values[q][f]
    <3>1. PICK i \in 1..n : x = values[ids[i]][f]
        BY <2>3
    <3>2. PICK j \in 1..n : y = values[ids[j]][f]
        BY <2>3
    <3>3. values[ids[i]][f] # values[ids[j]][f]
        BY <2>4, <3>1, <3>2
    <3> QED
        BY <2>1, <3>3
  <2>5. ASSUME NEW p \in Range(ids), NEW q \in Range(ids), values[p][f] # values[q][f]
        PROVE  \E x, y \in V : x # y
    <3>1. PICK i \in 1..n : p = ids[i]
        BY <2>2
    <3>2. PICK j \in 1..n : q = ids[j]
        BY <2>2
    <3> QED
        BY <2>1, <2>5, <3>1, <3>2
  <2> QED
      BY <2>4, <2>5
<1> HIDE DEF V
<1> QED
    BY <1>5, <1>6, <1>7

\* What CompareSnapshot makes depends on the ids that are kept and the benchmark.
SnapshotOf(ids, benchmark) ==
    [ids |-> ids, diffs |-> Diffs(Assumptions, ids) \ {"window"},
     diagnostics |-> Diffs(Diagnostics, ids),
     deltas |-> Deltas(ids, benchmark), flags |-> ComparisonFlags(ids)]

LEMMA RowFacts ==
    ASSUME NEW q \in Comparisons
    PROVE  /\ SetRow(q).key = <<SetRow(q).name, SetRow(q).ids, SetRow(q).benchmark>>
           /\ SetRow(q).key = CompareKey(q)
           /\ SetRow(q).name = q.name /\ SetRow(q).benchmark = q.benchmark
           /\ SetRow(q).ids = Deduped(q.ids)
           /\ SetRow(q).snapshot = SnapshotOf(SetRow(q).ids, SetRow(q).benchmark)
           /\ SetRow(q).ids \in Seq(RunIds) /\ IsInjective(SetRow(q).ids)
           /\ Range(SetRow(q).ids) = Range(q.ids)
<1>1. q.ids \in Seq(RunIds)
    BY ReviewAssumption
<1>2. /\ Deduped(q.ids) \in Seq(RunIds) /\ IsInjective(Deduped(q.ids))
      /\ Range(Deduped(q.ids)) = Range(q.ids)
    BY <1>1, DedupedFacts
<1> QED
    BY <1>2 DEF SetRow, CompareKey, CompareSnapshot, SnapshotOf

\* One key, one compare set.
LEMMA SameKeySameRow ==
    ASSUME NEW q \in Comparisons, NEW r \in Comparisons, SetRow(q).key = SetRow(r).key
    PROVE  SetRow(q) = SetRow(r)
<1> DEFINE a == SetRow(q)
           b == SetRow(r)
<1>1. a.name = b.name /\ a.ids = b.ids /\ a.benchmark = b.benchmark
    BY RowFacts
<1>2. a.snapshot = b.snapshot
    BY <1>1, RowFacts
<1>3. \A x \in Comparisons :
          SetRow(x) = [key |-> SetRow(x).key, name |-> SetRow(x).name, ids |-> SetRow(x).ids,
                       benchmark |-> SetRow(x).benchmark, snapshot |-> SetRow(x).snapshot]
    BY DEF SetRow
<1> HIDE DEF a, b
<1> QED
    BY <1>1, <1>2, <1>3 DEF a, b

\* The snapshot of a valid comparison is true of its runs.
LEMMA SnapshotFacts ==
    ASSUME NEW i, NEW q \in Comparisons, ValidComparison(q), sets[i] = SetRow(q)
    PROVE  SnapshotIsTrue(i)
<1> DEFINE ids == sets[i].ids
           b == sets[i].benchmark
           s == sets[i].snapshot
           rs == Range(ids)
           Differ(values, f) == \E r, p \in rs : values[r][f] # values[p][f]
<1>1. ids = SetRow(q).ids /\ b = SetRow(q).benchmark /\ s = SnapshotOf(ids, b)
    BY RowFacts
<1>2. ids \in Seq(RunIds) /\ ids # <<>> /\ rs \subseteq RunIds /\ rs # {}
  <2>1. ids \in Seq(RunIds) /\ ids = Deduped(q.ids)
      BY <1>1, RowFacts
  <2>2. Len(ids) >= 2
      BY <2>1 DEF ValidComparison
  <2> HIDE DEF ids
  <2>3. ids # <<>> /\ 1 \in DOMAIN ids
      BY <2>1, <2>2, LenProperties
  <2> QED
      BY <2>1, <2>3 DEF Range
<1>3. b = Absent \/ b \in RunIds
  <2>1. b = q.benchmark /\ rs = Range(q.ids)
      BY <1>1, RowFacts
  <2> HIDE DEF b, rs
  <2> QED
      BY <1>2, <2>1 DEF ValidComparison
<1> HIDE DEF ids, b, s
<1>4. s.diffs = Diffs(Assumptions, ids) \ {"window"} /\ s.diagnostics = Diffs(Diagnostics, ids)
      /\ s.deltas = Deltas(ids, b) /\ s.flags = ComparisonFlags(ids)
    BY <1>1 DEF SnapshotOf
<1>5. ASSUME NEW r \in rs, NEW f
      PROVE  /\ f \in Diffs(Assumptions, ids) <=> f \in DOMAIN Assumptions[r] /\ Differ(Assumptions, f)
             /\ f \in Diffs(Diagnostics, ids) <=> f \in DOMAIN Diagnostics[r] /\ Differ(Diagnostics, f)
  <2>1. /\ \A x, y \in RunIds : DOMAIN Assumptions[x] = DOMAIN Assumptions[y]
        /\ \A x, y \in RunIds : DOMAIN Diagnostics[x] = DOMAIN Diagnostics[y]
      BY ReviewAssumption
  <2> DEFINE A == Assumptions
             D == Diagnostics
  <2> HIDE DEF A, D
  <2>2. \A x \in Range(ids) : \A g :
            g \in Diffs(A, ids) <=> g \in DOMAIN A[x] /\ \E p, y \in Range(ids) : A[p][g] # A[y][g]
      BY <1>2, <2>1, DiffsFacts DEF A
  <2>3. \A x \in Range(ids) : \A g :
            g \in Diffs(D, ids) <=> g \in DOMAIN D[x] /\ \E p, y \in Range(ids) : D[p][g] # D[y][g]
      BY <1>2, <2>1, DiffsFacts DEF D
  <2> QED
      BY <2>2, <2>3 DEF A, D
<1>6. \A r \in rs : \A f \in DOMAIN Assumptions[r] \ {"window"} : f \in s.diffs <=> Differ(Assumptions, f)
  <2> HIDE DEF rs, s, Differ
  <2> QED
      BY <1>4, <1>5
<1>7. \A r \in rs : \A f \in DOMAIN Diagnostics[r] : f \in s.diagnostics <=> Differ(Diagnostics, f)
  <2> HIDE DEF rs, s, Differ
  <2> QED
      BY <1>4, <1>5
<1>8. ("window_mismatch" \in s.flags) = Differ(Assumptions, "window")
  <2> DEFINE d == Diffs(Assumptions, ids)
  <2>1. "window_mismatch" \in s.flags <=> "window" \in d
    <3>1. "window_mismatch" \in ComparisonFlags(ids) <=>
              "window_mismatch" \in {f \in DOMAIN FlagFields : FlagFields[f] \intersect d # {}}
        BY DEF ComparisonFlags
    <3>2. "window_mismatch" \in DOMAIN FlagFields /\ FlagFields["window_mismatch"] = {"window"}
        BY DEF FlagFields
    <3> HIDE DEF d, s
    <3> QED
        BY <1>4, <3>1, <3>2
  <2>2. PICK r \in rs : "window" \in DOMAIN Assumptions[r]
      BY <1>2, ReviewAssumption
  <2>3. "window" \in d <=> Differ(Assumptions, "window")
    <3> HIDE DEF rs, Differ
    <3> QED
        BY <1>5, <2>2
  <2>4. Differ(Assumptions, "window") \in BOOLEAN
      OBVIOUS
  <2> HIDE DEF Differ, d, s
  <2> QED
      BY <2>1, <2>3, <2>4
<1>9. "runtime_risk_mismatch" \in s.flags => Cardinality(s.diagnostics) > 0
  <2> DEFINE D == Diffs(Diagnostics, ids)
  <2>1. SUFFICES ASSUME "runtime_risk_mismatch" \in ComparisonFlags(ids)
                 PROVE  Cardinality(D) > 0
      BY <1>4
  <2>2. D \intersect RiskFields # {}
    <3>1. "runtime_risk_mismatch" \notin DOMAIN FlagFields
        BY DEF FlagFields
    <3> QED
        BY <2>1, <3>1 DEF ComparisonFlags
  <2>3. D # {} /\ IsFiniteSet(D)
    <3>1. PICK r \in rs : r \in RunIds
        BY <1>2
    <3>2. IsFiniteSet(DOMAIN Diagnostics[r])
        BY <3>1, ReviewAssumption
    <3>3. D \subseteq DOMAIN Diagnostics[r]
      <4> HIDE DEF rs, Differ
      <4> QED
          BY <1>5, <3>1
    <3> HIDE DEF D
    <3> QED
        BY <2>2, <3>2, <3>3, FS_Subset
  <2> HIDE DEF D
  <2>4. Cardinality(D) \in Nat /\ Cardinality(D) # 0
      BY <2>3, FS_CardinalityType, FS_EmptySet
  <2> QED
      BY <2>4
<1> DEFINE delta(r) == IF Absent \in {TotalReturn[r], TotalReturn[b]} THEN Absent
                       ELSE TotalReturn[r] - TotalReturn[b]
<1>10. s.deltas = IF b = Absent THEN {} ELSE {[run |-> r, delta |-> delta(r)] : r \in rs \ {b}}
    BY <1>4 DEF Deltas
<1>11. {d.run : d \in s.deltas} = (IF b = Absent THEN {} ELSE rs \ {b})
  <2>1. CASE b = Absent
    <3> HIDE DEF s
    <3> QED
        BY <1>10, <2>1
  <2>2. CASE b # Absent
    <3> DEFINE R == rs \ {b}
    <3> HIDE DEF delta, R, s
    <3>1. s.deltas = {[run |-> r, delta |-> delta(r)] : r \in R}
        BY <1>10, <2>2 DEF R
    <3>2. \A d \in s.deltas : d.run \in R
        BY <3>1
    <3>3. \A r \in R : \E d \in s.deltas : d.run = r
      <4>1. SUFFICES ASSUME NEW r \in R
                     PROVE  \E d \in s.deltas : d.run = r
          OBVIOUS
      <4>2. [run |-> r, delta |-> delta(r)] \in s.deltas
          BY <3>1
      <4>3. [run |-> r, delta |-> delta(r)].run = r
          OBVIOUS
      <4> QED
          BY <4>2, <4>3
    <3>4. {d.run : d \in s.deltas} = R
        BY <3>2, <3>3
    <3> QED
        BY <2>2, <3>4 DEF R
  <2> QED
      BY <2>1, <2>2
<1>12. ASSUME NEW d \in s.deltas, d.delta # Absent
       PROVE  TotalReturn[d.run] = TotalReturn[b] + d.delta
  <2>1. b # Absent
    <3> HIDE DEF s, delta
    <3> QED
        BY <1>10, <1>12
  <2>2. PICK r \in rs : d = [run |-> r, delta |-> delta(r)]
    <3> HIDE DEF s, delta
    <3> QED
        BY <1>10, <2>1
  <2>3. d.run = r /\ d.delta = delta(r)
    <3> HIDE DEF delta
    <3> QED
        BY <2>2
  <2>4. /\ TotalReturn[r] = Absent \/ TotalReturn[r] \in Int
        /\ TotalReturn[b] = Absent \/ TotalReturn[b] \in Int
      BY <1>2, <1>3, <2>1, ReviewAssumption
  <2> DEFINE x == TotalReturn[r]
             y == TotalReturn[b]
  <2>5. x # Absent /\ y # Absent /\ d.delta = x - y
      BY <1>12, <2>3
  <2>6. x \in Int /\ y \in Int
      BY <2>4, <2>5
  <2> HIDE DEF x, y
  <2>7. x = y + d.delta
      BY <2>5, <2>6
  <2> QED
      BY <2>3, <2>7 DEF x, y
<1>13. \A d \in s.deltas : d.delta # Absent => TotalReturn[d.run] = TotalReturn[b] + d.delta
    BY <1>12
<1> HIDE DEF delta
<1> QED
    BY <1>6, <1>7, <1>8, <1>9, <1>11, <1>13, Zenon DEF SnapshotIsTrue, ids, b, s

-----------------------------------------------------------------------------
(* The inductive invariant.  Its parts are predicates of the committed rows *)
(* (R runs, A anchors, S compare sets, N notes), so that a lemma can speak  *)
(* of those before and those after a request.                              *)

SetRows == {SetRow(q) : q \in Comparisons}
Statuses == {"draft"} \union {w.status : w \in NoteWrites}
Entities == ({"debug_trace"} \X Traces) \union ({"compare_set"} \X Nat)
RefsOf(row) == [ids |-> row.ids, benchmark |-> row.benchmark]
RefValues == TypeRefs \union {RefsOf(r) : r \in SetRows}
FactValues == [anchors : SUBSET (1..MaxAnchors)] \union {r.snapshot : r \in SetRows}
NoteRows == [entity : Entities, type : TraceNoteTypes \union CompareNoteTypes,
             source : {"human", "agent", "system"}, status : Statuses,
             refs : RefValues, facts : FactValues]

\* References of a trace, as _build_source_refs makes them at some time.
AnchorRefs(A, t, refs) ==
    /\ refs \in TypeRefs
    /\ refs.anchors \subseteq DOMAIN A[t]
    /\ refs.scenarios = {a \in refs.anchors : A[t][a] # Absent}

\* References and facts that belong to the subject of a note.
AboutTrace(A, t, refs, facts) ==
    /\ AnchorRefs(A, t, refs)
    /\ facts \in [anchors : SUBSET (1..MaxAnchors)]
    /\ facts.anchors \subseteq refs.anchors
AboutSet(row, refs, facts) == refs = RefsOf(row) /\ facts = row.snapshot
About(A, S, entity, refs, facts) ==
    \/ \E t \in Traces : entity = <<"debug_trace", t>> /\ AboutTrace(A, t, refs, facts)
    \/ \E i \in DOMAIN S : entity = <<"compare_set", i>> /\ AboutSet(S[i], refs, facts)

\* A compare set is what persist_compare_set made of a valid comparison, under
\* a key of its own.
Made(R, q) == q \in Comparisons /\ ValidComparison(q) /\ Range(q.ids) \subseteq R
SetsGood(R, S) ==
    /\ S \in Seq(SetRows)
    /\ \A i \in DOMAIN S : \E q \in Comparisons : Made(R, q) /\ S[i] = SetRow(q)
    /\ \A i, j \in DOMAIN S : S[i].key = S[j].key => i = j

\* A system note of a trace is a note of type investigation whose facts are
\* its references, one of a compare set a review.
SeedGood(note) ==
    note.source = "system" =>
        /\ note.status = "draft"
        /\ note.type = IF note.entity[1] = "debug_trace" THEN "investigation" ELSE "review"
        /\ note.entity[1] = "debug_trace" => note.refs.anchors = note.facts.anchors
NoteGood(A, S, note) == About(A, S, note.entity, note.refs, note.facts) /\ SeedGood(note)
SeedOf(note, entity) == note.source = "system" /\ note.entity = entity

NotesGood(A, S, N) ==
    /\ N \in Seq(NoteRows)
    /\ \A i \in DOMAIN N : NoteGood(A, S, N[i])
    /\ \A i, j \in DOMAIN N : SeedOf(N[i], N[i].entity) /\ SeedOf(N[j], N[i].entity) => i = j
    /\ \A i \in DOMAIN S : \E n \in DOMAIN N : SeedOf(N[n], <<"compare_set", i>>)

\* What a request t has read is still about its subject when it writes, and the
\* note that it is to update is an author's note of that subject.
SeedTask(A, S, t) ==
    /\ \E x \in Traces : t.entity = <<"debug_trace", x>>
    /\ About(A, S, t.entity, t.refs, t.facts)
    /\ t.facts.anchors = t.refs.anchors
UpdateTask(A, S, N, t) ==
    /\ t.id \in DOMAIN N
    /\ N[t.id].entity = t.entity /\ N[t.id].source # "system"
    /\ About(A, S, t.entity, t.refs, N[t.id].facts)
NoteTask(A, S, N, t) ==
    /\ t.write \in NoteWrites /\ t.write.type \in TraceNoteTypes \union CompareNoteTypes
    /\ About(A, S, t.entity, t.refs, t.facts)
    /\ t.id # 0 => UpdateTask(A, S, N, t)
TaskGood(R, A, S, N, t) ==
    /\ t.kind = "compare" => Made(R, t.request)
    /\ t.kind = "seed" => SeedTask(A, S, t)
    /\ t.kind = "note" => NoteTask(A, S, N, t)

BaseInv ==
    /\ runs \subseteq RunIds /\ FinishedRuns \subseteq runs
    /\ anchors \in [Traces -> Seq(Scenarios)]
    /\ \A t \in Traces : Len(anchors[t]) <= MaxAnchors
    /\ task = [c \in Clients |-> task[c]]

IInv ==
    /\ BaseInv
    /\ SetsGood(runs, sets)
    /\ NotesGood(anchors, sets, notes)
    /\ \A c \in Clients : TaskGood(runs, anchors, sets, notes, task[c])

-----------------------------------------------------------------------------
(* Writing one note *)

\* M is N with one row written at k, a new one or in place of another.
Written(N, M, k, row) ==
    /\ k \in 1..(Len(N) + 1)
    /\ DOMAIN M = DOMAIN N \union {k}
    /\ M[k] = row
    /\ \A i \in DOMAIN N : i # k => M[i] = N[i]

\* A note stays about its subject, of its type and on its side of the line
\* between the service and the authors, whose notes keep their facts.
Keeps(old, new) ==
    /\ new.entity = old.entity /\ new.type = old.type
    /\ (new.source = "system") = (old.source = "system")
    /\ old.source # "system" => new.facts = old.facts

\* What later requests leave to earlier ones: anchors and compare sets stay,
\* and notes keep what they are about.
AnchorsGrow(A, B) ==
    \A t \in Traces : /\ DOMAIN A[t] \subseteq DOMAIN B[t]
                      /\ \A a \in DOMAIN A[t] : B[t][a] = A[t][a]
SetsGrow(S, T) ==
    DOMAIN S \subseteq DOMAIN T /\ \A i \in DOMAIN S : T[i] = S[i]
NotesKeep(N, M) ==
    DOMAIN N \subseteq DOMAIN M /\ \A i \in DOMAIN N : Keeps(N[i], M[i])

LEMMA AppendIsWritten ==
    ASSUME NEW X, NEW N \in Seq(X), NEW row \in X
    PROVE  Append(N, row) \in Seq(X) /\ Written(N, Append(N, row), Len(N) + 1, row)
<1> DEFINE n == Len(N)
           M == Append(N, row)
<1>1. n \in Nat /\ DOMAIN N = 1..n
    BY LenProperties
<1>2. M \in Seq(X) /\ Len(M) = n + 1 /\ M[n + 1] = row /\ \A i \in 1..n : M[i] = N[i]
    BY AppendProperties
<1>3. DOMAIN M = 1..(n + 1)
    BY <1>2, LenProperties
<1> HIDE DEF M, n
<1>4. DOMAIN M = DOMAIN N \union {n + 1} /\ n + 1 \in 1..(n + 1)
    BY <1>1, <1>3
<1>5. \A i \in DOMAIN N : i # n + 1 => M[i] = N[i]
    BY <1>1, <1>2
<1> QED
    BY <1>2, <1>4, <1>5 DEF Written, M, n

LEMMA ReplaceIsWritten ==
    ASSUME NEW X, NEW N \in Seq(X), NEW k \in DOMAIN N, NEW row \in X
    PROVE  /\ [N EXCEPT ![k] = row] \in Seq(X)
           /\ Written(N, [N EXCEPT ![k] = row], k, row)
<1> DEFINE n == Len(N)
           M == [N EXCEPT ![k] = row]
<1>1. n \in Nat /\ DOMAIN N = 1..n
    BY LenProperties
<1>2. DOMAIN M = 1..n /\ M[k] = row /\ \A i \in 1..n : i # k => M[i] = N[i]
    BY <1>1
<1>3. \A i \in 1..n : N[i] \in X
    BY <1>1, ElementOfSeq
<1>4. M \in [1..n -> X]
  <2>1. \A i \in 1..n : M[i] \in X
      BY <1>2, <1>3
  <2>2. M = [i \in 1..n |-> M[i]]
      BY <1>1
  <2> HIDE DEF M
  <2> QED
      BY <2>1, <2>2
<1> HIDE DEF M, n
<1>5. M \in Seq(X)
    BY <1>1, <1>4, SequenceOfFunction
<1>6. k \in 1..(n + 1) /\ DOMAIN M = DOMAIN N \union {k}
    BY <1>1, <1>2
<1> QED
    BY <1>1, <1>2, <1>5, <1>6 DEF Written, M, n

\* A note stays about its subject.
LEMMA AboutKept ==
    ASSUME NEW A, NEW B, NEW S, NEW T, AnchorsGrow(A, B), SetsGrow(S, T),
           NEW entity, NEW refs, NEW facts, About(A, S, entity, refs, facts)
    PROVE  About(B, T, entity, refs, facts)
<1>1. ASSUME NEW t \in Traces, entity = <<"debug_trace", t>>, AboutTrace(A, t, refs, facts)
      PROVE  AboutTrace(B, t, refs, facts)
  <2>1. /\ refs.anchors \subseteq DOMAIN A[t]
        /\ refs.scenarios = {a \in refs.anchors : A[t][a] # Absent}
      BY <1>1 DEF AboutTrace, AnchorRefs
  <2>2. DOMAIN A[t] \subseteq DOMAIN B[t] /\ \A a \in DOMAIN A[t] : B[t][a] = A[t][a]
      BY DEF AnchorsGrow
  <2>3. /\ refs.anchors \subseteq DOMAIN B[t]
        /\ refs.scenarios = {a \in refs.anchors : B[t][a] # Absent}
      BY <2>1, <2>2
  <2> QED
      BY <1>1, <2>3 DEF AboutTrace, AnchorRefs
<1>2. ASSUME NEW i \in DOMAIN S, entity = <<"compare_set", i>>, AboutSet(S[i], refs, facts)
      PROVE  i \in DOMAIN T /\ AboutSet(T[i], refs, facts)
    BY <1>2 DEF SetsGrow
<1> QED
    BY <1>1, <1>2 DEF About

\* What is written about a subject has the values that the columns hold.
LEMMA AboutTypes ==
    ASSUME NEW A, NEW S \in Seq(SetRows), NEW entity, NEW refs, NEW facts,
           About(A, S, entity, refs, facts)
    PROVE  entity \in Entities /\ refs \in RefValues /\ facts \in FactValues
<1>1. CASE \E t \in Traces : entity = <<"debug_trace", t>> /\ AboutTrace(A, t, refs, facts)
    BY <1>1 DEF AboutTrace, AnchorRefs, Entities, RefValues, FactValues
<1>2. CASE \E i \in DOMAIN S : entity = <<"compare_set", i>> /\ AboutSet(S[i], refs, facts)
  <2>1. PICK i \in DOMAIN S : entity = <<"compare_set", i>> /\ AboutSet(S[i], refs, facts)
      BY <1>2
  <2>2. i \in Nat /\ S[i] \in SetRows
    <3> HIDE DEF SetRows
    <3> QED
        BY LenProperties, ElementOfSeq
  <2> QED
      BY <2>1, <2>2 DEF AboutSet, Entities, RefValues, FactValues
<1> QED
    BY <1>1, <1>2 DEF About

\* A request that another one is waiting for leaves it what it has read.
LEMMA TaskKept ==
    ASSUME NEW R, NEW Q, R \subseteq Q,
           NEW A, NEW B, NEW S, NEW T, NEW N, NEW M,
           AnchorsGrow(A, B), SetsGrow(S, T), NotesKeep(N, M),
           NEW t, TaskGood(R, A, S, N, t)
    PROVE  TaskGood(Q, B, T, M, t)
<1>1. t.kind = "compare" => Made(Q, t.request)
    BY DEF TaskGood, Made
<1>2. t.kind = "seed" => SeedTask(B, T, t)
    BY AboutKept DEF TaskGood, SeedTask
<1>3. ASSUME UpdateTask(A, S, N, t)
      PROVE  UpdateTask(B, T, M, t)
  <2>1. t.id \in DOMAIN M /\ Keeps(N[t.id], M[t.id])
      BY <1>3 DEF UpdateTask, NotesKeep
  <2>2. /\ M[t.id].entity = t.entity /\ M[t.id].source # "system"
        /\ M[t.id].facts = N[t.id].facts
      BY <1>3, <2>1 DEF UpdateTask, Keeps
  <2>3. About(B, T, t.entity, t.refs, N[t.id].facts)
      BY <1>3, AboutKept DEF UpdateTask
  <2> QED
      BY <2>1, <2>2, <2>3 DEF UpdateTask
<1>4. t.kind = "note" => NoteTask(B, T, M, t)
    BY <1>3, AboutKept DEF TaskGood, NoteTask
<1> QED
    BY <1>1, <1>2, <1>4 DEF TaskGood

\* New anchors leave the notes as they were.
LEMMA NotesOutlive ==
    ASSUME NEW A, NEW B, NEW S, NEW N, AnchorsGrow(A, B), NotesGood(A, S, N)
    PROVE  NotesGood(B, S, N)
<1>1. SetsGrow(S, S)
    BY DEF SetsGrow
<1>2. ASSUME NEW i \in DOMAIN N
      PROVE  NoteGood(B, S, N[i])
    BY <1>1, AboutKept DEF NotesGood, NoteGood
<1> QED
    BY <1>2 DEF NotesGood

LEMMA NotesStay ==
    ASSUME NEW N
    PROVE  NotesKeep(N, N)
BY DEF NotesKeep, Keeps

\* A request that writes one note about its subject leaves good notes.
LEMMA NotesWritten ==
    ASSUME NEW A, NEW S, NEW T, SetsGrow(S, T),
           NEW N, NotesGood(A, S, N),
           NEW M \in Seq(NoteRows), NEW k, NEW row, Written(N, M, k, row),
           NoteGood(A, T, row),
           k \in DOMAIN N => Keeps(N[k], row),
           k \notin DOMAIN N => \A i \in DOMAIN N : ~ (SeedOf(N[i], row.entity) /\ row.source = "system"),
           \A i \in DOMAIN T \ DOMAIN S : SeedOf(row, <<"compare_set", i>>)
    PROVE  NotesGood(A, T, M) /\ NotesKeep(N, M)
<1>1. /\ DOMAIN M = DOMAIN N \union {k} /\ M[k] = row
      /\ \A i \in DOMAIN N : i # k => M[i] = N[i]
    BY DEF Written
<1>2. AnchorsGrow(A, A)
    BY DEF AnchorsGrow
<1>3. ASSUME NEW i \in DOMAIN N
      PROVE  Keeps(N[i], M[i])
  <2>1. CASE i = k
      BY <1>1, <2>1
  <2>2. CASE i # k
      BY <1>1, <2>2 DEF Keeps
  <2> QED
      BY <2>1, <2>2
<1>4. NotesKeep(N, M)
    BY <1>1, <1>3 DEF NotesKeep
<1>5. ASSUME NEW i \in DOMAIN M
      PROVE  NoteGood(A, T, M[i])
  <2>1. CASE i = k
      BY <1>1, <2>1
  <2>2. CASE i # k
    <3>1. i \in DOMAIN N /\ M[i] = N[i]
        BY <1>1, <2>2
    <3>2. NoteGood(A, S, N[i])
        BY <3>1 DEF NotesGood
    <3>3. NoteGood(A, T, N[i])
        BY <1>2, <3>2, AboutKept DEF NoteGood
    <3> QED
        BY <3>1, <3>3
  <2> QED
      BY <2>1, <2>2
<1>6. ASSUME NEW i \in DOMAIN M, i # k, SeedOf(M[i], row.entity), row.source = "system"
      PROVE  FALSE
  <2>1. i \in DOMAIN N /\ SeedOf(N[i], row.entity)
      BY <1>1, <1>6
  <2>2. k \in DOMAIN N /\ Keeps(N[k], row)
      BY <1>6, <2>1
  <2>3. SeedOf(N[k], row.entity) /\ N[i].entity = row.entity
      BY <1>6, <2>1, <2>2 DEF Keeps, SeedOf
  <2>4. SeedOf(N[i], N[i].entity) /\ SeedOf(N[k], N[i].entity)
      BY <2>1, <2>3
  <2>5. i = k
      BY <2>1, <2>2, <2>4 DEF NotesGood
  <2> QED
      BY <1>6, <2>5
<1>7. ASSUME NEW i \in DOMAIN M, NEW j \in DOMAIN M,
             SeedOf(M[i], M[i].entity), SeedOf(M[j], M[i].entity)
      PROVE  i = j
  <2>1. CASE i = k
    <3>1. SeedOf(M[j], row.entity) /\ row.source = "system"
        BY <1>1, <1>7, <2>1 DEF SeedOf
    <3> QED
        BY <1>6, <2>1, <3>1
  <2>2. CASE j = k
    <3>1. row.entity = M[i].entity /\ row.source = "system"
        BY <1>1, <1>7, <2>2 DEF SeedOf
    <3>2. SeedOf(M[i], row.entity)
        BY <1>7, <3>1
    <3> QED
        BY <1>6, <2>2, <3>1, <3>2
  <2>3. CASE i # k /\ j # k
    <3>1. i \in DOMAIN N /\ j \in DOMAIN N /\ M[i] = N[i] /\ M[j] = N[j]
        BY <1>1, <2>3
    <3>2. SeedOf(N[i], N[i].entity) /\ SeedOf(N[j], N[i].entity)
        BY <1>7, <3>1
    <3> QED
        BY <3>1, <3>2 DEF NotesGood
  <2> QED
      BY <2>1, <2>2, <2>3
<1>8. ASSUME NEW i \in DOMAIN T
      PROVE  \E n \in DOMAIN M : SeedOf(M[n], <<"compare_set", i>>)
  <2>1. CASE i \in DOMAIN S
    <3>1. PICK n \in DOMAIN N : SeedOf(N[n], <<"compare_set", i>>)
        BY <2>1 DEF NotesGood
    <3>2. n \in DOMAIN M /\ Keeps(N[n], M[n])
        BY <1>1, <1>3
    <3>3. SeedOf(M[n], <<"compare_set", i>>)
        BY <3>1, <3>2 DEF Keeps, SeedOf
    <3> QED
        BY <3>2, <3>3
  <2>2. CASE i \notin DOMAIN S
      BY <1>1, <2>2
  <2> QED
      BY <2>1, <2>2
<1> QED
    BY <1>4, <1>5, <1>7, <1>8 DEF NotesGood

\* upsert_system_annotation writes one row: the system note of this subject if
\* there is one, a new one if there is none.
LEMMA SystemNoteFacts ==
    ASSUME NotesGood(anchors, sets, notes),
           NEW entity, NEW type, NEW refs, NEW facts,
           Note(entity, type, "system", "draft", refs, facts) \in NoteRows,
           SeedGood(Note(entity, type, "system", "draft", refs, facts))
    PROVE  LET row == Note(entity, type, "system", "draft", refs, facts)
               M   == WithSystemNote(entity, type, refs, facts)
           IN  \E k : /\ M \in Seq(NoteRows) /\ Written(notes, M, k, row)
                      /\ k \in DOMAIN notes => Keeps(notes[k], row)
                      /\ k \notin DOMAIN notes =>
                             \A i \in DOMAIN notes : ~ SeedOf(notes[i], entity)
<1> DEFINE row == Note(entity, type, "system", "draft", refs, facts)
           M   == WithSystemNote(entity, type, refs, facts)
           at  == SystemNotes(entity, type)
<1>1. /\ row \in NoteRows /\ SeedGood(row)
      /\ row.entity = entity /\ row.type = type /\ row.source = "system"
    BY DEF Note
<1>2. M = IF at = {} THEN Append(notes, row)
          ELSE [i \in DOMAIN notes |-> IF i \in at THEN row ELSE notes[i]]
    BY DEF WithSystemNote
<1>3. at = {i \in DOMAIN notes : SeedOf(notes[i], entity) /\ notes[i].type = type}
    BY DEF SystemNotes, SeedOf
<1>4. notes \in Seq(NoteRows)
    BY DEF NotesGood
<1> HIDE DEF row, M, at
<1>5. ASSUME NEW i \in DOMAIN notes, SeedOf(notes[i], entity)
      PROVE  i \in at
  <2>1. SeedGood(notes[i]) /\ notes[i].source = "system" /\ notes[i].entity = entity
      BY <1>5 DEF NotesGood, NoteGood, SeedOf
  <2>2. notes[i].type = type
      BY <1>1, <2>1 DEF SeedGood
  <2> QED
      BY <1>3, <1>5, <2>2
<1>6. CASE at = {}
  <2>1. M \in Seq(NoteRows) /\ Written(notes, M, Len(notes) + 1, row)
      BY <1>1, <1>2, <1>4, <1>6, AppendIsWritten
  <2>2. Len(notes) + 1 \notin DOMAIN notes
      BY <1>4, LenProperties
  <2>3. \A i \in DOMAIN notes : ~ SeedOf(notes[i], entity)
      BY <1>5, <1>6
  <2> QED
      BY <2>1, <2>2, <2>3 DEF row, M
<1>7. CASE at # {}
  <2>1. PICK k \in DOMAIN notes : SeedOf(notes[k], entity) /\ notes[k].type = type
      BY <1>3, <1>7
  <2>2. ASSUME NEW i \in at
        PROVE  i = k
    <3>1. i \in DOMAIN notes /\ SeedOf(notes[i], entity)
        BY <1>3, <2>2
    <3>2. notes[i].entity = entity
        BY <3>1 DEF SeedOf
    <3> QED
        BY <2>1, <3>1, <3>2 DEF NotesGood
  <2>3. \A i \in DOMAIN notes : i \in at <=> i = k
      BY <1>5, <2>1, <2>2
  <2>4. M = [notes EXCEPT ![k] = row]
    <3>1. M = [i \in DOMAIN notes |-> IF i = k THEN row ELSE notes[i]]
        BY <1>2, <1>7, <2>3
    <3> QED
        BY <3>1
  <2>5. M \in Seq(NoteRows) /\ Written(notes, M, k, row)
      BY <1>1, <1>4, <2>4, ReplaceIsWritten
  <2>6. Keeps(notes[k], row)
      BY <1>1, <2>1 DEF Keeps, SeedOf
  <2> QED
      BY <2>1, <2>5, <2>6 DEF row, M
<1> QED
    BY <1>6, <1>7

\* upsert_compare_set keeps the compare set of a key, which is the one that it
\* would make again, or adds it.
LEMMA UpsertFacts ==
    ASSUME SetsGood(runs, sets), NEW q, Made(runs, q)
    PROVE  LET rows == UpsertedSets(q)
               id   == SetId(rows, q)
           IN  /\ SetsGood(runs, rows) /\ SetsGrow(sets, rows)
               /\ id \in DOMAIN rows /\ rows[id] = SetRow(q)
               /\ \A i \in DOMAIN rows : i \in DOMAIN sets \/ i = id
<1> DEFINE rows == UpsertedSets(q)
           id   == SetId(rows, q)
           row  == SetRow(q)
           key  == CompareKey(q)
           at   == WithKey(sets, row.key)
<1>1. q \in Comparisons /\ row.key = key /\ row \in SetRows
    BY RowFacts DEF Made, SetRows
<1>2. rows = IF at = {} THEN Append(sets, row)
             ELSE [i \in DOMAIN sets |-> IF i \in at THEN row ELSE sets[i]]
    BY DEF UpsertedSets
<1>3. at = {i \in DOMAIN sets : sets[i].key = key}
    BY <1>1 DEF WithKey
<1>4. id = CHOOSE i \in DOMAIN rows : rows[i].key = key
    BY DEF SetId
<1>5. sets \in Seq(SetRows) /\ Len(sets) \in Nat /\ DOMAIN sets = 1..Len(sets)
  <2>1. sets \in Seq(SetRows)
      BY DEF SetsGood
  <2> HIDE DEF SetRows
  <2> QED
      BY <2>1, LenProperties
<1> DEFINE made(x) == \E p \in Comparisons : Made(runs, p) /\ x = SetRow(p)
<1>6. \A i \in DOMAIN sets : made(sets[i])
    BY DEF SetsGood
<1>7. made(row)
    BY <1>1
<1>8. /\ rows \in Seq(SetRows) /\ DOMAIN sets \subseteq DOMAIN rows
      /\ \A i \in DOMAIN sets : rows[i] = sets[i]
      /\ \E k \in DOMAIN rows : /\ rows[k] = row
                                /\ \A i \in DOMAIN rows : i \in DOMAIN sets \/ i = k
                                /\ \A i \in DOMAIN rows : rows[i].key = key => i = k
  <2>1. CASE at = {}
    <3> DEFINE k == Len(sets) + 1
    <3>1. rows = Append(sets, row)
        BY <1>2, <2>1
    <3>2. rows \in Seq(SetRows) /\ Written(sets, rows, k, row)
      <4> HIDE DEF SetRows, rows, row
      <4> QED
          BY <1>1, <1>5, <3>1, AppendIsWritten
    <3>3. /\ DOMAIN rows = DOMAIN sets \union {k} /\ rows[k] = row /\ k \notin DOMAIN sets
          /\ \A i \in DOMAIN sets : i # k => rows[i] = sets[i]
      <4> HIDE DEF rows, row
      <4> QED
          BY <1>5, <3>2 DEF Written
    <3>4. \A i \in DOMAIN sets : sets[i].key # key
      <4> HIDE DEF key
      <4> QED
          BY <1>3, <2>1
    <3> HIDE DEF rows, row, key, k, SetRows
    <3> QED
        BY <3>2, <3>3, <3>4
  <2>2. CASE at # {}
    <3>1. PICK k \in DOMAIN sets : sets[k].key = key
      <4> HIDE DEF key
      <4> QED
          BY <1>3, <2>2
    <3>2. \A i \in DOMAIN sets : sets[i].key = key => i = k
        BY <3>1 DEF SetsGood
    <3>3. sets[k] = row
      <4>1. PICK p \in Comparisons : sets[k] = SetRow(p)
          BY <1>6
      <4>2. SetRow(p).key = SetRow(q).key
          BY <1>1, <3>1, <4>1
      <4> QED
          BY <1>1, <4>1, <4>2, SameKeySameRow
    <3>4. rows = sets
      <4>1. \A i \in DOMAIN sets : (IF i \in at THEN row ELSE sets[i]) = sets[i]
        <5> HIDE DEF row, key, at
        <5> QED
            BY <1>3, <3>2, <3>3
      <4>2. rows = [i \in DOMAIN sets |-> IF i \in at THEN row ELSE sets[i]]
          BY <1>2, <2>2
      <4>3. sets = [i \in DOMAIN sets |-> sets[i]]
        <5> HIDE DEF SetRows
        <5> QED
            BY <1>5
      <4> HIDE DEF row, rows, at
      <4> QED
          BY <4>1, <4>2, <4>3
    <3> HIDE DEF rows, row, key, SetRows
    <3> QED
        BY <1>5, <3>1, <3>2, <3>3, <3>4
  <2> QED
      BY <2>1, <2>2
<1> HIDE DEF rows, row, key, made
<1>9. PICK k \in DOMAIN rows : /\ rows[k] = row
                               /\ \A i \in DOMAIN rows : i \in DOMAIN sets \/ i = k
                               /\ \A i \in DOMAIN rows : rows[i].key = key => i = k
    BY <1>8
<1>10. id = k
  <2>1. id \in DOMAIN rows /\ rows[id].key = key
      BY <1>1, <1>4, <1>9
  <2> QED
      BY <1>9, <2>1
<1>11. \A i \in DOMAIN rows : made(rows[i])
    BY <1>6, <1>7, <1>8, <1>9
<1>12. ASSUME NEW i \in DOMAIN rows, NEW j \in DOMAIN rows, rows[i].key = rows[j].key
       PROVE  i = j
  <2>1. CASE i = k \/ j = k
    <3>1. rows[i].key = key /\ rows[j].key = key
        BY <1>1, <1>9, <1>12, <2>1
    <3> QED
        BY <1>9, <3>1
  <2>2. CASE i # k /\ j # k
    <3>1. i \in DOMAIN sets /\ j \in DOMAIN sets /\ sets[i].key = sets[j].key
        BY <1>8, <1>9, <1>12, <2>2
    <3> QED
        BY <3>1 DEF SetsGood
  <2> QED
      BY <2>1, <2>2
<1>13. SetsGood(runs, rows) /\ SetsGrow(sets, rows)
    BY <1>8, <1>11, <1>12 DEF SetsGood, SetsGrow, made
<1> QED
    BY <1>9, <1>10, <1>13 DEF rows, row, id

-----------------------------------------------------------------------------
(* The steps *)

\* What a step does to notes and compare sets.
Respects ==
    /\ SetsGrow(sets, sets') /\ NotesKeep(notes, notes')
    /\ notes' = notes \/ \E k, row : Written(notes, notes', k, row)

LEMMA Initially == Init => IInv
<1>1. SUFFICES ASSUME Init
               PROVE  IInv
    OBVIOUS
<1>2. BaseInv
    BY <1>1, ReviewAssumption DEF Init, BaseInv
<1>3. SetsGood(runs, sets)
  <2>1. <<>> \in Seq(SetRows)
      OBVIOUS
  <2> QED
      BY <1>1, <2>1 DEF Init, SetsGood
<1>4. NotesGood(anchors, sets, notes)
    BY <1>1 DEF Init, NotesGood
<1>5. \A c \in Clients : TaskGood(runs, anchors, sets, notes, task[c])
    BY <1>1 DEF Init, NoTask, TaskGood
<1> QED
    BY <1>2, <1>3, <1>4, <1>5 DEF IInv

LEMMA NothingGrows ==
    /\ AnchorsGrow(anchors, anchors) /\ SetsGrow(sets, sets) /\ NotesKeep(notes, notes)
BY NotesStay DEF AnchorsGrow, SetsGrow

LEMMA NoTaskGood ==
    ASSUME NEW R, NEW A, NEW S, NEW N
    PROVE  TaskGood(R, A, S, N, NoTask)
BY DEF NoTask, TaskGood

\* A client's step writes its own task; the requests of the others go on.
LEMMA OthersGoOn ==
    ASSUME IInv, NEW c \in Clients, NEW new, task' = [task EXCEPT ![c] = new],
           NEW R, runs \subseteq R, NEW A, AnchorsGrow(anchors, A),
           NEW S, SetsGrow(sets, S), NEW N, NotesKeep(notes, N),
           TaskGood(R, A, S, N, new)
    PROVE  /\ \A d \in Clients : TaskGood(R, A, S, N, task'[d])
           /\ task' = [d \in Clients |-> task'[d]]
<1>1. task = [d \in Clients |-> task[d]] /\ \A d \in Clients : TaskGood(runs, anchors, sets, notes, task[d])
    BY DEF IInv, BaseInv
<1>2. \A d \in Clients : TaskGood(R, A, S, N, task[d])
    BY <1>1, TaskKept
<1>3. task' = [d \in Clients |-> IF d = c THEN new ELSE task[d]]
    BY <1>1
<1>4. \A d \in Clients : TaskGood(R, A, S, N, task'[d])
  <2>1. SUFFICES ASSUME NEW d \in Clients
                 PROVE  TaskGood(R, A, S, N, task'[d])
      OBVIOUS
  <2>2. task'[d] = new \/ task'[d] = task[d]
      BY <1>3
  <2> QED
      BY <1>2, <2>2
<1>5. task' = [d \in Clients |-> task'[d]]
    BY <1>3
<1> QED
    BY <1>4, <1>5

\* A client's step that changes no committed row.
LEMMA OnlyTheTask ==
    ASSUME IInv, NEW c \in Clients, NEW new, task' = [task EXCEPT ![c] = new],
           UNCHANGED <<runs, sets, notes, anchors>>,
           TaskGood(runs, anchors, sets, notes, new)
    PROVE  IInv' /\ Respects
<1>1. /\ \A d \in Clients : TaskGood(runs, anchors, sets, notes, task'[d])
      /\ task' = [d \in Clients |-> task'[d]]
    BY NothingGrows, OthersGoOn
<1>2. runs' = runs /\ sets' = sets /\ notes' = notes /\ anchors' = anchors
    OBVIOUS
<1>3. IInv'
    BY <1>1, <1>2 DEF IInv, BaseInv
<1>4. Respects
    BY <1>2, NothingGrows DEF Respects
<1> QED
    BY <1>3, <1>4

LEMMA RunFinishesKeeps == IInv /\ RunFinishes => IInv' /\ Respects
<1>1. SUFFICES ASSUME IInv, RunFinishes
               PROVE  IInv' /\ Respects
    OBVIOUS
<1>2. /\ runs \subseteq runs' /\ runs' \subseteq RunIds
      /\ sets' = sets /\ notes' = notes /\ anchors' = anchors /\ task' = task
    BY <1>1 DEF RunFinishes, IInv, BaseInv
<1>3. SetsGood(runs', sets)
  <2>1. ASSUME NEW q, Made(runs, q)
        PROVE  Made(runs', q)
      BY <1>2, <2>1 DEF Made
  <2> QED
      BY <1>1, <2>1 DEF IInv, SetsGood
<1>4. \A c \in Clients : TaskGood(runs', anchors, sets, notes, task[c])
    BY <1>1, <1>2, NothingGrows, TaskKept DEF IInv
<1>5. BaseInv'
    BY <1>1, <1>2 DEF IInv, BaseInv
<1>6. IInv'
    BY <1>1, <1>2, <1>3, <1>4, <1>5 DEF IInv
<1>7. Respects
    BY <1>2, NothingGrows DEF Respects
<1> QED
    BY <1>6, <1>7

LEMMA AddAnchorKeeps ==
    ASSUME IInv, NEW t \in Traces, AddAnchor(t)
    PROVE  IInv' /\ Respects
<1>1. PICK s \in Scenarios : anchors' = [anchors EXCEPT ![t] = Append(@, s)]
    BY DEF AddAnchor
<1>2. /\ Len(anchors[t]) < MaxAnchors
      /\ sets' = sets /\ notes' = notes /\ runs' = runs /\ task' = task
    BY DEF AddAnchor
<1>3. anchors \in [Traces -> Seq(Scenarios)] /\ \A x \in Traces : Len(anchors[x]) <= MaxAnchors
    BY DEF IInv, BaseInv
<1> DEFINE a == anchors[t]
           b == Append(a, s)
<1>4. a \in Seq(Scenarios)
    BY <1>3
<1>5. \A x \in Traces : anchors'[x] = IF x = t THEN b ELSE anchors[x]
    BY <1>1, <1>3
<1>6. /\ b \in Seq(Scenarios) /\ Len(b) = Len(a) + 1 /\ DOMAIN a \subseteq DOMAIN b
      /\ \A i \in DOMAIN a : b[i] = a[i]
  <2> HIDE DEF a
  <2>1. b \in Seq(Scenarios) /\ Len(b) = Len(a) + 1
      BY <1>4, AppendProperties
  <2>2. DOMAIN b = 1..(Len(a) + 1) /\ DOMAIN a = 1..Len(a) /\ \A i \in DOMAIN a : b[i] = a[i]
      BY <1>4, AppendFacts
  <2>3. Len(a) \in Nat
      BY <1>4, LenProperties
  <2> QED
      BY <2>1, <2>2, <2>3
<1>7. anchors' \in [Traces -> Seq(Scenarios)]
  <2>1. anchors' = [x \in Traces |-> anchors'[x]]
      BY <1>1, <1>3
  <2>2. \A x \in Traces : anchors'[x] \in Seq(Scenarios)
    <3> HIDE DEF b
    <3> QED
        BY <1>3, <1>5, <1>6
  <2> QED
      BY <2>1, <2>2
<1>8. \A x \in Traces : Len(anchors'[x]) <= MaxAnchors
  <2>1. Len(a) \in Nat /\ MaxAnchors \in Nat
      BY <1>4, LenProperties, ReviewAssumption
  <2>2. Len(b) <= MaxAnchors
    <3> HIDE DEF b
    <3> QED
        BY <1>2, <1>6, <2>1
  <2> HIDE DEF b
  <2> QED
      BY <1>3, <1>5, <2>2
<1>9. AnchorsGrow(anchors, anchors')
  <2>1. SUFFICES ASSUME NEW x \in Traces
                 PROVE  /\ DOMAIN anchors[x] \subseteq DOMAIN anchors'[x]
                        /\ \A i \in DOMAIN anchors[x] : anchors'[x][i] = anchors[x][i]
      BY DEF AnchorsGrow
  <2> HIDE DEF b
  <2> QED
      BY <1>5, <1>6
<1>10. NotesGood(anchors', sets, notes)
    BY <1>9, NotesOutlive DEF IInv
<1>11. \A c \in Clients : TaskGood(runs, anchors', sets, notes, task[c])
    BY <1>9, NothingGrows, TaskKept DEF IInv
<1>12. BaseInv'
    BY <1>2, <1>7, <1>8 DEF IInv, BaseInv
<1>13. IInv'
    BY <1>2, <1>10, <1>11, <1>12 DEF IInv
<1>14. Respects
    BY <1>2, NothingGrows DEF Respects
<1> QED
    BY <1>13, <1>14

LEMMA AskCompareKeeps ==
    ASSUME IInv, NEW c \in Clients, AskCompare(c)
    PROVE  IInv' /\ Respects
<1>1. PICK q \in Comparisons : /\ ValidComparison(q) /\ Range(q.ids) \subseteq runs
                               /\ task' = [task EXCEPT ![c] = [kind |-> "compare", request |-> q]]
    BY DEF AskCompare, Asks
<1> DEFINE new == [kind |-> "compare", request |-> q]
<1>2. new.kind = "compare" /\ new.request = q
    OBVIOUS
<1> HIDE DEF new
<1>3. TaskGood(runs, anchors, sets, notes, new)
    BY <1>1, <1>2 DEF TaskGood, Made
<1>4. UNCHANGED <<runs, sets, notes, anchors>> /\ task' = [task EXCEPT ![c] = new]
    BY <1>1 DEF AskCompare, new
<1> QED
    BY <1>3, <1>4, OnlyTheTask

LEMMA FailsKeeps ==
    ASSUME IInv, NEW c \in Clients, Fails(c)
    PROVE  IInv' /\ Respects
BY NoTaskGood, OnlyTheTask DEF Fails, Answered

\* The references and facts that a request reads of a trace are about it.
LEMMA TraceIsRead ==
    ASSUME IInv, NEW t \in Traces
    PROVE  /\ AboutTrace(anchors, t, TraceRefs(t), TraceFacts(t))
           /\ TraceRefs(t).anchors = DOMAIN anchors[t] /\ TraceFacts(t).anchors = DOMAIN anchors[t]
<1> DEFINE refs == TraceRefs(t)
           facts == TraceFacts(t)
           all == DOMAIN anchors[t]
<1>1. all \subseteq 1..MaxAnchors
  <2>1. anchors[t] \in Seq(Scenarios) /\ Len(anchors[t]) <= MaxAnchors
      BY DEF IInv, BaseInv
  <2> DEFINE a == anchors[t]
  <2> HIDE DEF a
  <2>2. DOMAIN a = 1..Len(a) /\ Len(a) \in Nat
      BY <2>1, LenProperties DEF a
  <2>3. Len(a) <= MaxAnchors /\ MaxAnchors \in Nat
      BY <2>1, ReviewAssumption DEF a
  <2> QED
      BY <2>2, <2>3 DEF a
<1>2. refs = [anchors |-> all, scenarios |-> {i \in all : anchors[t][i] # Absent}]
      /\ facts = [anchors |-> all]
    BY DEF TraceRefs, TraceFacts
<1> HIDE DEF refs, facts, all
<1>3. {i \in all : anchors[t][i] # Absent} \in SUBSET (1..MaxAnchors)
    BY <1>1
<1>4. refs \in TypeRefs /\ facts \in [anchors : SUBSET (1..MaxAnchors)]
    BY <1>1, <1>2, <1>3 DEF TypeRefs
<1>5. /\ refs.anchors = all /\ facts.anchors = all
      /\ refs.scenarios = {i \in all : anchors[t][i] # Absent}
    BY <1>2
<1> QED
    BY <1>4, <1>5 DEF AboutTrace, AnchorRefs, refs, facts, all

LEMMA AskTraceNotesKeeps ==
    ASSUME IInv, NEW c \in Clients, AskTraceNotes(c)
    PROVE  IInv' /\ Respects
<1>1. PICK t \in Traces :
          task' = [task EXCEPT ![c] = [kind |-> "seed", entity |-> <<"debug_trace", t>>,
                                       refs |-> TraceRefs(t), facts |-> TraceFacts(t)]]
    BY DEF AskTraceNotes, Asks
<1> DEFINE new == [kind |-> "seed", entity |-> <<"debug_trace", t>>,
                   refs |-> TraceRefs(t), facts |-> TraceFacts(t)]
<1>2. /\ new.kind = "seed" /\ new.entity = <<"debug_trace", t>>
      /\ new.refs = TraceRefs(t) /\ new.facts = TraceFacts(t)
    OBVIOUS
<1>3. UNCHANGED <<runs, sets, notes, anchors>> /\ task' = [task EXCEPT ![c] = new]
    BY <1>1 DEF AskTraceNotes
<1> HIDE DEF new
<1>4. About(anchors, sets, new.entity, new.refs, new.facts) /\ new.facts.anchors = new.refs.anchors
    BY <1>2, TraceIsRead DEF About
<1>5. TaskGood(runs, anchors, sets, notes, new)
    BY <1>2, <1>4 DEF TaskGood, SeedTask
<1> QED
    BY <1>3, <1>5, OnlyTheTask

\* A request for a note, with what it has read of its subject.
LEMMA AskNoteKeeps ==
    ASSUME IInv, NEW c \in Clients, UNCHANGED <<runs, sets, notes, anchors>>,
           NEW entity, NEW types, types \subseteq TraceNoteTypes \union CompareNoteTypes,
           NEW refs, NEW facts, About(anchors, sets, entity, refs, facts),
           \A i \in DOMAIN notes : notes[i].entity = entity =>
               About(anchors, sets, entity, refs, notes[i].facts),
           AskNote(c, entity, types, refs, facts)
    PROVE  IInv' /\ Respects
<1>1. PICK w \in NoteWrites, id \in {0} \union DOMAIN notes :
          /\ w.type \in types
          /\ id # 0 => Editable(entity, id)
          /\ task' = [task EXCEPT ![c] = [kind |-> "note", entity |-> entity, id |-> id,
                                          write |-> w, refs |-> refs, facts |-> facts]]
    BY DEF AskNote, Asks
<1> DEFINE new == [kind |-> "note", entity |-> entity, id |-> id, write |-> w,
                   refs |-> refs, facts |-> facts]
<1>2. /\ new.kind = "note" /\ new.entity = entity /\ new.id = id /\ new.write = w
      /\ new.refs = refs /\ new.facts = facts
    OBVIOUS
<1>3. task' = [task EXCEPT ![c] = new]
    BY <1>1
<1> HIDE DEF new
<1>4. ASSUME id # 0
      PROVE  UpdateTask(anchors, sets, notes, new)
  <2>1. id \in DOMAIN notes /\ notes[id].entity = entity /\ notes[id].source # "system"
      BY <1>1, <1>4 DEF Editable
  <2>2. About(anchors, sets, entity, refs, notes[id].facts)
      BY <2>1
  <2> QED
      BY <1>2, <2>1, <2>2 DEF UpdateTask
<1>5. NoteTask(anchors, sets, notes, new)
  <2>1. w \in NoteWrites /\ w.type \in TraceNoteTypes \union CompareNoteTypes
      BY <1>1
  <2> QED
      BY <1>2, <1>4, <2>1 DEF NoteTask
<1>6. TaskGood(runs, anchors, sets, notes, new)
    BY <1>2, <1>5 DEF TaskGood
<1> QED
    BY <1>3, <1>6, OnlyTheTask

LEMMA AskTraceNoteKeeps ==
    ASSUME IInv, NEW c \in Clients, AskTraceNote(c)
    PROVE  IInv' /\ Respects
<1>1. PICK t \in Traces : AskNote(c, <<"debug_trace", t>>, TraceNoteTypes, TraceRefs(t), TraceFacts(t))
    BY DEF AskTraceNote
<1> DEFINE entity == <<"debug_trace", t>>
           refs == TraceRefs(t)
           facts == TraceFacts(t)
<1>2. AboutTrace(anchors, t, refs, facts) /\ refs.anchors = DOMAIN anchors[t]
    BY TraceIsRead
<1> HIDE DEF refs, facts
<1>3. About(anchors, sets, entity, refs, facts)
    BY <1>2 DEF About
<1>4. ASSUME NEW i \in DOMAIN notes, notes[i].entity = entity
      PROVE  About(anchors, sets, entity, refs, notes[i].facts)
  <2>1. About(anchors, sets, entity, notes[i].refs, notes[i].facts)
      BY <1>4 DEF IInv, NotesGood, NoteGood
  <2>2. AboutTrace(anchors, t, notes[i].refs, notes[i].facts)
    <3>1. \A u \in Traces : <<"debug_trace", u>> = entity => u = t
        OBVIOUS
    <3>2. \A j \in DOMAIN sets : <<"compare_set", j>> # entity
        OBVIOUS
    <3> HIDE DEF entity
    <3> QED
        BY <2>1, <3>1, <3>2 DEF About
  <2>3. /\ notes[i].facts \in [anchors : SUBSET (1..MaxAnchors)]
        /\ notes[i].facts.anchors \subseteq DOMAIN anchors[t]
      BY <2>2 DEF AboutTrace, AnchorRefs
  <2>4. AboutTrace(anchors, t, refs, notes[i].facts)
      BY <1>2, <2>3 DEF AboutTrace
  <2> QED
      BY <2>4 DEF About
<1>5. UNCHANGED <<runs, sets, notes, anchors>>
    BY DEF AskTraceNote
<1>6. AskNote(c, entity, TraceNoteTypes, refs, facts)
    BY <1>1 DEF refs, facts
<1> HIDE DEF entity
<1> QED
    BY <1>3, <1>4, <1>5, <1>6, AskNoteKeeps

LEMMA AskCompareNoteKeeps ==
    ASSUME IInv, NEW c \in Clients, AskCompareNote(c)
    PROVE  IInv' /\ Respects
<1>1. PICK k \in DOMAIN sets :
          AskNote(c, <<"compare_set", k>>, CompareNoteTypes, SetRefs(k), sets[k].snapshot)
    BY DEF AskCompareNote
<1> DEFINE entity == <<"compare_set", k>>
           refs == SetRefs(k)
           facts == sets[k].snapshot
<1>2. AboutSet(sets[k], refs, facts)
    BY DEF SetRefs, RefsOf, AboutSet
<1> HIDE DEF refs
<1>3. About(anchors, sets, entity, refs, facts)
    BY <1>2 DEF About
<1>4. ASSUME NEW i \in DOMAIN notes, notes[i].entity = entity
      PROVE  About(anchors, sets, entity, refs, notes[i].facts)
  <2>1. About(anchors, sets, entity, notes[i].refs, notes[i].facts)
      BY <1>4 DEF IInv, NotesGood, NoteGood
  <2>2. AboutSet(sets[k], notes[i].refs, notes[i].facts)
    <3>1. \A u \in Traces : <<"debug_trace", u>> # entity
        OBVIOUS
    <3>2. \A j \in DOMAIN sets : <<"compare_set", j>> = entity => j = k
        OBVIOUS
    <3> HIDE DEF entity
    <3> QED
        BY <2>1, <3>1, <3>2 DEF About
  <2>3. AboutSet(sets[k], refs, notes[i].facts)
      BY <1>2, <2>2 DEF AboutSet
  <2> QED
      BY <2>3 DEF About
<1>5. UNCHANGED <<runs, sets, notes, anchors>>
    BY DEF AskCompareNote
<1>6. AskNote(c, entity, CompareNoteTypes, refs, facts)
    BY <1>1 DEF refs
<1> HIDE DEF entity, facts
<1> QED
    BY <1>3, <1>4, <1>5, <1>6, AskNoteKeeps

\* A request that writes one note, and the compare set that it is about.
LEMMA OneNoteKeeps ==
    ASSUME IInv, NEW c \in Clients, Answered(c), runs' = runs, anchors' = anchors,
           SetsGood(runs, sets'), SetsGrow(sets, sets'),
           notes' \in Seq(NoteRows), NEW k, NEW row, Written(notes, notes', k, row),
           NoteGood(anchors, sets', row),
           k \in DOMAIN notes => Keeps(notes[k], row),
           k \notin DOMAIN notes =>
               \A i \in DOMAIN notes : ~ (SeedOf(notes[i], row.entity) /\ row.source = "system"),
           \A i \in DOMAIN sets' \ DOMAIN sets : SeedOf(row, <<"compare_set", i>>)
    PROVE  IInv' /\ Respects
<1>1. NotesGood(anchors, sets', notes') /\ NotesKeep(notes, notes')
    BY NotesWritten DEF IInv
<1>2. task' = [task EXCEPT ![c] = NoTask]
    BY DEF Answered
<1>3. /\ \A d \in Clients : TaskGood(runs, anchors, sets', notes', task'[d])
      /\ task' = [d \in Clients |-> task'[d]]
    BY <1>1, <1>2, NothingGrows, NoTaskGood, OthersGoOn
<1>4. IInv'
    BY <1>1, <1>3 DEF IInv, BaseInv
<1>5. Respects
    BY <1>1 DEF Respects
<1> QED
    BY <1>4, <1>5

\* The row of a note about its subject.
LEMMA NoteIsRow ==
    ASSUME NEW A, NEW S \in Seq(SetRows), NEW entity, NEW refs, NEW facts,
           About(A, S, entity, refs, facts),
           NEW type \in TraceNoteTypes \union CompareNoteTypes,
           NEW source \in {"human", "agent", "system"}, NEW status \in Statuses
    PROVE  Note(entity, type, source, status, refs, facts) \in NoteRows
<1>1. entity \in Entities /\ refs \in RefValues /\ facts \in FactValues
  <2> HIDE DEF SetRows
  <2> QED
      BY AboutTypes
<1> DEFINE types == TraceNoteTypes \union CompareNoteTypes
<1>2. type \in types
    OBVIOUS
<1> HIDE DEF types
<1>3. Note(entity, type, source, status, refs, facts) \in
          [entity : Entities, type : types, source : {"human", "agent", "system"},
           status : Statuses, refs : RefValues, facts : FactValues]
    BY <1>1, <1>2 DEF Note
<1> QED
    BY <1>3 DEF NoteRows, types

LEMMA SeedTraceNoteKeeps ==
    ASSUME IInv, NEW c \in Clients, SeedTraceNote(c)
    PROVE  IInv' /\ Respects
<1> DEFINE t == task[c]
           entity == t.entity
           refs == t.refs
           facts == t.facts
           row == Note(entity, "investigation", "system", "draft", refs, facts)
<1>1. /\ t.kind = "seed" /\ Answered(c) /\ UNCHANGED <<runs, sets, anchors>>
      /\ notes' = WithSystemNote(entity, "investigation", refs, facts)
    BY DEF SeedTraceNote
<1>2. SeedTask(anchors, sets, t)
    BY <1>1 DEF IInv, TaskGood
<1>3. PICK x \in Traces : entity = <<"debug_trace", x>>
    BY <1>2 DEF SeedTask
<1>4. About(anchors, sets, entity, refs, facts) /\ facts.anchors = refs.anchors
    BY <1>2 DEF SeedTask
<1>5. SetsGood(runs, sets) /\ sets \in Seq(SetRows) /\ NotesGood(anchors, sets, notes)
    BY DEF IInv, SetsGood
<1> HIDE DEF t, entity, refs, facts
<1>6. /\ row.entity = entity /\ row.type = "investigation" /\ row.source = "system"
      /\ row.status = "draft" /\ row.refs = refs /\ row.facts = facts
    BY DEF Note
<1>7. row \in NoteRows
  <2>1. "investigation" \in TraceNoteTypes \union CompareNoteTypes /\ "draft" \in Statuses
      BY DEF TraceNoteTypes, Statuses
  <2> QED
      BY <1>4, <1>5, <2>1, NoteIsRow
<1>8. SeedGood(row) /\ NoteGood(anchors, sets, row)
  <2>1. SeedGood(row)
    <3>1. entity[1] = "debug_trace"
        BY <1>3
    <3> HIDE DEF row
    <3> QED
        BY <1>4, <1>6, <3>1 DEF SeedGood
  <2> HIDE DEF row
  <2> QED
      BY <1>4, <1>6, <2>1 DEF NoteGood
<1>9. PICK k : /\ notes' \in Seq(NoteRows) /\ Written(notes, notes', k, row)
               /\ k \in DOMAIN notes => Keeps(notes[k], row)
               /\ k \notin DOMAIN notes => \A i \in DOMAIN notes : ~ SeedOf(notes[i], entity)
    BY <1>1, <1>5, <1>7, <1>8, SystemNoteFacts
<1> HIDE DEF row
<1>10. SetsGrow(sets, sets') /\ DOMAIN sets' \ DOMAIN sets = {} /\ sets' = sets
    BY <1>1, NothingGrows
<1> QED
    BY <1>1, <1>5, <1>6, <1>8, <1>9, <1>10, OneNoteKeeps

LEMMA PersistCompareSetKeeps ==
    ASSUME IInv, NEW c \in Clients, PersistCompareSet(c)
    PROVE  IInv' /\ Respects
<1> DEFINE q == task[c].request
           rows == UpsertedSets(q)
           id == SetId(rows, q)
           entity == <<"compare_set", id>>
           refs == [ids |-> rows[id].ids, benchmark |-> rows[id].benchmark]
           facts == rows[id].snapshot
           row == Note(entity, "review", "system", "draft", refs, facts)
<1>1. /\ task[c].kind = "compare" /\ Answered(c) /\ UNCHANGED <<runs, anchors>>
      /\ sets' = rows
      /\ notes' = WithSystemNote(entity, "review", refs, facts)
    BY DEF PersistCompareSet
<1>2. Made(runs, q)
    BY <1>1 DEF IInv, TaskGood
<1>3. SetsGood(runs, sets) /\ NotesGood(anchors, sets, notes)
    BY DEF IInv
<1>4. /\ SetsGood(runs, rows) /\ SetsGrow(sets, rows) /\ id \in DOMAIN rows
      /\ \A i \in DOMAIN rows : i \in DOMAIN sets \/ i = id
    BY <1>2, <1>3, UpsertFacts
<1> HIDE DEF q, rows, id
<1>5. rows \in Seq(SetRows) /\ About(anchors, rows, entity, refs, facts)
    BY <1>4 DEF SetsGood, About, AboutSet, RefsOf
<1>6. entity[1] # "debug_trace"
    BY DEF entity
<1> HIDE DEF refs, facts
<1>7. /\ row.entity = entity /\ row.type = "review" /\ row.source = "system"
      /\ row.status = "draft" /\ row.refs = refs /\ row.facts = facts
    BY DEF Note
<1>8. row \in NoteRows
  <2>1. "review" \in TraceNoteTypes \union CompareNoteTypes /\ "draft" \in Statuses
      BY DEF CompareNoteTypes, Statuses
  <2> HIDE DEF entity
  <2> QED
      BY <1>5, <2>1, NoteIsRow
<1>9. SeedGood(row) /\ NoteGood(anchors, rows, row)
  <2> HIDE DEF row, entity
  <2> QED
      BY <1>5, <1>6, <1>7 DEF SeedGood, NoteGood
<1>10. PICK k : /\ notes' \in Seq(NoteRows) /\ Written(notes, notes', k, row)
                /\ k \in DOMAIN notes => Keeps(notes[k], row)
                /\ k \notin DOMAIN notes => \A i \in DOMAIN notes : ~ SeedOf(notes[i], entity)
  <2> HIDE DEF entity
  <2> QED
      BY <1>1, <1>3, <1>8, <1>9, SystemNoteFacts
<1> HIDE DEF row
<1>11. \A i \in DOMAIN sets' \ DOMAIN sets : SeedOf(row, <<"compare_set", i>>)
    BY <1>1, <1>4, <1>7 DEF SeedOf
<1> HIDE DEF entity
<1> QED
    BY <1>1, <1>4, <1>7, <1>9, <1>10, <1>11, OneNoteKeeps

LEMMA SaveNoteKeeps ==
    ASSUME IInv, NEW c \in Clients, SaveNote(c)
    PROVE  IInv' /\ Respects
<1> DEFINE t == task[c]
<1>1. /\ t.kind = "note" /\ Answered(c) /\ UNCHANGED <<runs, sets, anchors>>
      /\ notes' = IF t.id = 0
                  THEN Append(notes, Note(t.entity, t.write.type, t.write.source,
                                          t.write.status, t.refs, t.facts))
                  ELSE [notes EXCEPT ![t.id] = Updated(@, t)]
    BY DEF SaveNote
<1>2. NoteTask(anchors, sets, notes, t)
    BY <1>1 DEF IInv, TaskGood
<1>3. /\ SetsGood(runs, sets) /\ sets \in Seq(SetRows) /\ NotesGood(anchors, sets, notes)
      /\ notes \in Seq(NoteRows)
    BY DEF IInv, SetsGood, NotesGood
<1> HIDE DEF t
<1>4. /\ t.write.source \in {"human", "agent"} /\ t.write.status \in Statuses
      /\ t.write.type \in TraceNoteTypes \union CompareNoteTypes
      /\ About(anchors, sets, t.entity, t.refs, t.facts)
    BY <1>2, ReviewAssumption DEF NoteTask, Statuses
<1>5. SetsGrow(sets, sets') /\ DOMAIN sets' \ DOMAIN sets = {} /\ sets' = sets
    BY <1>1, NothingGrows
<1>6. CASE t.id = 0
  <2> DEFINE row == Note(t.entity, t.write.type, t.write.source, t.write.status, t.refs, t.facts)
  <2>1. /\ row.entity = t.entity /\ row.source = t.write.source
        /\ row.refs = t.refs /\ row.facts = t.facts
      BY DEF Note
  <2>2. row \in NoteRows
      BY <1>3, <1>4, NoteIsRow
  <2>3. notes' = Append(notes, row)
      BY <1>1, <1>6
  <2> HIDE DEF row
  <2>4. NoteGood(anchors, sets, row) /\ row.source # "system"
      BY <1>4, <2>1 DEF NoteGood, SeedGood
  <2>5. notes' \in Seq(NoteRows) /\ Written(notes, notes', Len(notes) + 1, row)
      BY <1>3, <2>2, <2>3, AppendIsWritten
  <2>6. Len(notes) + 1 \notin DOMAIN notes
      BY <1>3, LenProperties
  <2> QED
      BY <1>1, <1>3, <1>5, <2>4, <2>5, <2>6, OneNoteKeeps
<1>7. CASE t.id # 0
  <2> DEFINE k == t.id
             old == notes[k]
             row == Updated(old, t)
  <2>1. UpdateTask(anchors, sets, notes, t)
      BY <1>2, <1>7 DEF NoteTask
  <2>2. /\ k \in DOMAIN notes /\ old.entity = t.entity /\ old.source # "system"
        /\ About(anchors, sets, t.entity, t.refs, old.facts)
      BY <2>1 DEF UpdateTask
  <2>3. old \in NoteRows
    <3> HIDE DEF k
    <3> QED
        BY <1>3, <2>2, LenProperties, ElementOfSeq
  <2>4. notes' = [notes EXCEPT ![k] = row]
      BY <1>1, <1>7
  <2> HIDE DEF old
  <2>5. t.refs \in RefValues
    <3> HIDE DEF SetRows
    <3> QED
        BY <1>3, <1>4, AboutTypes
  <2>6. /\ row \in NoteRows /\ row.entity = old.entity /\ row.type = old.type
        /\ row.source = t.write.source /\ row.refs = t.refs /\ row.facts = old.facts
    <3> DEFINE types == TraceNoteTypes \union CompareNoteTypes
               source == t.write.source
               status == t.write.status
               refs == t.refs
    <3>1. /\ old \in [entity : Entities, type : types, source : {"human", "agent", "system"},
                      status : Statuses, refs : RefValues, facts : FactValues]
          /\ row = [old EXCEPT !.status = status, !.source = source, !.refs = refs]
        BY <2>3 DEF NoteRows, Updated
    <3>2. source \in {"human", "agent", "system"} /\ status \in Statuses /\ refs \in RefValues
        BY <1>4, <2>5
    <3> HIDE DEF types, source, status, refs, row
    <3>3. row \in [entity : Entities, type : types, source : {"human", "agent", "system"},
                   status : Statuses, refs : RefValues, facts : FactValues]
        BY <3>1, <3>2
    <3>4. /\ row.entity = old.entity /\ row.type = old.type /\ row.source = source
          /\ row.refs = refs /\ row.facts = old.facts
        BY <3>1
    <3> QED
        BY <3>3, <3>4 DEF NoteRows, types, source, refs
  <2> HIDE DEF row, k
  <2>7. NoteGood(anchors, sets, row) /\ row.source # "system"
      BY <1>4, <2>2, <2>6 DEF NoteGood, SeedGood
  <2>8. Keeps(old, row)
      BY <2>2, <2>6, <2>7 DEF Keeps
  <2>9. notes' \in Seq(NoteRows) /\ Written(notes, notes', k, row)
      BY <1>3, <2>2, <2>4, <2>6, ReplaceIsWritten
  <2> QED
      BY <1>1, <1>3, <1>5, <2>2, <2>7, <2>8, <2>9, OneNoteKeeps DEF old
<1> QED
    BY <1>6, <1>7

LEMMA NextKeeps == IInv /\ Next => IInv' /\ Respects
<1>1. SUFFICES ASSUME IInv, Next
               PROVE  IInv' /\ Respects
    OBVIOUS
<1>2. CASE RunFinishes
    BY <1>1, <1>2, RunFinishesKeeps
<1>3. CASE \E t \in Traces : AddAnchor(t)
    BY <1>1, <1>3, AddAnchorKeeps
<1>4. ASSUME NEW c \in Clients,
             \/ AskCompare(c) \/ PersistCompareSet(c)
             \/ AskTraceNotes(c) \/ SeedTraceNote(c)
             \/ AskTraceNote(c) \/ AskCompareNote(c) \/ SaveNote(c)
             \/ Fails(c)
      PROVE  IInv' /\ Respects
    BY <1>1, <1>4, AskCompareKeeps, PersistCompareSetKeeps, AskTraceNotesKeeps,
       SeedTraceNoteKeeps, AskTraceNoteKeeps, AskCompareNoteKeeps, SaveNoteKeeps, FailsKeeps
<1> QED
    BY <1>1, <1>2, <1>3, <1>4 DEF Next

\* The inductive invariant holds, whatever requests run at once.
THEOREM Invariance == Spec => []IInv
<1>1. IInv /\ UNCHANGED vars => IInv'
    BY DEF IInv, BaseInv, vars
<1>2. IInv /\ [Next]_vars => IInv'
    BY <1>1, NextKeeps
<1> QED
    BY <1>2, Initially, PTL DEF Spec

\* Compare sets are of two runs or more, each once; notes are about traces and
\* compare sets that there are.
THEOREM TypesHold == Spec => []TypeOK
<1>1. ASSUME IInv
      PROVE  TypeOK
  <2>1. BaseInv /\ SetsGood(runs, sets) /\ NotesGood(anchors, sets, notes)
      BY <1>1 DEF IInv
  <2>2. ASSUME NEW i \in DOMAIN sets
        PROVE  /\ IsInjective(sets[i].ids) /\ Len(sets[i].ids) >= 2
               /\ Range(sets[i].ids) \subseteq runs
               /\ sets[i].benchmark \in Range(sets[i].ids) \union {Absent}
    <3>1. PICK q \in Comparisons : Made(runs, q) /\ sets[i] = SetRow(q)
        BY <2>1 DEF SetsGood
    <3>2. /\ ValidComparison(q) /\ Range(q.ids) \subseteq runs
        BY <3>1 DEF Made
    <3>3. /\ sets[i].ids = Deduped(q.ids) /\ IsInjective(sets[i].ids)
          /\ Range(sets[i].ids) = Range(q.ids) /\ sets[i].benchmark = q.benchmark
        BY <3>1, RowFacts
    <3> QED
        BY <3>2, <3>3 DEF ValidComparison
  <2>3. ASSUME NEW i \in DOMAIN notes
        PROVE  /\ notes[i].entity \in Subjects
               /\ notes[i].source \in {"human", "agent", "system"}
               /\ (notes[i].source = "system") => (notes[i].status = "draft")
               /\ notes[i].entity[1] = "debug_trace" => notes[i].refs \in TypeRefs
    <3> DEFINE n == notes[i]
    <3>1. About(anchors, sets, n.entity, n.refs, n.facts) /\ SeedGood(n)
        BY <2>1 DEF NotesGood, NoteGood
    <3>2. n \in NoteRows
        BY <2>1, LenProperties, ElementOfSeq DEF NotesGood
    <3> HIDE DEF n
    <3>3. n.source \in {"human", "agent", "system"}
        BY <3>2 DEF NoteRows
    <3>4. n.entity \in Subjects
        BY <3>1 DEF About, Subjects
    <3>5. n.entity[1] = "debug_trace" => n.refs \in TypeRefs
        BY <3>1 DEF About, AboutTrace, AnchorRefs
    <3>6. (n.source = "system") => (n.status = "draft")
        BY <3>1 DEF SeedGood
    <3> QED
        BY <3>3, <3>4, <3>5, <3>6 DEF n
  <2>4. anchors \in [Traces -> UNION {[1..n -> Scenarios] : n \in 0..MaxAnchors}]
    <3> DEFINE U == UNION {[1..n -> Scenarios] : n \in 0..MaxAnchors}
    <3>1. ASSUME NEW t \in Traces
          PROVE  anchors[t] \in U
      <4> DEFINE a == anchors[t]
      <4>1. a \in Seq(Scenarios) /\ Len(a) <= MaxAnchors /\ MaxAnchors \in Nat
          BY <2>1, ReviewAssumption DEF BaseInv
      <4> HIDE DEF a
      <4>2. Len(a) \in 0..MaxAnchors /\ a \in [1..Len(a) -> Scenarios]
          BY <4>1, LenProperties
      <4> QED
          BY <4>2 DEF a
    <3>2. anchors = [t \in Traces |-> anchors[t]]
        BY <2>1 DEF BaseInv
    <3> HIDE DEF U
    <3>3. anchors \in [Traces -> U]
        BY <3>1, <3>2
    <3> QED
        BY <3>3 DEF U
  <2>5. DOMAIN task = Clients /\ runs \subseteq RunIds /\ FinishedRuns \subseteq runs
      BY <2>1 DEF BaseInv
  <2> QED
      BY <2>2, <2>3, <2>4, <2>5 DEF TypeOK
<1> QED
    BY <1>1, Invariance, PTL

\* Authors keep their notes, and a request changes one note at most.
THEOREM AuthorsKeep == Spec => AuthorsKeepTheirNotes
<1> DEFINE changed == {i \in DOMAIN notes' : i \notin DOMAIN notes \/ notes'[i] # notes[i]}
           Kept == /\ Len(notes') >= Len(notes) /\ Len(sets') >= Len(sets)
                   /\ \A i \in DOMAIN notes :
                          LET old == notes[i]  new == notes'[i]
                          IN  /\ new.entity = old.entity /\ new.type = old.type
                              /\ (new.source = "system") = (old.source = "system")
                              /\ old.source # "system" => new.facts = old.facts
                   /\ Cardinality(changed) <= 1
                   /\ \A i \in DOMAIN sets : \A f \in {"name", "ids", "benchmark", "snapshot"} :
                          sets'[i][f] = sets[i][f]
<1>1. ASSUME IInv, IInv', Next
      PROVE  Kept
  <2>1. Respects
      BY <1>1, NextKeeps
  <2>2. SetsGrow(sets, sets') /\ NotesKeep(notes, notes')
        /\ (notes' = notes \/ \E k, row : Written(notes, notes', k, row))
      BY <2>1 DEF Respects
  <2>3. /\ notes \in Seq(NoteRows) /\ notes' \in Seq(NoteRows)
        /\ sets \in Seq(SetRows) /\ sets' \in Seq(SetRows)
      BY <1>1 DEF IInv, NotesGood, SetsGood
  <2>4. Len(notes') >= Len(notes) /\ Len(sets') >= Len(sets)
    <3>1. DOMAIN notes \subseteq DOMAIN notes' /\ DOMAIN sets \subseteq DOMAIN sets'
        BY <2>2 DEF NotesKeep, SetsGrow
    <3>2. ASSUME NEW X, NEW a \in Seq(X), NEW b \in Seq(X), DOMAIN a \subseteq DOMAIN b
          PROVE  Len(b) >= Len(a)
      <4>1. /\ DOMAIN a = 1..Len(a) /\ DOMAIN b = 1..Len(b)
            /\ Len(a) \in Nat /\ Len(b) \in Nat
          BY LenProperties
      <4>2. CASE Len(a) = 0
          BY <4>1, <4>2
      <4>3. CASE Len(a) # 0
        <5>1. Len(a) \in DOMAIN b
            BY <3>2, <4>1, <4>3
        <5> QED
            BY <4>1, <5>1
      <4> QED
          BY <4>2, <4>3
    <3> HIDE DEF SetRows, NoteRows
    <3> QED
        BY <2>3, <3>1, <3>2
  <2>5. \A i \in DOMAIN notes : Keeps(notes[i], notes'[i])
      BY <2>2 DEF NotesKeep
  <2>6. Cardinality(changed) <= 1
    <3>1. CASE notes' = notes
      <4>1. changed = {}
          BY <3>1
      <4> HIDE DEF changed
      <4> QED
          BY <4>1, FS_EmptySet
    <3>2. CASE \E k, row : Written(notes, notes', k, row)
      <4>1. PICK k : \E row : Written(notes, notes', k, row)
          BY <3>2
      <4>2. changed \subseteq {k}
          BY <4>1 DEF Written
      <4> HIDE DEF changed
      <4>3. Cardinality(changed) <= Cardinality({k}) /\ Cardinality({k}) = 1
          BY <4>2, FS_Singleton, FS_Subset
      <4> QED
          BY <4>3
    <3> QED
        BY <2>2, <3>1, <3>2
  <2>7. \A i \in DOMAIN sets : \A f \in {"name", "ids", "benchmark", "snapshot"} :
            sets'[i][f] = sets[i][f]
      BY <2>2 DEF SetsGrow
  <2> HIDE DEF changed
  <2> QED
      BY <2>4, <2>5, <2>6, <2>7 DEF Keeps
<1>2. AuthorsKeepTheirNotes <=> [][Kept]_vars
    BY DEF AuthorsKeepTheirNotes
<1> HIDE DEF Kept
<1>3. IInv /\ IInv' /\ [Next]_vars => [Kept]_vars
    BY <1>1
<1> QED
    BY <1>2, <1>3, Invariance, PTL DEF Spec

-----------------------------------------------------------------------------
(* The overview of a run *)

\* There are no more images than elements.
LEMMA FewerImages ==
    ASSUME NEW I, IsFiniteSet(I), NEW f, NEW T, T = {f[i] : i \in I}
    PROVE  IsFiniteSet(T) /\ Cardinality(T) <= Cardinality(I)
<1> DEFINE g == [i \in I |-> f[i]]
<1>1. g \in [I -> T] /\ \A x \in T : \E i \in I : g[i] = x
    OBVIOUS
<1> HIDE DEF g
<1>2. g \in Surjection(I, T)
    BY <1>1 DEF Surjection
<1> QED
    BY <1>2, FS_Surjection

\* The elements that have a value.
Having(I, v, k) == {i \in I : v[i] = k}

\* Counting by value counts each element once.
LEMMA CountsByValue ==
    ASSUME NEW I, IsFiniteSet(I), NEW K, IsFiniteSet(K),
           NEW v, \A i \in I : v[i] \in K,
           NEW g, \A k \in K : g[k] = Cardinality(Having(I, v, k))
    PROVE  Total(g, K) = Cardinality(I)
<1> DEFINE Of(s) == {i \in I : v[i] \in s}
           With(k) == {i \in I : v[i] = k}
           Bad(s) == Total(g, s) # Cardinality(Of(s))
           D == {m \in Nat : \E s \in SUBSET K : Cardinality(s) = m /\ Bad(s)}
<1>1. \A k \in K : g[k] = Cardinality(With(k)) /\ g[k] \in Int
  <2>1. SUFFICES ASSUME NEW k \in K
                 PROVE  g[k] = Cardinality(With(k)) /\ g[k] \in Int
      OBVIOUS
  <2>2. With(k) \subseteq I /\ g[k] = Cardinality(With(k))
      BY DEF Having
  <2> HIDE DEF With
  <2> QED
      BY <2>2, FS_Subset, FS_CardinalityType
<1>2. \A s \in SUBSET K : IsFiniteSet(s) /\ IsFiniteSet(Of(s)) /\ \A k \in s : g[k] \in Int
  <2>1. \A s \in SUBSET K : Of(s) \subseteq I
      OBVIOUS
  <2> HIDE DEF Of
  <2> QED
      BY <2>1, <1>1, FS_Subset
<1>3. SUFFICES ASSUME NEW t \in SUBSET K, Bad(t)
               PROVE  FALSE
  <2>1. ~ Bad(K)
      BY <1>3
  <2>2. Of(K) = I
      OBVIOUS
  <2> QED
      BY <2>1, <2>2
<1>4. Cardinality(t) \in D /\ D \subseteq Nat
  <2>1. Cardinality(t) \in Nat
      BY FS_Subset, FS_CardinalityType
  <2> HIDE DEF Bad
  <2> QED
      BY <2>1, <1>3
<1>5. PICK m \in D : \A k \in D : m <= k
  <2> HIDE DEF D
  <2> QED
      BY <1>4, LeastNatural
<1>6. PICK s \in SUBSET K : Cardinality(s) = m /\ Bad(s)
    BY <1>5
<1>7. CASE s = {}
  <2>1. Of(s) = {}
      BY <1>7
  <2>2. Total(g, s) = 0
      BY <1>2, <1>7, TotalFacts
  <2> HIDE DEF Of
  <2> QED
      BY <1>6, <2>1, <2>2, FS_EmptySet
<1>8. CASE s # {}
  <2>1. PICK x \in s : TRUE
      BY <1>8
  <2> DEFINE r == s \ {x}
  <2>2. Total(g, s) = g[x] + Total(g, r)
      BY <1>2, TotalFacts
  <2>3. r \in SUBSET K /\ Cardinality(r) \in Nat /\ Cardinality(r) = m - 1 /\ m \in Nat
      BY <1>6, OneLess
  <2>4. Of(s) = Of(r) \union With(x) /\ Of(r) \intersect With(x) = {}
      OBVIOUS
  <2> HIDE DEF r, Of, With
  <2>5. ~ Bad(r)
    <3>1. SUFFICES ASSUME Bad(r) PROVE FALSE
        OBVIOUS
    <3> HIDE DEF Bad
    <3>2. Cardinality(r) \in D
        BY <2>3, <3>1
    <3> HIDE DEF D
    <3>3. m <= Cardinality(r)
        BY <3>2, <1>5
    <3> QED
        BY <2>3, <3>3
  <2>6. IsFiniteSet(Of(r)) /\ IsFiniteSet(With(x))
    <3>1. With(x) \subseteq I
        BY DEF With
    <3> QED
        BY <1>2, <2>3, <3>1, FS_Subset
  <2>7. Cardinality(Of(s)) = Cardinality(Of(r)) + Cardinality(With(x))
    <3> DEFINE a == Cardinality(Of(r))
               b == Cardinality(With(x))
    <3>1. Cardinality(Of(s)) = a + b - Cardinality({})
        BY <2>4, <2>6, FS_Union
    <3>2. Cardinality({}) = 0 /\ a \in Nat /\ b \in Nat
        BY <2>6, FS_EmptySet, FS_CardinalityType
    <3> HIDE DEF a, b
    <3>3. Cardinality(Of(s)) = a + b
        BY <3>1, <3>2
    <3> QED
        BY <3>3 DEF a, b
  <2>8. Cardinality(Of(s)) = Total(g, s)
    <3>1. Total(g, r) = Cardinality(Of(r)) /\ Cardinality(Of(r)) \in Nat
        BY <2>5, <2>6, FS_CardinalityType
    <3>2. g[x] = Cardinality(With(x)) /\ g[x] \in Int
        BY <1>1, <2>1
    <3> QED
        BY <2>2, <2>7, <3>1, <3>2
  <2> QED
      BY <1>6, <2>8
<1> QED
    BY <1>7, <1>8

\* The overview's sum is the total of its counts.
LEMMA SumOfCounts ==
    ASSUME NEW b, IsFiniteSet(DOMAIN b), \A s \in DOMAIN b : b[s] \in Int
    PROVE  MapThenSumSet(LAMBDA s : b[s], DOMAIN b) = Total(b, DOMAIN b)
<1> DEFINE any(s) == CHOOSE x \in s : TRUE
           S == DOMAIN b
           Loop(j) == j = [s \in SUBSET S |-> IF s = {} THEN 0 ELSE b[any(s)] + j[s \ {any(s)}]]
           it == CHOOSE j : Loop(j)
<1>1. MapThenSumSet(LAMBDA s : b[s], DOMAIN b) = it[S]
    BY DEF MapThenSumSet, MapThenFoldSet
<1>2. ASSUME NEW j
      PROVE  IsSum(j, b, S) <=> Loop(j)
    BY DEF IsSum
<1> HIDE DEF Loop
<1>3. PICK j : Loop(j)
    BY <1>2, SumExists
<1>4. Loop(it)
    BY <1>3
<1> HIDE DEF it
<1>5. it[S] = Total(b, S)
    BY <1>2, <1>4, LoopComputesTotal
<1> QED
    BY <1>1, <1>5

\* The overview counts each note of the run's traces once and in one source, no
\* more traces with notes than traces or notes, and the seeds as unresolved.
OverviewIsTrue(r) ==
    LET o == Overview(r)
    IN  /\ o.notes = MapThenSumSet(LAMBDA s : o.bySource[s], DOMAIN o.bySource)
        /\ o.withNotes <= o.traces /\ o.withNotes <= o.notes
        /\ Cardinality({t \in Traces : TraceRun[t] = r /\ Seeds("debug_trace", t) # {}})
               <= o.unresolved

LEMMA OverviewFacts ==
    ASSUME IInv, NEW r
    PROVE  OverviewIsTrue(r)
<1> DEFINE items == NotesOfRun(r)
           o == Overview(r)
           sources == {notes[i].source : i \in items}
           counts == [s \in sources |-> Cardinality({i \in items : notes[i].source = s})]
           closed == {"resolved", "accepted", "rejected"}
           open == {i \in items : notes[i].status \notin closed}
           ofRun == {t \in Traces : TraceRun[t] = r}
           noted == {notes[i].entity[2] : i \in items}
           seeded == {t \in Traces : TraceRun[t] = r /\ Seeds("debug_trace", t) # {}}
           seeds == {i \in items : notes[i].source = "system"}
<1>1. /\ o.traces = Cardinality(ofRun) /\ o.withNotes = Cardinality(noted)
      /\ o.notes = Cardinality(items) /\ o.unresolved = Cardinality(open)
      /\ o.bySource = counts
    BY DEF Overview
<1>2. items \subseteq DOMAIN notes /\ IsFiniteSet(items)
  <2>1. notes \in Seq(NoteRows)
      BY DEF IInv, NotesGood
  <2>2. IsFiniteSet(DOMAIN notes)
      BY <2>1, LenProperties, FS_Interval
  <2>3. items \subseteq DOMAIN notes
      BY DEF NotesOfRun
  <2> HIDE DEF items
  <2> QED
      BY <2>2, <2>3, FS_Subset
<1>3. ASSUME NEW i \in items
      PROVE  notes[i].entity[2] \in ofRun
  <2>1. /\ i \in DOMAIN notes /\ notes[i].entity[1] = "debug_trace"
        /\ TraceRun[notes[i].entity[2]] = r
      BY <1>3 DEF NotesOfRun
  <2>2. About(anchors, sets, notes[i].entity, notes[i].refs, notes[i].facts)
      BY <2>1 DEF IInv, NotesGood, NoteGood
  <2>3. \E t \in Traces : notes[i].entity = <<"debug_trace", t>>
      BY <2>1, <2>2 DEF About
  <2> QED
      BY <2>1, <2>3
<1>4. ASSUME NEW t \in seeded
      PROVE  \E i \in seeds : notes[i].entity[2] = t
  <2>1. t \in Traces /\ TraceRun[t] = r
      BY <1>4
  <2>2. PICK i \in DOMAIN notes : notes[i].entity = <<"debug_trace", t>> /\ notes[i].source = "system"
      BY <1>4 DEF Seeds, NotesOf
  <2>3. notes[i].entity[1] = "debug_trace" /\ notes[i].entity[2] = t
      BY <2>2
  <2>4. i \in items
      BY <2>1, <2>2, <2>3 DEF NotesOfRun
  <2> QED
      BY <2>2, <2>3, <2>4
<1>5. seeds \subseteq open
  <2>1. SUFFICES ASSUME NEW i \in seeds
                 PROVE  i \in open
      OBVIOUS
  <2>2. i \in items /\ notes[i].source = "system"
      OBVIOUS
  <2>3. i \in DOMAIN notes
      BY <1>2, <2>2
  <2>4. notes[i].status = "draft"
      BY <2>2, <2>3 DEF IInv, NotesGood, NoteGood, SeedGood
  <2> QED
      BY <2>2, <2>4
<1>6. open \subseteq items /\ seeds \subseteq items
    OBVIOUS
<1> HIDE DEF items, o
<1>7. Cardinality(noted) <= Cardinality(ofRun) /\ Cardinality(noted) <= Cardinality(items)
  <2>1. noted \subseteq ofRun /\ ofRun \subseteq Traces
      BY <1>3
  <2>2. IsFiniteSet(ofRun)
    <3> HIDE DEF ofRun
    <3> QED
        BY <2>1, ReviewAssumption, FS_Subset
  <2> DEFINE f == [i \in items |-> notes[i].entity[2]]
  <2>3. noted = {f[i] : i \in items}
      OBVIOUS
  <2> HIDE DEF noted, ofRun, f
  <2> QED
      BY <1>2, <2>1, <2>2, <2>3, FewerImages, FS_Subset
<1>8. Cardinality(seeded) <= Cardinality(open)
  <2> DEFINE f == [i \in seeds |-> notes[i].entity[2]]
             T == {f[i] : i \in seeds}
  <2>1. seeded \subseteq T
      BY <1>4
  <2> HIDE DEF seeded, seeds, open, f
  <2>2. IsFiniteSet(open) /\ IsFiniteSet(seeds) /\ Cardinality(seeds) <= Cardinality(open)
      BY <1>2, <1>5, <1>6, FS_Subset
  <2>3. IsFiniteSet(T) /\ Cardinality(T) <= Cardinality(seeds)
      BY <2>2, FewerImages
  <2> HIDE DEF T
  <2>4. IsFiniteSet(seeded) /\ Cardinality(seeded) <= Cardinality(T)
      BY <2>1, <2>3, FS_Subset
  <2>5. /\ Cardinality(seeded) \in Nat /\ Cardinality(T) \in Nat
        /\ Cardinality(seeds) \in Nat /\ Cardinality(open) \in Nat
      BY <2>2, <2>3, <2>4, FS_CardinalityType
  <2> QED
      BY <2>2, <2>3, <2>4, <2>5
<1>9. MapThenSumSet(LAMBDA s : o.bySource[s], DOMAIN o.bySource) = Cardinality(items)
  <2> DEFINE b == o.bySource
             v == [i \in items |-> notes[i].source]
  <2>1. b = counts
      BY <1>1
  <2>2. DOMAIN b = sources /\ \A s \in sources : b[s] = Cardinality({i \in items : notes[i].source = s})
      BY <2>1
  <2>3. \A s : {i \in items : notes[i].source = s} = {i \in items : v[i] = s}
      OBVIOUS
  <2>4. sources = {v[i] : i \in items} /\ \A i \in items : v[i] \in sources
      OBVIOUS
  <2> HIDE DEF b, v, sources
  <2>5. IsFiniteSet(sources)
      BY <1>2, <2>4, FewerImages
  <2>6. \A s \in sources : b[s] = Cardinality(Having(items, v, s))
      BY <2>2, <2>3 DEF Having
  <2>7. Total(b, sources) = Cardinality(items)
      BY <1>2, <2>4, <2>5, <2>6, CountsByValue, Zenon
  <2>8. \A s \in sources : b[s] \in Int
    <3>1. SUFFICES ASSUME NEW s \in sources
                   PROVE  b[s] \in Int
        OBVIOUS
    <3> DEFINE R == Having(items, v, s)
    <3>2. R \subseteq items /\ b[s] = Cardinality(R)
        BY <2>6 DEF Having
    <3> HIDE DEF R
    <3> QED
        BY <1>2, <3>2, FS_Subset, FS_CardinalityType
  <2>9. MapThenSumSet(LAMBDA s : b[s], DOMAIN b) = Total(b, DOMAIN b)
      BY <2>2, <2>5, <2>8, SumOfCounts
  <2>10. MapThenSumSet(LAMBDA s : b[s], DOMAIN b) = Cardinality(items)
      BY <2>2, <2>7, <2>9
  <2> QED
      BY <2>10 DEF b
<1>10. o.notes = MapThenSumSet(LAMBDA s : o.bySource[s], DOMAIN o.bySource)
    BY <1>1, <1>9
<1> HIDE DEF noted, ofRun, open, seeded
<1>11. o.withNotes <= o.traces /\ o.withNotes <= o.notes /\ Cardinality(seeded) <= o.unresolved
    BY <1>1, <1>7, <1>8
<1> QED
    BY <1>10, <1>11 DEF OverviewIsTrue, o, seeded

\* A compare set has one system note; what its notes say is its comparison.
LEMMA SetNotes ==
    ASSUME IInv, NEW i \in DOMAIN sets
    PROVE  /\ Cardinality(Seeds("compare_set", i)) = 1
           /\ SnapshotIsTrue(i)
           /\ \A n \in NotesOf("compare_set", i) :
                  notes[n].facts = sets[i].snapshot /\ notes[n].refs = SetRefs(i)
<1> DEFINE entity == <<"compare_set", i>>
           S == Seeds("compare_set", i)
<1>1. SetsGood(runs, sets) /\ NotesGood(anchors, sets, notes)
    BY DEF IInv
<1>2. SnapshotIsTrue(i)
  <2>1. PICK q \in Comparisons : Made(runs, q) /\ sets[i] = SetRow(q)
      BY <1>1 DEF SetsGood
  <2> QED
      BY <2>1, SnapshotFacts DEF Made
<1>3. S = {n \in DOMAIN notes : SeedOf(notes[n], entity)}
    BY DEF Seeds, NotesOf, SeedOf
<1>4. ASSUME NEW n \in DOMAIN notes, notes[n].entity = entity
      PROVE  notes[n].facts = sets[i].snapshot /\ notes[n].refs = SetRefs(i)
  <2>1. About(anchors, sets, entity, notes[n].refs, notes[n].facts)
      BY <1>1, <1>4 DEF NotesGood, NoteGood
  <2>2. \A u \in Traces : <<"debug_trace", u>> # entity
      OBVIOUS
  <2>3. \A j \in DOMAIN sets : <<"compare_set", j>> = entity => j = i
      OBVIOUS
  <2> HIDE DEF entity
  <2>4. AboutSet(sets[i], notes[n].refs, notes[n].facts)
      BY <2>1, <2>2, <2>3 DEF About
  <2> QED
      BY <2>4 DEF AboutSet, RefsOf, SetRefs
<1>5. \A n \in NotesOf("compare_set", i) :
          notes[n].facts = sets[i].snapshot /\ notes[n].refs = SetRefs(i)
    BY <1>4 DEF NotesOf
<1>6. PICK n \in DOMAIN notes : SeedOf(notes[n], entity)
    BY <1>1 DEF NotesGood
<1>7. ASSUME NEW m \in S
      PROVE  m = n
  <2>1. m \in DOMAIN notes /\ SeedOf(notes[m], entity)
      BY <1>3, <1>7
  <2>2. notes[m].entity = entity
      BY <2>1 DEF SeedOf
  <2> QED
      BY <1>1, <1>6, <2>1, <2>2 DEF NotesGood
<1> HIDE DEF S
<1>8. S = {n}
    BY <1>3, <1>6, <1>7
<1>9. Cardinality(S) = 1
    BY <1>8, FS_Singleton
<1> QED
    BY <1>2, <1>5, <1>9 DEF S

\* A trace has one system note at most; what its notes refer to is there.
LEMMA TraceNotes ==
    ASSUME IInv, NEW t \in Traces
    PROVE  /\ Cardinality(Seeds("debug_trace", t)) <= 1
           /\ \A n \in Seeds("debug_trace", t) : notes[n].refs.anchors = notes[n].facts.anchors
           /\ \A n \in NotesOf("debug_trace", t) :
                  LET refs == notes[n].refs
                  IN  /\ notes[n].facts.anchors \subseteq refs.anchors
                      /\ refs.anchors \subseteq DOMAIN anchors[t]
                      /\ refs.scenarios = {a \in refs.anchors : anchors[t][a] # Absent}
<1> DEFINE entity == <<"debug_trace", t>>
           S == Seeds("debug_trace", t)
<1>1. NotesGood(anchors, sets, notes)
    BY DEF IInv
<1>2. S = {n \in DOMAIN notes : SeedOf(notes[n], entity)}
    BY DEF Seeds, NotesOf, SeedOf
<1>3. ASSUME NEW n \in DOMAIN notes, notes[n].entity = entity
      PROVE  /\ notes[n].facts.anchors \subseteq notes[n].refs.anchors
             /\ notes[n].refs.anchors \subseteq DOMAIN anchors[t]
             /\ notes[n].refs.scenarios = {a \in notes[n].refs.anchors : anchors[t][a] # Absent}
             /\ notes[n].source = "system" => notes[n].refs.anchors = notes[n].facts.anchors
  <2>1. About(anchors, sets, entity, notes[n].refs, notes[n].facts) /\ SeedGood(notes[n])
      BY <1>1, <1>3 DEF NotesGood, NoteGood
  <2>2. \A u \in Traces : <<"debug_trace", u>> = entity => u = t
      OBVIOUS
  <2>3. \A j \in DOMAIN sets : <<"compare_set", j>> # entity
      OBVIOUS
  <2>4. notes[n].entity[1] = "debug_trace"
      BY <1>3
  <2> HIDE DEF entity
  <2>5. AboutTrace(anchors, t, notes[n].refs, notes[n].facts)
      BY <2>1, <2>2, <2>3 DEF About
  <2> QED
      BY <2>1, <2>4, <2>5 DEF AboutTrace, AnchorRefs, SeedGood
<1>4. \A n \in NotesOf("debug_trace", t) :
          /\ notes[n].facts.anchors \subseteq notes[n].refs.anchors
          /\ notes[n].refs.anchors \subseteq DOMAIN anchors[t]
          /\ notes[n].refs.scenarios = {a \in notes[n].refs.anchors : anchors[t][a] # Absent}
  <2>1. \A n \in NotesOf("debug_trace", t) : n \in DOMAIN notes /\ notes[n].entity = entity
      BY DEF NotesOf
  <2> HIDE DEF entity
  <2> QED
      BY <1>3, <2>1
<1>5. \A n \in S : notes[n].refs.anchors = notes[n].facts.anchors
  <2> HIDE DEF entity, S
  <2> QED
      BY <1>2, <1>3 DEF SeedOf
<1>6. Cardinality(S) <= 1
  <2>1. CASE S = {}
    <3> HIDE DEF S
    <3> QED
        BY <2>1, FS_EmptySet
  <2>2. CASE S # {}
    <3> HIDE DEF S, entity
    <3>1. PICK n \in S : TRUE
        BY <2>2
    <3>2. ASSUME NEW m \in S
          PROVE  m = n
      <4>1. /\ m \in DOMAIN notes /\ SeedOf(notes[m], entity)
            /\ n \in DOMAIN notes /\ SeedOf(notes[n], entity)
          BY <1>2, <3>1, <3>2
      <4>2. notes[m].entity = entity
          BY <4>1 DEF SeedOf
      <4> QED
          BY <1>1, <4>1, <4>2 DEF NotesGood
    <3>3. S = {n}
        BY <3>1, <3>2
    <3>4. Cardinality({n}) = 1
        BY FS_Singleton
    <3> QED
        BY <3>3, <3>4
  <2> QED
      BY <2>1, <2>2
<1> HIDE DEF S
<1> QED
    BY <1>4, <1>5, <1>6 DEF S

\* Notes tell of what they are about, for any number of requests at once.
THEOREM NotesTellTheTruth == Spec => []NotesTellTheirSubject
<1>1. ASSUME IInv
      PROVE  NotesTellTheirSubject
  <2>1. \A r \in runs : OverviewIsTrue(r)
      BY <1>1, OverviewFacts
  <2>2. \A r \in runs :
           LET o == Overview(r)
           IN  /\ o.notes = MapThenSumSet(LAMBDA s : o.bySource[s], DOMAIN o.bySource)
               /\ o.withNotes <= o.traces /\ o.withNotes <= o.notes
               /\ Cardinality({t \in Traces : TraceRun[t] = r /\ Seeds("debug_trace", t) # {}})
                      <= o.unresolved
      BY <2>1, Zenon DEF OverviewIsTrue
  <2> QED
      BY <1>1, <2>2, SetNotes, TraceNotes, Zenon DEF NotesTellTheirSubject
<1> QED
    BY <1>1, Invariance, PTL
=============================================================================
