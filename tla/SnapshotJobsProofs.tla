-------------------------- MODULE SnapshotJobsProofs --------------------------
(***************************************************************************)
(* Proofs about the snapshot jobs, for any data sets, retention, period,   *)
(* page and window sizes, any venue and contents of the tables, any number *)
(* of loops, clients, requests, failures and crashes.                      *)
(***************************************************************************)
EXTENDS SnapshotJobs, SharedLemmas

-----------------------------------------------------------------------------
(* Plans *)

\* The times a plan can name, and the plans.
PlanTimes == (0 - PlanLookback - Retention - Day)..EndTime
PlanSet == {NoPlan} \union [required : {TRUE}, reason : PlanReasons, lo : PlanTimes, hi : PlanTimes]

\* A plan asks the venue for a time.
Covers(plan, t) == plan.required /\ plan.lo <= t /\ t <= plan.hi

\* What PlanConstantsAssumption and JobConstantsAssumption say of numbers.
LEMMA Numbers ==
    /\ Period \in Nat \ {0} /\ Day \in Nat \ {0} /\ Day % Period = 0
    /\ Retention \in Nat /\ PlanLookback \in Nat /\ EndTime \in Nat
BY PlanConstantsAssumption, JobConstantsAssumption

\* _retention_limited_plan misses nothing: whatever period of the retained
\* window is not stored lies in the window of the plan.
LEMMA RetainedPlanCovers ==
    ASSUME NEW times, times \subseteq Int, NEW t \in 0..EndTime
    PROVE  /\ RetainedPlan(times, t) \in PlanSet
           /\ \A u \in Int :
                  /\ t - Retention <= u /\ u <= t /\ u % Period = 0
                  /\ u \notin times
                  => Covers(RetainedPlan(times, t), u)
<1> DEFINE floor   == RetentionFloor(t)
           safe    == {s \in Within(times, Window(floor, t)) : s % Period = 0}
           missing == ExpectedTimes(Window(floor, FloorTo(t, Period)), Period) \ safe
           late    == IF Max(safe) - Day > floor THEN Max(safe) - Day ELSE floor
<1>1. /\ t - Retention \in Int
      /\ t \in Int /\ t >= 0 /\ t <= EndTime
    BY Numbers
<1>2. /\ floor \in Int
      /\ floor <= t - Retention /\ t - Retention < floor + Day
      /\ floor % Day = 0
    BY <1>1, Numbers, FloorToFacts DEF RetentionFloor
<1>3. floor % Period = 0
    BY <1>2, Numbers, CoarserGrid
<1>4. /\ floor \in PlanTimes
      /\ floor <= t
      /\ t \in PlanTimes
    BY <1>1, <1>2, Numbers DEF PlanTimes
<1>5. /\ safe \subseteq floor..t
      /\ \A s \in safe : s \in times
      /\ safe # {} => Max(safe) \in floor..t /\ Max(safe) \in safe
  <2>1. ASSUME NEW s \in safe
        PROVE  s \in floor..t /\ s \in times
    <3>1. s \in Within(times, Window(floor, t))
        OBVIOUS
    <3> QED
        BY <3>1, <1>1, <1>2 DEF Within, Window
  <2> HIDE DEF safe, floor
  <2>2. safe # {} => Max(safe) \in floor..t /\ Max(safe) \in safe
      BY <2>1, <1>1, <1>2, MaxOfTimes
  <2> QED
      BY <2>1, <2>2
<1>6. /\ FloorTo(t, Period) \in Int
      /\ FloorTo(t, Period) <= t
      /\ \A u \in Int : u <= t /\ u % Period = 0 => u <= FloorTo(t, Period)
    BY <1>1, Numbers, FloorToFacts
<1>7. missing = {u \in floor..FloorTo(t, Period) : u % Period = 0} \ safe
    BY <1>2, <1>3, <1>6, Numbers, ExpectedTimesAreTheGrid
<1>8. missing # {} => Min(missing) \in floor..t /\ \A m \in missing : Min(missing) <= m
  <2>1. missing \subseteq floor..t
      BY <1>1, <1>2, <1>6, <1>7
  <2> QED
      BY <2>1, <1>1, <1>2, MinOfTimes
<1>9. late \in floor..t \/ safe = {}
    BY <1>1, <1>2, <1>5, Numbers
<1>10. RetainedPlan(times, t) =
          IF missing = {} THEN NoPlan
          ELSE IF safe = {} THEN Plan("missing", floor, t)
          ELSE IF floor \in missing THEN Plan("coverage_shortfall", floor, t)
          ELSE IF \E m \in missing : m < Max(safe)
          THEN Plan("continuity_gap", Min(missing), t)
          ELSE Plan("tail_shortfall", late, t)
    BY DEF RetainedPlan
<1> HIDE DEF floor, safe, missing, late
<1>11. \A r \in PlanReasons, lo \in floor..t : Plan(r, lo, t) \in PlanSet
    BY <1>1, <1>2, <1>4, Numbers DEF Plan, PlanSet, PlanTimes
<1>12. RetainedPlan(times, t) \in PlanSet
  <2>1. NoPlan \in PlanSet
      BY DEF PlanSet
  <2> USE DEF PlanReasons
  <2>2. /\ Plan("missing", floor, t) \in PlanSet
        /\ Plan("coverage_shortfall", floor, t) \in PlanSet
      BY <1>1, <1>2, <1>4, <1>11
  <2>3. missing # {} => Plan("continuity_gap", Min(missing), t) \in PlanSet
      BY <1>8, <1>11
  <2>4. safe # {} => Plan("tail_shortfall", late, t) \in PlanSet
      BY <1>9, <1>11
  <2> QED
      BY <2>1, <2>2, <2>3, <2>4, <1>10
<1>13. ASSUME NEW u \in Int, t - Retention <= u, u <= t, u % Period = 0, u \notin times
       PROVE  Covers(RetainedPlan(times, t), u)
  <2>1. floor <= u
      BY <1>1, <1>2, <1>13, Numbers
  <2>2. u \in missing
      BY <2>1, <1>2, <1>5, <1>6, <1>7, <1>13
  <2>3. \A r, lo : lo <= u => Covers(Plan(r, lo, t), u)
      BY <1>13 DEF Covers, Plan
  <2>4. CASE safe = {} \/ floor \in missing
      BY <2>1, <2>2, <2>3, <2>4, <1>10
  <2>5. CASE safe # {} /\ floor \notin missing /\ \E m \in missing : m < Max(safe)
      BY <2>2, <2>3, <2>5, <1>8, <1>10
  <2>6. CASE safe # {} /\ floor \notin missing /\ ~ \E m \in missing : m < Max(safe)
    <3>1. Max(safe) <= u
        BY <2>2, <2>6, <1>5, <1>13
    <3>2. late <= u
        BY <3>1, <2>1, <2>6, <1>1, <1>2, <1>5, Numbers DEF late
    <3> QED
        BY <3>2, <2>2, <2>3, <2>6, <1>10
  <2> QED
      BY <2>4, <2>5, <2>6
<1> QED
    BY <1>12, <1>13

\* A plan for a series that the venue does not forget is in bounds as well.
LEMMA PlanForFacts ==
    ASSUME NEW d \in Datasets, NEW times \in SUBSET (0..EndTime), NEW t \in 0..EndTime
    PROVE  /\ PlanFor(d, times, t) \in PlanSet
           /\ PlanFor(d, times, t) # Absent
           /\ d \in RetainedDatasets =>
                  \A u \in Int :
                      /\ t - Retention <= u /\ u <= t /\ u % Period = 0
                      /\ u \notin times
                      => Covers(PlanFor(d, times, t), u)
<1>1. ASSUME NEW p \in PlanSet
      PROVE  p \in [required : BOOLEAN, reason : PlanReasons,
                    lo : Int \union {Absent}, hi : Int \union {Absent}]
  <2>1. CASE p = NoPlan
      BY <2>1 DEF NoPlan, PlanReasons
  <2>2. CASE p # NoPlan
    <3>1. PlanTimes \subseteq Int
        BY Numbers DEF PlanTimes
    <3> QED
        BY <3>1, <2>2 DEF PlanSet
  <2> QED
      BY <2>1, <2>2
<1>2. Absent \notin PlanSet
    BY <1>1, PlanConstantsAssumption
<1>3. CASE d \in RetainedDatasets
  <2>1. PlanFor(d, times, t) = RetainedPlan(times, t)
      BY <1>3 DEF PlanFor
  <2>2. times \subseteq Int
      BY Numbers
  <2> QED
      BY <2>1, <2>2, <1>2, RetainedPlanCovers
<1>4. CASE d \notin RetainedDatasets
  <2> DEFINE start == t - PlanLookback
             late  == IF Max(times) > start THEN Max(times) ELSE start
  <2>1. /\ start \in PlanTimes /\ t \in PlanTimes
        /\ times # {} => late \in PlanTimes
    <3>1. ASSUME times # {} PROVE Max(times) \in 0..EndTime
      <4>1. 0 \in Int /\ EndTime \in Int /\ times \subseteq 0..EndTime
          BY Numbers
      <4> QED
          BY <4>1, <3>1, MaxOfTimes
    <3>2. start \in PlanTimes /\ t \in PlanTimes /\ 0..EndTime \subseteq PlanTimes
        BY Numbers DEF PlanTimes
    <3> QED
        BY <3>1, <3>2
  <2>2. PlanFor(d, times, t) \in {NoPlan, Plan("missing", start, t)}
                                   \union {p \in {Plan("stale", late, t)} : times # {}}
      BY <1>4 DEF PlanFor, StalePlan
  <2> HIDE DEF start, late
  <2>3. PlanFor(d, times, t) \in PlanSet
    <3>1. NoPlan \in PlanSet /\ Plan("missing", start, t) \in PlanSet
        BY <2>1 DEF PlanSet, Plan, PlanReasons
    <3>2. times # {} => Plan("stale", late, t) \in PlanSet
        BY <2>1 DEF PlanSet, Plan, PlanReasons
    <3> QED
        BY <3>1, <3>2, <2>2, Zenon
  <2> QED
      BY <2>3, <1>2, <1>4
<1> QED
    BY <1>3, <1>4

-----------------------------------------------------------------------------
(* Calls *)

\* The windows of a call and the calls.
Windows == [lo : Int, hi : Int] \union {Absent}
FundingWindows == UNION {[F -> Windows] : F \in SUBSET FundingDatasets}
CallSet == [funding : FundingWindows, others : SUBSET Datasets, window : Windows,
            recent : BOOLEAN]

\* What a worker has planned so far.
PlansSoFar == [Datasets -> PlanSet \union {Absent}]

\* A call asks the venue for a time of a data set.
Requests(call, d, t) ==
    \/ /\ d \in DOMAIN call.funding
       /\ call.funding[d] # Absent
       /\ call.funding[d].lo <= t /\ t <= call.funding[d].hi
    \/ /\ d \notin DOMAIN call.funding
       /\ d \in call.others
       /\ call.window # Absent
       /\ call.window.lo <= t /\ t <= call.window.hi

LEMMA WindowFacts ==
    ASSUME NEW lo \in Int, NEW hi \in Int
    PROVE  /\ Window(lo, hi) \in Windows
           /\ Window(lo, hi) # Absent
           /\ Window(lo, hi).lo = lo /\ Window(lo, hi).hi = hi
BY PlanConstantsAssumption DEF Window, Windows

\* Every plan that is required lies between the earliest and the latest.
LEMMA RequiredPlans ==
    ASSUME NEW plans \in PlansSoFar, NEW ds \in SUBSET Datasets,
           Required(plans, ds) # {}
    PROVE  /\ Earliest(plans, Required(plans, ds)) \in Int
           /\ Latest(plans, Required(plans, ds)) \in Int
           /\ \A d \in Required(plans, ds) :
                  /\ plans[d].lo \in Int /\ plans[d].hi \in Int
                  /\ Earliest(plans, Required(plans, ds)) <= plans[d].lo
                  /\ plans[d].hi <= Latest(plans, Required(plans, ds))
<1> DEFINE R   == Required(plans, ds)
           los == {plans[d].lo : d \in R}
           his == {plans[d].hi : d \in R}
           from == 0 - PlanLookback - Retention - Day
<1>1. from \in Int /\ EndTime \in Int
    BY Numbers
<1>2. ASSUME NEW d \in R
      PROVE  plans[d].lo \in PlanTimes /\ plans[d].hi \in PlanTimes
  <2>1. d \in Datasets /\ plans[d] # Absent /\ plans[d].required
      BY DEF Required
  <2>2. plans[d] \in PlanSet
      BY <2>1 DEF PlansSoFar
  <2>3. plans[d] # NoPlan
      BY <2>1 DEF NoPlan
  <2> QED
      BY <2>2, <2>3 DEF PlanSet
<1>3. /\ los \subseteq from..EndTime /\ los # {}
      /\ his \subseteq from..EndTime /\ his # {}
    BY <1>2 DEF PlanTimes
<1>4. Min(los) \in Int /\ \A x \in los : Min(los) <= x
  <2> HIDE DEF R, los, his, from
  <2>1. Min(los) \in los /\ Min(los) \in from..EndTime /\ \A x \in los : Min(los) <= x
      BY <1>1, <1>3, MinOfTimes
  <2> QED
      BY <2>1, <1>1
<1>5. Max(his) \in Int /\ \A x \in his : x <= Max(his)
  <2> HIDE DEF R, los, his, from
  <2>1. Max(his) \in his /\ Max(his) \in from..EndTime /\ \A x \in his : x <= Max(his)
      BY <1>1, <1>3, MaxOfTimes
  <2> QED
      BY <2>1, <1>1
<1>6. \A d \in R : plans[d].lo \in Int /\ plans[d].hi \in Int
    BY <1>1, <1>2 DEF PlanTimes
<1> QED
    BY <1>4, <1>5, <1>6 DEF Earliest, Latest

LEMMA NoFunding == <<>> \in FundingWindows /\ DOMAIN <<>> = {}
<1>1. <<>> \in Seq(Windows) /\ Len(<<>>) = 0
    BY EmptySeq
<1>2. <<>> \in [1..0 -> Windows] /\ DOMAIN <<>> = 1..0
    BY <1>1, LenProperties
<1>3. 1..0 = {} /\ {} \in SUBSET FundingDatasets
    OBVIOUS
<1> QED
    BY <1>2, <1>3, Zenon DEF FundingWindows

\* The call for the funding and the prices asks for all that their plans want.
LEMMA StandardCallsCover ==
    ASSUME NEW plans \in PlansSoFar
    PROVE  /\ StandardCalls(plans) \in Seq(CallSet)
           /\ \A d \in FundingDatasets \union PriceDatasets, t \in Int :
                  plans[d] # Absent /\ Covers(plans[d], t) =>
                      \E i \in DOMAIN StandardCalls(plans) : Requests(StandardCalls(plans)[i], d, t)
<1> DEFINE F == Required(plans, FundingDatasets)
           P == Required(plans, PriceDatasets)
           byPlan == [d \in F |-> Window(plans[d].lo, plans[d].hi)]
           w == IF P = {} THEN Absent ELSE Window(Earliest(plans, P), Latest(plans, P))
           call == Call(byPlan, P, w, FALSE)
<1>1. FundingDatasets \subseteq Datasets /\ PriceDatasets \subseteq Datasets
    BY DEF Datasets
<1>2. StandardCalls(plans) = IF F \union P = {} THEN <<>> ELSE <<call>>
    BY Zenon DEF StandardCalls
<1>3. byPlan \in FundingWindows
  <2>1. \A d \in F : Window(plans[d].lo, plans[d].hi) \in Windows
    <3>1. CASE F = {}
        BY <3>1
    <3>2. CASE F # {}
        BY <3>2, <1>1, RequiredPlans, WindowFacts
    <3> QED
        BY <3>1, <3>2
  <2>2. F \in SUBSET FundingDatasets
      BY DEF Required
  <2>3. byPlan \in [F -> Windows]
      BY <2>1
  <2> QED
      BY <2>2, <2>3, Zenon DEF FundingWindows
<1>4. w \in Windows
  <2>1. CASE P = {}
      BY <2>1 DEF Windows
  <2>2. CASE P # {}
      BY <2>2, <1>1, RequiredPlans, WindowFacts
  <2> QED
      BY <2>1, <2>2
<1>5. call \in CallSet
  <2>1. P \in SUBSET Datasets
      BY <1>1 DEF Required
  <2> QED
      BY <2>1, <1>3, <1>4 DEF CallSet, Call
<1>6. StandardCalls(plans) \in Seq(CallSet)
  <2> HIDE DEF F, P, call
  <2>1. <<>> \in Seq(CallSet) /\ <<call>> \in Seq(CallSet)
      BY <1>5
  <2> QED
      BY <2>1, <1>2
<1>7. ASSUME NEW d \in FundingDatasets, NEW t \in Int,
             plans[d] # Absent, Covers(plans[d], t)
      PROVE  StandardCalls(plans) = <<call>> /\ Requests(call, d, t)
  <2>1. d \in F
      BY <1>7 DEF Required, Covers
  <2>2. plans[d].lo \in Int /\ plans[d].hi \in Int
      BY <2>1, <1>1, RequiredPlans
  <2>3. call.funding[d] = Window(plans[d].lo, plans[d].hi) /\ d \in DOMAIN call.funding
      BY <2>1 DEF Call
  <2>4. StandardCalls(plans) = <<call>>
      BY <2>1, <1>2, Zenon
  <2> HIDE DEF call
  <2>5. /\ call.funding[d] # Absent
        /\ call.funding[d].lo = plans[d].lo /\ call.funding[d].hi = plans[d].hi
      BY <2>2, <2>3, WindowFacts
  <2>6. plans[d].lo <= t /\ t <= plans[d].hi
      BY <1>7 DEF Covers
  <2> QED
      BY <2>3, <2>4, <2>5, <2>6 DEF Requests
<1>8. ASSUME NEW d \in PriceDatasets, NEW t \in Int,
             plans[d] # Absent, Covers(plans[d], t)
      PROVE  StandardCalls(plans) = <<call>> /\ Requests(call, d, t)
  <2>1. d \in P /\ d \notin F
    <3>1. d \notin FundingDatasets
        BY PlanConstantsAssumption
    <3> QED
        BY <3>1, <1>8 DEF Required, Covers
  <2>2. /\ Earliest(plans, P) \in Int /\ Latest(plans, P) \in Int
        /\ plans[d].lo \in Int /\ plans[d].hi \in Int
        /\ Earliest(plans, P) <= plans[d].lo /\ plans[d].hi <= Latest(plans, P)
      BY <2>1, <1>1, RequiredPlans
  <2>3. /\ call.window = Window(Earliest(plans, P), Latest(plans, P))
        /\ call.others = P /\ DOMAIN call.funding = F
      BY <2>1 DEF Call
  <2>4. StandardCalls(plans) = <<call>>
      BY <2>1, <1>2, Zenon
  <2> HIDE DEF call, F, P
  <2>5. /\ call.window # Absent
        /\ call.window.lo = Earliest(plans, P) /\ call.window.hi = Latest(plans, P)
      BY <2>2, <2>3, WindowFacts
  <2>6. plans[d].lo <= t /\ t <= plans[d].hi
      BY <1>8 DEF Covers
  <2>7. call.window.lo <= t /\ t <= call.window.hi
      BY <2>2, <2>5, <2>6
  <2> QED
      BY <2>1, <2>3, <2>4, <2>5, <2>7 DEF Requests
<1> HIDE DEF call
<1>9. ASSUME NEW d, NEW t, StandardCalls(plans) = <<call>>, Requests(call, d, t)
      PROVE  \E i \in DOMAIN StandardCalls(plans) : Requests(StandardCalls(plans)[i], d, t)
    BY <1>9
<1> QED
    BY <1>6, <1>7, <1>8, <1>9

\* The calls by day ask for all that the plans of their sets want.
LEMMA ChunkCallsCover ==
    ASSUME NEW plans \in PlansSoFar, NEW ds \in SUBSET Datasets
    PROVE  /\ ChunkCalls(plans, ds) \in Seq(CallSet)
           /\ \A d \in ds, t \in Int :
                  plans[d] # Absent /\ Covers(plans[d], t) =>
                      \E i \in DOMAIN ChunkCalls(plans, ds) : Requests(ChunkCalls(plans, ds)[i], d, t)
<1> DEFINE R == Required(plans, ds)
           lo == Earliest(plans, R)
           hi == Latest(plans, R)
           n  == IF lo > hi THEN 0 ELSE (hi - lo) \div Day + 1
           From(i) == lo + (i - 1) * Day
           To(i) == IF From(i) + Day - 1 < hi THEN From(i) + Day - 1 ELSE hi
           calls == [i \in 1..n |-> Call(<<>>, R, Window(From(i), To(i)), FALSE)]
<1>1. CASE R = {}
  <2>1. ChunkCalls(plans, ds) = <<>>
      BY <1>1 DEF ChunkCalls
  <2>2. \A d \in ds, t \in Int : ~ (plans[d] # Absent /\ Covers(plans[d], t))
      BY <1>1 DEF Required, Covers
  <2>3. <<>> \in Seq(CallSet)
      BY EmptySeq
  <2> QED
      BY <2>1, <2>2, <2>3
<1>2. CASE R # {}
  <2>1. /\ lo \in Int /\ hi \in Int
        /\ \A d \in R : plans[d].lo \in Int /\ plans[d].hi \in Int
                        /\ lo <= plans[d].lo /\ plans[d].hi <= hi
      BY <1>2, RequiredPlans
  <2>2. DayWindows(lo, hi) = [i \in 1..n |-> Window(From(i), To(i))]
      BY DEF DayWindows, ChunkWindows
  <2>3. ChunkCalls(plans, ds) = calls
      BY <1>2, <2>2 DEF ChunkCalls
  <2>4. R \in SUBSET Datasets
      BY DEF Required
  <2> HIDE DEF R, lo, hi
  <2>5. n \in Nat
    <3>1. CASE lo > hi
        BY <3>1
    <3>2. CASE lo <= hi
        BY <3>2, <2>1, Numbers, ChunkOfTime
    <3> QED
        BY <3>1, <3>2, <2>1
  <2>6. \A i \in Int : From(i) \in Int /\ To(i) \in Int
      BY <2>1, Numbers
  <2> HIDE DEF n, From, To
  <2>7. \A i \in 1..n : Call(<<>>, R, Window(From(i), To(i)), FALSE) \in CallSet
    <3> SUFFICES ASSUME NEW i \in 1..n
                 PROVE  Call(<<>>, R, Window(From(i), To(i)), FALSE) \in CallSet
        OBVIOUS
    <3>1. Window(From(i), To(i)) \in Windows
        BY <2>5, <2>6, WindowFacts
    <3> QED
        BY <3>1, <2>4, NoFunding DEF Call, CallSet
  <2>8. calls \in Seq(CallSet) /\ DOMAIN calls = 1..n
    <3>1. calls \in [1..n -> CallSet]
        BY <2>7
    <3> QED
        BY <3>1, <2>5, SequenceOfFunction
  <2>9. ASSUME NEW d \in ds, NEW t \in Int, plans[d] # Absent, Covers(plans[d], t)
        PROVE  \E i \in 1..n : Requests(calls[i], d, t)
    <3>1. d \in R /\ plans[d].lo <= t /\ t <= plans[d].hi
        BY <2>9 DEF Required, Covers, R
    <3>2. lo <= t /\ t <= hi
        BY <3>1, <2>1
    <3> DEFINE i == (t - lo) \div Day + 1
    <3>3. /\ i \in 1..((hi - lo) \div Day + 1)
          /\ lo + (i - 1) * Day <= t
          /\ t <= lo + (i - 1) * Day + Day - 1
        BY <3>2, <2>1, Numbers, ChunkOfTime
    <3>4. i \in 1..n
        BY <3>2, <3>3, <2>1 DEF n
    <3>5. From(i) <= t /\ t <= To(i)
        BY <3>2, <3>3 DEF From, To
    <3> HIDE DEF i
    <3>6. /\ calls[i].funding = <<>> /\ calls[i].others = R
          /\ calls[i].window = Window(From(i), To(i))
        BY <3>4 DEF Call
    <3>7. From(i) \in Int /\ To(i) \in Int
      <4>1. i \in Int
          BY <3>4, <2>5
      <4> QED
          BY <4>1, <2>6
    <3> HIDE DEF calls
    <3>8. /\ calls[i].window # Absent
          /\ calls[i].window.lo = From(i) /\ calls[i].window.hi = To(i)
        BY <3>6, <3>7, WindowFacts
    <3>9. d \notin DOMAIN calls[i].funding
        BY <3>6, NoFunding
    <3> QED
        BY <3>1, <3>4, <3>5, <3>6, <3>8, <3>9 DEF Requests
  <2> QED
      BY <2>3, <2>8, <2>9
<1> QED
    BY <1>1, <1>2

\* All calls of a remediation ask for all that its plans want.
LEMMA CallsCoverPlans ==
    ASSUME NEW plans \in PlansSoFar
    PROVE  /\ CallsFor(plans) \in Seq(CallSet)
           /\ \A d \in Datasets, t \in Int :
                  plans[d] # Absent /\ Covers(plans[d], t) =>
                      \E i \in DOMAIN CallsFor(plans) : Requests(CallsFor(plans)[i], d, t)
<1> DEFINE a == StandardCalls(plans)
           b == ChunkCalls(plans, InterestDatasets)
           c == ChunkCalls(plans, RatioDatasets)
<1>1. /\ InterestDatasets \in SUBSET Datasets /\ RatioDatasets \in SUBSET Datasets
      /\ Datasets = (FundingDatasets \union PriceDatasets) \union InterestDatasets \union RatioDatasets
    BY DEF Datasets, RetainedDatasets
<1>2. a \in Seq(CallSet) /\ b \in Seq(CallSet) /\ c \in Seq(CallSet)
    BY <1>1, StandardCallsCover, ChunkCallsCover
<1>3. CallsFor(plans) = (a \o b) \o c
    BY DEF CallsFor
<1>4. ASSUME NEW d \in Datasets, NEW t \in Int, plans[d] # Absent, Covers(plans[d], t)
      PROVE  \/ \E i \in DOMAIN a : Requests(a[i], d, t)
             \/ \E i \in DOMAIN b : Requests(b[i], d, t)
             \/ \E i \in DOMAIN c : Requests(c[i], d, t)
    BY <1>1, <1>4, StandardCallsCover, ChunkCallsCover
<1> HIDE DEF a, b, c
<1>5. /\ a \o b \in Seq(CallSet) /\ CallsFor(plans) \in Seq(CallSet)
      /\ \A i \in DOMAIN a : i \in DOMAIN (a \o b) /\ (a \o b)[i] = a[i]
      /\ \A i \in DOMAIN b : Len(a) + i \in DOMAIN (a \o b) /\ (a \o b)[Len(a) + i] = b[i]
    BY <1>2, <1>3, ConcatenationKeeps
<1>6. /\ \A i \in DOMAIN (a \o b) :
             i \in DOMAIN CallsFor(plans) /\ CallsFor(plans)[i] = (a \o b)[i]
      /\ \A i \in DOMAIN c :
             /\ Len(a \o b) + i \in DOMAIN CallsFor(plans)
             /\ CallsFor(plans)[Len(a \o b) + i] = c[i]
    BY <1>2, <1>3, <1>5, ConcatenationKeeps
<1> DEFINE all == CallsFor(plans)
           ab == a \o b
<1>7. \A i \in DOMAIN a : i \in DOMAIN all /\ all[i] = a[i]
    BY <1>5, <1>6
<1>8. \A i \in DOMAIN b : Len(a) + i \in DOMAIN all /\ all[Len(a) + i] = b[i]
    BY <1>5, <1>6
<1>9. \A i \in DOMAIN c : Len(ab) + i \in DOMAIN all /\ all[Len(ab) + i] = c[i]
    BY <1>6
<1>10. all \in Seq(CallSet)
    BY <1>5
<1> HIDE DEF all, ab
<1>11. ASSUME NEW d \in Datasets, NEW t \in Int, plans[d] # Absent, Covers(plans[d], t)
       PROVE  \E i \in DOMAIN all : Requests(all[i], d, t)
  <2>1. CASE \E i \in DOMAIN a : Requests(a[i], d, t)
      BY <1>7, <2>1
  <2>2. CASE \E i \in DOMAIN b : Requests(b[i], d, t)
      BY <1>8, <2>2
  <2>3. CASE \E i \in DOMAIN c : Requests(c[i], d, t)
      BY <1>9, <2>3
  <2> QED
      BY <1>4, <1>11, <2>1, <2>2, <2>3, Zenon
<1> QED
    BY <1>10, <1>11 DEF all

\* The rows of a call.
FetchedRows == [Datasets -> SUBSET (0..EndTime)]

\* A call brings rows of the data sets that the venue has or that the moment
\* makes, and among them every row of the venue that it asks for.
LEMMA CallRowsFacts ==
    ASSUME NEW call \in CallSet, NEW venue \in FetchedRows,
           NEW began \in 0..EndTime, NEW t \in 0..EndTime
    PROVE  /\ CallRows(call, venue, began, t) \in FetchedRows
           /\ \A d \in Datasets : \A u \in venue[d] :
                  Requests(call, d, u) => u \in CallRows(call, venue, began, t)[d]
<1> DEFINE Rows(d) ==
             IF d \in DOMAIN call.funding THEN FundingRows(venue[d], call.funding[d])
             ELSE IF d \notin call.others THEN {}
             ELSE IF call.window # Absent THEN Within(venue[d], call.window)
             ELSE PresentRows(d, venue[d], call.recent, began, t)
<1>1. CallRows(call, venue, began, t) = [d \in Datasets |-> Rows(d)]
    BY DEF CallRows
<1>2. ASSUME NEW d \in Datasets
      PROVE  Rows(d) \in SUBSET (0..EndTime)
  <2>1. venue[d] \in SUBSET (0..EndTime)
      BY DEF FetchedRows
  <2>2. \A w : Within(venue[d], w) \in SUBSET (0..EndTime)
      BY <2>1 DEF Within
  <2>3. \A w : FundingRows(venue[d], w) \in SUBSET (0..EndTime)
      BY <2>1, <2>2 DEF FundingRows, NewestRows
  <2>4. PresentRows(d, venue[d], call.recent, began, t) \in SUBSET (0..EndTime)
      BY <2>2 DEF PresentRows
  <2> QED
      BY <2>2, <2>3, <2>4
<1>3. ASSUME NEW d \in Datasets, NEW u \in venue[d], Requests(call, d, u)
      PROVE  u \in Rows(d)
  <2>1. CASE d \in DOMAIN call.funding
      BY <2>1, <1>3 DEF Requests, FundingRows, Within
  <2>2. CASE d \notin DOMAIN call.funding
      BY <2>2, <1>3 DEF Requests, Within
  <2> QED
      BY <2>1, <2>2
<1> HIDE DEF Rows
<1> QED
    BY <1>1, <1>2, <1>3 DEF FetchedRows

-----------------------------------------------------------------------------
(* The invariant *)

\* What a thread may hold.
WorkRecord ==
    [job : {"none", "sync", "refresh", "remediation"}, pc : Pcs, began : 0..EndTime,
     plans : PlansSoFar, asked : SUBSET Datasets, calls : Seq(CallSet),
     fetched : FetchedRows \union {<<>>}]

WorkTypes ==
    /\ rows \in FetchedRows
    /\ work \in [Workers -> WorkRecord]

\* What a remediation still has to see to for a data set it was asked for: the
\* rows that the venue had at the start and has now, on the periods of a
\* retained series, within its plan of another.
Had(w, d) == Available(d, work[w].began) \intersect Available(d, now)
Wanted(w, d) ==
    IF d \in RetainedDatasets THEN {t \in Had(w, d) : t % Period = 0}
    ELSE {t \in Had(w, d) : Covers(work[w].plans[d], t)}

\* A commit has the rows of the call that is first in line.
CommitHasRows(w) ==
    work[w].pc = "commit" => work[w].calls # <<>> /\ work[w].fetched \in FetchedRows

\* Only a remediation is asked for data sets, plans, inserts a row and writes a
\* failure to it.
OnlyRemediationPlans(w) ==
    work[w].pc \in {"plan", "insert", "raise"} \/ work[w].asked # {}
        => work[w].job = "remediation"

\* A planned data set has what is wanted of it stored or in its plan.
PlansMissNothing(w) ==
    work[w].job = "remediation" =>
        \A d \in work[w].asked :
            work[w].plans[d] # Absent =>
                \A t \in Wanted(w, d) : t \in rows[d] \/ Covers(work[w].plans[d], t)

\* From its row on, a remediation has a plan for all it was asked for.
AllPlanned(w) ==
    work[w].job = "remediation" /\ work[w].pc \in {"insert", "fetch", "commit"} =>
        \A d \in work[w].asked : work[w].plans[d] # Absent

\* A call that is still to be made asks for a time; the first one is not, once
\* its rows are fetched.
StillAsked(w, d, t) ==
    \E i \in DOMAIN work[w].calls :
        /\ work[w].pc = "commit" => i # 1
        /\ Requests(work[w].calls[i], d, t)

\* From its row on, what is wanted is stored, fetched or still asked for.
NothingForgotten(w) ==
    work[w].job = "remediation" /\ work[w].pc \in {"fetch", "commit"} =>
        \A d \in work[w].asked : \A t \in Wanted(w, d) :
            \/ t \in rows[d]
            \/ work[w].pc = "commit" /\ t \in work[w].fetched[d]
            \/ StillAsked(w, d, t)

WorkerInv(w) ==
    /\ work[w].began <= now
    /\ CommitHasRows(w)
    /\ OnlyRemediationPlans(w)
    /\ PlansMissNothing(w)
    /\ AllPlanned(w)
    /\ NothingForgotten(w)

IInv ==
    /\ TypeOK
    /\ WorkTypes
    /\ \A w \in Workers : WorkerInv(w)
    /\ RunningRowsAreWorkedOn

-----------------------------------------------------------------------------
(* What every step keeps *)

RowsGrow == \A d \in Datasets : rows[d] \subseteq rows'[d]

\* As time passes the venue has no more of what a worker found it to have.
LEMMA WantedShrinks ==
    ASSUME NEW w \in Workers, NEW d \in Datasets, TypeOK, WorkTypes,
           now' \in {now, now + 1}, work[w].began <= now,
           work'[w].began = work[w].began,
           d \in RetainedDatasets \/ work'[w].plans[d] = work[w].plans[d]
    PROVE  Wanted(w, d)' \subseteq Wanted(w, d)
<1>1. /\ now \in Int /\ work[w].began \in Int
      /\ Venue[d] \subseteq Int /\ Retention \in Int
    BY Numbers, JobConstantsAssumption DEF TypeOK, WorkTypes, WorkRecord
<1>2. Had(w, d)' \subseteq Had(w, d)
    BY <1>1 DEF Had, Available
<1> QED
    BY <1>2 DEF Wanted

\* A worker that does not move keeps its part of the invariant.
LEMMA OthersKeep ==
    ASSUME NEW w \in Workers, TypeOK, WorkTypes, WorkerInv(w),
           now' \in {now, now + 1}, RowsGrow, work'[w] = work[w]
    PROVE  WorkerInv(w)'
<1>1. work[w].began \in Int /\ now \in Int /\ work[w].asked \subseteq Datasets
    BY Numbers, JobConstantsAssumption DEF TypeOK, WorkTypes, WorkRecord
<1>2. work'[w].began <= now'
    BY <1>1 DEF WorkerInv
<1>3. \A d \in work[w].asked : Wanted(w, d)' \subseteq Wanted(w, d)
    BY <1>1, WantedShrinks DEF WorkerInv
<1>4. \A d \in work[w].asked : rows[d] \subseteq rows'[d]
    BY <1>1 DEF RowsGrow
<1>5. PlansMissNothing(w)'
    BY <1>3, <1>4 DEF WorkerInv, PlansMissNothing
<1>6. NothingForgotten(w)'
  <2>1. \A d, t : StillAsked(w, d, t) => StillAsked(w, d, t)'
      BY DEF StillAsked
  <2> QED
      BY <2>1, <1>3, <1>4 DEF WorkerInv, NothingForgotten
<1> QED
    BY <1>2, <1>5, <1>6 DEF WorkerInv, CommitHasRows, OnlyRemediationPlans, AllPlanned

\* A worker that has just started, or has nothing to do, has nothing to keep.
LEMMA FreshWorker ==
    ASSUME NEW w \in Workers, TypeOK, WorkTypes, now' = now,
           work'[w].began <= now,
           \A d \in Datasets : work'[w].plans[d] = Absent,
           work'[w].asked \subseteq Datasets,
           work'[w].asked # {} => work'[w].job = "remediation",
           \/ work'[w].pc = "none"
           \/ work'[w].pc = "plan" /\ work'[w].job = "remediation"
           \/ work'[w].pc = "fetch" /\ work'[w].job # "remediation"
    PROVE  WorkerInv(w)'
BY DEF WorkerInv, CommitHasRows, OnlyRemediationPlans, PlansMissNothing, AllPlanned,
       NothingForgotten

\* One worker moves: the others keep theirs.
LEMMA OneWorkerMoves ==
    ASSUME IInv, NEW w \in Workers, now' = now, RowsGrow, WorkerInv(w)',
           \A v \in Workers \ {w} : work'[v] = work[v]
    PROVE  \A v \in Workers : WorkerInv(v)'
<1>1. ASSUME NEW v \in Workers, v # w PROVE WorkerInv(v)'
    BY <1>1, OthersKeep DEF IInv
<1> QED
    BY <1>1

\* What the typed state says of one worker.
LEMMA WorkFacts ==
    ASSUME IInv, NEW w \in Workers
    PROVE  /\ work[w] \in WorkRecord /\ work \in [Workers -> WorkRecord]
           /\ rows \in FetchedRows
           /\ now \in 0..EndTime /\ now \in Int
           /\ WorkerInv(w)
BY Numbers, JobConstantsAssumption DEF IInv, TypeOK, WorkTypes

\* TypeOK says nothing of the work that its records do not.
LEMMA WorkTypesSuffice ==
    ASSUME WorkTypes', now' \in StartTime..EndTime, server' \in {"up", "stopping", "down"},
           loops' \in [DOMAIN Loops -> {"sleeping", "waiting", "ended"}],
           row' \in [Workers -> RowStates], orphans' \subseteq Workers,
           requests' \in 0..MaxRequests, troubles' \in 0..MaxTroubles
    PROVE  TypeOK'
<1>1. \A w \in Workers : work'[w] \in WorkRecord
    BY DEF WorkTypes
<1>2. \A d \in Datasets : rows'[d] \subseteq 0..EndTime
    BY DEF WorkTypes, FetchedRows
<1> QED
    BY <1>1, <1>2 DEF TypeOK, WorkRecord

LEMMA NoWorkFacts ==
    /\ NoWork \in WorkRecord
    /\ NoWork.job = "none" /\ NoWork.pc = "none" /\ NoWork.began = 0
    /\ NoWork.plans = [d \in Datasets |-> Absent]
    /\ NoWork.asked = {}
<1>1. <<>> \in Seq(CallSet)
    BY EmptySeq
<1>2. [d \in Datasets |-> Absent] \in PlansSoFar
    BY DEF PlansSoFar
<1>3. 0 \in 0..EndTime
    BY Numbers
<1> QED
    BY <1>1, <1>2, <1>3 DEF NoWork, WorkRecord, Pcs

\* A job that starts.
LEMMA StartedFacts ==
    ASSUME IInv, NEW kind \in {"sync", "refresh", "remediation"},
           NEW calls \in Seq(CallSet), NEW asked \in SUBSET Datasets
    PROVE  LET r == Started(kind, calls, asked)
           IN  /\ r \in WorkRecord
               /\ r.job = kind /\ r.began = now /\ r.asked = asked
               /\ r.pc = IF kind = "remediation" THEN "plan" ELSE "fetch"
               /\ \A d \in Datasets : r.plans[d] = Absent
<1>1. now \in 0..EndTime
    BY Numbers, JobConstantsAssumption DEF IInv, TypeOK
<1> DEFINE pc == IF kind = "remediation" THEN "plan" ELSE "fetch"
           r == Started(kind, calls, asked)
<1>2. pc \in Pcs
    BY DEF Pcs
<1>3. r = [NoWork EXCEPT !.job = kind, !.pc = pc, !.began = now, !.calls = calls,
                         !.asked = asked]
    BY DEF Started
<1>4. /\ r.job = kind /\ r.began = now /\ r.asked = asked /\ r.pc = pc
      /\ r.plans = [d \in Datasets |-> Absent]
    BY DEF Started, NoWork
<1> HIDE DEF pc, r
<1>5. r \in WorkRecord
    BY <1>1, <1>2, <1>3, NoWorkFacts DEF WorkRecord
<1> QED
    BY <1>4, <1>5 DEF pc, r

\* The calls of a job that needs no plan.
LEMMA PlainCalls ==
    /\ <<>> \in Seq(CallSet)
    /\ <<Call(<<>>, {}, Absent, FALSE)>> \in Seq(CallSet)
    /\ \A others \in SUBSET Datasets, recent \in BOOLEAN :
           <<Call([d \in FundingDatasets |-> Absent], others, Absent, recent)>> \in Seq(CallSet)
<1>1. Absent \in Windows
    BY DEF Windows
<1>2. [d \in FundingDatasets |-> Absent] \in FundingWindows
  <2>1. [d \in FundingDatasets |-> Absent] \in [FundingDatasets -> Windows]
      BY <1>1
  <2> QED
      BY <2>1, Zenon DEF FundingWindows
<1>3. Call(<<>>, {}, Absent, FALSE) \in CallSet
    BY <1>1, NoFunding DEF Call, CallSet
<1>4. \A others \in SUBSET Datasets, recent \in BOOLEAN :
          Call([d \in FundingDatasets |-> Absent], others, Absent, recent) \in CallSet
    BY <1>1, <1>2 DEF Call, CallSet
<1>5. \A c \in CallSet : <<c>> \in Seq(CallSet)
    OBVIOUS
<1> QED
    BY <1>3, <1>4, <1>5, EmptySeq

-----------------------------------------------------------------------------
(* The steps of the scheduler and of the requests *)

\* A worker that starts a job, and one that is done with it.
LEMMA WorkStarts ==
    ASSUME IInv, NEW w \in Workers, NEW kind \in {"sync", "refresh", "remediation"},
           NEW calls \in Seq(CallSet), NEW asked \in SUBSET Datasets,
           asked # {} => kind = "remediation",
           work[w] = NoWork, work' = [work EXCEPT ![w] = Started(kind, calls, asked)],
           UNCHANGED <<now, rows, row, orphans>>
    PROVE  /\ WorkTypes'
           /\ \A v \in Workers : WorkerInv(v)'
           /\ RunningRowsAreWorkedOn'
<1> DEFINE r == Started(kind, calls, asked)
<1>1. /\ r \in WorkRecord /\ r.began = now /\ r.asked = asked /\ r.job = kind
      /\ r.pc = IF kind = "remediation" THEN "plan" ELSE "fetch"
      /\ \A d \in Datasets : r.plans[d] = Absent
    BY StartedFacts
<1>2. work[w] \in WorkRecord /\ work \in [Workers -> WorkRecord] /\ now \in Int
    BY WorkFacts
<1> HIDE DEF r
<1>3. /\ work' \in [Workers -> WorkRecord] /\ work'[w] = r
      /\ \A v \in Workers \ {w} : work'[v] = work[v]
    BY <1>1, <1>2 DEF r
<1>4. WorkTypes'
    BY <1>3, WorkFacts DEF WorkTypes
<1>5. WorkerInv(w)'
    BY <1>1, <1>2, <1>3, FreshWorker DEF IInv
<1>6. \A v \in Workers : WorkerInv(v)'
    BY <1>3, <1>5, OneWorkerMoves DEF RowsGrow
<1>7. RunningRowsAreWorkedOn'
    BY <1>3, NoWorkFacts DEF IInv, RunningRowsAreWorkedOn
<1> QED
    BY <1>4, <1>6, <1>7

LEMMA WorkEnds ==
    ASSUME IInv, NEW w \in Workers, work[w].pc \in {"returned", "raised"},
           work' = [work EXCEPT ![w] = NoWork],
           UNCHANGED <<now, rows, row, orphans>>
    PROVE  /\ WorkTypes'
           /\ \A v \in Workers : WorkerInv(v)'
           /\ RunningRowsAreWorkedOn'
<1>1. work \in [Workers -> WorkRecord] /\ now \in 0..EndTime
    BY WorkFacts
<1>2. /\ work' \in [Workers -> WorkRecord] /\ work'[w] = NoWork
      /\ \A v \in Workers \ {w} : work'[v] = work[v]
    BY <1>1, NoWorkFacts
<1>3. WorkTypes'
    BY <1>2, WorkFacts DEF WorkTypes
<1>4. WorkerInv(w)'
  <2>1. 0 <= now /\ \A d \in Datasets : NoWork.plans[d] = Absent
      BY <1>1, NoWorkFacts, Numbers
  <2> QED
      BY <1>2, <2>1, NoWorkFacts, FreshWorker DEF IInv
<1>5. \A v \in Workers : WorkerInv(v)'
    BY <1>2, <1>4, OneWorkerMoves DEF RowsGrow
<1>6. RunningRowsAreWorkedOn'
    BY <1>2 DEF IInv, RunningRowsAreWorkedOn
<1> QED
    BY <1>3, <1>5, <1>6

LEMMA LoopWakesStep == ASSUME IInv, NEW l \in DOMAIN Loops, LoopWakes(l) PROVE IInv'
<1>1. l \in Workers /\ Loops[l] \in {"sync", "refresh", "remediation"}
    BY JobConstantsAssumption DEF Workers
<1>2. PICK calls \in Seq(CallSet), asked \in SUBSET Datasets :
          /\ asked # {} => Loops[l] = "remediation"
          /\ Definition(Loops[l]) = Started(Loops[l], calls, asked)
  <2>1. PriceDatasets \union RetainedDatasets \in SUBSET Datasets /\ Datasets \in SUBSET Datasets
      BY DEF Datasets
  <2>2. CASE Loops[l] = "sync"
      BY <2>2, PlainCalls DEF Definition
  <2>3. CASE Loops[l] = "refresh"
      BY <2>1, <2>3, PlainCalls DEF Definition
  <2>4. CASE Loops[l] = "remediation"
      BY <2>1, <2>4, PlainCalls DEF Definition
  <2> QED
      BY <1>1, <2>2, <2>3, <2>4
<1>3. /\ WorkTypes'
      /\ \A v \in Workers : WorkerInv(v)'
      /\ RunningRowsAreWorkedOn'
    BY <1>1, <1>2, WorkStarts DEF LoopWakes
<1>4. TypeOK'
    BY <1>3, WorkTypesSuffice DEF IInv, TypeOK, LoopWakes, boundVars
<1> QED
    BY <1>3, <1>4 DEF IInv

LEMMA ClientAsksStep == ASSUME IInv, NEW c \in Clients, ClientAsks(c) PROVE IInv'
<1>1. c \in Workers
    BY DEF Workers
<1>2. PICK kind \in {"sync", "refresh", "remediation"},
           calls \in Seq(CallSet), asked \in SUBSET Datasets :
          /\ asked # {} => kind = "remediation"
          /\ work' = [work EXCEPT ![c] = Started(kind, calls, asked)]
  <2>1. PriceDatasets \union InterestDatasets \in SUBSET Datasets
      BY DEF Datasets, RetainedDatasets
  <2>2. \A named \in NamedSets : RequestedDatasets(named) \in SUBSET Datasets
      BY JobConstantsAssumption DEF RequestedDatasets
  <2>3. CASE \E recent \in BOOLEAN :
              work' = [work EXCEPT ![c] = Started("refresh",
                           <<Call([d \in FundingDatasets |-> Absent],
                                  PriceDatasets \union InterestDatasets, Absent, recent)>>, {})]
      BY <2>1, <2>3, PlainCalls
  <2>4. CASE \E named \in NamedSets :
              work' = [work EXCEPT ![c] = Started("remediation", <<>>, RequestedDatasets(named))]
      BY <2>2, <2>4, PlainCalls
  <2> QED
      BY <2>3, <2>4 DEF ClientAsks
<1>3. /\ WorkTypes'
      /\ \A v \in Workers : WorkerInv(v)'
      /\ RunningRowsAreWorkedOn'
    BY <1>1, <1>2, WorkStarts DEF ClientAsks
<1>4. requests' \in 0..MaxRequests
    BY JobConstantsAssumption DEF IInv, TypeOK, ClientAsks
<1>5. TypeOK'
    BY <1>3, <1>4, WorkTypesSuffice DEF IInv, TypeOK, ClientAsks
<1> QED
    BY <1>3, <1>5 DEF IInv

LEMMA LoopSleepsStep == ASSUME IInv, NEW l \in DOMAIN Loops, LoopSleeps(l) PROVE IInv'
<1>1. l \in Workers
    BY DEF Workers
<1>2. /\ WorkTypes'
      /\ \A v \in Workers : WorkerInv(v)'
      /\ RunningRowsAreWorkedOn'
    BY <1>1, WorkEnds DEF LoopSleeps
<1>3. TypeOK'
    BY <1>2, WorkTypesSuffice DEF IInv, TypeOK, LoopSleeps, boundVars
<1> QED
    BY <1>2, <1>3 DEF IInv

LEMMA ThreadEndsStep == ASSUME IInv, NEW w \in Workers, ThreadEnds(w) PROVE IInv'
<1>1. /\ WorkTypes'
      /\ \A v \in Workers : WorkerInv(v)'
      /\ RunningRowsAreWorkedOn'
    BY WorkEnds DEF ThreadEnds
<1>2. TypeOK'
    BY <1>1, WorkTypesSuffice DEF IInv, TypeOK, ThreadEnds, boundVars
<1> QED
    BY <1>1, <1>2 DEF IInv

\* Starting and stopping the scheduler, and time, leave the workers as they are.
LEMMA WorkStays ==
    ASSUME IInv, now' \in {now, now + 1}, UNCHANGED <<work, rows, row, orphans>>
    PROVE  /\ WorkTypes'
           /\ \A v \in Workers : WorkerInv(v)'
           /\ RunningRowsAreWorkedOn'
<1>1. RowsGrow
    BY DEF RowsGrow
<1> QED
    BY <1>1, OthersKeep DEF IInv, WorkTypes, RunningRowsAreWorkedOn

LEMMA SchedulerSteps ==
    ASSUME IInv, StopScheduler \/ ProcessExits \/ StartScheduler \/ Tick
    PROVE  IInv'
<1>1. now' \in {now, now + 1} /\ UNCHANGED <<work, rows, row, orphans>>
    BY DEF StopScheduler, ProcessExits, StartScheduler, Tick
<1>2. /\ WorkTypes'
      /\ \A v \in Workers : WorkerInv(v)'
      /\ RunningRowsAreWorkedOn'
    BY <1>1, WorkStays
<1>3. now' \in StartTime..EndTime /\ troubles' \in 0..MaxTroubles /\ requests' \in 0..MaxRequests
    BY JobConstantsAssumption
       DEF IInv, TypeOK, StopScheduler, ProcessExits, StartScheduler, Tick, boundVars
<1>4. /\ server' \in {"up", "stopping", "down"}
      /\ loops' \in [DOMAIN Loops -> {"sleeping", "waiting", "ended"}]
    BY DEF IInv, TypeOK, StopScheduler, ProcessExits, StartScheduler, Tick, boundVars
<1>5. TypeOK'
    BY <1>1, <1>2, <1>3, <1>4, WorkTypesSuffice DEF IInv, TypeOK
<1> QED
    BY <1>2, <1>5 DEF IInv

LEMMA DiesStep == ASSUME IInv, Dies PROVE IInv'
<1>1. /\ work' \in [Workers -> WorkRecord]
      /\ \A w \in Workers : work'[w] = NoWork
      /\ now' = now /\ rows' = rows
    BY NoWorkFacts DEF Dies
<1>2. WorkTypes'
    BY <1>1 DEF IInv, WorkTypes
<1>3. \A w \in Workers : WorkerInv(w)'
  <2>1. 0 <= now /\ \A d \in Datasets : NoWork.plans[d] = Absent
      BY NoWorkFacts, Numbers, JobConstantsAssumption DEF IInv, TypeOK
  <2> QED
      BY <1>1, <2>1, NoWorkFacts, FreshWorker DEF IInv
<1>4. RunningRowsAreWorkedOn'
    BY DEF Dies, RunningRowsAreWorkedOn
<1>5. troubles' \in 0..MaxTroubles
    BY JobConstantsAssumption DEF IInv, TypeOK, Dies
<1>6. TypeOK'
    BY <1>2, <1>5, WorkTypesSuffice DEF IInv, TypeOK, Dies
<1> QED
    BY <1>2, <1>3, <1>4, <1>6 DEF IInv

-----------------------------------------------------------------------------
(* The steps of the jobs *)

LEMMA PlanDatasetStep == ASSUME IInv, NEW w \in Workers, PlanDataset(w) PROVE IInv'
<1> DEFINE left == {d \in work[w].asked : work[w].plans[d] = Absent}
           x    == CHOOSE d \in left : TRUE
           plan == PlanFor(x, rows[x], work[w].began)
           pc   == IF Cardinality(left) > 1 THEN "plan" ELSE "insert"
<1>1. /\ work[w] \in WorkRecord /\ work \in [Workers -> WorkRecord]
      /\ rows \in FetchedRows /\ now \in 0..EndTime
      /\ work[w].plans \in PlansSoFar /\ work[w].began \in 0..EndTime
      /\ work[w].asked \in SUBSET Datasets
    BY WorkFacts DEF WorkRecord
<1>2. /\ work[w].pc = "plan"
      /\ work' = [work EXCEPT ![w].plans[x] = plan, ![w].pc = pc]
      /\ UNCHANGED <<now, rows, server, loops, row, orphans, boundVars>>
    BY DEF PlanDataset
<1>3. x \in Datasets =>
          /\ plan \in PlanSet /\ plan # Absent
          /\ x \in RetainedDatasets =>
                 \A u \in Int :
                     /\ work[w].began - Retention <= u /\ u <= work[w].began
                     /\ u % Period = 0 /\ u \notin rows[x]
                     => Covers(plan, u)
  <2> SUFFICES ASSUME x \in Datasets
               PROVE  /\ plan \in PlanSet /\ plan # Absent
                      /\ x \in RetainedDatasets =>
                             \A u \in Int :
                                 /\ work[w].began - Retention <= u /\ u <= work[w].began
                                 /\ u % Period = 0 /\ u \notin rows[x]
                                 => Covers(plan, u)
      OBVIOUS
  <2>1. rows[x] \in SUBSET (0..EndTime)
      BY <1>1 DEF FetchedRows
  <2> HIDE DEF x
  <2> QED
      BY <1>1, <2>1, PlanForFacts
<1>4. pc \in Pcs /\ pc \in {"plan", "insert"}
    BY DEF Pcs
<1>5. pc = "insert" => left \subseteq {x}
  <2>1. IsFiniteSet(left)
      BY <1>1, FS_Subset, PlanConstantsAssumption
  <2>2. left # {} => x \in left
      OBVIOUS
  <2> HIDE DEF left, x
  <2> QED
      BY <2>1, <2>2, LastOne
<1>6. \A d \in work[w].asked : work[w].plans[d] = Absent => d \in left
    OBVIOUS
<1> HIDE DEF left, x, plan, pc
<1>7. /\ work'[w] = [work[w] EXCEPT !.plans[x] = plan, !.pc = pc]
      /\ \A v \in Workers \ {w} : work'[v] = work[v]
      /\ DOMAIN work' = Workers /\ work' = [v \in Workers |-> work'[v]]
    BY <1>1, <1>2
<1>8. /\ work'[w].plans \in PlansSoFar
      /\ \A d \in Datasets : work'[w].plans[d] = IF d = x THEN plan ELSE work[w].plans[d]
  <2> DEFINE plans == [work[w].plans EXCEPT ![x] = plan]
  <2>1. work'[w].plans = plans
      BY <1>1, <1>7 DEF WorkRecord
  <2>2. \A d \in Datasets : plans[d] = IF d = x THEN plan ELSE work[w].plans[d]
      BY <1>1 DEF PlansSoFar
  <2>3. plans \in PlansSoFar
      BY <1>1, <1>3 DEF PlansSoFar
  <2> HIDE DEF plans
  <2> QED
      BY <2>1, <2>2, <2>3
<1>9. /\ work'[w] \in WorkRecord
      /\ work'[w].pc = pc /\ work'[w].job = work[w].job
      /\ work'[w].began = work[w].began /\ work'[w].asked = work[w].asked
    BY <1>1, <1>4, <1>7, <1>8 DEF WorkRecord
<1>10. WorkTypes'
    BY <1>1, <1>2, <1>7, <1>9 DEF WorkTypes
<1>11. PlansMissNothing(w)'
  <2> SUFFICES ASSUME work[w].job = "remediation", NEW d \in work[w].asked,
                      work'[w].plans[d] # Absent, NEW t \in Wanted(w, d)'
               PROVE  t \in rows[d] \/ Covers(work'[w].plans[d], t)
      BY <1>2, <1>9 DEF PlansMissNothing
  <2>1. d \in Datasets
      BY <1>1
  <2>2. CASE d \notin RetainedDatasets
      BY <2>2 DEF Wanted
  <2>3. CASE d \in RetainedDatasets /\ d # x
    <3>1. work'[w].plans[d] = work[w].plans[d]
        BY <2>1, <2>3, <1>8
    <3>2. t \in Wanted(w, d)
        BY <2>1, <2>3, <1>2, <1>9, WantedShrinks, WorkFacts DEF IInv, WorkerInv
    <3> QED
        BY <3>1, <3>2, WorkFacts DEF WorkerInv, PlansMissNothing
  <2>4. CASE d \in RetainedDatasets /\ d = x
    <3>1. /\ t \in Int /\ t <= work[w].began /\ work[w].began - Retention <= t
          /\ t % Period = 0
        BY <2>1, <2>4, <1>9, JobConstantsAssumption DEF Wanted, Had, Available
    <3> QED
        BY <3>1, <2>1, <2>4, <1>3, <1>8
  <2> QED
      BY <2>2, <2>3, <2>4
<1>12. AllPlanned(w)'
  <2> SUFFICES ASSUME pc = "insert", NEW d \in work[w].asked
               PROVE  work'[w].plans[d] # Absent
      BY <1>4, <1>9 DEF AllPlanned
  <2> QED
      BY <1>1, <1>3, <1>5, <1>6, <1>8
<1>13. WorkerInv(w)'
    BY <1>2, <1>4, <1>9, <1>11, <1>12, WorkFacts
       DEF WorkerInv, CommitHasRows, OnlyRemediationPlans, NothingForgotten
<1>14. \A v \in Workers : WorkerInv(v)'
    BY <1>2, <1>7, <1>13, OneWorkerMoves DEF RowsGrow
<1>15. RunningRowsAreWorkedOn'
    BY <1>2, <1>7 DEF IInv, RunningRowsAreWorkedOn
<1>16. TypeOK'
    BY <1>2, <1>10, WorkTypesSuffice DEF IInv, TypeOK, boundVars
<1> QED
    BY <1>10, <1>14, <1>15, <1>16 DEF IInv

LEMMA InsertRowStep == ASSUME IInv, NEW w \in Workers, InsertRow(w) PROVE IInv'
<1> DEFINE calls == CallsFor(work[w].plans)
<1>1. /\ work[w] \in WorkRecord /\ work \in [Workers -> WorkRecord]
      /\ rows \in FetchedRows /\ now \in Int
      /\ work[w].plans \in PlansSoFar /\ work[w].asked \in SUBSET Datasets
      /\ WorkerInv(w)
    BY WorkFacts DEF WorkRecord
<1>2. /\ calls \in Seq(CallSet)
      /\ \A d \in Datasets, t \in Int :
             work[w].plans[d] # Absent /\ Covers(work[w].plans[d], t) =>
                 \E i \in DOMAIN calls : Requests(calls[i], d, t)
    BY <1>1, CallsCoverPlans
<1>3. /\ work[w].pc = "insert" /\ work[w].job = "remediation"
      /\ work' = [work EXCEPT ![w].calls = calls, ![w].pc = "fetch"]
      /\ row' = [row EXCEPT ![w] = "running"] /\ orphans' = orphans \ {w}
      /\ UNCHANGED <<now, rows, server, loops, boundVars>>
    BY <1>1 DEF InsertRow, WorkerInv, OnlyRemediationPlans
<1> HIDE DEF calls
<1>4. /\ work'[w] = [work[w] EXCEPT !.calls = calls, !.pc = "fetch"]
      /\ \A v \in Workers \ {w} : work'[v] = work[v]
      /\ work' = [v \in Workers |-> work'[v]]
    BY <1>1, <1>3
<1>5. /\ work'[w] \in WorkRecord
      /\ work'[w].pc = "fetch" /\ work'[w].job = "remediation" /\ work'[w].calls = calls
      /\ work'[w].began = work[w].began /\ work'[w].asked = work[w].asked
      /\ work'[w].plans = work[w].plans
    BY <1>1, <1>2, <1>3, <1>4 DEF WorkRecord, Pcs
<1>6. WorkTypes'
    BY <1>1, <1>3, <1>4, <1>5 DEF WorkTypes
<1>7. \A d \in work[w].asked : Wanted(w, d)' \subseteq Wanted(w, d)
    BY <1>1, <1>3, <1>5, WantedShrinks DEF IInv, WorkerInv
<1>8. NothingForgotten(w)'
  <2> SUFFICES ASSUME NEW d \in work[w].asked, NEW t \in Wanted(w, d)
               PROVE  t \in rows[d] \/ \E i \in DOMAIN calls : Requests(calls[i], d, t)
      BY <1>3, <1>5, <1>7 DEF NothingForgotten, StillAsked
  <2>1. work[w].plans[d] # Absent
      BY <1>1, <1>3 DEF WorkerInv, AllPlanned
  <2>2. t \in rows[d] \/ Covers(work[w].plans[d], t)
      BY <1>1, <1>3, <2>1 DEF WorkerInv, PlansMissNothing
  <2>3. d \in Datasets /\ t \in Int
      BY <1>1, JobConstantsAssumption DEF Wanted, Had, Available
  <2> QED
      BY <2>1, <2>2, <2>3, <1>2
<1>9. PlansMissNothing(w)' /\ AllPlanned(w)'
    BY <1>1, <1>3, <1>5, <1>7 DEF WorkerInv, PlansMissNothing, AllPlanned
<1>10. WorkerInv(w)'
    BY <1>1, <1>3, <1>5, <1>8, <1>9 DEF WorkerInv, CommitHasRows, OnlyRemediationPlans
<1>11. \A v \in Workers : WorkerInv(v)'
    BY <1>3, <1>4, <1>10, OneWorkerMoves DEF RowsGrow
<1>12. RunningRowsAreWorkedOn'
    BY <1>3, <1>4, <1>5 DEF IInv, TypeOK, RunningRowsAreWorkedOn
<1>13. TypeOK'
  <2>1. row' \in [Workers -> RowStates]
      BY <1>3 DEF IInv, TypeOK, RowStates
  <2> QED
      BY <2>1, <1>3, <1>6, WorkTypesSuffice DEF IInv, TypeOK, boundVars
<1> QED
    BY <1>6, <1>11, <1>12, <1>13 DEF IInv

LEMMA FetchStep == ASSUME IInv, NEW w \in Workers, Fetch(w) PROVE IInv'
<1> DEFINE call    == Head(work[w].calls)
           fetched == CallRows(call, VenueNow, work[w].began, now)
<1>1. /\ work[w] \in WorkRecord /\ work \in [Workers -> WorkRecord]
      /\ rows \in FetchedRows /\ now \in 0..EndTime /\ now \in Int
      /\ work[w].calls \in Seq(CallSet) /\ work[w].began \in 0..EndTime
      /\ work[w].asked \in SUBSET Datasets
      /\ WorkerInv(w)
    BY WorkFacts DEF WorkRecord
<1>2. work[w].pc = "fetch" /\ work[w].calls # <<>>
    BY DEF Fetch
<1>3. VenueNow \in FetchedRows
  <2>1. ASSUME NEW d \in Datasets, NEW t \in Available(d, now)
        PROVE  t \in 0..EndTime
      BY <1>1, Numbers, JobConstantsAssumption DEF Available
  <2> QED
      BY <2>1 DEF VenueNow, FetchedRows
<1>4. /\ call \in CallSet /\ call = work[w].calls[1]
      /\ 1 \in DOMAIN work[w].calls
    BY <1>1, <1>2
<1>5. /\ fetched \in FetchedRows
      /\ \A d \in Datasets : \A u \in Available(d, now) :
             Requests(call, d, u) => u \in fetched[d]
  <2> HIDE DEF call
  <2>1. /\ fetched \in FetchedRows
        /\ \A d \in Datasets : \A u \in VenueNow[d] :
             Requests(call, d, u) => u \in fetched[d]
      BY <1>1, <1>3, <1>4, CallRowsFacts
  <2> QED
      BY <2>1 DEF VenueNow
<1>6. /\ work' = [work EXCEPT ![w].pc = "commit", ![w].fetched = fetched]
      /\ UNCHANGED <<now, rows, server, loops, row, orphans, boundVars>>
    BY DEF Fetch
<1> HIDE DEF call, fetched
<1>7. /\ work'[w] = [work[w] EXCEPT !.pc = "commit", !.fetched = fetched]
      /\ \A v \in Workers \ {w} : work'[v] = work[v]
      /\ work' = [v \in Workers |-> work'[v]]
    BY <1>1, <1>6
<1>8. /\ work'[w] \in WorkRecord
      /\ work'[w].pc = "commit" /\ work'[w].fetched = fetched
      /\ work'[w].job = work[w].job /\ work'[w].calls = work[w].calls
      /\ work'[w].began = work[w].began /\ work'[w].asked = work[w].asked
      /\ work'[w].plans = work[w].plans
    BY <1>1, <1>5, <1>7 DEF WorkRecord, Pcs
<1>9. WorkTypes'
    BY <1>1, <1>6, <1>7, <1>8 DEF WorkTypes
<1>10. \A d \in work[w].asked : Wanted(w, d)' \subseteq Wanted(w, d)
    BY <1>1, <1>6, <1>8, WantedShrinks DEF IInv, WorkerInv
<1>11. NothingForgotten(w)'
  <2> SUFFICES ASSUME work[w].job = "remediation",
                      NEW d \in work[w].asked, NEW t \in Wanted(w, d)
               PROVE  t \in rows[d] \/ t \in fetched[d] \/ StillAsked(w, d, t)'
      BY <1>6, <1>8, <1>10 DEF NothingForgotten
  <2>1. t \in rows[d] \/ \E i \in DOMAIN work[w].calls : Requests(work[w].calls[i], d, t)
      BY <1>1, <1>2 DEF WorkerInv, NothingForgotten, StillAsked
  <2>2. d \in Datasets /\ t \in Available(d, now)
      BY <1>1 DEF Wanted, Had
  <2>3. ASSUME NEW i \in DOMAIN work[w].calls, Requests(work[w].calls[i], d, t)
        PROVE  t \in fetched[d] \/ StillAsked(w, d, t)'
    <3>1. CASE i = 1
        BY <3>1, <2>2, <2>3, <1>4, <1>5
    <3>2. CASE i # 1
        BY <3>2, <2>3, <1>8 DEF StillAsked
    <3> QED
        BY <3>1, <3>2
  <2> QED
      BY <2>1, <2>3
<1>12. PlansMissNothing(w)' /\ AllPlanned(w)'
    BY <1>1, <1>2, <1>6, <1>8, <1>10 DEF WorkerInv, PlansMissNothing, AllPlanned
<1>13. WorkerInv(w)'
    BY <1>1, <1>2, <1>5, <1>6, <1>8, <1>11, <1>12 DEF WorkerInv, CommitHasRows, OnlyRemediationPlans
<1>14. \A v \in Workers : WorkerInv(v)'
    BY <1>6, <1>7, <1>13, OneWorkerMoves DEF RowsGrow
<1>15. RunningRowsAreWorkedOn'
  <2>1. row' = row /\ orphans' = orphans
      BY <1>6
  <2>2. work'[w].pc = "commit" /\ work'[w].job = work[w].job
      BY <1>8
  <2> QED
      BY <1>2, <1>7, <2>1, <2>2 DEF IInv, RunningRowsAreWorkedOn
<1>16. TypeOK'
    BY <1>6, <1>9, WorkTypesSuffice DEF IInv, TypeOK, boundVars
<1> QED
    BY <1>9, <1>14, <1>15, <1>16 DEF IInv

LEMMA CommitStep == ASSUME IInv, NEW w \in Workers, Commit(w) PROVE IInv'
<1> DEFINE calls == Tail(work[w].calls)
           pc    == IF work[w].job = "remediation" THEN "fetch" ELSE "returned"
<1>1. /\ work[w] \in WorkRecord /\ work \in [Workers -> WorkRecord]
      /\ rows \in FetchedRows /\ now \in Int
      /\ work[w].calls \in Seq(CallSet) /\ work[w].asked \in SUBSET Datasets
      /\ WorkerInv(w)
    BY WorkFacts DEF WorkRecord
<1>2. /\ work[w].pc = "commit" /\ work[w].calls # <<>> /\ work[w].fetched \in FetchedRows
      /\ rows' = [d \in Datasets |-> rows[d] \union work[w].fetched[d]]
      /\ work' = [work EXCEPT ![w].fetched = <<>>, ![w].calls = calls, ![w].pc = pc]
      /\ UNCHANGED <<now, server, loops, row, orphans, boundVars>>
    BY <1>1 DEF Commit, WorkerInv, CommitHasRows, WorkRecord
<1>3. /\ calls \in Seq(CallSet)
      /\ \A i \in DOMAIN work[w].calls :
             i # 1 => i - 1 \in DOMAIN calls /\ calls[i - 1] = work[w].calls[i]
    BY <1>1, <1>2
<1>4. RowsGrow /\ rows' \in FetchedRows
    BY <1>1, <1>2 DEF RowsGrow, FetchedRows
<1>5. pc \in Pcs /\ pc \in {"fetch", "returned"}
    BY DEF Pcs
<1> HIDE DEF calls, pc
<1>6. /\ work'[w] = [work[w] EXCEPT !.fetched = <<>>, !.calls = calls, !.pc = pc]
      /\ \A v \in Workers \ {w} : work'[v] = work[v]
      /\ work' = [v \in Workers |-> work'[v]]
    BY <1>1, <1>2
<1>7. /\ work'[w] \in WorkRecord
      /\ work'[w].pc = pc /\ work'[w].job = work[w].job /\ work'[w].calls = calls
      /\ work'[w].began = work[w].began /\ work'[w].asked = work[w].asked
      /\ work'[w].plans = work[w].plans
    BY <1>1, <1>3, <1>5, <1>6 DEF WorkRecord
<1>8. WorkTypes'
    BY <1>1, <1>4, <1>6, <1>7 DEF WorkTypes
<1>9. \A d \in work[w].asked : Wanted(w, d)' \subseteq Wanted(w, d)
    BY <1>1, <1>2, <1>7, WantedShrinks DEF IInv, WorkerInv
<1>10. NothingForgotten(w)'
  <2> SUFFICES ASSUME work[w].job = "remediation",
                      NEW d \in work[w].asked, NEW t \in Wanted(w, d)
               PROVE  t \in rows'[d] \/ \E i \in DOMAIN calls : Requests(calls[i], d, t)
      BY <1>5, <1>7, <1>9 DEF NothingForgotten, StillAsked
  <2>1. \/ t \in rows[d] \/ t \in work[w].fetched[d]
        \/ \E i \in DOMAIN work[w].calls : i # 1 /\ Requests(work[w].calls[i], d, t)
      BY <1>1, <1>2 DEF WorkerInv, NothingForgotten, StillAsked
  <2>2. rows'[d] = rows[d] \union work[w].fetched[d]
      BY <1>1, <1>2
  <2> QED
      BY <2>1, <2>2, <1>3
<1>11. PlansMissNothing(w)'
    BY <1>1, <1>4, <1>7, <1>9 DEF WorkerInv, PlansMissNothing, RowsGrow
<1>12. AllPlanned(w)'
    BY <1>1, <1>2, <1>7 DEF WorkerInv, AllPlanned
<1>13. WorkerInv(w)'
    BY <1>1, <1>2, <1>5, <1>7, <1>10, <1>11, <1>12
       DEF WorkerInv, CommitHasRows, OnlyRemediationPlans
<1>14. \A v \in Workers : WorkerInv(v)'
    BY <1>2, <1>4, <1>6, <1>13, OneWorkerMoves
<1>15. RunningRowsAreWorkedOn'
    BY <1>2, <1>6, <1>7 DEF IInv, RunningRowsAreWorkedOn, pc
<1>16. TypeOK'
    BY <1>2, <1>8, WorkTypesSuffice DEF IInv, TypeOK, boundVars
<1> QED
    BY <1>8, <1>14, <1>15, <1>16 DEF IInv

\* The steps that end a job change what a worker is at, and nothing it holds.
LEMMA WorkWindsUp ==
    ASSUME IInv, NEW w \in Workers, NEW pc \in {"raise", "raised", "returned"},
           pc = "raise" => work[w].job = "remediation",
           NEW fetched \in {<<>>, work[w].fetched},
           work' = [work EXCEPT ![w].fetched = fetched, ![w].pc = pc],
           UNCHANGED <<now, rows>>
    PROVE  /\ WorkTypes'
           /\ \A v \in Workers : WorkerInv(v)'
           /\ work'[w].pc = pc /\ work'[w].job = work[w].job
           /\ \A v \in Workers \ {w} : work'[v] = work[v]
<1>1. /\ work[w] \in WorkRecord /\ work \in [Workers -> WorkRecord]
      /\ rows \in FetchedRows /\ now \in Int
      /\ work[w].asked \in SUBSET Datasets /\ work[w].fetched \in FetchedRows \union {<<>>}
      /\ WorkerInv(w)
    BY WorkFacts DEF WorkRecord
<1>2. /\ work'[w] = [work[w] EXCEPT !.fetched = fetched, !.pc = pc]
      /\ \A v \in Workers \ {w} : work'[v] = work[v]
      /\ work' = [v \in Workers |-> work'[v]]
    BY <1>1
<1>3. /\ work'[w] \in WorkRecord
      /\ work'[w].pc = pc /\ work'[w].job = work[w].job
      /\ work'[w].began = work[w].began /\ work'[w].asked = work[w].asked
      /\ work'[w].plans = work[w].plans
    BY <1>1, <1>2 DEF WorkRecord, Pcs
<1>4. WorkTypes'
    BY <1>1, <1>2, <1>3 DEF WorkTypes
<1>5. \A d \in work[w].asked : Wanted(w, d)' \subseteq Wanted(w, d)
    BY <1>1, <1>3, WantedShrinks DEF IInv, WorkerInv
<1>6. PlansMissNothing(w)'
    BY <1>1, <1>3, <1>5 DEF WorkerInv, PlansMissNothing
<1>7. WorkerInv(w)'
    BY <1>1, <1>3, <1>6
       DEF WorkerInv, CommitHasRows, OnlyRemediationPlans, AllPlanned, NothingForgotten
<1>8. \A v \in Workers : WorkerInv(v)'
    BY <1>2, <1>7, OneWorkerMoves DEF RowsGrow
<1> QED
    BY <1>2, <1>3, <1>4, <1>8

LEMMA FinishRowStep == ASSUME IInv, NEW w \in Workers, FinishRow(w) PROVE IInv'
<1>1. work \in [Workers -> WorkRecord]
    BY WorkFacts
<1>2. work' = [work EXCEPT ![w].fetched = work[w].fetched, ![w].pc = "returned"]
    BY <1>1 DEF FinishRow, WorkRecord
<1>3. /\ WorkTypes'
      /\ \A v \in Workers : WorkerInv(v)'
      /\ \A v \in Workers \ {w} : work'[v] = work[v]
    BY <1>2, WorkWindsUp DEF FinishRow
<1>4. RunningRowsAreWorkedOn'
    BY <1>3 DEF IInv, TypeOK, RunningRowsAreWorkedOn, FinishRow
<1>5. TypeOK'
  <2>1. row' \in [Workers -> RowStates]
      BY DEF IInv, TypeOK, RowStates, FinishRow
  <2> QED
      BY <1>3, <2>1, WorkTypesSuffice DEF IInv, TypeOK, boundVars, FinishRow
<1> QED
    BY <1>3, <1>4, <1>5 DEF IInv

LEMMA FailRowStep == ASSUME IInv, NEW w \in Workers, FailRow(w) PROVE IInv'
<1>1. work \in [Workers -> WorkRecord]
    BY WorkFacts
<1>2. work' = [work EXCEPT ![w].fetched = work[w].fetched, ![w].pc = "raised"]
    BY <1>1 DEF FailRow, WorkRecord
<1>3. /\ WorkTypes'
      /\ \A v \in Workers : WorkerInv(v)'
      /\ \A v \in Workers \ {w} : work'[v] = work[v]
    BY <1>2, WorkWindsUp DEF FailRow
<1>4. RunningRowsAreWorkedOn'
    BY <1>3 DEF IInv, TypeOK, RunningRowsAreWorkedOn, FailRow
<1>5. TypeOK'
  <2>1. row' \in [Workers -> RowStates]
      BY DEF IInv, TypeOK, RowStates, FailRow
  <2> QED
      BY <1>3, <2>1, WorkTypesSuffice DEF IInv, TypeOK, boundVars, FailRow
<1> QED
    BY <1>3, <1>4, <1>5 DEF IInv

\* An exception on the way to the row's end leaves a "running" row to "raise",
\* and one of the write of that end makes it an orphan.
LEMMA RaisesStep == ASSUME IInv, NEW w \in Workers, Raises(w) PROVE IInv'
<1> DEFINE pc == IF /\ work[w].job = "remediation"
                    /\ work[w].pc \in {"fetch", "commit"}
                 THEN "raise" ELSE "raised"
<1>1. /\ work' = [work EXCEPT ![w].fetched = <<>>, ![w].pc = pc]
      /\ orphans' = IF work[w].pc = "raise" THEN orphans \union {w} ELSE orphans
      /\ troubles < MaxTroubles /\ troubles' = troubles + 1
      /\ UNCHANGED <<now, rows, server, loops, row, requests>>
    BY DEF Raises
<1>2. /\ WorkTypes'
      /\ \A v \in Workers : WorkerInv(v)'
      /\ work'[w].pc = pc /\ work'[w].job = work[w].job
      /\ \A v \in Workers \ {w} : work'[v] = work[v]
    BY <1>1, WorkWindsUp
<1>3. RunningRowsAreWorkedOn'
    BY <1>1, <1>2 DEF IInv, RunningRowsAreWorkedOn
<1>4. TypeOK'
  <2>1. troubles' \in 0..MaxTroubles /\ orphans' \subseteq Workers
      BY <1>1, JobConstantsAssumption DEF IInv, TypeOK
  <2> QED
      BY <1>1, <1>2, <2>1, WorkTypesSuffice DEF IInv, TypeOK
<1> QED
    BY <1>2, <1>3, <1>4 DEF IInv

-----------------------------------------------------------------------------
(* The theorems *)

LEMMA InitHolds == Init => IInv
<1> SUFFICES ASSUME Init PROVE IInv
    OBVIOUS
<1>1. /\ rows \in FetchedRows
      /\ work \in [Workers -> WorkRecord] /\ \A w \in Workers : work[w] = NoWork
      /\ now \in StartTime..EndTime /\ now \in Nat
    BY NoWorkFacts, JobConstantsAssumption DEF Init, FetchedRows
<1>2. \A w \in Workers : WorkerInv(w)
    BY <1>1, NoWorkFacts
       DEF WorkerInv, CommitHasRows, OnlyRemediationPlans, PlansMissNothing, AllPlanned,
           NothingForgotten
<1>3. TypeOK
    BY <1>1, NoWorkFacts, JobConstantsAssumption
       DEF Init, TypeOK, FetchedRows, WorkRecord, RowStates
<1> QED
    BY <1>1, <1>2, <1>3 DEF IInv, WorkTypes, RunningRowsAreWorkedOn, Init, RowStates

LEMMA StepKeeps == IInv /\ [Next]_vars => IInv'
<1> SUFFICES ASSUME IInv, [Next]_vars PROVE IInv'
    OBVIOUS
<1>1. CASE UNCHANGED vars
  <2>1. UNCHANGED <<now, rows, server, loops, work, row, orphans, requests, troubles>>
      BY <1>1 DEF vars
  <2>2. /\ WorkTypes'
        /\ \A v \in Workers : WorkerInv(v)'
        /\ RunningRowsAreWorkedOn'
      BY <2>1, WorkStays
  <2>3. TypeOK'
      BY <2>1 DEF IInv, TypeOK
  <2> QED
      BY <2>2, <2>3 DEF IInv
<1>2. ASSUME NEW w \in Workers, Step(w) PROVE IInv'
    BY <1>2, PlanDatasetStep, InsertRowStep, FetchStep, CommitStep, FinishRowStep,
       FailRowStep, ThreadEndsStep, LoopWakesStep, LoopSleepsStep DEF Step
<1>3. ASSUME NEW w \in Workers, Raises(w) PROVE IInv'
    BY <1>3, RaisesStep
<1>4. ASSUME NEW c \in Clients, ClientAsks(c) PROVE IInv'
    BY <1>4, ClientAsksStep
<1>5. CASE StopScheduler \/ ProcessExits \/ StartScheduler \/ Tick
    BY <1>5, SchedulerSteps
<1>6. CASE Dies
    BY <1>6, DiesStep
<1> QED
    BY <1>1, <1>2, <1>3, <1>4, <1>5, <1>6 DEF Next

LEMMA InductiveInvariant == Spec => []IInv
BY InitHolds, StepKeeps, PTL DEF Spec

\* The state keeps its types: every row is a time of the run, every thread is at
\* a place of its job.
THEOREM TypesHold == Spec => []TypeOK
<1>1. IInv => TypeOK
    BY DEF IInv
<1> QED
    BY <1>1, InductiveInvariant, PTL

\* A row says "running" only while a thread works on it, unless the process died
\* or the write of its end failed.
THEOREM RunningRowsAreTrue == Spec => []RunningRowsAreWorkedOn
<1>1. IInv => RunningRowsAreWorkedOn
    BY DEF IInv
<1> QED
    BY <1>1, InductiveInvariant, PTL

\* A remediation that succeeds leaves no hole that the venue could fill then and
\* at its start, whatever the other jobs, failed calls and restarts did meanwhile.
THEOREM SuccessLeavesNoHoles == Spec => RemediationLeavesNoHoles
<1> DEFINE Filled(w, d) ==
        LET had == Available(d, work[w].began) \intersect Available(d, now)
        IN  IF d \in RetainedDatasets THEN {t \in had : t % Period = 0} \subseteq rows[d]
            ELSE work[w].plans[d].required =>
                     Within(had, Window(work[w].plans[d].lo, work[w].plans[d].hi))
                         \subseteq rows[d]
<1>1. ASSUME IInv, NEW w \in Workers, FinishRow(w), NEW d \in work[w].asked
      PROVE  Filled(w, d)
  <2>1. /\ work[w].pc = "fetch" /\ work[w].calls = <<>> /\ work[w].job = "remediation"
        /\ WorkerInv(w)
      BY <1>1 DEF FinishRow, IInv, WorkerInv, OnlyRemediationPlans
  <2>2. ASSUME NEW t \in Wanted(w, d)
        PROVE  t \in rows[d]
      BY <2>1 DEF WorkerInv, NothingForgotten, StillAsked
  <2> QED
      BY <2>2 DEF Wanted, Had, Covers, Within, Window
<1>2. IInv => \A w \in Workers : FinishRow(w) => \A d \in work[w].asked : Filled(w, d)
    BY <1>1
<1>3. IInv /\ [Next]_vars
          => [\A w \in Workers : FinishRow(w) => \A d \in work[w].asked : Filled(w, d)]_vars
    BY <1>2
<1> QED
    BY <1>3, InductiveInvariant, PTL DEF RemediationLeavesNoHoles, Spec

-----------------------------------------------------------------------------
(* Plans and audits *)

AuditOf(times) == [t \in times |-> Row(t, t, FALSE)]

\* The rows of a retained series that both the plan and the audits go by.
PlannedTimes(times, at) ==
    {t \in Within(times, Window(RetentionFloor(at), at)) : t % Period = 0}

\* The window that the venue remembers, on the grid of the period.
LEMMA RememberedWindow ==
    ASSUME NEW at \in Nat, Retention <= at
    PROVE  LET floor == RetentionFloor(at)
               last  == FloorTo(at, Period)
           IN  /\ floor \in Int /\ 0 <= floor /\ floor <= last /\ floor % Period = 0
               /\ last \in Int /\ last <= at /\ last % Period = 0
               /\ \A t \in Int : t <= at /\ t % Period = 0 => t <= last
<1> DEFINE floor == RetentionFloor(at)
           last  == FloorTo(at, Period)
           kept  == at - Retention
<1>1. /\ Period \in Nat \ {0} /\ Day \in Nat \ {0} /\ Retention \in Nat /\ Day % Period = 0
    BY PlanConstantsAssumption
<1>2. kept \in Int /\ 0 <= kept /\ kept <= at
    BY <1>1
<1>3. floor = FloorTo(kept, Day)
    BY DEF RetentionFloor
<1> HIDE DEF kept
<1>4. /\ floor \in Int /\ floor <= kept /\ floor % Day = 0
      /\ \A u \in Int : u <= kept /\ u % Day = 0 => u <= floor
    BY <1>1, <1>2, <1>3, FloorToFacts
<1>5. 0 % Day = 0
    BY <1>1
<1>6. 0 <= floor
    BY <1>2, <1>4, <1>5
<1>7. /\ last \in Int /\ last <= at /\ last % Period = 0
      /\ \A t \in Int : t <= at /\ t % Period = 0 => t <= last
    BY <1>1, FloorToFacts
<1> HIDE DEF floor, last
<1>8. floor % Period = 0
    BY <1>1, <1>4, CoarserGrid
<1>9. floor <= at
    BY <1>2, <1>4
<1>10. floor <= last
    BY <1>4, <1>7, <1>8, <1>9
<1> QED
    BY <1>4, <1>6, <1>7, <1>8, <1>10 DEF floor, last

LEMMA PlannedTimesFacts ==
    ASSUME NEW at \in Nat, Retention <= at, NEW times, times \subseteq 0..EndTime
    PROVE  LET floor == RetentionFloor(at)
               last  == FloorTo(at, Period)
               safe  == PlannedTimes(times, at)
           IN  /\ safe \subseteq GridOf(floor, last, Period)
               /\ ExpectedTimes(Window(floor, last), Period) \ safe = Missed(safe, floor, last, Period)
               /\ IsFiniteSet(safe)
               /\ IsFiniteSet(Missed(safe, floor, last, Period))
<1> DEFINE floor == RetentionFloor(at)
           last  == FloorTo(at, Period)
           safe  == PlannedTimes(times, at)
<1>1. /\ floor \in Int /\ 0 <= floor /\ floor <= last /\ floor % Period = 0
      /\ last \in Int /\ last <= at /\ last % Period = 0
      /\ \A t \in Int : t <= at /\ t % Period = 0 => t <= last
    BY RememberedWindow
<1>2. \A t \in safe : t \in times /\ floor <= t /\ t <= at /\ t % Period = 0
    BY DEF PlannedTimes, Within, Window
<1>3. Period \in Nat \ {0} /\ EndTime \in Nat
    BY PlanConstantsAssumption, JobConstantsAssumption
<1> HIDE DEF floor, last, safe
<1>4. safe \subseteq GridOf(floor, last, Period)
  <2>1. SUFFICES ASSUME NEW t \in safe PROVE t \in GridOf(floor, last, Period)
      OBVIOUS
  <2>2. t \in Int /\ floor <= t /\ t % Period = 0
    <3>1. t \in 0..EndTime /\ floor <= t /\ t % Period = 0
        BY <1>2
    <3> QED
        BY <3>1, <1>3
  <2>3. t <= last
      BY <1>1, <1>2, <2>2
  <2> QED
      BY <2>2, <2>3, <1>1 DEF GridOf
<1>5. ExpectedTimes(Window(floor, last), Period) = GridOf(floor, last, Period)
    BY <1>1, <1>3, ExpectedTimesAreTheGrid DEF GridOf
<1>6. IsFiniteSet(GridOf(floor, last, Period))
  <2>1. IsFiniteSet(floor..last)
      BY <1>1, FS_Interval
  <2>2. GridOf(floor, last, Period) \subseteq floor..last
      BY DEF GridOf
  <2> QED
      BY <2>1, <2>2, FS_Subset
<1>7. IsFiniteSet(safe)
    BY <1>4, <1>6, FS_Subset
<1>8. Missed(safe, floor, last, Period) \subseteq GridOf(floor, last, Period)
    BY DEF Missed
<1>9. IsFiniteSet(Missed(safe, floor, last, Period))
    BY <1>6, <1>8, FS_Subset
<1>10. ExpectedTimes(Window(floor, last), Period) \ safe = Missed(safe, floor, last, Period)
    BY <1>5 DEF Missed
<1> QED
    BY <1>4, <1>7, <1>9, <1>10 DEF floor, last, safe

\* A plan is required exactly if a period is missing (remediate_market_snapshots.py:165-235).
LEMMA PlanRequired ==
    ASSUME NEW at \in Nat, Retention <= at, NEW times, times \subseteq 0..EndTime
    PROVE  LET missed == Missed(PlannedTimes(times, at), RetentionFloor(at), FloorTo(at, Period), Period)
           IN  RetainedPlan(times, at).required <=> missed # {}
<1> DEFINE floor  == RetentionFloor(at)
           last   == FloorTo(at, Period)
           safe   == PlannedTimes(times, at)
           missed == Missed(safe, floor, last, Period)
           fromDay == IF Max(safe) - Day > floor THEN Max(safe) - Day ELSE floor
<1>1. ExpectedTimes(Window(floor, last), Period) \ safe = missed
    BY PlannedTimesFacts
<1>2. RetainedPlan(times, at) =
          IF missed = {} THEN NoPlan
          ELSE IF safe = {} THEN Plan("missing", floor, at)
          ELSE IF floor \in missed THEN Plan("coverage_shortfall", floor, at)
          ELSE IF \E m \in missed : m < Max(safe)
          THEN Plan("continuity_gap", Min(missed), at)
          ELSE Plan("tail_shortfall", fromDay, at)
  <2>1. safe = {t \in Within(times, Window(floor, at)) : t % Period = 0}
      BY DEF PlannedTimes
  <2> HIDE DEF missed, floor, last
  <2> QED
      BY <1>1, <2>1 DEF RetainedPlan, floor, last
<1>3. NoPlan.required = FALSE /\ \A why, from, to : Plan(why, from, to).required = TRUE
    BY DEF NoPlan, Plan
<1> HIDE DEF missed, floor, last, safe, fromDay
<1>4. missed = {} => RetainedPlan(times, at).required = FALSE
    BY <1>2, <1>3
<1>5. missed # {} => RetainedPlan(times, at).required = TRUE
    BY <1>2, <1>3
<1>6. RetainedPlan(times, at).required <=> missed # {}
    BY <1>4, <1>5
<1> QED
    BY <1>6 DEF missed, floor, last, safe

\* What the integrity check and the check of continuity see of a retained series
\* whose rows are one per time (data_quality.py:757-1188, 1313-1412).
LEMMA AuditParts ==
    ASSUME NEW at \in Nat, Retention <= at, NEW times, times \subseteq 0..EndTime
    PROVE  LET safe   == PlannedTimes(times, at)
               P      == Profile(safe, Window(RetentionFloor(at), FloorTo(at, Period)), Period)
               report == DatasetReport(AuditOf(times), RetainedSpec, Window(0, at), at, Day)
           IN  /\ report.missing = MissingCount(P)
               /\ report.profile = P
               /\ ContinuityBreaks(AuditOf(times), RetainedSpec, Window(0, at), Day) =
                      {p \in Neighbours(safe) : p[2] - p[1] > 2 * Period}
<1> DEFINE safe   == PlannedTimes(times, at)
           floor  == RetentionFloor(at)
           last   == FloorTo(at, Period)
           P      == Profile(safe, Window(floor, last), Period)
           data   == AuditOf(times)
           report == DatasetReport(data, RetainedSpec, Window(0, at), at, Day)
           w      == Window(0, last)
           seen   == RowsIn(data, w)
<1>1. /\ RetainedSpec.step = Period /\ RetainedSpec.alignedOnly = TRUE
      /\ RetainedSpec.retention = Retention
    BY DEF RetainedSpec
<1>2. /\ Period \in Nat \ {0} /\ Retention \in Nat /\ Absent \notin Int
      /\ Period # Absent /\ Retention # Absent
    BY PlanConstantsAssumption
<1>3. /\ floor \in Int /\ 0 <= floor /\ floor <= last /\ last \in Int /\ last <= at
      /\ \A t \in Int : t <= at /\ t % Period = 0 => t <= last
    BY RememberedWindow
<1>4. \A a, b : Window(a, b).lo = a /\ Window(a, b).hi = b
    BY DEF Window
<1>5. DatasetWindow(RetainedSpec, Window(0, at)) = w
  <2>1. CeilTo(0, Period) = 0
      BY <1>2 DEF CeilTo
  <2>2. AlignWindow(Window(0, at), Period) = w
      BY <1>4, <2>1 DEF AlignWindow
  <2> HIDE DEF w
  <2> QED
      BY <1>1, <1>2, <2>2 DEF DatasetWindow
<1>6. AvailabilityFloor(RetainedSpec, at, Day) = floor
    BY <1>1, <1>2 DEF AvailabilityFloor, RetentionFloor
<1>7. w.lo = 0 /\ w.hi = last /\ floor # Absent /\ ~ (floor < w.lo)
    BY <1>2, <1>3, <1>4
<1>8. /\ DOMAIN data = times
      /\ \A t \in times : data[t].ts = t
  <2>1. \A t : Row(t, t, FALSE).ts = t
      BY DEF Row
  <2> QED
      BY <2>1 DEF AuditOf
<1>9. RowTimes(seen) = {t \in times : 0 <= t /\ t <= last}
  <2> DEFINE D == {t \in times : 0 <= t /\ t <= last}
             E == {i \in DOMAIN data : w.lo <= data[i].ts /\ data[i].ts <= w.hi}
  <2>1. E = D
      BY <1>7, <1>8
  <2>2. seen = [t \in E |-> data[t]]
      BY DEF RowsIn, Restrict
  <2>3. D \subseteq times
      OBVIOUS
  <2> HIDE DEF D, E, seen, data, w
  <2>4. DOMAIN seen = D /\ \A t \in D : seen[t].ts = t
      BY <2>1, <2>2, <2>3, <1>8
  <2>5. RowTimes(seen) = D
      BY <2>4 DEF RowTimes
  <2> QED
      BY <2>5 DEF D
<1> HIDE DEF data, w, seen
<1>10. \A t : t \in safe <=> t \in times /\ floor <= t /\ t <= at /\ t % Period = 0
    BY <1>4 DEF PlannedTimes, Within
<1>11. \A t \in times : t \in Int
  <2>1. EndTime \in Nat
      BY JobConstantsAssumption
  <2> QED
      BY <2>1
<1> HIDE DEF safe, floor, last, P
<1>12. SafeTimes(seen, RetainedSpec, floor, at) = safe
  <2>1. SafeTimes(seen, RetainedSpec, floor, at) =
            {t \in RowTimes(seen) : t % Period = 0 /\ floor <= t /\ t <= at}
      BY <1>1 DEF SafeTimes
  <2>2. ASSUME NEW t \in times
        PROVE  t % Period = 0 /\ floor <= t /\ t <= at => 0 <= t /\ t <= last
    <3>1. t \in Int
        BY <1>11
    <3> QED
        BY <3>1, <1>3
  <2> QED
      BY <2>1, <2>2, <1>9, <1>10
<1>13. {t \in RowTimes(seen) : t % Period = 0 /\ floor <= t} = safe
  <2>1. ASSUME NEW t \in times
        PROVE  /\ t % Period = 0 /\ floor <= t /\ t <= at => 0 <= t /\ t <= last
               /\ t <= last => t <= at
    <3>1. t \in Int
        BY <1>11
    <3>2. last \in Int /\ last <= at /\ at \in Int /\ 0 <= floor /\ floor \in Int
        BY <1>3
    <3> QED
        BY <3>1, <3>2, <1>3
  <2> QED
      BY <2>1, <1>9, <1>10
<1>14. ContinuityBreaks(data, RetainedSpec, Window(0, at), Day) =
           {p \in Neighbours(safe) : p[2] - p[1] > 2 * Period}
  <2>1. Window(0, at).hi = at
      BY <1>4
  <2>2. {t \in RowTimes(RowsIn(data, w)) :
             /\ RetainedSpec.alignedOnly => t % RetainedSpec.step = 0
             /\ floor # Absent => floor <= t} = safe
      BY <1>1, <1>7, <1>13 DEF seen
  <2> QED
      BY <2>1, <2>2, <1>1, <1>5, <1>6, <1>7, Zenon DEF ContinuityBreaks
<1>15. report.missing = MissingCount(P) /\ report.profile = P
  <2>1. Profile(SafeTimes(seen, RetainedSpec, floor, at), Window(floor, w.hi), RetainedSpec.step) = P
      BY <1>1, <1>7, <1>12 DEF P
  <2>2. RowsIn(data, DatasetWindow(RetainedSpec, Window(0, at))) = seen
      BY <1>5 DEF seen
  <2> DEFINE future  == Cardinality(FutureRows(data, at))
             corrupt == Cardinality(CorruptRows(seen, at)) + future
             status  == WorstStatus(
                 {StatusForCount(Cardinality(P.segments)), WarningForCount(P.shortfall),
                  WarningForCount(P.tail)}
                 \union {StatusForCount(DuplicateCount(seen)), StatusForCount(corrupt)})
  <2>3. report = [missing |-> MissingCount(P), profile |-> P, duplicates |-> DuplicateCount(seen),
                  corrupt |-> corrupt, future |-> future, status |-> status]
      BY <1>1, <1>2, <1>5, <1>6, <1>7, <2>1, <2>2, Zenon DEF DatasetReport
  <2> HIDE DEF corrupt, future, status, report
  <2> QED
      BY <2>3
<1> QED
    BY <1>14, <1>15 DEF safe, floor, last, data, P

\* Neighbours more than two steps apart enclose a segment of more than one step.
LEMMA BreaksAreWideSegments ==
    ASSUME NEW lo \in Int, NEW hi \in Int, NEW step \in Nat \ {0},
           NEW times, times \subseteq GridOf(lo, hi, step), IsFiniteSet(times),
           NEW breaks, breaks = {p \in Neighbours(times) : p[2] - p[1] > 2 * step}
    PROVE  /\ IsFiniteSet(breaks)
           /\ breaks # {} <=> \E s \in InternalSegments(times, step) : s.count > 1
<1> DEFINE Far(p) == (p[2] - p[1]) \div step
           Segment(p) == [lo |-> p[1] + step, hi |-> p[2] - step, count |-> Far(p) - 1]
<1>1. IsFiniteSet(breaks)
  <2>1. IsFiniteSet(times \X times)
      BY FS_Product
  <2>2. breaks \subseteq times \X times
      BY DEF Neighbours
  <2> QED
      BY <2>1, <2>2, FS_Subset
<1>2. ASSUME NEW p \in Neighbours(times)
      PROVE  Far(p) \in Int /\ (p[2] - p[1] > 2 * step <=> Far(p) > 2)
  <2>1. p[1] \in times /\ p[2] \in times
      BY DEF Neighbours
  <2>2. p[1] \in Int /\ p[2] \in Int /\ p[1] % step = 0 /\ p[2] % step = 0
    <3>1. \A t \in times : t \in Int /\ t % step = 0
        BY DEF GridOf
    <3> QED
        BY <2>1, <3>1
  <2> DEFINE a == p[1]
             b == p[2]
  <2> HIDE DEF a, b
  <2>3. a \in Int /\ b \in Int /\ a % step = 0 /\ b % step = 0
      BY <2>2 DEF a, b
  <2>4. PICK i \in Int : a = i * step
      BY <2>3, MultipleOfStep
  <2>5. PICK j \in Int : b = j * step
      BY <2>3, MultipleOfStep
  <2> DEFINE k == j - i
  <2>6. k \in Int /\ b - a = k * step
      BY <2>4, <2>5
  <2> HIDE DEF k
  <2>7. (b - a) \div step = k
      BY <2>6, DivOfMultiple
  <2>8. 2 \in Int /\ (k <= 2 <=> k * step <= 2 * step)
      BY <2>6, StepOrder
  <2>9. b - a > 2 * step <=> k > 2
    <3>1. k * step \in Int /\ 2 * step \in Int
        BY <2>6
    <3> QED
        BY <2>6, <2>8, <3>1
  <2> QED
      BY <2>6, <2>7, <2>9 DEF a, b
<1>3. InternalSegments(times, step) = {Segment(p) : p \in {q \in Neighbours(times) : Far(q) > 1}}
    BY DEF InternalSegments
<1>4. \A p : Segment(p).count = Far(p) - 1
    OBVIOUS
<1> HIDE DEF Far, Segment
<1>5. ASSUME breaks # {}
      PROVE  \E s \in InternalSegments(times, step) : s.count > 1
  <2>1. PICK p \in Neighbours(times) : p[2] - p[1] > 2 * step
      BY <1>5
  <2>2. Far(p) \in Int /\ Far(p) > 2
      BY <2>1, <1>2
  <2>3. Far(p) > 1 /\ Segment(p).count > 1
      BY <2>2, <1>4
  <2> QED
      BY <2>3, <1>3
<1>6. ASSUME NEW s \in InternalSegments(times, step), s.count > 1
      PROVE  breaks # {}
  <2>1. PICK p \in Neighbours(times) : s = Segment(p)
      BY <1>3
  <2>2. Far(p) \in Int /\ Far(p) - 1 > 1
      BY <2>1, <1>2, <1>4, <1>6
  <2>3. Far(p) > 2
      BY <2>2
  <2> QED
      BY <2>3, <1>2
<1> QED
    BY <1>1, <1>5, <1>6

\* What the plan and the audits say of a retained series.
LEMMA RetainedAudit ==
    ASSUME NEW at \in Nat, Retention <= at, NEW times, times \subseteq 0..EndTime
    PROVE  LET report == DatasetReport(AuditOf(times), RetainedSpec, Window(0, at), at, Day)
           IN  /\ RetainedPlan(times, at).required <=> report.missing > 0
               /\ ContinuityStatus(AuditOf(times), RetainedSpec, Window(0, at), Day) = "fail" <=>
                      \E s \in report.profile.segments : s.count > 1
<1> DEFINE safe   == PlannedTimes(times, at)
           floor  == RetentionFloor(at)
           last   == FloorTo(at, Period)
           P      == Profile(safe, Window(floor, last), Period)
           report == DatasetReport(AuditOf(times), RetainedSpec, Window(0, at), at, Day)
           missed == Missed(safe, floor, last, Period)
           breaks == ContinuityBreaks(AuditOf(times), RetainedSpec, Window(0, at), Day)
<1>1. /\ Period \in Nat \ {0}
      /\ floor \in Int /\ last \in Int /\ floor % Period = 0 /\ last % Period = 0
    BY RememberedWindow, PlanConstantsAssumption
<1>2. safe \subseteq GridOf(floor, last, Period) /\ IsFiniteSet(safe) /\ IsFiniteSet(missed)
    BY PlannedTimesFacts
<1>3. RetainedPlan(times, at).required <=> missed # {}
    BY PlanRequired
<1>4. /\ report.missing = MissingCount(P) /\ report.profile = P
      /\ breaks = {p \in Neighbours(safe) : p[2] - p[1] > 2 * Period}
    BY AuditParts
<1>5. ContinuityStatus(AuditOf(times), RetainedSpec, Window(0, at), Day) =
          StatusForCount(Cardinality(breaks))
    BY DEF ContinuityStatus
<1> HIDE DEF safe, floor, last, missed, breaks, report
<1>6. MissingCount(P) = Cardinality(missed) /\ P.segments = InternalSegments(safe, Period)
  <2>1. P = Profile(safe, Window(floor, last), Period)
      OBVIOUS
  <2> HIDE DEF P
  <2> QED
      BY <1>1, <1>2, <2>1, ProfileCountsMissing DEF missed
<1> HIDE DEF P
<1>7. IsFiniteSet(breaks) /\ (breaks # {} <=> \E s \in P.segments : s.count > 1)
    BY <1>1, <1>2, <1>4, <1>6, BreaksAreWideSegments
<1>8. \A S : IsFiniteSet(S) => (Cardinality(S) > 0 <=> S # {})
  <2>1. SUFFICES ASSUME NEW S, IsFiniteSet(S)
                 PROVE  Cardinality(S) > 0 <=> S # {}
      OBVIOUS
  <2>2. Cardinality(S) \in Nat /\ (Cardinality(S) = 0 <=> S = {})
      BY <2>1, FS_CardinalityType, FS_EmptySet
  <2> QED
      BY <2>2
<1>9. StatusForCount(Cardinality(breaks)) = "fail" <=> breaks # {}
    BY <1>7, <1>8 DEF StatusForCount
<1>10. RetainedPlan(times, at).required <=> report.missing > 0
    BY <1>2, <1>3, <1>4, <1>6, <1>8
<1>11. ContinuityStatus(AuditOf(times), RetainedSpec, Window(0, at), Day) = "fail" <=>
           \E s \in report.profile.segments : s.count > 1
    BY <1>4, <1>5, <1>7, <1>9
<1> QED
    BY <1>10, <1>11 DEF report

\* What the plan and the freshness check say of a price.
LEMMA PriceAudit ==
    ASSUME NEW d \in PriceDatasets, NEW at \in Nat, NEW times, times \subseteq 0..EndTime
    PROVE  StalePlan(d, times, at).required <=>
               FreshnessStatus(AuditOf(times), at, PriceSla) = "fail"
<1> DEFINE back   == at - PlanLookback
           latest == Max(times)
           from   == IF latest > back THEN latest ELSE back
<1>1. FreshnessSla(d) = PriceSla
    BY PlanConstantsAssumption DEF FreshnessSla
<1>2. DOMAIN AuditOf(times) = times /\ RowTimes(AuditOf(times)) = times
  <2>1. \A t : Row(t, t, FALSE).ts = t
      BY DEF Row
  <2> QED
      BY <2>1 DEF AuditOf, RowTimes
<1>3. times # {} => latest \in Int
  <2>1. 0 \in Int /\ EndTime \in Int
      BY JobConstantsAssumption
  <2>2. times # {} => Max(times) \in 0..EndTime
      BY <2>1, MaxOfTimes
  <2> QED
      BY <2>1, <2>2
<1>4. PriceSla \in Nat
    BY PlanConstantsAssumption
<1>5. StalePlan(d, times, at) =
          IF times = {} THEN Plan("missing", back, at)
          ELSE IF at - latest > PriceSla THEN Plan("stale", from, at) ELSE NoPlan
    BY <1>1 DEF StalePlan
<1>6. FreshnessStatus(AuditOf(times), at, PriceSla) =
          IF times # {} /\ at - latest <= PriceSla THEN "pass" ELSE "fail"
    BY <1>2 DEF FreshnessStatus
<1>7. NoPlan.required = FALSE /\ \A why, lo, hi : Plan(why, lo, hi).required = TRUE
    BY DEF NoPlan, Plan
<1> HIDE DEF back, from, latest
<1>8. times # {} => (at - latest > PriceSla <=> ~ (at - latest <= PriceSla))
    BY <1>3, <1>4
<1> QED
    BY <1>5, <1>6, <1>7, <1>8

\* However the rows came about, the plan of a remediation and the audits of the
\* data-quality jobs agree: a retained series needs a plan exactly if the
\* integrity check counts a period missing, a break of continuity is a hole of
\* more than one period, and a price needs a plan exactly if it is not fresh
\* (remediate_market_snapshots.py:165-235, 343-417; data_quality.py:757-1188,
\* 1313-1412, 1615-1718).
THEOREM PlansAgree == Spec => []PlansAgreeWithAudits
<1>1. ASSUME TypeOK
      PROVE  PlansAgreeWithAudits
  <2>1. /\ now \in Nat /\ Retention <= now
        /\ \A d \in Datasets : rows[d] \subseteq 0..EndTime
    <3>1. StartTime \in Nat /\ EndTime \in Nat /\ Retention \in Nat /\ Retention <= StartTime
        BY JobConstantsAssumption, PlanConstantsAssumption
    <3>2. now \in StartTime..EndTime
        BY <1>1 DEF TypeOK
    <3>3. now \in Nat /\ Retention <= now
        BY <3>1, <3>2
    <3> QED
        BY <3>3, <1>1 DEF TypeOK
  <2>2. \A d : AuditRows(d) = AuditOf(rows[d])
      BY DEF AuditRows, AuditOf
  <2>3. ASSUME NEW d \in RetainedDatasets
        PROVE  LET report == DatasetReport(AuditRows(d), RetainedSpec, Window(0, now), now, Day)
               IN  /\ PlanFor(d, rows[d], now).required <=> report.missing > 0
                   /\ ContinuityStatus(AuditRows(d), RetainedSpec, Window(0, now), Day) = "fail" <=>
                          \E s \in report.profile.segments : s.count > 1
    <3>1. rows[d] \subseteq 0..EndTime
        BY <2>1 DEF Datasets
    <3>2. PlanFor(d, rows[d], now) = RetainedPlan(rows[d], now)
        BY DEF PlanFor
    <3> QED
        BY <2>1, <2>2, <3>1, <3>2, RetainedAudit
  <2>4. ASSUME NEW d \in PriceDatasets
        PROVE  PlanFor(d, rows[d], now).required <=>
                   FreshnessStatus(AuditRows(d), now, PriceSla) = "fail"
    <3>1. rows[d] \subseteq 0..EndTime
        BY <2>1 DEF Datasets
    <3>2. PlanFor(d, rows[d], now) = StalePlan(d, rows[d], now)
        BY PlanConstantsAssumption DEF PlanFor
    <3> QED
        BY <2>1, <2>2, <3>1, <3>2, PriceAudit
  <2> QED
      BY <2>3, <2>4 DEF PlansAgreeWithAudits
<1> QED
    BY <1>1, TypesHold, PTL
=============================================================================
