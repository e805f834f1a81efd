----------------------------- MODULE ReviewNotes -----------------------------
(***************************************************************************)
(* Comparing runs and taking notes: compare sets with their review notes,  *)
(* and debug traces with their anchors and investigation notes             *)
(*   BacktestCompareProjector        backtest/compare.py                   *)
(*   CompareReviewService            backtest/compare_review.py            *)
(*   TraceInvestigationNoteService   backtest/investigation_notes.py       *)
(*   repositories                    storage/repositories/research.py      *)
(*                                                                         *)
(* A request is one transaction at READ COMMITTED: what it reads first may *)
(* be old when it writes.  A run and its traces are there from its commit  *)
(* on and change no more, so that their facts are constants.               *)
(***************************************************************************)
EXTENDS Integers, FiniteSetsExt, SequencesExt

CONSTANTS
    RunIds,        \* ids that a comparison may name
    FinishedRuns,  \* those that there are when it starts
    Assumptions,   \* [run -> [field -> value]]
    Diagnostics,   \* [run -> [field -> value]]
    TotalReturn,   \* [run -> number, or Absent without a performance summary]
    TraceRun,      \* [debug trace -> its run]
    Clients,       \* API threads
    Comparisons,   \* requests: run ids in order, benchmark, name
    NoteWrites,    \* requests for a note: type, source and status
    Scenarios,     \* scenario ids of an anchor, Absent for none
    Absent,
    MaxNotes,      \* bound: notes
    MaxAnchors     \* bound: anchors of a trace

Traces == DOMAIN TraceRun

ASSUME ReviewAssumption ==
    /\ FinishedRuns \subseteq RunIds
    /\ Range(TraceRun) \subseteq FinishedRuns
    /\ IsFiniteSet(Traces) /\ MaxNotes \in Nat /\ MaxAnchors \in Nat
    /\ \A w \in NoteWrites : w.source \in {"human", "agent"}
    /\ \A q \in Comparisons : q.ids \in Seq(RunIds)
    \* The dataclasses that are compared have their fields for every run.
    /\ \A r, q \in RunIds : /\ DOMAIN Assumptions[r] = DOMAIN Assumptions[q]
                            /\ DOMAIN Diagnostics[r] = DOMAIN Diagnostics[q]
    /\ \A r \in RunIds : /\ "window" \in DOMAIN Assumptions[r]
                         /\ IsFiniteSet(DOMAIN Diagnostics[r])
                         /\ TotalReturn[r] = Absent \/ TotalReturn[r] \in Int

VARIABLES
    runs,    \* committed rows of backtest.runs
    sets,    \* backtest.compare_sets, by id
    notes,   \* research.annotations, by id
    anchors, \* [trace -> scenarios of its research.trace_investigation_anchors]
    task     \* [client -> what its request read and is about to write]

vars == <<runs, sets, notes, anchors, task>>

-----------------------------------------------------------------------------
(* Comparing *)

\* Slip: an id that comes twice stays.
Deduped_Twice(ids) == ids

\* dict.fromkeys: each id once, where it comes first.
Deduped(ids) ==
    LET First(i) == \A j \in 1..(i - 1) : ids[j] # ids[i]
        kept == {i \in DOMAIN ids : First(i)}
    IN  [k \in 1..Cardinality(kept) |->
            ids[CHOOSE i \in kept : Cardinality({j \in kept : j < i}) = k - 1]]

\* validate_compare_request and the same checks of build.
ValidComparison(q) ==
    /\ Len(Deduped(q.ids)) >= 2
    /\ q.benchmark # Absent => q.benchmark \in Range(q.ids)

\* _build_assumption_diffs and _build_diagnostics_diffs: the fields with more
\* than one value.
Diffs(values, ids) ==
    {f \in DOMAIN values[ids[1]] : Cardinality({values[ids[i]][f] : i \in DOMAIN ids}) > 1}

\* _build_benchmark_deltas
Deltas(ids, benchmark) ==
    IF benchmark = Absent THEN {}
    ELSE {[run |-> r, delta |-> IF Absent \in {TotalReturn[r], TotalReturn[benchmark]} THEN Absent
                                ELSE TotalReturn[r] - TotalReturn[benchmark]] :
              r \in Range(ids) \ {benchmark}}

\* _build_comparison_flags: the fields that raise a flag when they differ.
IdentityFields == {"strategy_code", "strategy_version", "universe", "account_code",
                   "environment", "netting_mode"}
FlagFields ==
    [mixed_strategy_variants |-> {"strategy_code"},
     mixed_strategy_versions |-> {"strategy_version"},
     window_mismatch |-> {"window"},
     universe_mismatch |-> {"universe"}]
RiskFields == {"blocked_intent_count", "block_counts_by_code", "outcome_counts_by_code",
               "state_snapshot"}
ComparisonFlags(ids) ==
    LET differ == Diffs(Assumptions, ids)
        found  == Diffs(Diagnostics, ids)
    IN  {f \in DOMAIN FlagFields : FlagFields[f] \intersect differ # {}}
        \union (IF differ \ (IdentityFields \union {"window"}) # {}
                THEN {"execution_assumption_mismatch"} ELSE {})
        \union (IF found \intersect RiskFields # {} THEN {"runtime_risk_mismatch"} ELSE {})
        \union (IF found \ RiskFields # {} THEN {"diagnostic_profile_mismatch"} ELSE {})
        \union (IF \E i \in DOMAIN ids : TotalReturn[ids[i]] = Absent
                THEN {"missing_performance_summary"} ELSE {})
        \union (IF \E i \in DOMAIN ids : Diagnostics[ids[i]].diagnostic_status # "ok"
                THEN {"diagnostic_warnings_present"} ELSE {})
        \union (IF \E i \in DOMAIN ids : Diagnostics[ids[i]].blocked_intent_count > 0
                THEN {"risk_blocks_present_in_compare_set"} ELSE {})

\* build, and _build_compare_snapshot of what it made.
CompareSnapshot(q) ==
    LET ids == Deduped(q.ids)
    IN  [ids |-> ids, diffs |-> Diffs(Assumptions, ids) \ {"window"},
         diagnostics |-> Diffs(Diagnostics, ids),
         deltas |-> Deltas(ids, q.benchmark), flags |-> ComparisonFlags(ids)]

\* Slip: the key leaves the benchmark out.
CompareKey_NoBenchmark(q) == <<q.name, Deduped(q.ids)>>

\* _build_compare_key: a hash of the name, the ids in order and the benchmark.
CompareKey(q) == <<q.name, Deduped(q.ids), q.benchmark>>

-----------------------------------------------------------------------------
(* Repositories *)

\* upsert_compare_set and the id that it returns.
SetRow(q) == [key |-> CompareKey(q), name |-> q.name, ids |-> Deduped(q.ids),
              benchmark |-> q.benchmark, snapshot |-> CompareSnapshot(q)]
WithKey(table, key) == {i \in DOMAIN table : table[i].key = key}
UpsertedSets(q) ==
    LET row == SetRow(q)
        at  == WithKey(sets, row.key)
    IN  IF at = {} THEN Append(sets, row) ELSE [i \in DOMAIN sets |-> IF i \in at THEN row ELSE sets[i]]
SetId(table, q) == CHOOSE i \in DOMAIN table : table[i].key = CompareKey(q)

Note(entity, type, source, status, refs, facts) ==
    [entity |-> entity, type |-> type, source |-> source, status |-> status,
     refs |-> refs, facts |-> facts]

\* upsert_system_annotation: uq_annotations_system_note allows one per entity
\* and type.
SystemNotes(entity, type) ==
    {i \in DOMAIN notes : /\ notes[i].source = "system"
                          /\ notes[i].entity = entity /\ notes[i].type = type}
\* Slip: writing it again leaves the facts as they were.
WithSystemNote_OldFacts(entity, type, refs, facts) ==
    LET at  == SystemNotes(entity, type)
        row == Note(entity, type, "system", "draft", refs, facts)
    IN  IF at = {} THEN Append(notes, row)
        ELSE [i \in DOMAIN notes |-> IF i \in at THEN [row EXCEPT !.facts = notes[i].facts] ELSE notes[i]]

WithSystemNote(entity, type, refs, facts) ==
    LET at  == SystemNotes(entity, type)
        row == Note(entity, type, "system", "draft", refs, facts)
    IN  IF at = {} THEN Append(notes, row) ELSE [i \in DOMAIN notes |-> IF i \in at THEN row ELSE notes[i]]

-----------------------------------------------------------------------------
(* Requests *)

NoTask == [kind |-> "none"]
Asks(c, record) == task[c] = NoTask /\ task' = [task EXCEPT ![c] = record]
Answered(c) == task' = [task EXCEPT ![c] = NoTask]
Room == Len(notes) < MaxNotes

Init ==
    /\ runs = FinishedRuns
    /\ sets = <<>> /\ notes = <<>>
    /\ anchors = [t \in Traces |-> <<>>]
    /\ task = [c \in Clients |-> NoTask]

\* A backtest commits its run and its traces.
RunFinishes ==
    /\ \E r \in RunIds \ runs : runs' = runs \union {r}
    /\ UNCHANGED <<sets, notes, anchors, task>>

\* create_backtest_compare_set: 404 when a run is not there.
AskCompare(c) ==
    /\ \E q \in Comparisons : /\ ValidComparison(q)
                              /\ Range(q.ids) \subseteq runs
                              /\ Asks(c, [kind |-> "compare", request |-> q])
    /\ UNCHANGED <<runs, sets, notes, anchors>>

\* persist_compare_set.  The row of the compare set is written first, which
\* makes a second request for the same key wait for the commit.
PersistCompareSet(c) ==
    /\ task[c].kind = "compare"
    /\ LET q    == task[c].request
           rows == UpsertedSets(q)
           id   == SetId(rows, q)
       IN  /\ Room
           /\ sets' = rows
           /\ notes' = WithSystemNote(<<"compare_set", id>>, "review",
                                      [ids |-> rows[id].ids, benchmark |-> rows[id].benchmark],
                                      rows[id].snapshot)
    /\ Answered(c)
    /\ UNCHANGED <<runs, anchors>>

\* What the notes of a trace refer to: its anchors, and those that name a
\* scenario (_build_source_refs); the facts have the anchors, too.
TraceRefs(t) ==
    [anchors |-> DOMAIN anchors[t],
     scenarios |-> {i \in DOMAIN anchors[t] : anchors[t][i] # Absent}]
TraceFacts(t) == [anchors |-> DOMAIN anchors[t]]
SetRefs(i) == [ids |-> sets[i].ids, benchmark |-> sets[i].benchmark]

\* list_trace_notes: looking at the notes of a trace seeds its system note.
AskTraceNotes(c) ==
    /\ \E t \in Traces : Asks(c, [kind |-> "seed", entity |-> <<"debug_trace", t>>,
                                  refs |-> TraceRefs(t), facts |-> TraceFacts(t)])
    /\ UNCHANGED <<runs, sets, notes, anchors>>
SeedTraceNote(c) ==
    /\ task[c].kind = "seed"
    /\ Room
    /\ notes' = WithSystemNote(task[c].entity, "investigation", task[c].refs, task[c].facts)
    /\ Answered(c)
    /\ UNCHANGED <<runs, sets, anchors>>

\* create_trace_investigation_anchor: upsert_investigation_anchor only inserts.
AddAnchor(t) ==
    /\ Len(anchors[t]) < MaxAnchors
    /\ \E s \in Scenarios : anchors' = [anchors EXCEPT ![t] = Append(@, s)]
    /\ UNCHANGED <<runs, sets, notes, task>>

\* The checks of an update: the note is one of this entity's, and no seed.
Editable(entity, id) == notes[id].entity = entity /\ notes[id].source # "system"

\* create_or_update_trace_note and create_or_update_compare_note read the trace
\* or compare set (404 without one) and the note to update, if one is named.
\* The validators of the requests allow the sources human and agent, and each
\* kind of note its types.
TraceNoteTypes   == {"investigation", "expected_vs_observed", "follow_up", "note", "bookmark"}
CompareNoteTypes == {"review", "follow_up", "promotion_decision", "note"}
AskNote(c, entity, types, refs, facts) ==
    \E w \in NoteWrites, id \in {0} \union DOMAIN notes :
        /\ w.type \in types
        /\ id # 0 => Editable(entity, id)
        /\ Asks(c, [kind |-> "note", entity |-> entity, id |-> id, write |-> w,
                    refs |-> refs, facts |-> facts])
AskTraceNote(c) ==
    /\ \E t \in Traces : AskNote(c, <<"debug_trace", t>>, TraceNoteTypes,
                                  TraceRefs(t), TraceFacts(t))
    /\ UNCHANGED <<runs, sets, notes, anchors>>
AskCompareNote(c) ==
    /\ \E i \in DOMAIN sets : AskNote(c, <<"compare_set", i>>, CompareNoteTypes, SetRefs(i), sets[i].snapshot)
    /\ UNCHANGED <<runs, sets, notes, anchors>>

\* update_annotation sets all but the entity, the type and the facts.
Updated(note, t) ==
    [note EXCEPT !.status = t.write.status, !.source = t.write.source, !.refs = t.refs]
SaveNote(c) ==
    LET t == task[c]
    IN  /\ t.kind = "note"
        /\ IF t.id = 0
           THEN Room /\ notes' = Append(notes, Note(t.entity, t.write.type, t.write.source,
                                                    t.write.status, t.refs, t.facts))
           ELSE notes' = [notes EXCEPT ![t.id] = Updated(@, t)]
        /\ Answered(c)
        /\ UNCHANGED <<runs, sets, anchors>>

\* The transaction is rolled back.
Fails(c) ==
    /\ task[c] # NoTask
    /\ Answered(c)
    /\ UNCHANGED <<runs, sets, notes, anchors>>

Next ==
    \/ RunFinishes
    \/ \E t \in Traces : AddAnchor(t)
    \/ \E c \in Clients :
           \/ AskCompare(c) \/ PersistCompareSet(c)
           \/ AskTraceNotes(c) \/ SeedTraceNote(c)
           \/ AskTraceNote(c) \/ AskCompareNote(c) \/ SaveNote(c)
           \/ Fails(c)

Spec == Init /\ [][Next]_vars

-----------------------------------------------------------------------------
(* build_expected_vs_observed_overview of a run *)

NotesOfRun(r) == {i \in DOMAIN notes : /\ notes[i].entity[1] = "debug_trace"
                                       /\ TraceRun[notes[i].entity[2]] = r}
Overview(r) ==
    LET items == NotesOfRun(r)
    IN  [traces     |-> Cardinality({t \in Traces : TraceRun[t] = r}),
         withNotes  |-> Cardinality({notes[i].entity[2] : i \in items}),
         notes      |-> Cardinality(items),
         expected   |-> Cardinality({i \in items : \/ notes[i].type = "expected_vs_observed"
                                                   \/ notes[i].refs.scenarios # {}}),
         unresolved |-> Cardinality({i \in items :
                            notes[i].status \notin {"resolved", "accepted", "rejected"}}),
         bySource   |-> [s \in {notes[i].source : i \in items} |->
                            Cardinality({i \in items : notes[i].source = s})]]

-----------------------------------------------------------------------------
(* Properties *)

TypeRefs  == [anchors : SUBSET (1..MaxAnchors), scenarios : SUBSET (1..MaxAnchors)]
Subjects  == ({"debug_trace"} \X Traces) \union ({"compare_set"} \X DOMAIN sets)

(* Types: a compare set has two runs or more, each once, and its benchmark   *)
(* is one of them; notes are about a trace or a compare set that there is.   *)
TypeOK ==
    /\ runs \subseteq RunIds /\ FinishedRuns \subseteq runs
    /\ \A i \in DOMAIN sets :
           /\ IsInjective(sets[i].ids) /\ Len(sets[i].ids) >= 2
           /\ Range(sets[i].ids) \subseteq runs
           /\ sets[i].benchmark \in Range(sets[i].ids) \union {Absent}
    /\ \A i \in DOMAIN notes :
           /\ notes[i].entity \in Subjects
           /\ notes[i].source \in {"human", "agent", "system"}
           /\ (notes[i].source = "system") => (notes[i].status = "draft")
           /\ notes[i].entity[1] = "debug_trace" => notes[i].refs \in TypeRefs
    /\ anchors \in [Traces -> UNION {[1..n -> Scenarios] : n \in 0..MaxAnchors}]
    /\ DOMAIN task = Clients

NotesOf(kind, x) == {i \in DOMAIN notes : notes[i].entity = <<kind, x>>}
Seeds(kind, x)   == {i \in NotesOf(kind, x) : notes[i].source = "system"}

\* What a comparison is to say, of the runs and not of the order they are in.
SnapshotIsTrue(i) ==
    LET s  == sets[i].snapshot
        rs == Range(sets[i].ids)
        Differ(values, f) == \E r, q \in rs : values[r][f] # values[q][f]
    IN  /\ \A r \in rs : \A f \in DOMAIN Assumptions[r] \ {"window"} :
               f \in s.diffs <=> Differ(Assumptions, f)
        /\ \A r \in rs : \A f \in DOMAIN Diagnostics[r] :
               f \in s.diagnostics <=> Differ(Diagnostics, f)
        /\ ("window_mismatch" \in s.flags) = Differ(Assumptions, "window")
        /\ "runtime_risk_mismatch" \in s.flags => Cardinality(s.diagnostics) > 0
        /\ {d.run : d \in s.deltas} =
               (IF sets[i].benchmark = Absent THEN {} ELSE rs \ {sets[i].benchmark})
        /\ \A d \in s.deltas :
               d.delta # Absent => TotalReturn[d.run] = TotalReturn[sets[i].benchmark] + d.delta

(* Notes tell of what they are about, whatever requests ran at once: a       *)
(* compare set has one system note, and every note of it has the facts of    *)
(* its comparison, which are true of its runs; a trace has one system note   *)
(* at most, which refers to the anchors that its facts list; any note of a   *)
(* trace refers to anchors that the trace has, those with a scenario among   *)
(* them, and never to fewer than its facts list; the overview of a run       *)
(* counts each note of its traces in one source, and a seed as unresolved.   *)
NotesTellTheirSubject ==
    /\ \A i \in DOMAIN sets :
           /\ Cardinality(Seeds("compare_set", i)) = 1
           /\ SnapshotIsTrue(i)
           /\ \A n \in NotesOf("compare_set", i) :
                  notes[n].facts = sets[i].snapshot /\ notes[n].refs = SetRefs(i)
    /\ \A t \in Traces :
           /\ Cardinality(Seeds("debug_trace", t)) <= 1
           /\ \A n \in Seeds("debug_trace", t) : notes[n].refs.anchors = notes[n].facts.anchors
           /\ \A n \in NotesOf("debug_trace", t) :
                  LET refs == notes[n].refs
                  IN  /\ notes[n].facts.anchors \subseteq refs.anchors
                      /\ refs.anchors \subseteq DOMAIN anchors[t]
                      /\ refs.scenarios = {a \in refs.anchors : anchors[t][a] # Absent}
    /\ \A r \in runs :
           LET o == Overview(r)
           IN  /\ o.notes = MapThenSumSet(LAMBDA s : o.bySource[s], DOMAIN o.bySource)
               /\ o.withNotes <= o.traces /\ o.withNotes <= o.notes
               /\ Cardinality({t \in Traces : TraceRun[t] = r /\ Seeds("debug_trace", t) # {}})
                      <= o.unresolved

(* Authors keep their notes: a note stays about its subject, of its type; a  *)
(* system note never becomes a person's nor a person's a system note, and    *)
(* the facts under a person's note never change; a request changes one note  *)
(* at most; a compare set stays the comparison that it was made for, and so  *)
(* the one that its notes are about.                                         *)
AuthorsKeepTheirNotes ==
    [][/\ Len(notes') >= Len(notes) /\ Len(sets') >= Len(sets)
       /\ \A i \in DOMAIN notes :
              LET old == notes[i]  new == notes'[i]
              IN  /\ new.entity = old.entity /\ new.type = old.type
                  /\ (new.source = "system") = (old.source = "system")
                  /\ old.source # "system" => new.facts = old.facts
       /\ Cardinality({i \in DOMAIN notes' : i \notin DOMAIN notes \/ notes'[i] # notes[i]}) <= 1
       /\ \A i \in DOMAIN sets : \A f \in {"name", "ids", "benchmark", "snapshot"} :
              sets'[i][f] = sets[i][f]]_vars
=============================================================================
