------------------------------ MODULE DebugTraces ------------------------------
(***************************************************************************)
(* Which steps of a backtest run leave a debug trace, and how the traces   *)
(* are written: the trace part of run_bars in src/src/backtest/runner.py   *)
(* and insert_debug_traces of src/src/storage/repositories/backtest.py.    *)
(***************************************************************************)
EXTENDS Integers, Sequences, FiniteSets

-----------------------------------------------------------------------------
(* The options of a run and what validate_run_config makes of a request:   *)
(* a level brings defaults for what the request leaves open (the sets      *)
(* `strides` and `onlyActivity` hold the value that it gives, if any).     *)

TraceOptions(level, strides, onlyActivity) ==
    [compressed   |-> level = "full_compressed",
     stride       |-> IF strides # {} THEN CHOOSE n \in strides : TRUE
                      ELSE CASE level = "compact" -> 12 [] level = "sparse" -> 60 [] OTHER -> 1,
     activityOnly |-> IF onlyActivity # {} THEN TRUE \in onlyActivity
                      ELSE level \in {"compact", "sparse"}]

-----------------------------------------------------------------------------
(* Selection.  A step has its signals, the orders it created, the fills it *)
(* applied and the codes that blocked its intents.                         *)

\* _is_activity_trace_step
IsActivity(step) ==
    step.signals > 0 \/ step.orders # <<>> \/ step.fills # <<>> \/ step.blocked # {}

\* Slip: the stride thins out the steps with activity as well.
ShouldCapture_Thinned(options, index, active) ==
    index % options.stride = 0 /\ (options.activityOnly => active)

\* _should_capture_debug_trace
ShouldCapture(options, index, active) ==
    active \/ (~options.activityOnly /\ index % options.stride = 0)

\* QuietTraceCompressionSpan: first, high, low and last; empty when there is none.
SpanWith(span, record) ==
    IF span = <<>> THEN <<record, record, record, record>>
    ELSE <<span[1],
           IF record.close > span[2].close THEN record ELSE span[2],
           IF record.close < span[3].close THEN record ELSE span[3],
           record>>

\* selected_records: each of them once, in the order of their steps.
SelectedRecords(span) ==
    LET kept == {span[i] : i \in DOMAIN span}
    IN  [i \in 1..Cardinality(kept) |->
            CHOOSE r \in kept : Cardinality({q \in kept : q.step < r.step}) = i - 1]

\* Slip: a step with activity overtakes the quiet span before it.
AfterStep_Overtaken(options, span, record, active) ==
    IF ShouldCapture(options, record.step, active)
    THEN IF options.compressed /\ ~active
         THEN [emitted |-> <<>>, span |-> SpanWith(span, record)]
         ELSE [emitted |-> <<record>>, span |-> span]
    ELSE [emitted |-> <<>>, span |-> span]

\* What a step emits and the quiet span it leaves.
AfterStep(options, span, record, active) ==
    IF ShouldCapture(options, record.step, active)
    THEN IF options.compressed /\ ~active
         THEN [emitted |-> <<>>, span |-> SpanWith(span, record)]
         ELSE [emitted |-> Append(SelectedRecords(span), record), span |-> <<>>]
    ELSE [emitted |-> IF options.compressed THEN SelectedRecords(span) ELSE <<>>,
          span |-> IF options.compressed THEN <<>> ELSE span]

-----------------------------------------------------------------------------
(* Writing.  emit_debug_trace_record hands the buffer to the repository as *)
(* soon as it holds `chunk` records.                                       *)

FullChunks(buffer, chunk) == (Len(buffer) \div chunk) * chunk
Flushed(buffer, chunk) == SubSeq(buffer, 1, FullChunks(buffer, chunk))

\* Slip: what was handed over stays in the buffer.
Kept_Uncleared(buffer, chunk) == buffer

Kept(buffer, chunk) == SubSeq(buffer, FullChunks(buffer, chunk) + 1, Len(buffer))

\* insert_debug_traces turns the ids that a record names into row ids, leaving
\* out those it does not know, ...
RowIds(ids, rowOf) ==
    LET known == SelectSeq(ids, LAMBDA id : id \in DOMAIN rowOf)
    IN  [i \in DOMAIN known |-> rowOf[known[i]]]

\* ... two lists for each record of a call, one after the other: list 2i-1 has
\* the orders and list 2i the fills of record i.
LinkLists(records, orderRow, fillRow) ==
    [k \in 1..(2 * Len(records)) |->
        LET r == records[(k + 1) \div 2]
        IN  IF k % 2 = 1 THEN RowIds(r.orders, orderRow) ELSE RowIds(r.fills, fillRow)]

\* _serialize_json_payload keeps the text of a list under the list's address.
\* A list dies when the next of its kind takes its name, so that the third list
\* after it is the first that can get its address, and with it its text.
Twins(lists, k) == {j \in 1..(k - 3) : lists[j] # <<>>}
Serializations(lists) ==
    LET reusers == {k \in DOMAIN lists : lists[k] # <<>> /\ Twins(lists, k) # {}}
        choices == {h \in [reusers -> DOMAIN lists] :
                        \A k \in reusers : h[k] \in Twins(lists, k) \union {k}}
    IN  {[k \in DOMAIN lists |-> IF k \in reusers THEN h[k] ELSE k] : h \in choices}

TraceRows(records, lists, f) ==
    [i \in 1..Len(records) |->
        [step |-> records[i].step, at |-> records[i].at, sym |-> records[i].sym,
         close |-> records[i].close, blocked |-> records[i].blocked,
         cashDelta |-> records[i].cashDelta, qtyDelta |-> records[i].qtyDelta,
         orderIds |-> lists[f[2 * i - 1]], fillIds |-> lists[f[2 * i]]]]

\* What a call of insert_debug_traces may append to the rows.
InsertedRows(records, orderRow, fillRow) ==
    LET lists == LinkLists(records, orderRow, fillRow)
    IN  {TraceRows(records, lists, f) : f \in Serializations(lists)}
=============================================================================
