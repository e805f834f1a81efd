---------------------------- MODULE MCReviewNotes ----------------------------
(* Three runs that differ in a few fields, the third without a performance   *)
(* summary and finished only later; a trace of the first run.                *)
EXTENDS ReviewNotes, TLC

MCSymmetry == Permutations(Clients)
MCAssumptions ==
    [r1 |-> [strategy_code |-> "v1", universe |-> "btc", fee_model_version |-> "f1", window |-> "w1"],
     r2 |-> [strategy_code |-> "v1", universe |-> "btc", fee_model_version |-> "f2", window |-> "w1"],
     r3 |-> [strategy_code |-> "v1", universe |-> "btc", fee_model_version |-> "f1", window |-> "w2"]]
MCDiagnostics ==
    [r1 |-> [diagnostic_status |-> "ok", blocked_intent_count |-> 0],
     r2 |-> [diagnostic_status |-> "ok", blocked_intent_count |-> 1],
     r3 |-> [diagnostic_status |-> "warning", blocked_intent_count |-> 0]]
MCTotalReturn == [r1 |-> 3, r2 |-> 5, r3 |-> Absent]
MCTraceRun    == [t1 |-> "r1"]
MCNoteWrites  == {[type |-> "investigation", source |-> "human", status |-> "in_review"],
                  [type |-> "note", source |-> "agent", status |-> "resolved"]}
MCComparisons ==
    {[ids |-> <<"r1", "r2", "r1">>, benchmark |-> "r1", name |-> Absent],
     [ids |-> <<"r1", "r2">>, benchmark |-> "r2", name |-> Absent],
     [ids |-> <<"r2", "r3">>, benchmark |-> "r2", name |-> Absent],
     [ids |-> <<"r1", "r1">>, benchmark |-> Absent, name |-> Absent]}
=============================================================================
