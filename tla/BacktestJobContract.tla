------------------------- MODULE BacktestJobContract -------------------------
(***************************************************************************)
(* What the asynchronous backtest job service promises its callers, with   *)
(* no threads, requests or transactions: each accepted job has an outcome  *)
(* it settles on once, and a reported status that may lag behind the       *)
(* outcome but never contradicts it in the ways listed below.              *)
(*                                                                         *)
(*   - "completed" is reported in the very step that persists the run;     *)
(*   - "failed" and "canceled" are reported only of a job that has         *)
(*     given up, so no run is or will be persisted for it;                 *)
(*   - "running" is reported only while the outcome is open.               *)
(*                                                                         *)
(* "cancel_requested" and "stale" are promises about nothing: a caller may *)
(* read either of them about a job whose run was persisted.                *)
(***************************************************************************)
CONSTANT Jobs

VARIABLES
    outcome,  \* what became of the job
    report    \* the status a caller reads

vars == <<outcome, report>>

Outcomes == {"none", "open", "persisted", "abandoned"}

Init ==
    /\ outcome = [j \in Jobs |-> "none"]
    /\ report = [j \in Jobs |-> "absent"]

Accept(j) ==
    /\ outcome[j] = "none"
    /\ outcome' = [outcome EXCEPT ![j] = "open"]
    /\ report' = [report EXCEPT ![j] = "queued"]

Persist(j) ==
    /\ outcome[j] = "open"
    /\ outcome' = [outcome EXCEPT ![j] = "persisted"]
    /\ report' = [report EXCEPT ![j] = "completed"]

\* One job gives up by itself, or all that are open go down with the server.
Abandon(S) ==
    /\ S # {}
    /\ \A j \in S : outcome[j] = "open"
    /\ outcome' = [j \in Jobs |-> IF j \in S THEN "abandoned" ELSE outcome[j]]
    /\ UNCHANGED report

Report(j, status) ==
    /\ report' = [report EXCEPT ![j] = status]
    /\ UNCHANGED outcome

ReportRunning(j) == outcome[j] = "open" /\ Report(j, "running")

ReportAbandoned(j) ==
    /\ outcome[j] = "abandoned"
    /\ Report(j, "failed") \/ Report(j, "canceled")

ReportUncertain(j) ==
    /\ outcome[j] # "none"
    /\ Report(j, "cancel_requested") \/ Report(j, "stale")

Next ==
    \/ \E j \in Jobs :
          Accept(j) \/ Persist(j) \/ ReportRunning(j) \/ ReportAbandoned(j) \/ ReportUncertain(j)
    \/ \E S \in SUBSET Jobs : Abandon(S)

Spec == Init /\ [][Next]_vars

=============================================================================
