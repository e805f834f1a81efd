---------------------------- MODULE MCSnapshotJobs ----------------------------
(* SnapshotJobs for TLC: a set of each kind and two ratios, two-tick periods, *)
(* days of four ticks, and a venue with an outage.                            *)
EXTENDS SnapshotJobs, CoverageChecks

MCLoops == [remediates |-> "remediation"]

MCVenue == [funding |-> {0, 8}, mark |-> 0..10, oi |-> {0, 4, 6, 8, 10},
            accounts |-> {0, 2, 4, 6, 8, 10}, taker |-> {2, 4, 6, 8, 10}]

\* Old rows, a missing head, and a series with no rows; a hole, a missing tail
\* and no prices.
MCStoredRows == {[funding |-> {0}, mark |-> {3, 4}, oi |-> {4, 7},
                  accounts |-> {0, 2, 6}, taker |-> {}],
                 [funding |-> {8}, mark |-> {}, oi |-> {0, 4, 6, 8},
                  accounts |-> {0, 2, 6, 8}, taker |-> {2, 4, 6}]}
=============================================================================
