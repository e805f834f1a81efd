--------------------------- MODULE MCHistoryBackfill ---------------------------
(* HistoryBackfill for TLC: one instrument with bars, a set of each other kind, *)
(* months of four ticks and a venue with an outage.                             *)
EXTENDS HistoryBackfill

MCOrder == <<"spot", "funding", "oi">>

MCVenue == [spot |-> {0, 1, 3, 4}, funding |-> {0, 4}, oi |-> {0, 2, 4}]

\* A hole, a row between periods, and a series with no rows.
MCStoredRows == {[spot |-> {1}, funding |-> {}, oi |-> {1}]}
=============================================================================
