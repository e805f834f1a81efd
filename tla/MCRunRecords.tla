----------------------------- MODULE MCRunRecords -----------------------------
(* Instances of RunRecords: a few bars of one or two symbols.              *)
EXTENDS RunRecords

MCOptions ==
    {TraceOptions("full_compressed", {}, {}), TraceOptions("full_compressed", {}, {TRUE}),
     TraceOptions("full", {2}, {})}

\* One symbol falls and rises above its start while the other rises and falls
\* below it; as any bars may be missing, a span has its extremes anywhere.
MCPaths == {<<<<2, 1, 3>>, <<2, 3, 1>>>>}

\* A perpetual whose rows begin before the run, between and at its bars, and one
\* with too few of them; values that rise, fall and are zero.
MCContextTables ==
    <<[funding_rate |-> (-1 :> 1), open_interest |-> (0 :> 1) @@ (1 :> 2) @@ (3 :> 3),
       mark_price |-> (0 :> 4) @@ (2 :> 2), index_price |-> (1 :> 1) @@ (2 :> 3) @@ (4 :> 5)],
      [funding_rate |-> <<>>, open_interest |-> (1 :> 0) @@ (3 :> 2),
       mark_price |-> <<>>, index_price |-> (2 :> 2) @@ (3 :> 1)]>>

MCBucket == [t \in 1..NTimes |-> (t + 1) \div 2]
=============================================================================
