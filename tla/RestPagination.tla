---------------------------- MODULE RestPagination ----------------------------
(***************************************************************************)
(* The paged fetches of src/src/ingestion/binance/public_rest.py.  The     *)
(* venue answers a request with its first rows, in time order, from the    *)
(* start to the end of the window, at most `limit` of them.                *)
(***************************************************************************)
EXTENDS IntervalCoverage

\* The venue's answer (external): `venue` is the set of times it has rows for.
Page(venue, from, to, limit) ==
    LET rows == Sorted(Within(venue, Window(from, to)))
    IN  SubSeq(rows, 1, IF Len(rows) < limit THEN Len(rows) ELSE limit)

\* Slip: one more width.
NextStart_Skips(page, width) == Last(page) + 2 * width

\* Where the next page starts.  A kline is followed by its close time plus one
\* millisecond, which is the open time of the next; the other series by one
\* millisecond after the last row.
NextStart(page, width) == Last(page) + width

\* The loop: it stops at an empty page, after a short page, or past the end.
FetchPages(venue, from, to, limit, width) ==
    LET Rest[start \in Int] ==
            IF start > to THEN <<>>
            ELSE LET page == Page(venue, start, to, limit)
                 IN  IF Len(page) < limit THEN page
                     ELSE page \o Rest[NextStart(page, width)]
    IN  Rest[from]

\* fetch_klines: the pages as they come.
FetchKlines(venue, w, limit, width) == FetchPages(venue, w.lo, w.hi, limit, width)

\* _filter_rows_to_requested_window: rows of the window, each time once.
FilterToWindow(rows, w) ==
    LET first == Sorted({i \in DOMAIN rows : /\ w.lo <= rows[i] /\ rows[i] <= w.hi
                                             /\ \A j \in 1..(i - 1) : rows[j] # rows[i]})
    IN  [k \in DOMAIN first |-> rows[first[k]]]

\* fetch_mark_price_klines and fetch_index_price_klines filter what they got.
FetchPriceKlines(venue, w, limit, width) ==
    FilterToWindow(FetchKlines(venue, w, limit, width), w)

\* fetch_funding_rate_history, which asks for the window itself.
FetchFunding(venue, w, limit) ==
    FilterToWindow(FetchPages(venue, w.lo, w.hi, limit, 1), w)

\* fetch_open_interest_history and _fetch_futures_data_series: one period more
\* on either side, never before time 0, and filtered.
FetchSeries(venue, w, limit, period) ==
    FilterToWindow(FetchPages(venue, IF w.lo < period THEN 0 ELSE w.lo - period,
                              w.hi + period, limit, 1), w)
=============================================================================
