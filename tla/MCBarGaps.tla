------------------------------ MODULE MCBarGaps ------------------------------
(* BarGaps for TLC: six minutes, the last of them not over when it starts. *)
EXTENDS BarGaps

\* An outage of the venue lost minute 4.
MCVenue == {0, 2, 6, 8, 10}

\* The last row is dated in the future.
MCStored == {(0 :> "final") @@ (2 :> "bad") @@ (4 :> "none") @@ (6 :> "none")
             @@ (8 :> "none") @@ (10 :> "bad")}

\* A window of everything, and one off the grid that ends within the gap.
MCWindows == {Window(0, 10), Window(1, 5)}

Symmetry == Permutations(Workers)
=============================================================================
