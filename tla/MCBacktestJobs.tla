---- MODULE MCBacktestJobs ----
\* Small instances of BacktestJobControl for TLC.
EXTENDS BacktestJobControl, TLC

CONSTANTS j1, c1, c2

OneJob == {j1}
OneClient == {c1}
TwoClients == {c1, c2}

ClientSymmetry == Permutations(Clients)

====
