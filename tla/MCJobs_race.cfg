SPECIFICATION Spec
CONSTANTS
  j1 = j1
  c1 = c1
  c2 = c2
  NoJob = NoJob
  Jobs <- OneJob
  Clients <- TwoClients
  NBars = 2
  MaxCancels = 2
  MaxCrashes = 1
SYMMETRY ClientSymmetry
INVARIANTS TypeOK RunIdTruthful FailureLeavesNoRun HeededCancelNeverCommits
CHECK_DEADLOCK TRUE
