SPECIFICATION Spec
CONSTANTS
  j1 = j1
  c1 = c1
  c2 = c2
  NoJob = NoJob
  Jobs <- OneJob
  Clients <- OneClient
  NBars = 2
  MaxCancels = 2
  MaxCrashes = 0

INVARIANT CanceledKeepsRequest
CHECK_DEADLOCK TRUE
