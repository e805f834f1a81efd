SPECIFICATION FairSpec
CONSTANTS
  j1 = j1
  c1 = c1
  c2 = c2
  NoJob = NoJob
  Jobs <- OneJob
  Clients <- TwoClients
  NBars = 1
  MaxCancels = 1
  MaxCrashes = 1
PROPERTIES KeepsContract EventuallySettled
