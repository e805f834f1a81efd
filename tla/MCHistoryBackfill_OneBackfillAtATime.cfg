SPECIFICATION Spec
CONSTANTS
    FundingDatasets = {"funding"}
    PriceDatasets = {}
    InterestDatasets = {"oi"}
    RatioDatasets = {}
    Absent = Absent
    Period = 2
    Day = 4
    Retention = 3
    PriceSla = 2
    FundingSla = 3
    PlanLookback = 4
    RecentLookback = 2
    RestLimit = 2
    BarDatasets = {"spot"}
    DatasetOrder <- MCOrder
    SnapshotKey = "snapshots"
    Month = 4
    FundingInterval = 4
    Torn = Torn
    NoFile = NoFile
    Clients = {"client"}
    Venue <- MCVenue
    StoredRows <- MCStoredRows
    Selections = {{"funding", "oi"}}
    StartTime = 3
    EndTime = 4
    MaxLaunches = 2
    MaxTroubles = 1
INVARIANTS OneBackfillAtATime
CHECK_DEADLOCK FALSE
