SPECIFICATION Spec
CONSTANTS
    FundingDatasets = {"funding"}
    PriceDatasets = {"mark"}
    InterestDatasets = {"oi"}
    RatioDatasets = {"accounts", "taker"}
    Absent = Absent
    Period = 2
    Day = 4
    Retention = 6
    PriceSla = 2
    FundingSla = 3
    PlanLookback = 4
    RecentLookback = 2
    RestLimit = 2
    Loops <- MCLoops
    NamedSets = {{"accounts", "taker"}}
    Clients = {"client"}
    Venue <- MCVenue
    StoredRows <- MCStoredRows
    StartTime = 8
    EndTime = 9
    MaxRequests = 1
    MaxTroubles = 1
INVARIANTS TypeOK RunningRowsAreWorkedOn PlansAgreeWithAudits
PROPERTIES RemediationLeavesNoHoles LoopsGoOn PeriodsAreStored
CHECK_DEADLOCK FALSE
