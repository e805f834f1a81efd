SPECIFICATION Spec
CONSTANTS
    Absent = Absent
    Workers = {w1, w2}
    LastMinute = 10
    VenueMinutes <- MCVenue
    StoredAtStart <- MCStored
    Windows <- MCWindows
    Lookback = 6
    PageLimit = 1
    ListLimit = 2
    DetectLimit = 2
    StartTime = 9
    EndTime = 10
    MaxTasks = 3
    MaxTroubles = 1
SYMMETRY Symmetry
INVARIANTS TypeOK ResolvedGapsAreFilled RepairsTakeEffect ReportTellsTheRows
PROPERTIES ChecksKeepTheirWindow
CHECK_DEADLOCK FALSE
