SPECIFICATION Spec
CONSTANTS
    Absent = Absent
    Workers = {w1}
    LastMinute = 10
    VenueMinutes <- MCVenue
    StoredAtStart <- MCStored
    Windows <- MCWindows
    Lookback = 6
    PageLimit = 1
    ListLimit = 2
    DetectLimit = 2
    StartTime = 9
    EndTime = 10
    MaxTasks = 2
    MaxTroubles = 0
PROPERTIES ResolvesOnlyStaleGaps
CHECK_DEADLOCK FALSE
