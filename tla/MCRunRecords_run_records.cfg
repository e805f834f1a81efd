CONSTANTS
    NSymbols = 2
    NTimes = 3
    StartTime = 2
    InitialCash = 3
    Paths <- MCPaths
    Bucket <- MCBucket
    ContextTables <- MCContextTables
    ContextWindow = 1
    Decisions = {"none", "buy", "sell", "blocked"}
    BlockCode = "cooldown_active"
    Options <- MCOptions
    ChunkSize = 2
    MaxOrders = 2
SPECIFICATION Spec
CHECK_DEADLOCK FALSE
INVARIANTS TypeOK RecordsSettle TracesTellTheRun ReportsAgree DiagnosticsAreTrue ContextIsLatest
