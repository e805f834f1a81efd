SPECIFICATION Spec
CONSTANTS
    RunIds = {"r1", "r2", "r3"}
    FinishedRuns = {"r1", "r2"}
    Assumptions <- MCAssumptions
    Diagnostics <- MCDiagnostics
    TotalReturn <- MCTotalReturn
    TraceRun <- MCTraceRun
    Clients = {c1, c2}
    Comparisons <- MCComparisons
    NoteWrites <- MCNoteWrites
    Scenarios = {"s1", absent}
    Absent = absent
    MaxNotes = 2
    MaxAnchors = 2
SYMMETRY MCSymmetry
INVARIANTS TypeOK NotesTellTheirSubject
PROPERTY AuthorsKeepTheirNotes
CHECK_DEADLOCK FALSE
