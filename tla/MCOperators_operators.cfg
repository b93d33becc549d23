\* Every operator on a small instance, one after the other.
CONSTANTS
    TimeRows <- Rows
    TimeBatches = 3
    TimeDelta = 2
    LatePairs = FALSE
    SortKeys = 6
    FirstOf <- GroupStarts
    BatchesAhead = 1
    JointKeys = 3
    KeyRange = 4
    Triplets <- GivenTriplets
    MessageBound = 2
    LeftKeys = 2
    RightKeys = 2
    MapKeys = {1, 2}
    MapValues = {1, 2}
    MapResults = {1, 2}
    MapWaiting = 2
    DedupTimes = 4
    DedupValues = {0, 1, 2}
    TimesPerBatch = 2
    DedupRestarts = 2
    RowKeys = {1, 2}
    GroupNames = {1, 2}
    ReducedValues = {1, 2, 3}
    IntModulus = 4
    ArrivalTimes = 2
    DocKeys = {1, 2, 3}
    DocScores = {1, 2}
    Unreadable = 90
    Unfilterable = 92
    Misfit = 91
    Limits = {1, 2}
    MaxId = 3
    QueryUpdates = FALSE
    CellValues <- Cells
    IntBits = 4
    FloatExact = 4
    NanosPerSecond = 4
    DisplayUnits <- Units
    Timestamps <- TimeRange
    HourLength = 4
    ZoneShifts <- WholeHours
    IterKeys = {1, 2}
    IterValues = {1, 2, 3}
    IterLimits = {0, 1, 2, 3}
    IterationBound = 6
    RowNames = {1, 2, 3}
    AheadBy = 2
    ExportKeys = {1, 2}
    ExportTimes = 2
    Importers = {1}
SPECIFICATION Spec
INVARIANTS
    OnTime
    PointersExact
    BroadcastExact
    ComputedExact
    DeletionsConsistent
    StateMatchesInput
    IndexExact
    ExpressionsExact
    ImportsExact
PROPERTY
    InputsEnd
CHECK_DEADLOCK FALSE
