\* One worker, three runs, postponed commits, cancelled flushes, failing saves.
CONSTANTS
    w0 = w0
    w1 = w1
    s0 = s0
    s1 = s1
    Worker = {w0}
    Reader = {w0}
    Sink = {s0}
    Delayed = {}
    Dest <- SingleDest
    NumRows = 2
    Lazy = TRUE
    FlushOutcomes = {"ok", "cancelled"}
    SaveOutcomes = {"ok", "error"}
    Windows = {}
    MaxTime = 5
    MaxRuns = 3
SPECIFICATION Spec
INVARIANTS
    AtLeastOnce
    CommittedIsSaved
PROPERTY
    StoredTimeAdvances
