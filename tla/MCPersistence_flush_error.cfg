\* One worker whose snapshot writer may fail to flush.
CONSTANTS
    w0 = w0
    w1 = w1
    s0 = s0
    s1 = s1
    Worker = {w0}
    Reader = {w0}
    Sink = {s0}
    Delayed = {}
    Dest <- SingleDest
    NumRows = 1
    Lazy = FALSE
    FlushOutcomes = {"ok", "io_error"}
    SaveOutcomes = {"ok"}
    Windows = {}
    MaxTime = 3
    MaxRuns = 2
SPECIFICATION Spec
INVARIANT
    CommittedIsSaved
