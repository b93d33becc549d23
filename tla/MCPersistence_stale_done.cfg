\* One worker that finishes, is started again, and dies.
CONSTANTS
    w0 = w0
    w1 = w1
    s0 = s0
    s1 = s1
    Worker = {w0}
    Reader = {w0}
    Sink = {s0}
    Delayed = {}
    Dest <- SingleDest
    NumRows = 2
    Lazy = FALSE
    FlushOutcomes = {"ok"}
    SaveOutcomes = {"ok"}
    Windows = {"done"}
    MaxTime = 5
    MaxRuns = 3
SPECIFICATION Spec
INVARIANT
    AtLeastOnce
