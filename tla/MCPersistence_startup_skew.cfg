\* A finished program is started again and its workers start at different speeds;
\* it dies after its first commit, outside the other two windows.
CONSTANTS
    w0 = w0
    w1 = w1
    s0 = s0
    s1 = s1
    Worker = {w0, w1}
    Reader = {w0}
    Sink = {s0}
    Delayed = {}
    Dest <- SingleDest
    NumRows = 1
    Lazy = FALSE
    FlushOutcomes = {"ok"}
    SaveOutcomes = {"ok"}
    Windows = {"startup"}
    MaxTime = 4
    MaxRuns = 3
SPECIFICATION Spec
INVARIANT
    AtLeastOnce
