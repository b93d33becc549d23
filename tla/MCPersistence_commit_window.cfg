\* Two workers, one of which reads the source; the other one writes the output.
CONSTANTS
    w0 = w0
    w1 = w1
    s0 = s0
    s1 = s1
    Worker = {w0, w1}
    Reader = {w0}
    Sink = {s0}
    Delayed = {}
    Dest <- CrossDest
    NumRows = 1
    Lazy = FALSE
    FlushOutcomes = {"ok"}
    SaveOutcomes = {"ok"}
    Windows = {"commit"}
    MaxTime = 3
    MaxRuns = 2
SPECIFICATION Spec
INVARIANT
    AtLeastOnce
