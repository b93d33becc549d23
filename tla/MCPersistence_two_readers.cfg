\* Two workers, each reading a partition; every row is written by the other one.
CONSTANTS
    w0 = w0
    w1 = w1
    s0 = s0
    s1 = s1
    Worker = {w0, w1}
    Reader = {w0, w1}
    Sink = {s0}
    Delayed = {}
    Dest <- CrossDest
    NumRows = 1
    Lazy = FALSE
    FlushOutcomes = {"ok"}
    SaveOutcomes = {"ok"}
    Windows = {}
    MaxTime = 3
    MaxRuns = 2
SPECIFICATION Spec
INVARIANTS
    TypeOK
    ThresholdsAgree
    InputExact
    ReplayedIsDelivered
SYMMETRY WorkerSymmetry
