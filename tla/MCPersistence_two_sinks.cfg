\* One worker with two output tables; the writer of the second keeps a buffer.
CONSTANTS
    w0 = w0
    w1 = w1
    s0 = s0
    s1 = s1
    Worker = {w0}
    Reader = {w0}
    Sink = {s0, s1}
    Delayed = {s1}
    Dest <- SingleDest
    NumRows = 2
    Lazy = TRUE
    FlushOutcomes = {"ok"}
    SaveOutcomes = {"ok"}
    Windows = {}
    MaxTime = 3
    MaxRuns = 2
SPECIFICATION FairSpec
INVARIANTS
    ExactlyOnceIfUndisturbed
    FinalizedNeverBehind
PROPERTY
    EventuallyDelivered
