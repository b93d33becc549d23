\* Local files over four starts, so that a truncation may break off and be
\* repeated; S3 objects without the hazards of naming and of removal; and the
\* metadata blocks of two workers, stopped at every step but within the first save.
CONSTANTS
    w0 = w0
    w1 = w1
    Backends = {"local", "s3"}
    Hazards = {}
    MaxTime = 7
    MaxRuns = 4
    LocalClock = 6
    S3Runs = 3
    Worker = {w0, w1}
    MetadataBackends = {"fs", "s3"}
    TornFirst = FALSE
    LastTime = 2
    MaxStarts = 3
SPECIFICATION StorageSpec
INVARIANTS
    CommittedSurvives
    RecoversSaved
PROPERTY
    ImplementsLog
CHECK_DEADLOCK FALSE
