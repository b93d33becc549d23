\* S3 objects, when the writer names its first object before truncate() its copy.
CONSTANTS
    Backends = {"s3"}
    Hazards = {"naming"}
    MaxTime = 7
    MaxRuns = 3
SPECIFICATION Spec
INVARIANT
    CommittedSurvives
CHECK_DEADLOCK FALSE
