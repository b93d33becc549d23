\* Every source and sink on a small instance, one after the other.
CONSTANTS
    Readers = {"files", "s3", "sqlite", "kafka", "none"}
    ChannelBound = 2
    Paths = {1, 2}
    FileRows = 2
    MaxEdits = 4
    SecondLength = 1
    EditSteps = {"copy"}
    FileRestarts = 1
    StreamingRestarts = FALSE
    FullRestarts = FALSE
    ObjectKeys = {1, 2, 3}
    ObjectRows = 2
    S3SecondLength = 1
    LoaderFailures = 2
    S3Restarts = 2
    PolledLines = FALSE
    WholeRestarts = FALSE
    RowIds = {1, 2}
    RowValues = {1, 2}
    MaxCommits = 2
    Partitions = {1, 2}
    MaxMessages = 2
    KafkaErrors = 1
    KafkaRestarts = 2
    GroupCommits = FALSE
    SinkKinds = {"file", "psql", "snapshot", "elastic", "kafka", "delta"}
    OutKeys = {1, 2}
    OutValues = {1, 2}
    MaxTimes = 2
    MaxBatchSize = 2
    OutputRetries = 2
    WriteErrors = 2
    SinkRestarts = 1
    ProducerQueue = 3
    ReplayMerges = FALSE
    CdcKeys = {1, 2}
    CdcValues = {1, 2}
    MaxChanges = 3
    CdcRestarts = 1
    BeforeImages = TRUE
    Columns <- Schema
    KeyColumns = {1}
    Headers <- FileHeaders
    Texts = {"int", "float", "empty", "text"}
    FieldAbsenceIsError = TRUE
    HeaderRead = TRUE
    RuntimeWorkers = {1, 2}
    EntryBound = 1
    CommitDuration = FALSE
    LogBound = 1
    SubKeys = {1}
    SubValues = {1, 2, 3}
    SubError = 3
    LastSubTime = 2
    SubWorkers = {0, 1}
    Horizon = 4
    Minute = 2
    ReportPeriod = 2
    MessageLimit = 2
    LastFrontierTime = 2
SPECIFICATION Spec
INVARIANTS
    FilesExact
    S3Exact
    SqliteStates
    KafkaExact
    DeliveredExact
    ParsedExact
    OkIsClean
PROPERTIES
    ReplacedAtOnce
    TakenIsCommitted
    SqliteCatchesUp
    RuntimeEnds
CHECK_DEADLOCK FALSE
