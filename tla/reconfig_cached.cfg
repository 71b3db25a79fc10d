CONSTANTS
    NumRequests = 3
    NumExecutors = 3
    None = None
    Requests <- MCRequests
    Executors <- MCExecutors
    Initial = {11, 12}
    Killable = {11}
    Aborters = {}
    Faulty = {12}
    num_tokens <- MixedTokens
    TotalTokens <- MixedTotal
    max_num_scheduled_tokens <- MCMaxTokens
    StepLatency <- CrossingLatency
    arrival_time <- MCArrivalTime
    Caching = TRUE
    denoise_block_size = 2
    output_length <- MCOutputLength
    kv_capacity <- AmpleKVCapacity
    max_num_unfinished_requests = None
    enable_dropping = FALSE
SPECIFICATION Spec
INVARIANTS
    TypeOK
    TasksStarted
    PlacementConsistent
    ScheduleLocalsConsistent
    WithinTokenBudget
    NoKillInFlight
    WorkerInSync
    KVBlocksOwned
    OutputNeverOverrun
    NoFailure
PROPERTIES
    MidBlockStays
CHECK_DEADLOCK FALSE
