CONSTANTS
    NumRequests = 3
    NumExecutors = 2
    None = None
    Requests <- MCRequests
    Executors <- MCExecutors
    Initial = {11, 12}
    Killable = {11}
    Aborters = {2}
    Faulty = {}
    num_tokens <- MixedTokens
    TotalTokens <- MixedTotal
    max_num_scheduled_tokens <- MCMaxTokens
    StepLatency <- CrossingLatency
    arrival_time <- MCArrivalTime
    Caching = TRUE
    denoise_block_size = 2
    output_length <- OneBlockLength
    kv_capacity <- AmpleKVCapacity
    max_num_unfinished_requests = 1
    enable_dropping = TRUE
SPECIFICATION FairSpec
INVARIANTS
    AdmissionLimited
    WorkerInSync
    KVBlocksOwned
PROPERTIES
    
    BlocksGivenOutIdle
    ImplementsService
CHECK_DEADLOCK FALSE
