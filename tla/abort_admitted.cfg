CONSTANTS
    NumRequests = 3
    NumExecutors = 2
    None = None
    Requests <- MCRequests
    Executors <- MCExecutors
    Initial = {11, 12}
    Killable = {}
    Aborters = {1, 2, 3}
    Faulty = {}
    num_tokens <- MixedTokens
    TotalTokens <- MixedTotal
    max_num_scheduled_tokens <- MCMaxTokens
    StepLatency <- CrossingLatency
    arrival_time <- MCArrivalTime
    Caching = TRUE
    denoise_block_size = 2
    output_length <- MCOutputLength
    kv_capacity <- AmpleKVCapacity
    max_num_unfinished_requests = None
    enable_dropping = FALSE
SPECIFICATION Spec
INVARIANTS
    AbortsSucceed
CHECK_DEADLOCK FALSE
