CONSTANTS
    NumRequests = 2
    NumExecutors = 2
    None = None
    Requests <- MCRequests
    Executors <- MCExecutors
    Initial = {11, 12}
    Killable = {}
    Aborters = {}
    Faulty = {11}
    num_tokens <- MixedTokens
    TotalTokens <- MixedTotal
    max_num_scheduled_tokens <- MCMaxTokens
    StepLatency <- CrossingLatency
    arrival_time <- MCArrivalTime
    Caching = TRUE
    denoise_block_size = 2
    output_length <- OneBlockLength
    kv_capacity <- AmpleKVCapacity
    max_num_unfinished_requests = None
    enable_dropping = FALSE
SPECIFICATION FairSpec
PROPERTIES
    ModelErrorReported
CHECK_DEADLOCK FALSE
