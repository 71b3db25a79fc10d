CONSTANTS
    NumRequests = 4
    NumExecutors = 2
    None = None
    Requests <- MCRequests
    Executors <- MCExecutors
    Initial = {11, 12}
    Killable = {}
    Aborters = {}
    Faulty = {}
    num_tokens <- TwoLargeTokens
    TotalTokens <- TwoLargeTotal
    max_num_scheduled_tokens <- MCMaxTokens
    StepLatency <- FastFirstLatency
    arrival_time <- MCArrivalTime
    Caching = TRUE
    denoise_block_size = 2
    output_length <- OneBlockLength
    kv_capacity <- AmpleKVCapacity
    max_num_unfinished_requests = 2
    enable_dropping = TRUE
SPECIFICATION Spec
INVARIANTS
    OneTaskPerExecutor
CHECK_DEADLOCK FALSE
