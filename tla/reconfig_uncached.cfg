CONSTANTS
    NumRequests = 3
    NumExecutors = 2
    None = None
    Requests <- MCRequests
    Executors <- MCExecutors
    Initial = {11}
    Killable = {11}
    Aborters = {}
    Faulty = {}
    num_tokens <- MixedTokens
    TotalTokens <- MixedTotal
    max_num_scheduled_tokens <- MCMaxTokens
    StepLatency <- CrossingLatency
    arrival_time <- MCArrivalTime
    Caching = FALSE
    denoise_block_size = 2
    output_length <- OneBlockLength
    kv_capacity <- AmpleKVCapacity
    max_num_unfinished_requests = 2
    enable_dropping = FALSE
SPECIFICATION FairSpec
INVARIANTS
    InFlightStaysPut
    NoFailure
PROPERTIES
    RequestsAnswered
    KillsComplete
CHECK_DEADLOCK FALSE
