SPECIFICATION FairSpec
CONSTANTS
    NumRequests = 2
    NumServers = 1
    None = None
    Requests <- MCRequests
    output_length <- MCLength
    denoise_block_size = 2
    max_num_unfinished_requests = 1
    home <- MCHome
    output_kind <- MCKind
    chunk_size = 1
INVARIANTS
    TypeOK
    NothingLost
    AnswersComplete
    AbortsExact
PROPERTIES
    CallsEnd
CHECK_DEADLOCK FALSE
