SPECIFICATION FairSpec
CONSTANTS
    NumRequests = 2
    NumServers = 2
    None = None
    Requests <- MCRequests
    output_length <- MCLength
    denoise_block_size = 2
    max_num_unfinished_requests = 1
    home <- MCHome
    output_kind <- MCKind
    chunk_size = 1
PROPERTIES
    ReadySocketsRead
CHECK_DEADLOCK FALSE
