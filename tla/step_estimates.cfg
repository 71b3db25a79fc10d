SPECIFICATION FairSpec
CONSTANTS
    None = None
    Requests <- MCRequests
    total_steps <- MCTotalSteps
    MaxTokens = 1
    delta = 2
INVARIANTS
    EstimateNotLow
    NoRefreshLost
    ThresholdFollows
PROPERTIES
    PendingServed
CHECK_DEADLOCK FALSE
