SPECIFICATION Spec
CONSTANTS
    Executors <- MCExecutors
    Initial = {}
    NodeBundles <- OneNode
    NumGpus <- TwoPairs
    Degrees = {1, 2, 4}
    MaxId = 8
INVARIANTS
    TypeOK
    NoSharedBundles
    LayoutDeployed
    ServiceContinuity
    NoFailedCommand
