SPECIFICATION Spec
CONSTANTS
    Executors <- MCExecutors
    Initial = {}
    NodeBundles <- TwoNodes
    NumGpus <- TwoSingles
    Degrees = {1, 2}
    MaxId = 6
INVARIANTS
    LayoutDeployed
