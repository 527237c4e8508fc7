SPECIFICATION TiersSpec
CONSTANTS
    Idle = Idle
    MemoryKeys = {k1, k2, k3, k4}
    Sizes = {1, 2, 3, 6}
    Budget = 5
    Replicas = {"a", "b"}
    Deployments <- MCDeployments
    Servers = {"a", "b"}
    Configurations <- MCConfigurations
    Trees <- MCTrees
    Commits <- MCCommits
    Scopes <- MCScopes
    Litter <- MCLitter
    MaxStored = 1
    Environments <- MCEnvironments
    Imports <- MCImports
    Missing = Missing
    MaxMoves = 3
INVARIANT MemoryTierExact
 
 
INVARIANT PackagesTracked
INVARIANT SnapshotTrusted
PROPERTY EvictsOnlyForRoom
CHECK_DEADLOCK FALSE
