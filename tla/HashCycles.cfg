SPECIFICATION ImpactSpec
CONSTANTS
    N = 3
    Graphs <- MCGraphs
    Package <- MCPackage
    NoDistance = NoDistance
INVARIANT ChangesReachDependents
