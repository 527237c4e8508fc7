SPECIFICATION AnswersSpec
CONSTANTS
    N = 3
    Graphs <- MCGraphs
    Package <- MCPackage
    NoDistance = NoDistance
    Idle = Idle
    Questions <- MCQuestions
    Unbounded = Unbounded
    RootCaps = {0, 1, 2}
    Comparisons <- MCComparisons
    NoGraph = NoGraph
    AnyType = AnyType
INVARIANT ImpactedAreDependents
INVARIANT DistancesExact
INVARIANT ExplanationExact
 
INVARIANT ModuleImpactExact
INVARIANT AnswersAgree
PROPERTY EveryImpactedMeasured
