SPECIFICATION Spec
CONSTANTS
    Queries = {q1, q2}
    NoQuery = NoQuery
INVARIANT ExclusiveWorkspace
INVARIANT ActiveQueriesExact
PROPERTY KeepsPromise
PROPERTY CancelledQueriesStop
PROPERTY EveryRequestAnswered
CHECK_DEADLOCK FALSE
