SPECIFICATION Spec
CONSTANTS
    Revs = {r1, r2, r3}
    Paths = {p1, p2}
    NoEntry = NoEntry
    Interruptions = {"cancel"}
INVARIANT EntriesDescribeTheirCommit
