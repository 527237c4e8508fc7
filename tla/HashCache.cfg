SPECIFICATION Spec
CONSTANTS
    r1 = r1
    r2 = r2
    Revs = {r1, r2}
    ModuleFiles <- MCModuleFiles
    Derivable <- MCDerivable
    NoRev = NoRev
    NoEntry = NoEntry
    NoPrint = NoPrint
    Guards = {TRUE, FALSE}
    HasMemory = TRUE
    HasRemote = TRUE
    MaxWorld = 1
    QuietQueries = TRUE
SYMMETRY MCSymmetry
INVARIANT FreshUnderGuard
INVARIANT OwnEntriesOnly
