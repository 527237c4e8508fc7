SPECIFICATION Spec
CONSTANTS
    r1 = r1
    r2 = r2
    Revs = {r1, r2}
    ModuleFiles <- MCModuleFiles
    Derivable <- MCDerivable
    NoRev = NoRev
    NoEntry = NoEntry
    NoPrint = NoPrint
    Guards = {FALSE}
    HasMemory = TRUE
    HasRemote = TRUE
    MaxWorld = 0
    QuietQueries = TRUE
INVARIANT DiskEntriesWhole
