SPECIFICATION Spec
CONSTANTS
    Load <- MCLoad
    Literals <- MCLiterals
    LoadingNames <- MCLoadingNames
    Seeds <- MCSeeds
    Patterns <- MCPatterns
    OwnFile <- MCOwnFile
    Base <- MCBase
    Entries <- MCEntries
    MaxEdits = 2
    None = None
INVARIANT DerivationExact
INVARIANT ImpactExact
 
