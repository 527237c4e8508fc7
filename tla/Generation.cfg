SPECIFICATION GenerationSpec
CONSTANTS
    Idle = Idle
    Requested <- MCRequested
    Hidden = {"key"}
    Extension = {"e1", "e2", "e3"}
    Bytes <- MCBytes
    Budget = 4
    Requests <- MCRequests
    Worlds <- MCWorlds
    WellKnown = {"platforms"}
    Numbered <- MCNumbered
    Repositories <- MCRepositories
    Alternatives <- MCAlternatives
    Checkouts <- MCCheckouts
    Files <- MCFiles
    Contents = {"c1", "c2"}
    OutsideLinks <- MCOutsideLinks
    MaxDefinitionEdits = 3
    ConfiguredGraphs <- MCConfigured
    Layouts <- MCLayouts
    FileStates <- MCFileStates
    MaxSourceEdits = 2
    Threads = {"t1", "t2", "t3"}
    Lookups <- MCLookups
INVARIANT ReadIsFaithful
INVARIANT ScopeIsSound
 
INVARIANT SharedPrefixTransparent
INVARIANT RepositoriesReach
 
INVARIANT InstancesKept
 
INVARIANT ResolutionRight
PROPERTY StagesEnd
CHECK_DEADLOCK FALSE
