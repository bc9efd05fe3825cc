SPECIFICATION FairSpec
CONSTANTS
    Grants <- TheGrants
    InitialFds <- TheFds
    MaxFd = 9
    MaxSpawns = 2
    MaxMounts = 2
    SoElsewhere = TRUE
INVARIANTS
    RunsInItsNamespaces
    
    ChildHasItsSocket
    
    
PROPERTIES
    SpawnReturns
CHECK_DEADLOCK FALSE
