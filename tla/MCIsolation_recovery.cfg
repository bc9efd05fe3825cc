SPECIFICATION FairSpec
CONSTANTS
    m1 = m1
    m2 = m2
    Nothing = Nothing
    N = 1
    Msgs <- TwoMessages
    MaxReloads = 2
    MaxBacklog = 2
    SockBuf = 2
    MaxPids = 1
    MaxSpawns = 0
    MaxMounts = 2
    RespawnFails = TRUE
    HostSwaps = FALSE
    ReviveFails = FALSE
INVARIANTS DiedOncePerDeath
PROPERTIES DeathIsHandled StepReturns SnapshotNeverRegresses
