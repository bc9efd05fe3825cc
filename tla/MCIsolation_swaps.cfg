SPECIFICATION Spec
CONSTANTS
    m1 = m1
    m2 = m2
    Nothing = Nothing
    N = 2
    Msgs <- OneMessage
    MaxReloads = 1
    MaxBacklog = 2
    SockBuf = 1
    MaxPids = 2
    MaxSpawns = 2
    MaxMounts = 1
    RespawnFails = TRUE
    HostSwaps = TRUE
    ReviveFails = TRUE
INVARIANTS NoOrphans AtMostOnce
