SPECIFICATION Spec
CONSTANTS
    m1 = m1
    m2 = m2
    Nothing = Nothing
    N = 1
    Msgs <- OneMessage
    MaxReloads = 1
    MaxBacklog = 2
    SockBuf = 1
    MaxPids = 1
    MaxSpawns = 0
    MaxMounts = 1
    RespawnFails = TRUE
    HostSwaps = FALSE
    ReviveFails = FALSE
INVARIANT QuarantinedIsDead
