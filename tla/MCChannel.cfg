SPECIFICATION FairSpec
CONSTANTS
    Header = 2
    kMaxFrameLen = 5
    kMaxBacklog = 5
    RecvBuf = 3
    SockBuf = 4
    OutLens = {0, 3, 5, 6}
    PeerLens = {0, 3, 6}
    MaxOut = 2
    MaxIn = 3
INVARIANTS  PollIsComplete BacklogBounded
CHECK_DEADLOCK FALSE
PROPERTY PeerEndIsNoticed
