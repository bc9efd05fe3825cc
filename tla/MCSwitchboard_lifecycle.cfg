SPECIFICATION FairSpec
CONSTANTS
    ping = ping
    pong = pong
    store = store
    a = a
    b = b
    Unset = Unset
    Absent = Absent
    Root = Root
    NoEnvelope = NoEnvelope
    Keys = {ping, pong, store}
    Shapes = {a, b}
    Kinds <- LifecycleKinds
    Payloads <- LifecyclePayloads
    Claims = {0}
    MaxShards = 2
    MaxSeq = 2
    HandlersThrow = FALSE
INVARIANTS
    LastKnownGoodConforms
    ReloadBudget
    OnlyReentrantPumpsAreNoOps
PROPERTY
    EveryTicketResolves
