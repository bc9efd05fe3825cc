SPECIFICATION Spec
CONSTANTS
    ping = ping
    pong = pong
    store = store
    a = a
    b = b
    Unset = Unset
    Absent = Absent
    Root = Root
    NoEnvelope = NoEnvelope
    Keys = {ping, pong, store}
    Shapes = {a, b}
    Kinds <- LiveKinds
    Payloads <- LivePayloads
    Claims = {0}
    MaxShards = 1
    MaxSeq = 2
    HandlersThrow = TRUE
INVARIANT
    OnlyReentrantPumpsAreNoOps
