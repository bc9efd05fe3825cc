SPECIFICATION Spec
CONSTANTS
    ping = ping
    pong = pong
    store = store
    a = a
    b = b
    Unset = Unset
    Absent = Absent
    Root = Root
    NoEnvelope = NoEnvelope
    Keys = {ping, pong, store}
    Shapes = {a, b}
    Kinds <- RoutingKinds
    Payloads <- RoutingPayloads
    Claims = {0, 1}
    MaxShards = 2
    MaxSeq = 2
    HandlersThrow = TRUE
INVARIANTS
    NoOverreach
    GatedDelivery
    DoorsAgree
PROPERTY
    ImplementsDeliveryLog
