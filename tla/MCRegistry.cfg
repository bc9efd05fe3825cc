SPECIFICATION Spec
CONSTANTS
    t1 = t1
    t2 = t2
    t3 = t3
    k1 = k1
    k2 = k2
    a = a
    b = b
    Unset = Unset
    NoArg = NoArg
    Threads <- ThreeThreads
    Keys <- TwoKeys
    Shapes <- TwoShapes
    MaxMaps = 3
SYMMETRY Interchangeable
PROPERTIES SnapshotsAreFrozen ImplementsAtomicRegistry
