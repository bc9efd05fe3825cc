SPECIFICATION FairSpec
CONSTANTS
    ping = ping
    count1 = count1
    count2 = count2
    a = a
    b = b
    first = first
    rebuilt = rebuilt
    newer = newer
    other = other
    Unset = Unset
    None = None
    Names = {"m", "n"}
    Files <- TheFiles
    Manifest <- TheManifest
    Keys = {ping, count1, count2}
    Shapes = {a, b}
    Native <- TheNative
    MaxInsts = 3
    MaxShards = 2
    MaxDepth = 2
    MaxHandled = 1
    ReviveThrows = FALSE
INVARIANTS
    NoCallIntoClosedLibrary
    LibrariesAccountedFor
    InstancesAccountedFor
    StateSurvives
PROPERTY
    DestructorClosesEverything
CHECK_DEADLOCK FALSE
