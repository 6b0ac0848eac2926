SPECIFICATION Spec
CONSTANTS
    s1 = s1
    s2 = s2
    s3 = s3
    Servers <- MCServers
    Mounts = 2
    MaxEvents = 2
    HeadSize = 17
    LastLine = 3
    LineSizes <- MCLineSizes
    MaxExtra = 2
INVARIANTS
    TypeOK
    RootsExist
    SomebodyServes
    HeadIsWhole
CHECK_DEADLOCK FALSE
