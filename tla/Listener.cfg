SPECIFICATION Spec
CONSTANTS
    d1 = d1
    d2 = d2
    b1 = b1
    b2 = b2
    v1 = v1
    v2 = v2
    None = None
    Garbled = Garbled
    Device <- Devices1
    Body <- Bodies
    DeviceTs = {2}
    Key <- Keys
    Val <- Vals
    Conf <- OneConf
    DEDUP_WINDOW = 2
    MaxClock = 4
    MaxFaults = 1
INVARIANTS
    Spacing
    CachedTablesExist
    DropsOnlyTheSaved
PROPERTIES
    ServerRowsKept
    ImplementsReadingLog
SYMMETRY BodySymmetry
