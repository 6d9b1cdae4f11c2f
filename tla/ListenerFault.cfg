SPECIFICATION Spec
CONSTANTS
    d1 = d1
    d2 = d2
    b1 = b1
    b2 = b2
    v1 = v1
    v2 = v2
    None = None
    Garbled = Garbled
    Device <- Devices1
    Body <- OneBody
    DeviceTs = {}
    Key <- Keys
    Val <- Vals
    Conf <- Confs
    DEDUP_WINDOW = 2
    MaxClock = 2
    MaxFaults = 1
INVARIANTS
    ConfigSaved
