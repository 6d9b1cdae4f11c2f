SPECIFICATION ServerSpec
CONSTANTS
    d1 = d1
    b1 = b1
    n1 = n1
    espidf = espidf
    one = one
    msec = msec
    None = None
    Garbled = Garbled
    ESPIDF = espidf
    Device <- OneDevice
    Body <- Bodies1
    DeviceTs = {0, 2}
    Key <- Keys
    Val <- Vals
    Conf <- Reflashed
    IntOf <- Ints
    NewName <- Names
    DEDUP_WINDOW = 1
    TICK = 60
    MaxClock = 5
    MaxFaults = 1
    MaxUploads = 1
INVARIANTS
    SilentShownOffline
PROPERTIES
    RenameSticks
