SPECIFICATION WireSpec
CONSTANTS
    FromC <- CPackets
    FromPython <- PyPackets
    BUF_SIZE = 512
INVARIANTS
    ReadBack
