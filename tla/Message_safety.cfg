\* Two messages that share, copy, grow and recycle their buffers.
SPECIFICATION MSpec
CONSTANTS
    x = x
    y = y
    b1 = b1
    b2 = b2
    Null = Null
    Junk = Junk
    Handles <- MCHandles
    Buffers <- MCBuffers
    Small = 1
    Capacities = {6}
    MaxCached = 6
    PutSizes = {5}
    MaxSize = 6
    IndexLimit = 2
    MaxShared = 3
    Base = 5
    NameLength = 2
    WordLimit = 75
SYMMETRY MCSymmetry
CONSTRAINT MCFollowed
INVARIANTS TypeOK HoldsWhatWasPut HeldOrPooled SharedInStep
