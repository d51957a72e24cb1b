\* Two messages in buffers that resize made smaller than their pool expects.
SPECIFICATION Spec
CONSTANTS
    x = x
    y = y
    b1 = b1
    b2 = b2
    b3 = b3
    Null = Null
    Junk = Junk
    Handles <- MCHandles
    Buffers <- MCBuffers
    Small = 4
    Capacities = {8, 16}
    MaxCached = 16
    PutSizes = {1, 5, 7}
    MaxSize = 13
INVARIANT CopiesFit
