SPECIFICATION SpinSpec
CONSTANTS
    Fds = {1, 2, 3}
    HeaderSize = 1
    BlockSize = 2
    SendBuffer = 1
    LowWater = 1
    Configs <- Shrinking
    MaxOps = 1
    SizeMax = 7
    Unreliable = {}
    Lossy = FALSE
PROPERTIES
    RightConnections
