SPECIFICATION Spec
CONSTANTS
    Length = 2
    Align = 1
    W = 256
    SndBuf = 1
    MaxPbuf = 1
    MaxQueue = 1
    Modes = {FALSE}
    Loads <- SomeLoads
PROPERTIES ConnectReturns
CHECK_DEADLOCK FALSE
