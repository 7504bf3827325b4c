SPECIFICATION MCSpec
CONSTANTS
    Length = 2
    Align = 1
    W = 256
    SndBuf = 1
    MaxPbuf = 2
    MaxQueue = 1
    Modes = {TRUE, FALSE}
    RingLength = 4
    RingAlign = 2
    MaxIov = 3
    Marks = 5
    Loads <- SomeLoads
INVARIANTS FdBalance
PROPERTIES RingFifo TxDrained Woken
CHECK_DEADLOCK FALSE
