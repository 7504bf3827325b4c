\* With Confs <- Triggered: StoppedStays.  With Confs <- Plain: Borrowed, and
\* with MaxSinks = 2 and MaxTransfers = 1 also SinksKept.
SPECIFICATION Spec
CONSTANTS
    w = w
    Captures = {1}
    Confs <- Timed
    Workers = {w}
    Fds = {1, 2}
    MaxSinks = 1
    MaxResults = 2
    MaxTransfers = 0
    MaxBurst = 2
PROPERTY TimedStops
