SPECIFICATION Spec
CONSTANTS
    w = w
    Captures = {1, 2}
    Confs <- Plain
    Workers = {w}
    Fds = {1}
    MaxSinks = 2
    MaxResults = 1
    MaxTransfers = 0
    MaxBurst = 1
INVARIANT RunningListed
