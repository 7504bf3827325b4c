CONSTANTS
    w1 = w1
    w2 = w2
    Workers = {w1, w2}
    Stack = w1
    Spinning = {w2}
    Tasks = {t1}
    Callbacks = {}
    MaxRequests = 2
SPECIFICATION Spec
INVARIANTS
    NoDeadTask
