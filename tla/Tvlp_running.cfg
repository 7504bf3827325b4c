SPECIFICATION Spec
CONSTANTS
    NParts = 2
    Entries = 2
    Toggles = {2}
    MaxStarts = 2
    MaxFaults = 1
INVARIANT
    NeverAlreadyRunning
