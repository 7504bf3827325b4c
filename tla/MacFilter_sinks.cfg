CONSTANTS
    Macs = {1, 2, 3, 4}
    MaxMacs = 2
    DeviceFails = FALSE
SPECIFICATION Spec
INVARIANTS
    SinksSeeAll
