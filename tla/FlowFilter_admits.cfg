CONSTANTS
    Macs = {1, 2, 3, 4}
    MaxRules = 3
    MaxOverflows = 3
    DeviceFails = FALSE
SPECIFICATION Spec
INVARIANTS
    OkAdmits
