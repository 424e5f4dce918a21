SPECIFICATION Spec
CONSTANTS
    v1 = v1
    v2 = v2
    a = a
    b = b
    i1 = i1
    i2 = i2
    none = none
    norun = norun
    Runs <- MCRuns
    Clips <- MCClips
    Cuts = {a, b}
    Versions = {v1, v2}
    Histories <- MCHistories
    NoRun = norun
    NoAnswer = none
    Invalid = {i1}
    MaxInvalid = 2
    MaxFaults = 1
INVARIANTS
    
    
    Aligned
    OneRepairEach
CHECK_DEADLOCK FALSE
SYMMETRY Symmetry
