\* Progress through a crash, a lost execution connection and a database error.
SPECIFICATION FairSpec
CONSTANTS
    Managers = {m1, m2}
    Jobs = {1, 2}
    NoManager = NoManager
    NoJob = NoJob
    RecoverLimit = 100
    MaxFaults <- LiveFaults
INVARIANTS NoOrphan
PROPERTIES EventuallyTerminal
