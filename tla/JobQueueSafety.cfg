\* Two workers, two runs, one fault of each kind the fence must survive, and
\* other transactions that hold the rows of runs.
SPECIFICATION Spec
CONSTANTS
    Managers = {m1, m2}
    Jobs = {1, 2}
    NoManager = NoManager
    NoJob = NoJob
    RecoverLimit = 100
    MaxFaults <- FencedFaults
PROPERTIES CommitUnderFence EndsStay Exclusive
