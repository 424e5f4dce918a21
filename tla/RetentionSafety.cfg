CONSTANTS
    s1 = s1
    j1 = j1
    NoOne = NoOne
    Sessions <- OneSession
    Workflow <- NewWorkflow
    Jobs <- OneJob
    Home <- NewHome
    Web = {web}
    Commands = {command}
    MaxFaults <- OneEach
SPECIFICATION Spec
INVARIANTS RowsFollowFiles
PROPERTIES EvidenceKept
