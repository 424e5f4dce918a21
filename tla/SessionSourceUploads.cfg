CONSTANTS
    r1 = r1
    r2 = r2
    r3 = r3
    Missing = Missing
    MaxChunk = 2
    Requests <- ThreeRequests
    Files <- OneFile
    Suffixes <- Mp4
    Declared <- DeclareOne
    MaxFaults <- UploadFaults
SPECIFICATION LiveSpec
INVARIANTS ReadyIntact RunKeepsSource PurgedLeavesNothing
PROPERTIES FailsOnPurpose DeletedIsPurged Resumable
