CONSTANTS
    r1 = r1
    r2 = r2
    r3 = r3
    Missing = Missing
    MaxChunk = 2
    Requests <- TwoRequests
    Files <- TwoFiles
    Suffixes <- Mp4OrMkv
    Declared <- DeclareOther
    MaxFaults <- LockFaults
SYMMETRY Symmetry2
SPECIFICATION Spec
PROPERTIES SourceImmutable
