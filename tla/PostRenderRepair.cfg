SPECIFICATION Spec
CONSTANTS
    c1 = c1
    c2 = c2
    black = black
    clash = clash
    missing = missing
    Clips <- TwoClips
    Codes <- BothCodes
    Technical <- Technicals
    Caption <- OneCaption
    Inspected <- OneInspected
    Unavailable = missing
    Strict = FALSE
    MaxBlockers = 1
    MaxScore = 1
    MaxFindings = 2
    MaxAnswers = 2
    MaxRestarts = 1
    MaxLapses = 1
SYMMETRY Symmetry
INVARIANTS
    AskedOnce
    NoRegression
    ShownAsJudged
    PublishedIsSound
    FailsForCause
CHECK_DEADLOCK FALSE
