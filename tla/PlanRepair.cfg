SPECIFICATION Spec
CONSTANTS
    crop = crop
    layout = layout
    caption = caption
    policy = policy
    intent = intent
    Defects <- SomeDefects
    Kind <- SomeKind
    Repairable <- SomeRepairable
    Cured <- SomeCured
    Unasked <- SomeUnasked
    Composition <- SomeComposition
    Exposes <- SomeExposes
    Rank <- SomeRank
    MaxCodes = 2
    MaxFlaws = 2
    MaxAnswers = 3
    MaxCalls = 2
    MaxRestarts = 1
    MaxLapses = 1
INVARIANTS
    FallbackWasAsked
    RenderedWasAsked
    LedgerExplains
    
CHECK_DEADLOCK FALSE
