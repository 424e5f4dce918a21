CONSTANTS
    d1 = d1
    d2 = d2
    Dest = {d1, d2}
    QueueSize = 2
    HistorySize = 1
    MaxCalls = 4
    MaxAttempts = 3
    MaxRestarts = 1
SPECIFICATION Spec
CHECK_DEADLOCK FALSE
INVARIANTS DeliveredIsOwn NotForgotten
PROPERTIES EveryCallIsAnswered
