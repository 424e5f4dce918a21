CONSTANTS
    PageLimit = 1
    Reconnects = 1
    r1 = r1
    r2 = r2
    Replay = {r1, r2}
    MaxEvents = 2
    MaxFaults = 2
    MaxAsks = 1
SPECIFICATION FeedSpec
CHECK_DEADLOCK FALSE
INVARIANTS ShownIsTheFeed EndIsTrue
PROPERTIES EventuallyTold
