CONSTANTS
    s1 = s1
    s2 = s2
    q0 = q0
    q1 = q1
    q2 = q2
    e1 = e1
    e2 = e2
    Sessions = {s1, s2}
    Requests = {q0, q1, q2}
    Old <- Earlier
    OldHome <- EarlierHome
    Editors = {e1, e2}
    Worker = worker
    NoOne = NoOne
    MaxActive = 1
    MaxStarts = 3
SYMMETRY Symmetry
SPECIFICATION Spec
INVARIANTS NeverConflict CapacityHeld FavoriteCompleted DeletedIsQuiet 
PROPERTIES Atomic
