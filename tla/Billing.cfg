CONSTANTS
    me = me
    c1 = c1
    c2 = c2
    s1 = s1
    s2 = s2
    r1 = r1
    r2 = r2
    Id = {me}
    Customer = {c1, c2}
    Sub = {s1, s2}
    Handler = {r1, r2}
    None = None
    Faults = {"io", "crash", "again", "stripe"}
    MaxRemovals = 1
    MaxEvents = 4
    MaxFaults = 1
SPECIFICATION Spec
SYMMETRY MCSymmetry
INVARIANTS
    DeletedIsEnded
    TakenIsSaved
    StatusIsOfItsTime
PROPERTIES
    NewerStays
CHECK_DEADLOCK FALSE
