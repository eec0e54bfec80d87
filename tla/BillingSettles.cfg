CONSTANTS
    me = me
    c1 = c1
    c2 = c2
    s1 = s1
    s2 = s2
    r1 = r1
    r2 = r2
    Id = {me}
    Customer = {c1}
    Sub = {s1}
    Handler = {r1}
    None = None
    Faults = {"io", "crash", "again", "stripe"}
    MaxRemovals = 1
    MaxEvents = 3
    MaxFaults = 2
SPECIFICATION FairSpec
PROPERTIES
    Settles
CHECK_DEADLOCK FALSE
