CONSTANTS
    u1 = u1
    u2 = u2
    u3 = u3
    r1 = r1
    r2 = r2
    me = me
    you = you
    Id = {u1, u2, u3}
    Email = {me}
    Handler = {r1, r2}
    None = None
    maxTokens = 2
    Faults = {"io", "mail", "crash"}
    MaxFaults = 0
    MaxSecrets = 6
    MaxRemovals = 2
SPECIFICATION Spec
SYMMETRY MCSymmetry
CHECK_DEADLOCK FALSE
INVARIANTS
    OneAccountPerEmail
