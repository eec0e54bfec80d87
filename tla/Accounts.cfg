CONSTANTS
    u1 = u1
    u2 = u2
    u3 = u3
    r1 = r1
    r2 = r2
    me = me
    you = you
    Id = {u1, u2}
    Email = {me}
    Handler = {r1, r2}
    None = None
    maxTokens = 2
    Faults = {"io", "mail", "crash"}
    MaxFaults = 2
    MaxSecrets = 5
    MaxRemovals = 2
SPECIFICATION Spec
SYMMETRY MCSymmetry
INVARIANTS
    TypeOK
    IndexesAgree
    AnswersAreSaved
    NewestLinkCounts
    DeletedForGood
    SignedOutStaysOut
CHECK_DEADLOCK FALSE
