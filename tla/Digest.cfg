CONSTANTS
    u1 = u1
    u2 = u2
    u3 = u3
    n1 = n1
    n2 = n2
    n3 = n3
    n4 = n4
    a = a
    b = b
    c = c
    Url = {u1, u2, u3}
    Name = {n1, n2, n3, n4}
    Stem = {a, b, c}
    BaseOf <- MCBaseOf
    Lines <- MCLines
    None = None
    FirstToo = FALSE
    Faults = {"io", "mail", "crash"}
    MaxItems <- MCItems
    MaxChanges = 2
    MaxFaults = 1
SPECIFICATION FairSpec
INVARIANTS
    FilesDiffer
    MailedOnce
    OncePerDay
    NothingDropped
PROPERTIES
    OldStaysUnsent
    CatchesUp
