CONSTANTS
    a1 = a1
    a2 = a2
    b1 = b1
    pageA = pageA
    pageB = pageB
    NoPage = NoPage
    NoLine = NoLine
    Line <- MCConflict
    Page <- MCPage
    key <- MCConflictKey
    phone = phone
    laptop = laptop
    r1 = r1
    r2 = r2
    Device = {phone, laptop}
    Web = {laptop}
    Handler = {r1, r2}
    Nobody = Nobody
    NoVersion = NoVersion
    MaxVersions = 2
    Faults = {"io", "crash", "lost"}
    CanRemove = FALSE
    MaxEdits = 2
    MaxFaults = 1
SPECIFICATION FairSpec
PROPERTIES
    Converges
