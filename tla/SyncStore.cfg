CONSTANTS
    a1 = a1
    a2 = a2
    b1 = b1
    pageA = pageA
    pageB = pageB
    NoPage = NoPage
    NoLine = NoLine
    Line <- MCLine
    Page <- MCPage
    key <- MCkey
    phone = phone
    laptop = laptop
    r1 = r1
    r2 = r2
    Device = {phone, laptop}
    Web = {}
    Handler = {r1, r2}
    Nobody = Nobody
    NoVersion = NoVersion
    MaxVersions = 2
    Faults = {"io", "clock", "crash", "lost"}
    CanRemove = TRUE
    MaxEdits = 2
    MaxFaults = 2
SPECIFICATION Spec
SYMMETRY MCSymmetry
INVARIANTS
    TypeOK
    HeadExists
PROPERTIES
    SuccessBoundsVersions
    ImplementsSharedFile
    NothingAfterRemoval
    NoNewsLasts
CHECK_DEADLOCK FALSE
