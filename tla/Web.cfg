CONSTANTS
    a1 = a1
    a2 = a2
    b1 = b1
    pageA = pageA
    pageB = pageB
    NoPage = NoPage
    NoLine = NoLine
    Line <- MCLine
    Page <- MCPage
    key <- MCkey
    h1 = h1
    h2 = h2
    Handler = {h1, h2}
    MaxVersions = 3
    Files <- MCFiles
    Rows <- MCRows
    g1 = g1
    g2 = g2
    f1 = f1
    f2 = f2
    f3 = f3
    Server = {g1, g2}
    Url = {f1, f2, f3}
    None = None
    defaultFeeds <- MCdefaultFeeds
    maxFeeds = 2
    Pages <- MCPages
    Blank = Blank
    q1 = q1
    q2 = q2
    Query = {Blank, q1, q2}
    MaxTyped = 3
    MaxEnters = 2
    k1 = k1
    k2 = k2
    k3 = k3
    Key = {k1, k2, k3}
    attempts = 2
    per = 2
    MaxKeys = 2
    MaxTime = 3
    MaxAttempts = 5
SPECIFICATION WebSpec
INVARIANTS
    OneBookmarkPerPage
    LimitIsExact
PROPERTIES
    OnlyWhatTheFormSays
    ToldIsDone
    ImplementsFeedList
    EnterOpensFresh
    SettlesOnTyped
CHECK_DEADLOCK FALSE
