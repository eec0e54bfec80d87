CONSTANTS
    a1 = a1
    a2 = a2
    b1 = b1
    note = note
    pageA = pageA
    pageB = pageB
    NoPage = NoPage
    NoLine = NoLine
    Line <- MCLine
    Page <- MCPage
    key <- MCkey
    Texts <- MCTexts
SPECIFICATION Spec
INVARIANTS
    LocalChangesStay
    RemoteChangesStay
    SettledStays
    IndependentChangesAddUp
    NoSecondBookmark
    RemoteOrderKept
