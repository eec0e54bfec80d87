---------------------------- MODULE MCSyncStore ----------------------------
\* Two devices, two goroutines, and three lines, two of them for one page.
EXTENDS SyncStore, TLC

CONSTANTS a1, a2, b1, pageA, pageB, phone, laptop, r1, r2

MCLine == {a1, a2, b1}

MCPage == {pageA, pageB}

MCkey == [x \in MCLine |-> IF x = b1 THEN pageB ELSE pageA]

\* For the runs under fairness: the two lines of one page, which are in conflict.
MCConflict == {a1, a2}

MCConflictKey == [x \in MCConflict |-> pageA]

MCSymmetry == Permutations({r1, r2}) \cup Permutations({phone, laptop})

=============================================================================
