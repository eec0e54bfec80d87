-------------------------- MODULE MCSyncRefinement --------------------------
EXTENDS SyncRefinement, TLC
CONSTANTS a1, a2, b1, pageA, pageB, phone, laptop, r1, r2
MCLine == {a1, a2, b1}
MCPage == {pageA, pageB}
MCkey == [x \in MCLine |-> IF x = b1 THEN pageB ELSE pageA]
MCSymmetry == Permutations({r1, r2}) \cup Permutations({phone, laptop})
=============================================================================
