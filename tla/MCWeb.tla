------------------------------- MODULE MCWeb -------------------------------
\* Two lines of one page and one of another, in files without a second bookmark for
\* a page; two feeds besides a default one, which the setting has twice; three
\* queries; three keys.
EXTENDS Web, TLC

CONSTANTS a1, a2, b1, pageA, pageB, h1, h2, g1, g2, f1, f2, f3, q1, q2, k1, k2, k3

MCLine == {a1, a2, b1}

MCPage == {pageA, pageB}

MCkey == [x \in MCLine |-> IF x = b1 THEN pageB ELSE pageA]

MCFiles == {<< >>} \cup {<<x>> : x \in MCLine}
              \cup {<<x, b1>> : x \in {a1, a2}}

MCRows == {<<b1>>, <<a1, a2, a1>>, <<a2, b1>>}

MCdefaultFeeds == <<f1, f1>>

MCPages == {<<f2>>, <<f1, f2>>, <<f2, f2>>, <<f3, f2>>}

=============================================================================
