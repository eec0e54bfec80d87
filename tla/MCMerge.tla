------------------------------ MODULE MCMerge ------------------------------
\* Files of MergeLaws for TLC: two lines of one page, one of another, and a
\* comment; each file of at most two lines, and each of three different lines.
EXTENDS MergeLaws

CONSTANTS a1, a2, b1, note, pageA, pageB

MCLine == {a1, a2, b1, note}

MCPage == {pageA, pageB}

MCkey == [x \in MCLine |-> CASE x \in {a1, a2} -> pageA
                             [] x = b1 -> pageB
                             [] x = note -> NoPage]

MCTexts == BoundedSeq(MCLine, 2) \cup {s \in TupleOf(MCLine, 3) : IsInjective(s)}

=============================================================================
