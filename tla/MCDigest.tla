------------------------------ MODULE MCDigest ------------------------------
\* Three feeds.  The first can be followed under two names, so that it gets another file,
\* and no other feed can get those.  The names of the others give one base ("C" and "C++"),
\* so that the second of them gets a number, and another file when the first is left.
EXTENDS Digest, TLC

CONSTANTS u1, u2, u3, n1, n2, n3, n4, a, b, c

MCLines == {[url |-> u1, name |-> n1], [url |-> u1, name |-> n2],
            [url |-> u2, name |-> n3], [url |-> u3, name |-> n4]}

MCBaseOf == [name \in Name |-> CASE name = n1 -> <<a>>
                                 [] name = n2 -> <<b>>
                                 [] name \in {n3, n4} -> <<c>>]

MCItems == [u \in Url |-> IF u = u3 THEN 0 ELSE 1]

=============================================================================
