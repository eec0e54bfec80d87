----------------------------- MODULE MCBilling -----------------------------
\* Two customers and two subscriptions, so that an account can have both twice.
EXTENDS Billing, TLC

CONSTANTS me, c1, c2, s1, s2, r1, r2

MCSymmetry == Permutations({c1, c2}) \cup Permutations({s1, s2}) \cup Permutations({r1, r2})

=============================================================================
