----------------------------- MODULE MCAccounts -----------------------------
\* Three accounts with two addresses, so that an address can be used again.
EXTENDS Accounts, TLC

CONSTANTS u1, u2, u3, r1, r2, me, you

MCSymmetry == Permutations(Id) \cup Permutations(Handler) \cup Permutations(Email)

=============================================================================
