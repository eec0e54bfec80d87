------------------------------ MODULE Keeping ------------------------------
(***************************************************************************)
(* What the loops of the server do that copy a list and leave some of it   *)
(* out (merge.go:75-86 and 104-121, store.go:235-240 and 450-459).         *)
(***************************************************************************)
EXTENDS SequencesExt, Naturals

\* The elements of s that are in T, in the order of s.  This is SelectSeq with a
\* set for its test, written as a recursive function so that the proofs can
\* unfold it.
Keep(s, T) ==
    LET kept[i \in 0..Len(s)] ==
            IF i = 0 THEN << >>
            ELSE IF s[i] \in T THEN Append(kept[i - 1], s[i])
            ELSE kept[i - 1]
    IN  kept[Len(s)]

=============================================================================
