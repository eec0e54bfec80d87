----------------------------- MODULE MergeLaws -----------------------------
(***************************************************************************)
(* What merge (src/merge.go) promises, stated over three files and over    *)
(* the server's file after the same request is merged again, as happens    *)
(* when a device repeats a request whose answer it lost.  The laws with a  *)
(* test of that name in src/merge_test.go restate the test.                *)
(***************************************************************************)
EXTENDS Merge

CONSTANT Texts   \* the files that the three inputs are taken from

ASSUME TextsAssumption == Texts \subseteq Text

VARIABLES base, local, remote

vars == <<base, local, remote>>

Init == base \in Texts /\ local \in Texts /\ remote \in Texts

\* The server merges the request of the device into its file, as often as the
\* request comes.
Sync == /\ remote' = merge(base, local, remote)
        /\ UNCHANGED <<base, local>>

Next == Sync

Spec == Init /\ [][Next]_vars

TypeOK == base \in Text /\ local \in Text /\ remote \in Text

merged == merge(base, local, remote)

\* What the device added since base is in the result: no conflict makes an addition
\* go.  What it removed is not, whatever the server did with it in the meantime
\* (merge.go:58-67, TestLocalAdditionsStay, TestLocalRemovalsStay).
LocalChangesStay ==
    /\ set(local) \ set(base) \subseteq set(merged)
    /\ (set(base) \ set(local)) \cap set(merged) = {}

\* A line that the server got since base stays, unless the device changed the same
\* page, and nothing comes in that is on neither side
\* (TestRemoteAdditionsStayWithoutConflict, TestNoNewLines).
RemoteChangesStay ==
    LET changed == {key[x] : x \in set(local) \ set(base)}
    IN  /\ \A x \in set(remote) \ set(base) : key[x] \in changed \/ x \in set(merged)
        /\ set(merged) \subseteq set(local) \cup set(remote)

\* Where a device has nothing new, the file of the server stays as it is, in its order
\* and with its repetitions: for one that changed nothing (TestNoLocalChangeGivesRemote),
\* and for one that lost the answer and sends its request again (main.go:689-692 asks
\* the device only to send its file and its base).
SettledStays ==
    /\ merge(base, base, remote) = remote
    /\ merge(base, local, merged) = merged

\* The lines that l and r added to b are about different pages, or the same.
Independent(b, l, r) ==
    \A x \in set(l) \ set(b), y \in set(r) \ set(b) :
        x = y \/ key[x] # key[y] \/ key[x] = NoPage

\* What two devices with base b, whose files are l and r, want the file to have.
Sum(b, l, r) == (set(l) \ set(b)) \cup (set(r) \ set(b)) \cup (set(b) \cap set(l) \cap set(r))

\* Changes of different pages add up: the result has what either side added and what
\* both left there, and nothing else, whichever of two devices comes first; and no line
\* gets there twice (merge.go:9-11, 103-122; TestNoRemoteChangeGivesLocal is the case
\* where the server changed nothing).
IndependentChangesAddUp ==
    /\ Independent(base, local, remote) =>
          /\ set(merged) = Sum(base, local, remote)
          /\ set(merge(base, remote, merge(base, local, base))) = Sum(base, local, remote)
    /\ IsInjective(local) /\ IsInjective(remote) => IsInjective(merged)

\* A merge makes no second bookmark for a page: when neither side has two lines
\* for one page, the result has none (the reason of replacement, merge.go:58-64
\* and 89-101).
NoSecondBookmark ==
    OnePerPage(local) /\ OnePerPage(remote) => OnePerPage(merged)

\* The lines of the server that the device has too keep their order, and their
\* number (merge.go:104-107).
RemoteOrderKept ==
    LET both == set(local) \cap set(remote)
    IN  Keep(merged, both) = Keep(remote, both)

=============================================================================
