------------------------------- MODULE Merge -------------------------------
(***************************************************************************)
(* The three-way merge of bookmark files (src/merge.go).                   *)
(*                                                                         *)
(* A file is a sequence of lines.  A line is opaque: merge.go compares     *)
(* lines whole, and looks inside a line only to find the bookmark that it  *)
(* holds (key, the normal form of its URL).  So a line is an element of    *)
(* Line, and key is a function on lines; a comment or an empty line has    *)
(* no bookmark, which the code writes "" and this module NoPage.  How a    *)
(* text splits into lines (CRLF, a missing last newline) does not matter   *)
(* to the merge: lines() drops it before and join() writes LF after.       *)
(***************************************************************************)
EXTENDS Keeping

CONSTANTS
    Line,     \* the lines that a bookmark file can have
    Page,     \* the bookmarks: normal forms of URLs
    NoPage,   \* the key of a comment or of an empty line
    NoLine,   \* no line: the empty place of a line that went
    key       \* the bookmark of a line, from norm() of its first field

ASSUME KeyAssumption == /\ key \in [Line -> Page \cup {NoPage}]
                        /\ NoPage \notin Page
                        /\ NoLine \notin Line

Text == Seq(Line)

set(text) == ToSet(text)

\* No page has two lines in text.
OnePerPage(text) ==
    \A i, j \in DOMAIN text :
        i # j => key[text[i]] # key[text[j]] \/ key[text[i]] = NoPage

(***************************************************************************)
(* Slips that a change of merge.go could make, one definition each, before *)
(* the definition that they would replace.  No specification uses them:    *)
(* they are what the properties of MergeLaws and of the modules that use   *)
(* merge must be able to tell from the code.                               *)
(***************************************************************************)

\* The lines that local has and base has not, with their repetitions.
added(base, local) == Keep(local, Line \ set(base))

\* The index in adds of the first line for page k, or 0.
first(adds, k) == SelectInSeq(adds, LAMBDA x : key[x] = k)

ReplacementNever(adds, local, remote, i) == 0

ReplacementTwice(adds, local, remote, i) ==
    LET k == key[remote[i]]
    IN  IF remote[i] \notin set(local) /\ k # NoPage THEN first(adds, k) ELSE 0

\* The index in adds of the line that takes the place of line i of remote, or
\* 0 when line i keeps its place.  Each added line takes one place: the first
\* one that local does not have and that holds its page.
replacement(adds, local, remote, i) ==
    LET k == key[remote[i]]
        n == first(adds, k)
        unused == \A j \in 1..(i - 1) :
                     remote[j] \in set(local) \/ key[remote[j]] # k
    IN  IF /\ remote[i] \notin set(local)
           /\ k # NoPage
           /\ n # 0
           /\ unused
           /\ adds[n] \notin set(remote)
        THEN n ELSE 0

PlaceKeepsRemoved(base, adds, local, remote, i) ==
    LET n == replacement(adds, local, remote, i)
    IN  IF n # 0 THEN adds[n] ELSE remote[i]

PlaceIgnoresBase(base, adds, local, remote, i) ==
    LET n == replacement(adds, local, remote, i)
    IN  IF n # 0 THEN adds[n]
        ELSE IF remote[i] \in set(local) THEN remote[i] ELSE NoLine

\* What comes in the place of line i of remote.
place(base, adds, local, remote, i) ==
    LET n == replacement(adds, local, remote, i)
    IN  IF remote[i] \in set(local) THEN remote[i]
        ELSE IF n # 0 THEN adds[n]
        ELSE IF remote[i] \notin set(base) THEN remote[i]
        ELSE NoLine

RestForgetsUsed(adds, local, remote) ==
    [n \in DOMAIN adds |-> IF adds[n] \in set(remote) THEN NoLine ELSE adds[n]]

RestForgetsRemote(adds, local, remote) ==
    LET used == {replacement(adds, local, remote, i) : i \in DOMAIN remote}
    IN  [n \in DOMAIN adds |-> IF n \in used THEN NoLine ELSE adds[n]]

\* The lines that come after those of remote: the added lines that took no
\* place and that remote does not have.
rest(adds, local, remote) ==
    LET used == {replacement(adds, local, remote, i) : i \in DOMAIN remote}
    IN  [n \in DOMAIN adds |->
            IF n \in used \/ adds[n] \in set(remote) THEN NoLine ELSE adds[n]]

MergeWithHoles(base, local, remote) ==
    LET adds   == added(base, local)
        places == [i \in DOMAIN remote |-> place(base, adds, local, remote, i)]
    IN  places \o rest(adds, local, remote)

\* remote with the changes that local made since base.
merge(base, local, remote) ==
    LET adds   == added(base, local)
        places == [i \in DOMAIN remote |-> place(base, adds, local, remote, i)]
    IN  Keep(places \o rest(adds, local, remote), Line)

=============================================================================
