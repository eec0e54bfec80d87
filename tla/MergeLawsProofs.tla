-------------------------- MODULE MergeLawsProofs --------------------------
(***************************************************************************)
(* The laws of merge hold for all files, not only for those that TLC       *)
(* enumerates.                                                             *)
(***************************************************************************)
EXTENDS MergeLaws, MergeTheorems

\* The state stays three files: every result of merge is a file (merge.go:69-123).
THEOREM Typed == Spec => []TypeOK
<1>1. Init => TypeOK
  BY TextsAssumption DEF Init, TypeOK
<1>2. TypeOK /\ [Next]_vars => TypeOK'
  BY MergeProperties DEF TypeOK, Next, Sync, vars
<1> QED BY <1>1, <1>2, PTL DEF Spec

\* No change of a device is lost in a merge (merge.go:58-67).
THEOREM LocalChangesAreSafe == Spec => []LocalChangesStay
<1>1. TypeOK => LocalChangesStay
  BY AdditionsStay, ResultLines DEF TypeOK, LocalChangesStay, merged
<1> QED BY <1>1, Typed, PTL

\* A line that only the server has new stays, unless the device changed the same
\* page, and merge makes up no line (merge.go:103-122).
THEOREM RemoteChangesAreSafe == Spec => []RemoteChangesStay
<1>1. TypeOK => RemoteChangesStay
  BY UntouchedPagesStay, ResultLines DEF TypeOK, RemoteChangesStay, merged
<1> QED BY <1>1, Typed, PTL

\* A device without changes gets the server's file, line by line, so that two devices
\* that sync in turn end with one file, and a request that is merged twice has the
\* effect of one (merge.go:58-123).
THEOREM RetriesAreHarmless == Spec => []SettledStays
<1>1. TypeOK => SettledStays
  <2> SUFFICES ASSUME TypeOK
               PROVE  /\ merge(base, base, remote) = remote
                      /\ merge(base, local, merged) = merged
    BY DEF SettledStays
  <2>1. base \in Text /\ local \in Text /\ remote \in Text /\ merged \in Text
    BY MergeProperties DEF TypeOK, merged
  <2>2. merge(base, base, remote) = remote
    <3>1. set(remote) \subseteq set(base) \cup (set(remote) \ set(base))
      OBVIOUS
    <3> QED BY <2>1, <3>1, NothingToDo
  <2>3. merge(base, local, merged) = merged
    <3>1. set(local) \ set(base) \subseteq set(merged)
      BY <2>1, AdditionsStay DEF merged
    <3>2. set(merged) \subseteq set(local) \cup (set(merged) \ set(base))
      BY <2>1, ResultLines DEF merged
    <3> QED BY <2>1, <3>1, <3>2, NothingToDo
  <2> QED BY <2>2, <2>3
<1> QED BY <1>1, Typed, PTL

\* A merge makes no second bookmark for a page (merge.go:58-64, 89-101).
THEOREM NoPageGetsASecond == Spec => []NoSecondBookmark
<1>1. TypeOK => NoSecondBookmark
  BY PagesApart DEF TypeOK, NoSecondBookmark, merged
<1> QED BY <1>1, Typed, PTL

-----------------------------------------------------------------------------
\* What a merge of independent changes leaves.
LEMMA MergeAddsUp ==
    ASSUME NEW b \in Text, NEW l \in Text, NEW r \in Text, Independent(b, l, r)
    PROVE  set(merge(b, l, r)) = Sum(b, l, r)
<1> DEFINE m == merge(b, l, r)
<1>1. ASSUME NEW x \in set(m) PROVE x \in Sum(b, l, r)
  <2>1. x \in set(l) \/ x \in set(r) \ set(b)
    BY ResultLines
  <2>2. x \in set(r) \/ x \in set(l) \ set(b)
    BY NewLines
  <2> QED BY <2>1, <2>2 DEF Sum
<1>2. set(l) \ set(b) \subseteq set(m)
  BY AdditionsStay
<1>3. ASSUME NEW x \in set(r) \ set(m) PROVE x \notin Sum(b, l, r)
  <2>1. /\ x \notin set(l)
        /\ x \in set(b) \/ \E y \in set(m) \ set(r) : key[y] = key[x] /\ key[y] # NoPage
    BY GoneLines
  <2>2. ASSUME NEW y \in set(m) \ set(r), key[y] = key[x], key[y] # NoPage, x \notin set(b)
        PROVE  FALSE
    <3>1. y \in set(l) \ set(b)
      BY NewLines
    <3> QED BY <1>3, <2>2, <3>1 DEF Independent
  <2> QED BY <2>1, <2>2 DEF Sum
<1> HIDE DEF m
<1> QED BY <1>1, <1>2, <1>3 DEF Sum, m

\* A change stays independent of the server's file when another device's, independent of
\* both, comes before it.
LEMMA StaysIndependent ==
    ASSUME NEW b \in Text, NEW x \in Text, NEW y \in Text, NEW s \in Text,
           Independent(b, x, y), Independent(b, x, s)
    PROVE  Independent(b, x, merge(b, y, s))
<1> SUFFICES ASSUME NEW u \in set(x) \ set(b), NEW v \in set(merge(b, y, s)) \ set(b)
             PROVE  u = v \/ key[u] # key[v] \/ key[u] = NoPage
  BY DEF Independent
<1>1. v \in set(y) \/ v \in set(s)
  BY ResultLines
<1> QED BY <1>1 DEF Independent

LEMMA TwoMergesAddUp ==
    ASSUME NEW b \in Text, NEW x \in Text, NEW y \in Text, NEW s \in Text,
           Independent(b, x, y), Independent(b, x, s), Independent(b, y, s)
    PROVE  /\ merge(b, y, s) \in Text
           /\ set(merge(b, x, merge(b, y, s))) =
                (set(x) \ set(b)) \cup (set(y) \ set(b)) \cup (set(s) \ set(b))
                  \cup (set(b) \cap set(x) \cap set(y) \cap set(s))
<1> DEFINE m == merge(b, y, s)
<1>1. m \in Text
  BY MergeProperties
<1>2. Independent(b, x, m)
  BY StaysIndependent
<1>3. set(m) = Sum(b, y, s)
  BY MergeAddsUp
<1> HIDE DEF m
<1>4. set(merge(b, x, m)) = Sum(b, x, m)
  BY <1>1, <1>2, MergeAddsUp
<1> QED BY <1>1, <1>3, <1>4 DEF Sum, m

\* The order in which the requests of two devices take effect does not matter to what is in
\* the file, when their changes and the server's are of different pages: the lock of
\* Store.sync (store.go:371) may let either go first.
THEOREM OrderDoesNotMatter ==
    ASSUME NEW b \in Text, NEW x \in Text, NEW y \in Text, NEW s \in Text,
           Independent(b, x, y), Independent(b, x, s), Independent(b, y, s)
    PROVE  set(merge(b, x, merge(b, y, s))) = set(merge(b, y, merge(b, x, s)))
<1>1. Independent(b, y, x)
  BY DEF Independent
<1>2. set(merge(b, x, merge(b, y, s))) =
         (set(x) \ set(b)) \cup (set(y) \ set(b)) \cup (set(s) \ set(b))
           \cup (set(b) \cap set(x) \cap set(y) \cap set(s))
  BY TwoMergesAddUp
<1>3. set(merge(b, y, merge(b, x, s))) =
         (set(y) \ set(b)) \cup (set(x) \ set(b)) \cup (set(s) \ set(b))
           \cup (set(b) \cap set(y) \cap set(x) \cap set(s))
  BY <1>1, TwoMergesAddUp
<1> QED BY <1>2, <1>3

\* Changes of different pages add up, and no line comes in twice (merge.go:103-122).
THEOREM ChangesAddUp == Spec => []IndependentChangesAddUp
<1>1. TypeOK => IndependentChangesAddUp
  <2> SUFFICES ASSUME TypeOK PROVE IndependentChangesAddUp
    OBVIOUS
  <2>1. base \in Text /\ local \in Text /\ remote \in Text
    BY DEF TypeOK
  <2>2. ASSUME Independent(base, local, remote)
        PROVE  set(merged) = Sum(base, local, remote)
    BY <2>1, <2>2, MergeAddsUp DEF merged
  <2>3. ASSUME Independent(base, local, remote)
        PROVE  set(merge(base, remote, merge(base, local, base))) = Sum(base, local, remote)
    <3>1. /\ Independent(base, remote, local)
          /\ Independent(base, remote, base) /\ Independent(base, local, base)
      BY <2>3 DEF Independent
    <3>2. set(merge(base, remote, merge(base, local, base))) =
             (set(remote) \ set(base)) \cup (set(local) \ set(base)) \cup (set(base) \ set(base))
               \cup (set(base) \cap set(remote) \cap set(local) \cap set(base))
      BY <2>1, <3>1, TwoMergesAddUp
    <3> QED BY <3>2 DEF Sum
  <2>4. IsInjective(local) /\ IsInjective(remote) => IsInjective(merged)
    BY <2>1, LinesApart DEF merged
  <2> QED BY <2>2, <2>3, <2>4 DEF IndependentChangesAddUp
<1> QED BY <1>1, Typed, PTL

\* The lines that the server and the device have stay in the server's order
\* (merge.go:104-107).
THEOREM OrderIsTheServers == Spec => []RemoteOrderKept
<1>1. TypeOK => RemoteOrderKept
  BY CommonLinesStay DEF TypeOK, RemoteOrderKept, merged
<1> QED BY <1>1, Typed, PTL

=============================================================================
