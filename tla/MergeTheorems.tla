--------------------------- MODULE MergeTheorems ---------------------------
(***************************************************************************)
(* Facts about merge that hold for all files.  What merge gives follows    *)
(* from what Keep gives, without further induction.                        *)
(***************************************************************************)
EXTENDS Merge, KeepingTheorems

\* first finds a line for the page when there is one.
LEMMA FirstProperties ==
    ASSUME NEW adds \in Seq(Line), NEW k
    PROVE  /\ first(adds, k) \in 0..Len(adds)
           /\ first(adds, k) # 0 => key[adds[first(adds, k)]] = k
           /\ first(adds, k) = 0 => \A n \in 1..Len(adds) : key[adds[n]] # k
<1> DEFINE I == {n \in 1..Len(adds) : key[adds[n]] = k}
<1>1. first(adds, k) = IF I # {} THEN Min(I) ELSE 0
  BY DEF first, SelectInSeq
<1>2. CASE I = {}
  BY <1>1, <1>2
<1>3. CASE I # {}
  <2>1. I \in SUBSET Nat
    OBVIOUS
  <2>2. Min(I) \in I
    <3>1. \E x \in I : \A y \in I : x <= y
      <4> HIDE DEF I
      <4> QED BY <2>1, <1>3, LeastNat
    <3> HIDE DEF I
    <3> QED BY <3>1 DEF Min
  <2> QED BY <2>2, <1>1, <1>3
<1> QED BY <1>2, <1>3

\* What merge makes of three files: a line for each place of remote, then the
\* rest of the added lines.
Places(b, l, r) == [i \in DOMAIN r |-> place(b, added(b, l), l, r, i)]
Rest(b, l, r) == rest(added(b, l), l, r)

LEMMA AddsProperties ==
    ASSUME NEW b \in Text, NEW l \in Text
    PROVE  /\ added(b, l) \in Seq(Line)
           /\ Len(added(b, l)) \in Nat
           /\ DOMAIN added(b, l) = 1..Len(added(b, l))
           /\ ToSet(added(b, l)) = set(l) \ set(b)
<1>1. ToSet(l) \subseteq Line
  BY DEF Text, ToSet
<1>2. /\ added(b, l) \in Seq((Line \ set(b)) \cap Line)
      /\ ToSet(added(b, l)) = ToSet(l) \cap (Line \ set(b))
  BY KeepSet DEF added, Text
<1>3. added(b, l) \in Seq(Line)
  BY <1>2
<1> QED BY <1>1, <1>2, <1>3 DEF set

LEMMA ReplacementProperties ==
    ASSUME NEW b \in Text, NEW l \in Text, NEW r \in Text, NEW i \in DOMAIN r,
           NEW n, n = replacement(added(b, l), l, r, i), n # 0
    PROVE  /\ n \in DOMAIN added(b, l)
           /\ r[i] \notin set(l)
           /\ added(b, l)[n] \in set(l) \ set(b)
           /\ added(b, l)[n] \notin set(r)
           /\ key[added(b, l)[n]] = key[r[i]]
           /\ key[r[i]] # NoPage
<1> DEFINE adds == added(b, l)
<1>0. /\ adds \in Seq(Line)
      /\ Len(adds) \in Nat
      /\ DOMAIN adds = 1..Len(adds)
      /\ ToSet(adds) = set(l) \ set(b)
  BY AddsProperties
<1> HIDE DEF adds
<1>1. /\ n = first(adds, key[r[i]])
      /\ r[i] \notin set(l)
      /\ key[r[i]] # NoPage
      /\ adds[n] \notin set(r)
  BY DEF replacement, adds
<1>2. n \in 1..Len(adds) /\ key[adds[n]] = key[r[i]]
  BY <1>0, <1>1, FirstProperties
<1>3. adds[n] \in ToSet(adds)
  BY <1>0, <1>2 DEF ToSet
<1> QED BY <1>0, <1>1, <1>2, <1>3 DEF adds

LEMMA MergeProperties ==
    ASSUME NEW b \in Text, NEW l \in Text, NEW r \in Text
    PROVE  /\ Places(b, l, r) \in Seq(Line \cup {NoLine})
           /\ Len(Places(b, l, r)) = Len(r)
           /\ Rest(b, l, r) \in Seq(Line \cup {NoLine})
           /\ Len(Rest(b, l, r)) = Len(added(b, l))
           /\ merge(b, l, r) \in Text
           /\ set(merge(b, l, r)) =
                 (ToSet(Places(b, l, r)) \cup ToSet(Rest(b, l, r))) \cap Line
<1> DEFINE adds == added(b, l)
           P == Places(b, l, r)
           R == Rest(b, l, r)
<1>0. /\ adds \in Seq(Line)
      /\ Len(adds) \in Nat
      /\ DOMAIN adds = 1..Len(adds)
  BY AddsProperties
<1>1. Len(r) \in Nat /\ DOMAIN r = 1..Len(r) /\ \A i \in DOMAIN r : r[i] \in Line
  BY DEF Text
<1>2. ASSUME NEW i \in DOMAIN r PROVE place(b, adds, l, r, i) \in Line \cup {NoLine}
  <2>1. replacement(adds, l, r, i) # 0 => adds[replacement(adds, l, r, i)] \in Line
    BY <1>0, ReplacementProperties
  <2> HIDE DEF adds
  <2> QED BY <2>1, <1>1 DEF place
<1>3. P \in Seq(Line \cup {NoLine}) /\ Len(P) = Len(r)
  <2>1. P = [i \in 1..Len(r) |-> place(b, adds, l, r, i)]
    BY <1>1 DEF Places
  <2>2. P \in [1..Len(r) -> Line \cup {NoLine}]
    <3> HIDE DEF adds, P
    <3> QED BY <2>1, <1>1, <1>2
  <2> HIDE DEF P
  <2> QED BY <2>2, <1>1
<1>4. R \in Seq(Line \cup {NoLine}) /\ Len(R) = Len(adds)
  <2>1. R \in [1..Len(adds) -> Line \cup {NoLine}]
    <3>1. \A n \in 1..Len(adds) : adds[n] \in Line
      BY <1>0
    <3> HIDE DEF adds
    <3>2. R = rest(adds, l, r)
      BY DEF Rest, adds
    <3> QED BY <3>1, <3>2, <1>0 DEF rest
  <2> HIDE DEF R
  <2> QED BY <2>1, <1>0
<1>5. P \o R \in Seq(Line \cup {NoLine}) /\ ToSet(P \o R) = ToSet(P) \cup ToSet(R)
  <2> HIDE DEF P, R
  <2> QED BY <1>3, <1>4, ToSetConcat
<1>6. merge(b, l, r) = Keep(P \o R, Line)
  BY DEF merge, Places, Rest
<1>7. merge(b, l, r) \in Seq(Line) /\ ToSet(merge(b, l, r)) = ToSet(P \o R) \cap Line
  <2> HIDE DEF P, R
  <2>1. Keep(P \o R, Line) \in Seq(Line \cap (Line \cup {NoLine}))
    BY <1>5, KeepSet
  <2>2. Line \cap (Line \cup {NoLine}) = Line
    OBVIOUS
  <2>3. ToSet(Keep(P \o R, Line)) = ToSet(P \o R) \cap Line
    BY <1>5, KeepSet
  <2> QED BY <1>6, <2>1, <2>2, <2>3
<1> QED BY <1>3, <1>4, <1>5, <1>7 DEF Text, set

-----------------------------------------------------------------------------
\* The laws, for any three files.
LEMMA AdditionsStay ==
    ASSUME NEW b \in Text, NEW l \in Text, NEW r \in Text
    PROVE  set(l) \ set(b) \subseteq set(merge(b, l, r))
<1> DEFINE adds == added(b, l)
<1>0. /\ adds \in Seq(Line)
      /\ DOMAIN adds = 1..Len(adds)
      /\ ToSet(adds) = set(l) \ set(b)
  BY AddsProperties
<1> HIDE DEF adds
<1>1. SUFFICES ASSUME NEW n \in DOMAIN adds
               PROVE  adds[n] \in set(merge(b, l, r))
  BY <1>0 DEF ToSet
<1>2. adds[n] \in Line /\ adds[n] \in set(l)
  BY <1>0 DEF ToSet
<1>3. SUFFICES adds[n] \in ToSet(Places(b, l, r)) \cup ToSet(Rest(b, l, r))
  BY <1>2, MergeProperties
<1>4. CASE adds[n] \in set(r)
  <2>1. PICK i \in DOMAIN r : r[i] = adds[n]
    BY <1>4 DEF set, ToSet
  <2>2. Places(b, l, r)[i] = r[i]
    BY <2>1, <1>2 DEF Places, place
  <2>3. DOMAIN Places(b, l, r) = DOMAIN r
    BY DEF Places
  <2> QED BY <2>1, <2>2, <2>3 DEF ToSet
<1>5. CASE \E i \in DOMAIN r : replacement(adds, l, r, i) = n
  <2>1. PICK i \in DOMAIN r : replacement(adds, l, r, i) = n
    BY <1>5
  <2>2. n # 0
    BY <1>0
  <2>3. r[i] \notin set(l)
    BY <2>1, <2>2, ReplacementProperties DEF adds
  <2>4. Places(b, l, r)[i] = adds[n]
    BY <2>1, <2>2, <2>3 DEF Places, place, adds
  <2>5. DOMAIN Places(b, l, r) = DOMAIN r
    BY DEF Places
  <2> QED BY <2>4, <2>5 DEF ToSet
<1>6. CASE adds[n] \notin set(r) /\ ~\E i \in DOMAIN r : replacement(adds, l, r, i) = n
  <2>1. Rest(b, l, r)[n] = adds[n] /\ DOMAIN Rest(b, l, r) = DOMAIN adds
    BY <1>6 DEF Rest, rest, adds
  <2> QED BY <2>1 DEF ToSet
<1> QED BY <1>4, <1>5, <1>6

\* Where a line of the result comes from.
LEMMA ResultLines ==
    ASSUME NEW b \in Text, NEW l \in Text, NEW r \in Text,
           NEW x \in set(merge(b, l, r))
    PROVE  \/ x \in set(l)
           \/ x \in set(r) \ set(b)
<1> DEFINE adds == added(b, l)
<1>0. /\ DOMAIN adds = 1..Len(adds)
      /\ ToSet(adds) = set(l) \ set(b)
  BY AddsProperties
<1>a. \A n \in DOMAIN adds : adds[n] \in set(l)
  BY <1>0 DEF ToSet
<1>1. x \in Line /\ x \in ToSet(Places(b, l, r)) \cup ToSet(Rest(b, l, r))
  BY MergeProperties
<1>2. x # NoLine
  BY <1>1, KeyAssumption
<1>3. CASE x \in ToSet(Places(b, l, r))
  <2>1. PICK i \in DOMAIN r : x = place(b, adds, l, r, i)
    BY <1>3 DEF ToSet, Places
  <2>2. CASE r[i] \in set(l)
    BY <2>1, <2>2 DEF place
  <2>3. CASE r[i] \notin set(l) /\ replacement(adds, l, r, i) # 0
    <3>1. adds[replacement(adds, l, r, i)] \in set(l)
      BY <2>3, ReplacementProperties
    <3> QED BY <3>1, <2>1, <2>3 DEF place
  <2>4. CASE r[i] \notin set(l) /\ replacement(adds, l, r, i) = 0
    <3>1. x = r[i] /\ r[i] \notin set(b)
      BY <2>1, <2>4, <1>2 DEF place
    <3> QED BY <3>1 DEF set, ToSet
  <2> QED BY <2>2, <2>3, <2>4
<1>4. CASE x \in ToSet(Rest(b, l, r))
  <2>1. PICK n \in DOMAIN adds : x = Rest(b, l, r)[n]
    BY <1>4 DEF ToSet, Rest, rest
  <2>2. x = adds[n]
    BY <2>1, <1>2 DEF Rest, rest
  <2> QED BY <2>2, <1>a
<1> QED BY <1>1, <1>3, <1>4

\* A line that the result has and the server had not is one that local added.
LEMMA NewLines ==
    ASSUME NEW b \in Text, NEW l \in Text, NEW r \in Text,
           NEW x \in set(merge(b, l, r)) \ set(r)
    PROVE  x \in set(l) \ set(b)
<1> DEFINE adds == added(b, l)
<1>1. \A n \in DOMAIN adds : adds[n] \in set(l) \ set(b)
  BY AddsProperties DEF ToSet
<1>2. x \in ToSet(Places(b, l, r)) \cup ToSet(Rest(b, l, r)) /\ x # NoLine
  BY MergeProperties, KeyAssumption
<1>3. CASE x \in ToSet(Places(b, l, r))
  <2>1. PICK i \in DOMAIN r : x = place(b, adds, l, r, i)
    BY <1>3 DEF ToSet, Places
  <2>2. x # r[i]
    BY DEF set, ToSet
  <2>3. replacement(adds, l, r, i) # 0 /\ x = adds[replacement(adds, l, r, i)]
    BY <1>2, <2>1, <2>2 DEF place
  <2> QED BY <2>3, ReplacementProperties
<1>4. CASE x \in ToSet(Rest(b, l, r))
  <2>1. PICK n \in DOMAIN adds : x = Rest(b, l, r)[n]
    BY <1>4 DEF ToSet, Rest, rest
  <2>2. x = adds[n]
    BY <2>1, <1>2 DEF Rest, rest
  <2> QED BY <2>2, <1>1
<1> QED BY <1>2, <1>3, <1>4

\* A line of the server that the result has not is one that local removed, or one
\* that local has not and that a new line of the same page replaced.
LEMMA GoneLines ==
    ASSUME NEW b \in Text, NEW l \in Text, NEW r \in Text,
           NEW x \in set(r) \ set(merge(b, l, r))
    PROVE  /\ x \notin set(l)
           /\ x \in set(b) \/ \E y \in set(merge(b, l, r)) \ set(r) : key[y] = key[x] /\ key[y] # NoPage
<1> DEFINE adds == added(b, l)
<1>1. PICK i \in DOMAIN r : r[i] = x
  BY DEF set, ToSet
<1>2. x \in Line
  BY <1>1 DEF Text
<1>3. ASSUME NEW y \in Line, y = Places(b, l, r)[i] PROVE y \in set(merge(b, l, r))
  <2>1. y \in ToSet(Places(b, l, r))
    BY <1>3 DEF Places, ToSet
  <2> QED BY <1>3, <2>1, MergeProperties
<1>4. Places(b, l, r)[i] = place(b, adds, l, r, i)
  BY DEF Places
<1>5. x \notin set(l)
  BY <1>1, <1>2, <1>3, <1>4 DEF place
<1>6. CASE replacement(adds, l, r, i) = 0
  BY <1>1, <1>2, <1>3, <1>4, <1>5, <1>6 DEF place
<1>7. CASE replacement(adds, l, r, i) # 0
  <2> DEFINE y == adds[replacement(adds, l, r, i)]
  <2>1. y \in set(l) \ set(b) /\ y \notin set(r) /\ key[y] = key[x] /\ key[y] # NoPage
    BY <1>1, <1>7, ReplacementProperties
  <2>2. y \in Line
    BY <2>1 DEF set, ToSet, Text
  <2>3. Places(b, l, r)[i] = y
    BY <1>1, <1>4, <1>5, <1>7 DEF place
  <2>4. y \in set(merge(b, l, r))
    BY <1>3, <2>2, <2>3
  <2> QED BY <1>5, <2>1, <2>4
<1> QED BY <1>6, <1>7

LEMMA UntouchedPagesStay ==
    ASSUME NEW b \in Text, NEW l \in Text, NEW r \in Text,
           NEW x \in set(r) \ set(b),
           \A y \in set(l) \ set(b) : key[y] # key[x]
    PROVE  x \in set(merge(b, l, r))
<1> DEFINE adds == added(b, l)
<1>1. PICK i \in DOMAIN r : r[i] = x
  BY DEF set, ToSet
<1>2. x \in Line
  BY <1>1 DEF Text
<1>3. replacement(adds, l, r, i) = 0
  <2>1. SUFFICES ASSUME replacement(adds, l, r, i) # 0 PROVE FALSE
    OBVIOUS
  <2>2. /\ adds[replacement(adds, l, r, i)] \in set(l) \ set(b)
        /\ key[adds[replacement(adds, l, r, i)]] = key[r[i]]
    BY <2>1, ReplacementProperties
  <2> QED BY <2>2, <1>1
<1>4. Places(b, l, r)[i] = x /\ DOMAIN Places(b, l, r) = DOMAIN r
  BY <1>1, <1>3 DEF Places, place
<1>5. x \in ToSet(Places(b, l, r))
  BY <1>4 DEF ToSet
<1> QED BY <1>2, <1>5, MergeProperties

\* When no added line is missing in r, and r has no line that local removed, the
\* result is r.
LEMMA NothingToDo ==
    ASSUME NEW b \in Text, NEW l \in Text, NEW r \in Text,
           set(l) \ set(b) \subseteq set(r),
           set(r) \subseteq set(l) \cup (set(r) \ set(b))
    PROVE  merge(b, l, r) = r
<1> DEFINE adds == added(b, l)
<1>0. /\ Len(adds) \in Nat
      /\ DOMAIN adds = 1..Len(adds)
      /\ ToSet(adds) = set(l) \ set(b)
  BY AddsProperties
<1>1. Places(b, l, r) = r
  <2>1. ASSUME NEW i \in DOMAIN r PROVE place(b, adds, l, r, i) = r[i]
    <3>1. replacement(adds, l, r, i) = 0
      <4>1. SUFFICES ASSUME replacement(adds, l, r, i) # 0 PROVE FALSE
        OBVIOUS
      <4>2. /\ adds[replacement(adds, l, r, i)] \in set(l) \ set(b)
            /\ adds[replacement(adds, l, r, i)] \notin set(r)
        BY <4>1, ReplacementProperties
      <4> QED BY <4>2
    <3>2. r[i] \in set(r)
      BY DEF set, ToSet
    <3> QED BY <3>1, <3>2 DEF place
  <2>2. r = [i \in DOMAIN r |-> r[i]]
    BY DEF Text
  <2> QED BY <2>1, <2>2 DEF Places
<1>2. Rest(b, l, r) \in Seq({NoLine})
  <2>1. ASSUME NEW n \in DOMAIN adds PROVE adds[n] \in set(r)
    <3>1. adds[n] \in ToSet(adds)
      BY DEF ToSet
    <3> QED BY <3>1, <1>0
  <2>2. Rest(b, l, r) = [n \in 1..Len(adds) |-> NoLine]
    BY <2>1, <1>0 DEF Rest, rest
  <2> HIDE DEF adds
  <2> QED BY <2>2, <1>0
<1>3. merge(b, l, r) = Keep(Places(b, l, r) \o Rest(b, l, r), Line)
  BY DEF merge, Places, Rest
<1>4. Line \cap {NoLine} = {} /\ r \in Seq(Line)
  BY KeyAssumption DEF Text
<1> QED BY <1>1, <1>2, <1>3, <1>4, KeepPrefix

-----------------------------------------------------------------------------
(***************************************************************************)
(* Where two lines of the result come from: no page gets a second line,    *)
(* and no line comes twice.                                                *)
(***************************************************************************)

\* No added line takes two places.
LEMMA ReplacementsDiffer ==
    ASSUME NEW b \in Text, NEW l \in Text, NEW r \in Text,
           NEW i \in DOMAIN r, NEW j \in DOMAIN r,
           replacement(added(b, l), l, r, i) # 0,
           replacement(added(b, l), l, r, i) = replacement(added(b, l), l, r, j)
    PROVE  i = j
<1> DEFINE adds == added(b, l)
<1>1. key[r[i]] = key[r[j]] /\ r[i] \notin set(l) /\ r[j] \notin set(l)
  BY ReplacementProperties
<1>2. /\ \A m \in 1..(i - 1) : r[m] \in set(l) \/ key[r[m]] # key[r[i]]
      /\ \A m \in 1..(j - 1) : r[m] \in set(l) \/ key[r[m]] # key[r[j]]
  <2> HIDE DEF adds
  <2> QED BY DEF replacement, adds
<1>3. i \in 1..Len(r) /\ j \in 1..Len(r) /\ Len(r) \in Nat
  BY DEF Text
<1> QED BY <1>1, <1>2, <1>3

LEMMA PlacedLine ==
    ASSUME NEW b \in Text, NEW l \in Text, NEW r \in Text, NEW i \in DOMAIN r,
           NEW n, n = replacement(added(b, l), l, r, i),
           NEW x, x = Places(b, l, r)[i], x # NoLine
    PROVE  \/ x = r[i] /\ r[i] \in set(l)
           \/ x = r[i] /\ n = 0
           \/ n # 0 /\ x = added(b, l)[n]
BY DEF Places, place

LEMMA RestLine ==
    ASSUME NEW b \in Text, NEW l \in Text, NEW r \in Text, NEW n \in DOMAIN added(b, l),
           NEW x, x = Rest(b, l, r)[n], x # NoLine
    PROVE  /\ x = added(b, l)[n] /\ x \notin set(r)
           /\ \A i \in DOMAIN r : replacement(added(b, l), l, r, i) # n
BY DEF Rest, rest

LEMMA OnePerPageKept ==
    ASSUME NEW s \in Seq(Line \cup {NoLine}), NEW T \in SUBSET Line,
           \A i, j \in DOMAIN s :
              i # j /\ s[i] \in T /\ s[j] \in T => key[s[i]] # key[s[j]] \/ key[s[i]] = NoPage
    PROVE  OnePerPage(Keep(s, T))
<1> DEFINE k == Keep(s, T)
<1>1. k \in Seq(T \cap (Line \cup {NoLine}))
  BY KeepSet
<1>2. PICK e \in [1..Len(k) -> 1..Len(s)] :
         /\ \A n \in 1..Len(k) : k[n] = s[e[n]]
         /\ \A m, n \in 1..Len(k) : m < n => e[m] < e[n]
  BY KeepEmbeds
<1> HIDE DEF k
<1>3. DOMAIN k = 1..Len(k) /\ Len(k) \in Nat /\ \A n \in 1..Len(k) : k[n] \in T
  BY <1>1
<1>4. DOMAIN s = 1..Len(s) /\ Len(s) \in Nat
  OBVIOUS
<1>5. ASSUME NEW i \in 1..Len(k), NEW j \in 1..Len(k), i # j
      PROVE  key[k[i]] # key[k[j]] \/ key[k[i]] = NoPage
  <2>1. e[i] # e[j]
    BY <1>2, <1>3, <1>4, <1>5
  <2>2. e[i] \in DOMAIN s /\ e[j] \in DOMAIN s
    BY <1>4
  <2>3. s[e[i]] \in T /\ s[e[j]] \in T
    BY <1>2, <1>3
  <2> QED BY <1>2, <2>1, <2>2, <2>3
<1> QED BY <1>3, <1>5 DEF OnePerPage, k

LEMMA OnceKept ==
    ASSUME NEW S, NEW s \in Seq(S), NEW T,
           \A i, j \in DOMAIN s : i # j /\ s[i] \in T /\ s[j] \in T => s[i] # s[j]
    PROVE  IsInjective(Keep(s, T))
<1> DEFINE k == Keep(s, T)
<1>1. k \in Seq(T \cap S)
  BY KeepSet
<1>2. PICK e \in [1..Len(k) -> 1..Len(s)] :
         /\ \A n \in 1..Len(k) : k[n] = s[e[n]]
         /\ \A m, n \in 1..Len(k) : m < n => e[m] < e[n]
  BY KeepEmbeds
<1> HIDE DEF k
<1>3. DOMAIN k = 1..Len(k) /\ Len(k) \in Nat /\ \A n \in 1..Len(k) : k[n] \in T
  BY <1>1
<1>4. DOMAIN s = 1..Len(s) /\ Len(s) \in Nat
  OBVIOUS
<1>5. ASSUME NEW i \in 1..Len(k), NEW j \in 1..Len(k), i # j
      PROVE  k[i] # k[j]
  <2>1. e[i] # e[j]
    BY <1>2, <1>3, <1>4, <1>5
  <2>2. e[i] \in DOMAIN s /\ e[j] \in DOMAIN s
    BY <1>4
  <2>3. s[e[i]] \in T /\ s[e[j]] \in T
    BY <1>2, <1>3
  <2> QED BY <1>2, <2>1, <2>2, <2>3
<1> QED BY <1>3, <1>5 DEF IsInjective, k

\* Two lines of the places and the rest are of two pages, or of none.
LEMMA PagesApart ==
    ASSUME NEW b \in Text, NEW l \in Text, NEW r \in Text,
           OnePerPage(l), OnePerPage(r)
    PROVE  OnePerPage(merge(b, l, r))
<1> DEFINE adds == added(b, l)
           P    == Places(b, l, r)
           R    == Rest(b, l, r)
           n(i) == replacement(adds, l, r, i)
           Apart(x, y) == key[x] # key[y] \/ key[x] = NoPage
<1>0. /\ adds \in Seq(Line) /\ DOMAIN adds = 1..Len(adds) /\ Len(adds) \in Nat
      /\ ToSet(adds) = set(l) \ set(b)
  BY AddsProperties
<1>1. \A i, j \in DOMAIN adds : i # j => Apart(adds[i], adds[j])
  <2>1. OnePerPage(Keep(l, Line \ set(b)))
    BY OnePerPageKept DEF OnePerPage, Text
  <2> QED BY <2>1 DEF added, OnePerPage
<1>2. \A i, j \in DOMAIN r : i # j => Apart(r[i], r[j])
  BY DEF OnePerPage
<1>3. \A x, y \in set(l) : x # y => Apart(x, y)
  BY DEF OnePerPage, set, ToSet
<1>a. \A i \in DOMAIN adds : adds[i] \in set(l)
  BY <1>0 DEF ToSet
<1> HIDE DEF adds, n
<1>4. ASSUME NEW i \in DOMAIN r, NEW x, x = P[i], x # NoLine
      PROVE  key[x] = key[r[i]]
  <2>1. n(i) # 0 => key[adds[n(i)]] = key[r[i]]
    BY ReplacementProperties DEF n, adds
  <2> QED BY <1>4, <2>1, PlacedLine DEF n, adds
<1>5. ASSUME NEW i \in DOMAIN r, NEW m \in DOMAIN adds, P[i] # NoLine, R[m] # NoLine
      PROVE  Apart(P[i], R[m])
  <2>1. R[m] = adds[m] /\ R[m] \notin set(r) /\ n(i) # m
    BY <1>5, RestLine DEF n, adds
  <2>2. SUFFICES ASSUME key[r[i]] = key[adds[m]], key[r[i]] # NoPage PROVE FALSE
    BY <1>4, <1>5, <2>1
  <2>3. r[i] \in set(r)
    BY DEF set, ToSet
  <2>4. CASE n(i) # 0
    <3>1. n(i) \in DOMAIN adds /\ key[adds[n(i)]] = key[r[i]]
      BY <2>4, ReplacementProperties DEF n, adds
    <3> QED BY <1>1, <2>1, <2>2, <3>1
  <2>5. CASE r[i] \in set(l)
    BY <1>3, <1>a, <2>1, <2>2, <2>3, <2>5
  <2>6. CASE n(i) = 0 /\ r[i] \notin set(l)
    <3>1. first(adds, key[r[i]]) = m
      <4>1. first(adds, key[r[i]]) \in DOMAIN adds
        BY <1>0, <2>2, FirstProperties
      <4>2. key[adds[first(adds, key[r[i]])]] = key[adds[m]]
        BY <1>0, <2>2, <4>1, FirstProperties
      <4> QED BY <1>1, <2>2, <4>1, <4>2
    <3>2. \A j \in 1..(i - 1) : key[r[j]] # key[r[i]]
      <4>1. \A j \in 1..(i - 1) : j \in DOMAIN r /\ j # i
        BY DEF Text
      <4> QED BY <1>2, <2>2, <4>1
    <3>3. m # 0
      BY <1>0
    <3> QED BY <2>1, <2>2, <2>6, <3>1, <3>2, <3>3 DEF n, replacement
  <2> QED BY <2>4, <2>5, <2>6
<1>6. /\ P \in Seq(Line \cup {NoLine}) /\ Len(P) = Len(r) /\ DOMAIN P = 1..Len(P)
      /\ R \in Seq(Line \cup {NoLine}) /\ Len(R) = Len(adds) /\ DOMAIN R = 1..Len(R)
      /\ DOMAIN r = 1..Len(r) /\ Len(r) \in Nat
  <2>1. /\ P \in Seq(Line \cup {NoLine}) /\ Len(P) = Len(r)
        /\ R \in Seq(Line \cup {NoLine}) /\ Len(R) = Len(adds)
    BY MergeProperties DEF adds
  <2>2. DOMAIN r = 1..Len(r) /\ Len(r) \in Nat
    BY DEF Text
  <2> HIDE DEF P, R
  <2> QED BY <2>1, <2>2
<1>7. merge(b, l, r) = Keep(P \o R, Line)
  BY DEF merge, Places, Rest
<1> HIDE DEF P, R
<1>8. /\ P \o R \in Seq(Line \cup {NoLine})
      /\ DOMAIN (P \o R) = 1..(Len(P) + Len(R))
      /\ \A i \in 1..Len(P) : (P \o R)[i] = P[i]
      /\ \A i \in (Len(P) + 1)..(Len(P) + Len(R)) : (P \o R)[i] = R[i - Len(P)]
  BY <1>6
<1>9. ASSUME NEW i \in DOMAIN (P \o R), NEW j \in DOMAIN (P \o R), i < j,
             (P \o R)[i] \in Line, (P \o R)[j] \in Line
      PROVE  Apart((P \o R)[i], (P \o R)[j])
  <2>0. i \in Nat /\ j \in Nat
    BY <1>6, <1>8
  <2>1. CASE j <= Len(P)
    <3>1. i \in DOMAIN r /\ j \in DOMAIN r /\ (P \o R)[i] = P[i] /\ (P \o R)[j] = P[j]
      BY <1>6, <1>8, <1>9, <2>1
    <3>2. P[i] # NoLine /\ P[j] # NoLine
      BY <1>9, <3>1, KeyAssumption
    <3> QED BY <1>2, <1>4, <1>9, <2>0, <3>1, <3>2
  <2>2. CASE i <= Len(P) /\ j > Len(P)
    <3>1. i \in DOMAIN r /\ j - Len(P) \in DOMAIN adds
          /\ (P \o R)[i] = P[i] /\ (P \o R)[j] = R[j - Len(P)]
      BY <1>0, <1>6, <1>8, <1>9, <2>2
    <3>2. P[i] # NoLine /\ R[j - Len(P)] # NoLine
      BY <1>9, <3>1, KeyAssumption
    <3> QED BY <1>5, <3>1, <3>2
  <2>3. CASE i > Len(P)
    <3>1. i - Len(P) \in DOMAIN adds /\ j - Len(P) \in DOMAIN adds /\ i - Len(P) # j - Len(P)
          /\ (P \o R)[i] = R[i - Len(P)] /\ (P \o R)[j] = R[j - Len(P)]
      BY <1>0, <1>6, <1>8, <1>9, <2>3
    <3>2. R[i - Len(P)] = adds[i - Len(P)] /\ R[j - Len(P)] = adds[j - Len(P)]
      BY <1>9, <3>1, RestLine, KeyAssumption DEF adds, R
    <3> QED BY <1>1, <3>1, <3>2
  <2> QED BY <1>6, <2>0, <2>1, <2>2, <2>3
<1>10. \A i, j \in DOMAIN (P \o R) :
          i # j /\ (P \o R)[i] \in Line /\ (P \o R)[j] \in Line
             => Apart((P \o R)[i], (P \o R)[j])
  <2> SUFFICES ASSUME NEW i \in DOMAIN (P \o R), NEW j \in DOMAIN (P \o R), i # j,
                      (P \o R)[i] \in Line, (P \o R)[j] \in Line
               PROVE  Apart((P \o R)[i], (P \o R)[j])
    OBVIOUS
  <2>1. i < j \/ j < i
    BY <1>6, <1>8
  <2> QED BY <1>9, <2>1
<1> QED BY <1>7, <1>8, <1>10, OnePerPageKept

\* Neither does a line come twice, when it is twice in neither file.
LEMMA LinesApart ==
    ASSUME NEW b \in Text, NEW l \in Text, NEW r \in Text,
           IsInjective(l), IsInjective(r)
    PROVE  IsInjective(merge(b, l, r))
<1> DEFINE adds == added(b, l)
           P    == Places(b, l, r)
           R    == Rest(b, l, r)
           n(i) == replacement(adds, l, r, i)
<1>0. adds \in Seq(Line) /\ DOMAIN adds = 1..Len(adds) /\ Len(adds) \in Nat
  BY AddsProperties
<1>1. \A i, j \in DOMAIN adds : i # j => adds[i] # adds[j]
  <2>1. IsInjective(Keep(l, Line \ set(b)))
    BY OnceKept DEF IsInjective, Text
  <2> QED BY <2>1 DEF added, IsInjective
<1>2. \A i, j \in DOMAIN r : i # j => r[i] # r[j]
  BY DEF IsInjective
<1>3. \A i \in DOMAIN r : r[i] \in set(r)
  BY DEF set, ToSet
<1> HIDE DEF adds, n
<1>4. ASSUME NEW i \in DOMAIN r, n(i) # 0
      PROVE  n(i) \in DOMAIN adds /\ adds[n(i)] \notin set(r)
  BY <1>4, ReplacementProperties DEF n, adds
<1>5. ASSUME NEW i \in DOMAIN r, P[i] # NoLine
      PROVE  P[i] = r[i] \/ (n(i) # 0 /\ P[i] = adds[n(i)])
  BY <1>5, PlacedLine DEF n, adds
<1>6. ASSUME NEW m \in DOMAIN adds, R[m] # NoLine
      PROVE  R[m] = adds[m] /\ R[m] \notin set(r) /\ \A i \in DOMAIN r : n(i) # m
  BY <1>6, RestLine DEF n, adds
<1>7. ASSUME NEW i \in DOMAIN r, NEW j \in DOMAIN r, i # j, P[i] # NoLine, P[j] # NoLine
      PROVE  P[i] # P[j]
  <2>1. n(i) # 0 => n(i) # n(j)
    BY <1>7, ReplacementsDiffer DEF n, adds
  <2> HIDE DEF P
  <2> QED BY <1>1, <1>2, <1>3, <1>4, <1>5, <1>7, <2>1
<1>8. ASSUME NEW i \in DOMAIN r, NEW m \in DOMAIN adds, P[i] # NoLine, R[m] # NoLine
      PROVE  P[i] # R[m]
  <2> HIDE DEF P, R
  <2> QED BY <1>1, <1>3, <1>4, <1>5, <1>6, <1>8
<1>9. /\ P \in Seq(Line \cup {NoLine}) /\ Len(P) = Len(r) /\ DOMAIN P = 1..Len(P)
      /\ R \in Seq(Line \cup {NoLine}) /\ Len(R) = Len(adds) /\ DOMAIN R = 1..Len(R)
      /\ DOMAIN r = 1..Len(r) /\ Len(r) \in Nat
  <2>1. /\ P \in Seq(Line \cup {NoLine}) /\ Len(P) = Len(r)
        /\ R \in Seq(Line \cup {NoLine}) /\ Len(R) = Len(adds)
    BY MergeProperties DEF adds
  <2>2. DOMAIN r = 1..Len(r) /\ Len(r) \in Nat
    BY DEF Text
  <2> HIDE DEF P, R
  <2> QED BY <2>1, <2>2
<1>10. merge(b, l, r) = Keep(P \o R, Line)
  BY DEF merge, Places, Rest
<1> HIDE DEF P, R
<1> DEFINE q == P \o R
<1>11. /\ q \in Seq(Line \cup {NoLine})
       /\ DOMAIN q = 1..(Len(P) + Len(R))
       /\ \A i \in 1..Len(P) : q[i] = P[i]
       /\ \A i \in (Len(P) + 1)..(Len(P) + Len(R)) : q[i] = R[i - Len(P)]
  BY <1>9
<1> HIDE DEF q
<1>12. ASSUME NEW i \in DOMAIN q, NEW j \in DOMAIN q, i < j, q[i] # NoLine, q[j] # NoLine
       PROVE  q[i] # q[j]
  <2>1. CASE j <= Len(P)
    <3>1. i \in DOMAIN r /\ j \in DOMAIN r /\ i # j /\ q[i] = P[i] /\ q[j] = P[j]
      BY <1>9, <1>11, <1>12, <2>1
    <3> QED BY <1>7, <1>12, <3>1
  <2>2. CASE i <= Len(P) /\ j > Len(P)
    <3>1. i \in DOMAIN r /\ j - Len(P) \in DOMAIN adds /\ q[i] = P[i] /\ q[j] = R[j - Len(P)]
      BY <1>0, <1>9, <1>11, <1>12, <2>2
    <3> QED BY <1>8, <1>12, <3>1
  <2>3. CASE i > Len(P)
    <3>1. i - Len(P) \in DOMAIN adds /\ j - Len(P) \in DOMAIN adds /\ i - Len(P) # j - Len(P)
      BY <1>0, <1>9, <1>11, <1>12, <2>3
    <3>2. /\ i \in (Len(P) + 1)..(Len(P) + Len(R))
          /\ j \in (Len(P) + 1)..(Len(P) + Len(R))
      BY <1>9, <1>11, <1>12, <2>3
    <3>3. q[i] = R[i - Len(P)] /\ q[j] = R[j - Len(P)]
      BY <1>11, <3>2
    <3> QED BY <1>1, <1>6, <1>12, <3>1, <3>3
  <2> QED BY <1>9, <1>11, <2>1, <2>2, <2>3
<1>13. ASSUME NEW i \in DOMAIN q, NEW j \in DOMAIN q, i # j, q[i] \in Line, q[j] \in Line
       PROVE  q[i] # q[j]
  <2>1. i < j \/ j < i
    BY <1>9, <1>11, <1>13
  <2>2. q[i] # NoLine /\ q[j] # NoLine
    BY <1>13, KeyAssumption
  <2>3. \A m, o \in DOMAIN q : m < o /\ q[m] # NoLine /\ q[o] # NoLine => q[m] # q[o]
    BY <1>12
  <2>4. CASE i < j
    BY <2>2, <2>3, <2>4
  <2>5. CASE j < i
    BY <2>2, <2>3, <2>5
  <2> QED BY <2>1, <2>4, <2>5
<1>14. \A i, j \in DOMAIN q : i # j /\ q[i] \in Line /\ q[j] \in Line => q[i] # q[j]
  BY <1>13
<1>15. IsInjective(Keep(q, Line))
  BY <1>11, <1>14, OnceKept
<1> QED BY <1>10, <1>15 DEF q

\* The lines that both sides have keep their places among themselves.
LEMMA CommonLinesStay ==
    ASSUME NEW b \in Text, NEW l \in Text, NEW r \in Text
    PROVE  Keep(merge(b, l, r), set(l) \cap set(r)) = Keep(r, set(l) \cap set(r))
<1> DEFINE adds == added(b, l)
           P    == Places(b, l, r)
           R    == Rest(b, l, r)
           both == set(l) \cap set(r)
<1>0. DOMAIN adds = 1..Len(adds) /\ Len(adds) \in Nat
  BY AddsProperties
<1>1. both \subseteq Line /\ NoLine \notin both
  BY KeyAssumption DEF set, ToSet, Text
<1>2. ASSUME NEW i \in DOMAIN r, r[i] \in both \/ P[i] \in both PROVE r[i] = P[i]
  <2>1. r[i] \in set(r)
    BY DEF set, ToSet
  <2>2. P[i] = place(b, adds, l, r, i)
    BY DEF Places
  <2>3. replacement(adds, l, r, i) # 0 => adds[replacement(adds, l, r, i)] \notin set(r)
    BY ReplacementProperties
  <2> QED BY <1>1, <1>2, <2>1, <2>2, <2>3 DEF place
<1>3. ASSUME NEW m \in DOMAIN adds PROVE R[m] \notin both
  BY <1>1, RestLine
<1>4. /\ P \in Seq(Line \cup {NoLine}) /\ Len(P) = Len(r)
      /\ R \in Seq(Line \cup {NoLine}) /\ Len(R) = Len(adds)
  BY MergeProperties
<1>5. r \in Seq(Line \cup {NoLine}) /\ DOMAIN r = 1..Len(r) /\ Len(r) \in Nat
  BY DEF Text
<1>6. merge(b, l, r) = Keep(P \o R, Line)
  BY DEF merge, Places, Rest
<1> HIDE DEF P, R, both, adds
<1> DEFINE q == P \o R
<1>7. /\ q \in Seq(Line \cup {NoLine}) /\ Len(q) = Len(r) + Len(adds)
      /\ \A i \in 1..Len(r) : q[i] = P[i]
      /\ \A i \in (Len(r) + 1)..(Len(r) + Len(adds)) : q[i] = R[i - Len(r)]
  BY <1>0, <1>4, <1>5
<1> HIDE DEF q
<1>8. Len(r) <= Len(q)
  BY <1>0, <1>5, <1>7
<1>9. \A i \in 1..Len(r) : r[i] \in both \/ q[i] \in both => r[i] = q[i]
  BY <1>2, <1>5, <1>7
<1>10. \A i \in (Len(r) + 1)..Len(q) : q[i] \notin both
  <2> SUFFICES ASSUME NEW i \in (Len(r) + 1)..Len(q) PROVE q[i] \notin both
    OBVIOUS
  <2>1. i - Len(r) \in DOMAIN adds
    BY <1>0, <1>5, <1>7
  <2> QED BY <1>3, <1>7, <2>1
<1>11. Keep(r, both) = Keep(q, both)
  BY <1>5, <1>7, <1>8, <1>9, <1>10, KeepSame
<1>12. Keep(Keep(q, Line), both) = Keep(q, Line \cap both)
  BY <1>7, KeepTwice
<1>13. Line \cap both = both
  BY <1>1
<1> QED BY <1>6, <1>11, <1>12, <1>13 DEF q, both

LEMMA PagesApartInBoth ==
    ASSUME NEW p \in Text, NEW q \in Text, OnePerPage(p), OnePerPage(q),
           \A x \in set(p), y \in set(q) : key[x] # key[y] \/ key[x] = NoPage
    PROVE  OnePerPage(p \o q)
<1>1. /\ Len(p) \in Nat /\ Len(q) \in Nat
      /\ DOMAIN p = 1..Len(p) /\ DOMAIN q = 1..Len(q)
      /\ DOMAIN (p \o q) = 1..(Len(p) + Len(q))
      /\ \A i \in 1..Len(p) : (p \o q)[i] = p[i]
      /\ \A i \in (Len(p) + 1)..(Len(p) + Len(q)) : (p \o q)[i] = q[i - Len(p)]
  BY DEF Text
<1> DEFINE pq == p \o q
<1> HIDE DEF pq
<1>2. ASSUME NEW i \in DOMAIN pq, NEW j \in DOMAIN pq, i < j
      PROVE  key[pq[i]] # key[pq[j]] \/ key[pq[i]] = NoPage
  <2>0. i \in Nat /\ j \in Nat
    BY <1>1 DEF pq
  <2>1. CASE j <= Len(p)
    <3>1. i \in DOMAIN p /\ j \in DOMAIN p /\ i # j /\ pq[i] = p[i] /\ pq[j] = p[j]
      BY <1>1, <1>2, <2>1 DEF pq
    <3> QED BY <3>1 DEF OnePerPage
  <2>2. CASE i <= Len(p) /\ j > Len(p)
    <3>1. i \in DOMAIN p /\ j - Len(p) \in DOMAIN q /\ pq[i] = p[i] /\ pq[j] = q[j - Len(p)]
      BY <1>1, <1>2, <2>2 DEF pq
    <3> QED BY <3>1 DEF set, ToSet
  <2>3. CASE i > Len(p)
    <3>1. i - Len(p) \in DOMAIN q /\ j - Len(p) \in DOMAIN q /\ i - Len(p) # j - Len(p)
      BY <1>1, <1>2, <2>3 DEF pq
    <3>2. i \in (Len(p) + 1)..(Len(p) + Len(q)) /\ j \in (Len(p) + 1)..(Len(p) + Len(q))
      BY <1>1, <1>2, <2>3 DEF pq
    <3>3. pq[i] = q[i - Len(p)] /\ pq[j] = q[j - Len(p)]
      BY <1>1, <3>2 DEF pq
    <3> QED BY <3>1, <3>3 DEF OnePerPage
  <2> QED BY <1>1, <2>0, <2>1, <2>2, <2>3
<1>3. ASSUME NEW i \in DOMAIN pq, NEW j \in DOMAIN pq, i # j
      PROVE  key[pq[i]] # key[pq[j]] \/ key[pq[i]] = NoPage
  <2>1. i < j \/ j < i
    BY <1>1, <1>3 DEF pq
  <2> QED BY <1>2, <2>1
<1> QED BY <1>3 DEF OnePerPage, pq

=============================================================================
