----------------------------- MODULE WebProofs -----------------------------
(***************************************************************************)
(* What a form does is what it says, for any lines, files and goroutines.  *)
(*                                                                         *)
(* Between the read of a handler and its sync, others sync.  The argument  *)
(* is about what the handler made of the file that it read (OutIsTheEdit), *)
(* which they cannot change, and about what merge does with it against     *)
(* the file as it is by then (NewLines, GoneLines of MergeTheorems).       *)
(*                                                                         *)
(* The other parts of Web follow: the list of feeds, the live search and   *)
(* the limit on attempts, each with an invariant of its own.               *)
(***************************************************************************)
EXTENDS Web, MergeTheorems, FiniteSetTheorems

\* A goroutine before its sync holds the file that it read with its own change.
OutIsTheEdit ==
    \A h \in Handler : At(h, "sync") =>
        LET f == form[h]
        IN  /\ set(f.out) \subseteq set(f.read) \cup set(f.new)
            /\ (set(f.read) \ {f.old}) \cup set(f.new) \subseteq set(f.out)
            /\ f.old \in set(f.read) \cup {NoLine}
            /\ f.old \notin set(f.out) \/ f.old \in set(f.new)

IInv == TypeOK /\ OutIsTheEdit

-----------------------------------------------------------------------------
LEMMA TextTyped ==
    ASSUME TypeOK
    PROVE  text \in Text
<1>1. << >> \in Text
  BY DEF Text
<1>2. versions # << >> => versions[1] \in Text
  BY DEF TypeOK
<1> QED BY <1>1, <1>2 DEF text

LEMMA BaseTyped ==
    ASSUME TypeOK, NEW v
    PROVE  Base(v) \in Text
<1>1. << >> \in Text
  BY DEF Text
<1>2. v \in ToSet(versions) => v \in Text
  BY DEF TypeOK, ToSet
<1> QED BY <1>1, <1>2 DEF Base

\* What Store.sync leaves is the merged file in front, and no version too many.
LEMMA PutProperties ==
    ASSUME TypeOK, NEW m \in Text, Put(m)
    PROVE  /\ versions' \in Seq(Text) /\ Len(versions') <= MaxVersions
           /\ text' = m
<1> DEFINE T   == ToSet(versions) \ {m}
           all == <<m>> \o Keep(versions, T)
           n   == IF Len(all) < MaxVersions THEN Len(all) ELSE MaxVersions
<1>1. Keep(versions, T) \in Seq(Text)
  <2>1. Keep(versions, T) \in Seq(T \cap Text)
    BY KeepSet DEF TypeOK
  <2> HIDE DEF T
  <2> QED BY <2>1
<1>2. all \in Seq(Text) /\ Len(all) \in Nat /\ Len(all) >= 1 /\ all[1] = m
  <2> HIDE DEF T
  <2> QED BY <1>1
<1>3. versions' = SubSeq(all, 1, n)
  BY DEF Put
<1> HIDE DEF all
<1>4. n \in Nat /\ n >= 1 /\ n <= Len(all) /\ n <= MaxVersions
  BY <1>2, WebEditAssumption
<1> HIDE DEF n
<1>5. \A i \in 1..n : all[i] \in Text
  BY <1>2, <1>4
<1>6. /\ versions' \in Seq(Text) /\ Len(versions') = n
      /\ versions'[1] = all[1]
  BY <1>3, <1>4, <1>5, SubSeqProperties
<1>7. versions' # << >>
  BY <1>4, <1>6
<1> QED BY <1>2, <1>4, <1>6, <1>7 DEF text

\* The file with new in the place of old is a file, and has the lines that it should.
LEMMA ReplacedLines ==
    ASSUME NEW file \in Text, NEW old \in set(file), NEW new \in Text
    PROVE  /\ Replaced(file, old, new) \in Text
           /\ set(Replaced(file, old, new)) = (set(file) \ {old}) \cup set(new)
           /\ (/\ OnePerPage(file) /\ OnePerPage(new)
               /\ \A x \in set(new), y \in set(file) : key[x] = key[old] \/ key[y] # key[x])
                 => OnePerPage(Replaced(file, old, new))
<1> DEFINE I  == {i \in 1..Len(file) : file[i] = old}
           at == Min(I)
           p  == SubSeq(file, 1, at - 1)
           q  == SubSeq(file, at + 1, Len(file))
           k  == Keep(q, Line \ {old})
<1>0. Len(file) \in Nat /\ DOMAIN file = 1..Len(file) /\ \A i \in 1..Len(file) : file[i] \in Line
  BY DEF Text
<1>1. I # {} /\ I \in SUBSET Nat
  BY <1>0 DEF set, ToSet
<1>2. at \in I /\ \A i \in I : at <= i
  <2> HIDE DEF I
  <2>1. \E x \in I : \A y \in I : x <= y
    BY <1>1, LeastNat
  <2> QED BY <2>1 DEF Min
<1>3. Replaced(file, old, new) = p \o new \o k
  BY <1>1 DEF Replaced, SelectInSeq
<1>4. at \in 1..Len(file) /\ file[at] = old /\ \A i \in 1..(at - 1) : file[i] # old
  <2> HIDE DEF at
  <2>1. at \in 1..Len(file) /\ file[at] = old
    BY <1>2
  <2>2. ASSUME NEW i \in 1..(at - 1), file[i] = old PROVE FALSE
    <3>1. i \in I
      BY <1>0, <2>1, <2>2
    <3> QED BY <1>0, <1>2, <2>1, <3>1
  <2> QED BY <2>1, <2>2
<1> HIDE DEF at, I
<1>5. /\ p \in Seq(Line) /\ Len(p) = at - 1
      /\ \A i \in 1..(at - 1) : p[i] = file[i]
  <2>1. \A i \in 1..(at - 1) : file[i] \in Line
    BY <1>0, <1>4
  <2> QED BY <1>0, <1>4, <2>1, SubSeqProperties
<1>6. /\ q \in Seq(Line) /\ Len(q) = Len(file) - at
      /\ \A i \in 1..(Len(file) - at) : q[i] = file[at + i]
  <2>1. \A i \in (at + 1)..Len(file) : file[i] \in Line
    BY <1>0, <1>4
  <2>2. at + 1 \in Int /\ Len(file) \in Int /\ at \in Nat /\ at <= Len(file)
    BY <1>0, <1>4
  <2>3. /\ q \in Seq(Line)
        /\ Len(q) = IF at + 1 <= Len(file) THEN Len(file) - (at + 1) + 1 ELSE 0
        /\ \A i \in 1..(Len(file) - (at + 1) + 1) : q[i] = file[(at + 1) + i - 1]
    BY <2>1, <2>2, SubSeqProperties
  <2>4. Len(q) = Len(file) - at
    BY <2>2, <2>3
  <2>5. ASSUME NEW i \in 1..(Len(file) - at) PROVE q[i] = file[at + i]
    <3>1. i \in 1..(Len(file) - (at + 1) + 1) /\ (at + 1) + i - 1 = at + i
      BY <2>2
    <3> QED BY <2>3, <3>1
  <2> QED BY <2>3, <2>4, <2>5
<1> HIDE DEF p, q
<1>7. k \in Seq(Line) /\ ToSet(k) = ToSet(q) \ {old}
  <2>1. k \in Seq((Line \ {old}) \cap Line) /\ ToSet(k) = ToSet(q) \cap (Line \ {old})
    BY <1>6, KeepSet
  <2>2. ToSet(q) \subseteq Line
    BY <1>6 DEF ToSet
  <2> HIDE DEF k
  <2> QED BY <2>1, <2>2
<1> HIDE DEF k
<1>8. /\ p \o new \o k \in Seq(Line)
      /\ ToSet(p \o new \o k) = ToSet(p) \cup ToSet(new) \cup ToSet(k)
  <2>1. new \in Seq(Line)
    BY DEF Text
  <2>2. p \o new \in Seq(Line) /\ ToSet(p \o new) = ToSet(p) \cup ToSet(new)
    BY <1>5, <2>1, ToSetConcat
  <2>3. p \o new \o k \in Seq(Line) /\ ToSet(p \o new \o k) = ToSet(p \o new) \cup ToSet(k)
    <3> DEFINE u == p \o new
    <3>1. u \in Seq(Line) /\ k \in Seq(Line)
      BY <1>7, <2>2
    <3> HIDE DEF u
    <3>2. u \o k \in Seq(Line) /\ ToSet(u \o k) = ToSet(u) \cup ToSet(k)
      BY <3>1, ToSetConcat
    <3> QED BY <3>2 DEF u
  <2> QED BY <2>2, <2>3
<1>9. ToSet(p) \cup (ToSet(q) \ {old}) = set(file) \ {old}
  <2>1. ASSUME NEW x \in ToSet(p) PROVE x \in set(file) \ {old}
    <3>1. PICK i \in 1..(at - 1) : p[i] = x
      BY <1>4, <1>5 DEF ToSet
    <3>2. i \in 1..Len(file) /\ file[i] = x /\ file[i] # old
      BY <1>0, <1>4, <1>5, <3>1
    <3> QED BY <1>0, <3>2 DEF set, ToSet
  <2>2. ASSUME NEW x \in ToSet(q) PROVE x \in set(file)
    <3>1. PICK i \in 1..(Len(file) - at) : q[i] = x
      <4>1. DOMAIN q = 1..(Len(file) - at)
        BY <1>6
      <4> QED BY <4>1 DEF ToSet
    <3>2. at + i \in 1..Len(file) /\ file[at + i] = x
      BY <1>0, <1>4, <1>6, <3>1
    <3> QED BY <1>0, <3>2 DEF set, ToSet
  <2>3. ASSUME NEW x \in set(file) \ {old} PROVE x \in ToSet(p) \cup ToSet(q)
    <3>1. PICK i \in 1..Len(file) : file[i] = x
      BY <1>0 DEF set, ToSet
    <3>2. CASE i < at
      <4>1. i \in 1..(at - 1) /\ p[i] = x
        BY <1>0, <1>4, <1>5, <3>1, <3>2
      <4> QED BY <1>4, <1>5, <4>1 DEF ToSet
    <3>3. CASE i > at
      <4>1. i - at \in 1..(Len(file) - at) /\ at + (i - at) = i
        BY <1>0, <1>4, <3>3
      <4>2. q[i - at] = x
        BY <1>6, <3>1, <4>1
      <4>3. Len(q) = Len(file) - at
        BY <1>6
      <4> QED BY <4>1, <4>2, <4>3 DEF ToSet
    <3> QED BY <1>0, <1>4, <3>1, <3>2, <3>3
  <2> QED BY <2>1, <2>2, <2>3
<1>10. ASSUME OnePerPage(file), OnePerPage(new),
              \A x \in set(new), y \in set(file) : key[x] = key[old] \/ key[y] # key[x]
       PROVE  OnePerPage(p \o new \o k)
  <2> DEFINE Apart(x, y) == key[x] # key[y] \/ key[x] = NoPage
  <2>1. \A i, j \in 1..Len(file) : i # j => Apart(file[i], file[j])
    BY <1>0, <1>10 DEF OnePerPage
  <2>2. \A x, y \in set(file) : x # y => Apart(x, y)
    BY <1>10 DEF OnePerPage, set, ToSet
  <2>3. OnePerPage(p)
    <3>1. \A i \in 1..(at - 1) : i \in 1..Len(file)
      BY <1>0, <1>4
    <3>2. DOMAIN p = 1..(at - 1)
      BY <1>5
    <3> QED BY <1>5, <2>1, <3>1, <3>2 DEF OnePerPage
  <2>4. OnePerPage(k)
    <3>1. DOMAIN q = 1..(Len(file) - at)
      BY <1>6
    <3>2. ASSUME NEW i \in DOMAIN q, NEW j \in DOMAIN q, i # j
          PROVE  key[q[i]] # key[q[j]] \/ key[q[i]] = NoPage
      <4>1. at + i \in 1..Len(file) /\ at + j \in 1..Len(file) /\ at + i # at + j
        BY <1>0, <1>4, <3>1, <3>2
      <4> QED BY <1>6, <2>1, <3>1, <4>1
    <3>3. q \in Seq(Line \cup {NoLine})
      BY <1>6
    <3> QED BY <3>2, <3>3, OnePerPageKept DEF k
  <2>5. ASSUME NEW x \in set(p), NEW y \in set(k) PROVE Apart(x, y)
    <3>1. PICK i \in 1..(at - 1) : x = p[i]
      BY <1>4, <1>5 DEF set, ToSet
    <3>2. PICK j \in 1..(Len(file) - at) : y = q[j]
      <4>1. DOMAIN q = 1..(Len(file) - at)
        BY <1>0, <1>4, <1>6
      <4>2. y \in ToSet(q)
        BY <1>7 DEF set
      <4> QED BY <4>1, <4>2 DEF ToSet
    <3>3. i \in 1..Len(file) /\ at + j \in 1..Len(file) /\ i # at + j
      BY <1>0, <1>4
    <3> QED BY <1>5, <1>6, <2>1, <3>1, <3>2, <3>3
  <2>6. ASSUME NEW x \in set(new), NEW y \in set(p) \cup set(k) PROVE Apart(y, x)
    <3>1. y \in set(file) \ {old}
      BY <1>7, <1>9 DEF set
    <3> QED BY <1>10, <2>2, <3>1
  <2>7. p \in Text /\ k \in Text /\ p \o new \in Text
    BY <1>5, <1>7 DEF Text
  <2>8. OnePerPage(p \o new)
    BY <1>10, <2>3, <2>6, <2>7, PagesApartInBoth
  <2>9. set(p \o new) = set(p) \cup set(new)
    BY <1>5, ToSetConcat DEF set, Text
  <2>10. \A x \in set(p \o new), y \in set(k) : Apart(x, y)
    BY <2>5, <2>6, <2>9
  <2> QED BY <2>4, <2>7, <2>8, <2>10, PagesApartInBoth
<1> QED BY <1>3, <1>7, <1>8, <1>9, <1>10 DEF Text, set

-----------------------------------------------------------------------------
\* The types, one action at a time.
LEMMA RowsTyped ==
    ASSUME NEW file \in Text, NEW rows \in Rows
    PROVE  /\ mergeRows(file, rows) \in Text
           /\ OnePerPage(mergeRows(file, rows))
           /\ \A x \in set(file), y \in set(mergeRows(file, rows)) : key[x] # key[y]
<1>1. rows \in Seq(Line)
  BY WebEditAssumption DEF Text
<1> DEFINE fresh(i) == /\ key[rows[i]] # NoPage
                       /\ \A y \in set(file) : key[y] # key[rows[i]]
                       /\ \A j \in 1..(i - 1) : key[rows[j]] # key[rows[i]]
           q == [i \in DOMAIN rows |-> IF fresh(i) THEN rows[i] ELSE NoLine]
<1>0. Len(rows) \in Nat /\ DOMAIN rows = 1..Len(rows)
  BY <1>1
<1>2. mergeRows(file, rows) = Keep(q, Line)
  BY DEF mergeRows
<1>3. q \in Seq(Line \cup {NoLine}) /\ DOMAIN q = DOMAIN rows
  <2> HIDE DEF fresh
  <2> QED BY <1>1
<1>4. ASSUME NEW i \in DOMAIN q, q[i] \in Line PROVE q[i] = rows[i] /\ fresh(i)
  BY <1>4, KeyAssumption
<1>5. ASSUME NEW i \in DOMAIN q, NEW j \in DOMAIN q, i # j, q[i] \in Line, q[j] \in Line
      PROVE  key[q[i]] # key[q[j]]
  <2>1. q[i] = rows[i] /\ fresh(i) /\ q[j] = rows[j] /\ fresh(j)
    <3> HIDE DEF q, fresh
    <3> QED BY <1>4, <1>5
  <2>2. i \in 1..(j - 1) \/ j \in 1..(i - 1)
    <3> HIDE DEF q
    <3> QED BY <1>0, <1>3, <1>5
  <2> QED BY <2>1, <2>2
<1> HIDE DEF q
<1>6. Keep(q, Line) \in Seq(Line \cap (Line \cup {NoLine})) /\ ToSet(Keep(q, Line)) = ToSet(q) \cap Line
  BY <1>3, KeepSet
<1>7. Line \cap (Line \cup {NoLine}) = Line
  OBVIOUS
<1>8. OnePerPage(Keep(q, Line))
  BY <1>3, <1>5, OnePerPageKept
<1>9. ASSUME NEW x \in set(file), NEW y \in set(mergeRows(file, rows)) PROVE key[x] # key[y]
  <2>1. PICK i \in DOMAIN q : y = q[i] /\ q[i] \in Line
    BY <1>2, <1>6 DEF set, ToSet
  <2> QED BY <1>4, <2>1
<1> QED BY <1>2, <1>6, <1>7, <1>8, <1>9 DEF Text

LEMMA TypeAtStart == Init => TypeOK
<1> SUFFICES ASSUME Init PROVE TypeOK
  OBVIOUS
<1>1. << >> \in Text
  BY DEF Text
<1>2. Idle \in Form
  BY <1>1 DEF Idle, Form
<1> QED BY <1>2, WebEditAssumption DEF Init, TypeOK

LEMMA TypeSteps == TypeOK /\ [Next]_vars => TypeOK'
<1> SUFFICES ASSUME TypeOK, [Next]_vars PROVE TypeOK'
  OBVIOUS
<1>0. << >> \in Text /\ Idle \in Form
  <2>1. << >> \in Text
    BY DEF Text
  <2> QED BY <2>1 DEF Idle, Form
<1>1. ASSUME NEW v, NEW file \in Files, SyncFile(v, file) PROVE TypeOK'
  <2>1. file \in Text
    BY WebEditAssumption
  <2>2. merge(Base(v), file, text) \in Text
    BY <2>1, BaseTyped, TextTyped, MergeProperties
  <2> QED BY <1>1, <2>2, PutProperties DEF SyncFile, TypeOK
<1>2. ASSUME NEW h \in Handler, NEW rows \in Rows, Add(h, rows) PROVE TypeOK'
  <2> DEFINE add == mergeRows(text, rows)
  <2>1. text \in Text /\ add \in Text /\ text \o add \in Text
    <3>1. text \in Text /\ add \in Text
      BY TextTyped, RowsTyped
    <3> HIDE DEF add
    <3> QED BY <3>1 DEF Text
  <2>2. [at |-> "sync", old |-> NoLine, new |-> add, read |-> text, out |-> text \o add] \in Form
    <3> HIDE DEF add
    <3> QED BY <2>1 DEF Form
  <2>3. /\ form' = [form EXCEPT ![h] =
             [at |-> "sync", old |-> NoLine, new |-> add, read |-> text, out |-> text \o add]]
        /\ versions' = versions
    BY <1>2 DEF Add
  <2> HIDE DEF add
  <2> QED BY <2>2, <2>3 DEF TypeOK
<1>3. ASSUME NEW h \in Handler, NEW v \in ToSet(versions), NEW i \in DOMAIN v,
             NEW new \in {<< >>} \cup {<<x>> : x \in Bookmark}, saveBookmark(h, v, i, new)
      PROVE  TypeOK'
  <2>1. v[i] \in Line /\ new \in Text
    <3>1. v[i] \in Line
      BY <1>3 DEF saveBookmark, Bookmark
    <3>2. \A x \in Bookmark : <<x>> \in Text
      BY DEF Bookmark, Text
    <3> QED BY <1>0, <3>1, <3>2
  <2>2. [Idle EXCEPT !.at = "look", !.old = v[i], !.new = new] \in Form
    BY <1>0, <2>1 DEF Form
  <2> QED BY <1>3, <2>2 DEF saveBookmark, TypeOK
<1>4. ASSUME NEW h \in Handler, Look(h) PROVE TypeOK'
  <2>1. CASE form' = [form EXCEPT ![h] = Idle]
    BY <1>0, <1>4, <2>1 DEF Look, TypeOK
  <2>2. CASE /\ form[h].old \in set(text)
             /\ form' = [form EXCEPT ![h].at = "sync", ![h].read = text,
                           ![h].out = Replaced(text, form[h].old, form[h].new)]
    <3>1. form[h] \in Form /\ text \in Text
      BY TextTyped DEF TypeOK
    <3>2. Replaced(text, form[h].old, form[h].new) \in Text
      BY <2>2, <3>1, ReplacedLines DEF Form
    <3> QED BY <1>4, <2>2, <3>1, <3>2 DEF Look, TypeOK, Form
  <2> QED BY <1>4, <2>1, <2>2 DEF Look
<1>5. ASSUME NEW h \in Handler, Sync(h) PROVE TypeOK'
  <2>1. form[h].out \in Text /\ text \in Text /\ Base(form[h].read) \in Text
    BY TextTyped, BaseTyped DEF TypeOK, Form
  <2>2. merge(Base(form[h].read), form[h].out, text) \in Text
    BY <2>1, MergeProperties
  <2>3. versions' \in Seq(Text) /\ Len(versions') <= MaxVersions
    BY <1>5, <2>2, PutProperties DEF Sync
  <2>4. [Idle EXCEPT !.at = "done"] \in Form
    BY <1>0 DEF Form
  <2> QED BY <1>0, <1>5, <2>3, <2>4 DEF Sync, Done, TypeOK
<1>6. ASSUME NEW h \in Handler, Fail(h) PROVE TypeOK'
  BY <1>0, <1>6 DEF Fail, TypeOK
<1>7. CASE UNCHANGED vars
  BY <1>7 DEF vars, TypeOK
<1> QED BY <1>1, <1>2, <1>3, <1>4, <1>5, <1>6, <1>7 DEF Next

-----------------------------------------------------------------------------
\* What a handler holds before its sync is the file that it read with its change.
LEMMA OutStaysTheEdit == Spec => []IInv
<1>1. Init => IInv
  <2>1. Init => OutIsTheEdit
    BY DEF Init, OutIsTheEdit, At, Idle
  <2> QED BY <2>1, TypeAtStart DEF IInv
<1>2. IInv /\ [Next]_vars => IInv'
  <2> SUFFICES ASSUME IInv, [Next]_vars PROVE OutIsTheEdit'
    BY TypeSteps DEF IInv
  <2>0. TypeOK /\ text \in Text /\ form \in [Handler -> Form]
    BY TextTyped DEF IInv, TypeOK
  <2>1. CASE UNCHANGED form
    BY <2>1 DEF IInv, OutIsTheEdit, At
  <2>2. ASSUME NEW h \in Handler, NEW rows \in Rows, Add(h, rows) PROVE OutIsTheEdit'
    <3> DEFINE add == mergeRows(text, rows)
               f   == [at |-> "sync", old |-> NoLine, new |-> add, read |-> text,
                       out |-> text \o add]
    <3>1. add \in Text
      BY <2>0, RowsTyped
    <3>2. form' = [form EXCEPT ![h] = f]
      BY <2>2 DEF Add
    <3> HIDE DEF add
    <3>3. set(text \o add) = set(text) \cup set(add)
      BY <2>0, <3>1, ToSetConcat DEF Text, set
    <3>4. NoLine \notin set(text \o add)
      <4>1. set(text) \subseteq Line /\ set(add) \subseteq Line
        BY <2>0, <3>1 DEF set, ToSet, Text
      <4> QED BY <3>3, <4>1, KeyAssumption
    <3>5. /\ set(f.out) \subseteq set(f.read) \cup set(f.new)
          /\ (set(f.read) \ {f.old}) \cup set(f.new) \subseteq set(f.out)
          /\ f.old \in set(f.read) \cup {NoLine}
          /\ f.old \notin set(f.out) \/ f.old \in set(f.new)
      BY <3>3, <3>4
    <3> HIDE DEF f
    <3> QED BY <2>0, <3>2, <3>5 DEF IInv, OutIsTheEdit, At
  <2>3. ASSUME NEW h \in Handler, Look(h) PROVE OutIsTheEdit'
    <3>1. CASE form' = [form EXCEPT ![h] = Idle]
      BY <2>0, <3>1 DEF IInv, OutIsTheEdit, At, Idle
    <3>2. CASE /\ form[h].old \in set(text)
               /\ form' = [form EXCEPT ![h].at = "sync", ![h].read = text,
                             ![h].out = Replaced(text, form[h].old, form[h].new)]
      <4>1. form[h].new \in Text
        BY <2>0 DEF Form
      <4>2. set(Replaced(text, form[h].old, form[h].new))
               = (set(text) \ {form[h].old}) \cup set(form[h].new)
        BY <2>0, <3>2, <4>1, ReplacedLines
      <4>3. /\ form'[h].out = Replaced(text, form[h].old, form[h].new)
            /\ form'[h].read = text
            /\ form'[h].old = form[h].old
            /\ form'[h].new = form[h].new
        BY <2>0, <3>2 DEF Form
      <4>4. \A g \in Handler : g # h => form'[g] = form[g]
        BY <2>0, <3>2
      <4> QED BY <3>2, <4>2, <4>3, <4>4 DEF IInv, OutIsTheEdit, At
    <3> QED BY <2>3, <3>1, <3>2 DEF Look
  <2>4. ASSUME NEW h \in Handler, form'[h].at # "sync",
               \A g \in Handler : g # h => form'[g] = form[g]
        PROVE  OutIsTheEdit'
    BY <2>4 DEF IInv, OutIsTheEdit, At
  <2>5. ASSUME NEW h \in Handler, NEW v \in ToSet(versions), NEW i \in DOMAIN v,
               NEW new \in {<< >>} \cup {<<x>> : x \in Bookmark}, saveBookmark(h, v, i, new)
        PROVE  OutIsTheEdit'
    BY <2>0, <2>4, <2>5 DEF saveBookmark, Idle
  <2>6. ASSUME NEW h \in Handler, Sync(h) \/ Fail(h) PROVE OutIsTheEdit'
    BY <2>0, <2>4, <2>6 DEF Sync, Fail, Done, Idle
  <2> QED BY <2>1, <2>2, <2>3, <2>5, <2>6 DEF Next, SyncFile, vars
<1> QED BY <1>1, <1>2, PTL DEF Spec

\* Only its own sync ends a handler with an answer, and then the base is what it read.
LEMMA SavedIsSync ==
    ASSUME IInv, [Next]_vars, NEW h \in Handler, Saved(h)
    PROVE  /\ text' = merge(form[h].read, form[h].out, text)
           /\ form[h] \in Form /\ text \in Text
<1>1. form \in [Handler -> Form] /\ form[h].at = "sync" /\ form'[h].at = "done"
  BY DEF IInv, TypeOK, Saved, At
<1>2. Sync(h)
  <2>1. form'[h] # form[h]
    BY <1>1
  <2>2. \A g \in Handler : \A rows : ~Add(g, rows)
    BY <1>1, <2>1 DEF Add, Free, At
  <2>3. \A g \in Handler : \A v, i, new : ~saveBookmark(g, v, i, new)
    BY <1>1, <2>1 DEF saveBookmark, Free, At
  <2>4. \A g \in Handler : ~Look(g)
    BY <1>1, <2>1 DEF Look, At
  <2>5. \A g \in Handler : ~Fail(g)
    BY <1>1, <2>1 DEF Fail, Idle
  <2>6. \A g \in Handler : Sync(g) => g = h
    BY <1>1, <2>1 DEF Sync, Done
  <2>7. form' # form
    BY <2>1
  <2> QED BY <2>2, <2>3, <2>4, <2>5, <2>6, <2>7 DEF Next, SyncFile, vars
<1>3. Base(form[h].read) = form[h].read
  BY DEF Saved, Base
<1>4. text \in Text /\ form[h].out \in Text /\ form[h].read \in Text
  BY <1>1, TextTyped DEF IInv, Form
<1>5. merge(form[h].read, form[h].out, text) \in Text
  BY <1>4, MergeProperties
<1> QED BY <1>1, <1>2, <1>3, <1>4, <1>5, PutProperties DEF Sync, IInv

\* The other parts of Web do nothing with the files.
LEMMA EditsAreSteps == WebSpec => Spec
<1>1. WebInit => Init
  BY DEF WebInit
<1>2. [WebNext]_webVars => [Next]_vars
  BY DEF WebNext, EditStep, FeedStep, SearchStep, LimitStep, webVars, editVars
<1> QED BY <1>1, <1>2, PTL DEF WebSpec, Spec

\* A form changes nothing but what it shows, whatever is synced since the page was
\* made and while the handler works (bookmarks.go:473-506, 552-621, 684-725).
THEOREM FormsChangeNoMore == WebSpec => OnlyWhatTheFormSays
<1>1. IInv /\ [Next]_vars =>
        \A h \in Handler : Saved(h) =>
          LET gone == set(text) \ set(text')
              come == set(text') \ set(text)
          IN  /\ come \subseteq set(form[h].new)
              /\ \A x \in gone \ {form[h].old} :
                    x \notin set(form[h].read) /\ \E y \in come : key[y] = key[x]
  <2> SUFFICES ASSUME IInv, [Next]_vars, NEW h \in Handler, Saved(h)
               PROVE  /\ set(text') \ set(text) \subseteq set(form[h].new)
                      /\ \A x \in (set(text) \ set(text')) \ {form[h].old} :
                            /\ x \notin set(form[h].read)
                            /\ \E y \in set(text') \ set(text) : key[y] = key[x]
    OBVIOUS
  <2> DEFINE b == form[h].read
             l == form[h].out
             m == text'
  <2>1. /\ m = merge(b, l, text)
        /\ b \in Text /\ l \in Text /\ text \in Text
    BY SavedIsSync DEF Form
  <2>2. set(l) \subseteq set(b) \cup set(form[h].new) /\ set(b) \ {form[h].old} \subseteq set(l)
    BY DEF IInv, OutIsTheEdit, Saved
  <2> HIDE DEF b, l, m
  <2>3. set(m) \ set(text) \subseteq set(form[h].new)
    BY <2>1, <2>2, NewLines
  <2>4. ASSUME NEW x \in (set(text) \ set(m)) \ {form[h].old}
        PROVE  x \notin set(b) /\ \E y \in set(m) \ set(text) : key[y] = key[x]
    BY <2>1, <2>2, GoneLines
  <2> QED BY <2>3, <2>4 DEF b, m
<1> QED BY <1>1, OutStaysTheEdit, EditsAreSteps, PTL DEF Spec, OnlyWhatTheFormSays

\* What the user is told is done is done, whatever others synced in the meantime
\* (bookmarks.go:616-620).
THEOREM AnswersAreTrue == WebSpec => ToldIsDone
<1>1. IInv /\ [Next]_vars =>
        \A h \in Handler : Saved(h) =>
          /\ form[h].old \in set(form[h].new) \/ form[h].old \notin set(text')
          /\ set(form[h].new) \ set(form[h].read) \subseteq set(text')
  <2> SUFFICES ASSUME IInv, [Next]_vars, NEW h \in Handler, Saved(h)
               PROVE  /\ form[h].old \in set(form[h].new) \/ form[h].old \notin set(text')
                      /\ set(form[h].new) \ set(form[h].read) \subseteq set(text')
    OBVIOUS
  <2> DEFINE b == form[h].read
             l == form[h].out
             m == text'
  <2>1. /\ m = merge(b, l, text)
        /\ b \in Text /\ l \in Text /\ text \in Text
    BY SavedIsSync DEF Form
  <2>2. /\ set(form[h].new) \subseteq set(l)
        /\ form[h].old \in set(b) \cup {NoLine}
        /\ form[h].old \notin set(l) \/ form[h].old \in set(form[h].new)
    BY DEF IInv, OutIsTheEdit, Saved
  <2> HIDE DEF b, l, m
  <2>3. set(l) \ set(b) \subseteq set(m)
    BY <2>1, AdditionsStay
  <2>4. \A x \in set(m) : x \in set(l) \/ x \notin set(b)
    BY <2>1, ResultLines
  <2>5. NoLine \notin set(m)
    <3>1. m \in Text
      BY <2>1, MergeProperties
    <3> QED BY <3>1, KeyAssumption DEF Text, set, ToSet
  <2> QED BY <2>2, <2>3, <2>4, <2>5 DEF b, m
<1> QED BY <1>1, OutStaysTheEdit, EditsAreSteps, PTL DEF Spec, ToldIsDone

-----------------------------------------------------------------------------
\* A bookmark for each page: a version has no second one, and neither has what a form
\* puts in or what a handler is about to sync.
PagesOnce ==
    /\ OneBookmarkPerPage
    /\ \A h \in Handler : /\ At(h, "look") => OnePerPage(form[h].new)
                          /\ At(h, "sync") => OnePerPage(form[h].out)

LEMMA OneInText ==
    ASSUME OneBookmarkPerPage, TypeOK
    PROVE  OnePerPage(text)
<1>1. OnePerPage(<< >>)
  BY DEF OnePerPage
<1>2. versions # << >> => versions[1] \in ToSet(versions)
  BY DEF TypeOK, ToSet
<1> QED BY <1>1, <1>2 DEF text, OneBookmarkPerPage

LEMMA OneAfterPut ==
    ASSUME TypeOK, OneBookmarkPerPage, NEW m \in Text, OnePerPage(m), Put(m)
    PROVE  OneBookmarkPerPage'
<1> DEFINE T   == ToSet(versions) \ {m}
           all == <<m>> \o Keep(versions, T)
           n   == IF Len(all) < MaxVersions THEN Len(all) ELSE MaxVersions
           One == {v \in Text : OnePerPage(v)}
<1>1. Keep(versions, T) \in Seq(One)
  <2>1. Keep(versions, T) \in Seq(T \cap Text)
    BY KeepSet DEF TypeOK
  <2>2. T \cap Text \subseteq One
    BY DEF OneBookmarkPerPage
  <2> HIDE DEF T, One
  <2> QED BY <2>1, <2>2
<1>2. all \in Seq(One) /\ Len(all) \in Nat
  <2>1. m \in One
    OBVIOUS
  <2> HIDE DEF T, One
  <2> QED BY <1>1, <2>1
<1>3. versions' = SubSeq(all, 1, n)
  BY DEF Put
<1> HIDE DEF all
<1>4. n \in Nat /\ n <= Len(all)
  BY <1>2, WebEditAssumption
<1> HIDE DEF n, One
<1>5. \A i \in 1..n : all[i] \in One
  BY <1>2, <1>4
<1>6. versions' \in Seq(One)
  BY <1>3, <1>4, <1>5, SubSeqProperties
<1>7. \A v \in ToSet(versions') : v \in One
  BY <1>6 DEF ToSet
<1> QED BY <1>7 DEF OneBookmarkPerPage, One

\* No page has two bookmarks when no file that a device sends has: what a handler
\* looked at may be old, but merge looks again (bookmarks.go:473-474, 593-598).
THEOREM PagesHaveOneBookmark ==
    ASSUME \A file \in Files : OnePerPage(file)
    PROVE  WebSpec => []OneBookmarkPerPage
<1>1. Init => PagesOnce
  <2> SUFFICES ASSUME Init PROVE PagesOnce
    OBVIOUS
  <2>1. ToSet(versions) = {}
    BY DEF Init, ToSet
  <2> QED BY <2>1 DEF Init, PagesOnce, OneBookmarkPerPage, At, Idle
<1>2. IInv /\ PagesOnce /\ [Next]_vars => PagesOnce'
  <2> SUFFICES ASSUME IInv, PagesOnce, [Next]_vars PROVE PagesOnce'
    OBVIOUS
  <2>0. /\ TypeOK /\ text \in Text /\ form \in [Handler -> Form]
        /\ OneBookmarkPerPage /\ OnePerPage(text)
    BY TextTyped, OneInText DEF IInv, TypeOK, PagesOnce
  <2>1. ASSUME NEW v, NEW file \in Files, SyncFile(v, file) PROVE PagesOnce'
    <3>1. file \in Text /\ Base(v) \in Text
      BY <2>0, BaseTyped, WebEditAssumption
    <3>2. merge(Base(v), file, text) \in Text /\ OnePerPage(merge(Base(v), file, text))
      BY <2>0, <3>1, MergeProperties, PagesApart
    <3> QED BY <2>0, <2>1, <3>2, OneAfterPut DEF SyncFile, PagesOnce, At
  <2>2. ASSUME NEW h \in Handler, NEW rows \in Rows, Add(h, rows) PROVE PagesOnce'
    <3> DEFINE add == mergeRows(text, rows)
               f   == [at |-> "sync", old |-> NoLine, new |-> add, read |-> text,
                       out |-> text \o add]
    <3>1. /\ add \in Text /\ OnePerPage(add)
          /\ \A x \in set(text), y \in set(add) : key[x] # key[y]
      BY <2>0, RowsTyped
    <3>2. form' = [form EXCEPT ![h] = f] /\ versions' = versions
      BY <2>2 DEF Add
    <3> HIDE DEF add
    <3>3. OnePerPage(text \o add)
      BY <2>0, <3>1, PagesApartInBoth
    <3>4. /\ form'[h].at = "sync" /\ form'[h].out = text \o add
          /\ \A g \in Handler : g # h => form'[g] = form[g]
      <4>1. form'[h] = f /\ \A g \in Handler : g # h => form'[g] = form[g]
        <5> HIDE DEF f
        <5> QED BY <2>0, <3>2
      <4> QED BY <4>1
    <3>5. ToSet(versions') = ToSet(versions)
      BY <3>2
    <3> QED BY <3>3, <3>4, <3>5 DEF PagesOnce, OneBookmarkPerPage, At
  <2>3. ASSUME NEW h \in Handler, NEW v \in ToSet(versions), NEW i \in DOMAIN v,
               NEW new \in {<< >>} \cup {<<x>> : x \in Bookmark}, saveBookmark(h, v, i, new)
        PROVE  PagesOnce'
    <3>1. OnePerPage(new)
      BY DEF OnePerPage
    <3>2. /\ form'[h].at = "look" /\ form'[h].new = new
          /\ \A g \in Handler : g # h => form'[g] = form[g]
          /\ versions' = versions
      BY <2>0, <2>3 DEF saveBookmark, Idle
    <3> QED BY <3>1, <3>2 DEF PagesOnce, OneBookmarkPerPage, At
  <2>4. ASSUME NEW h \in Handler, Look(h) PROVE PagesOnce'
    <3>1. CASE form' = [form EXCEPT ![h] = Idle]
      BY <2>0, <2>4, <3>1 DEF Look, PagesOnce, OneBookmarkPerPage, At, Idle
    <3>2. CASE /\ ~Conflict(h) /\ form[h].old \in set(text)
               /\ form' = [form EXCEPT ![h].at = "sync", ![h].read = text,
                             ![h].out = Replaced(text, form[h].old, form[h].new)]
      <4>1. form[h].new \in Text /\ OnePerPage(form[h].new)
        BY <2>0, <2>4 DEF Form, Look, PagesOnce
      <4>2. \A x \in set(form[h].new), y \in set(text) :
               key[x] = key[form[h].old] \/ key[y] # key[x]
        BY <3>2 DEF Conflict
      <4>3. OnePerPage(Replaced(text, form[h].old, form[h].new))
        BY <2>0, <3>2, <4>1, <4>2, ReplacedLines
      <4>4. /\ form'[h].at = "sync"
            /\ form'[h].out = Replaced(text, form[h].old, form[h].new)
            /\ \A g \in Handler : g # h => form'[g] = form[g]
        BY <2>0, <3>2 DEF Form
      <4> QED BY <2>4, <4>3, <4>4 DEF Look, PagesOnce, OneBookmarkPerPage, At
    <3> QED BY <2>4, <3>1, <3>2 DEF Look
  <2>5. ASSUME NEW h \in Handler, Sync(h) PROVE PagesOnce'
    <3>1. /\ form[h].out \in Text /\ Base(form[h].read) \in Text
          /\ OnePerPage(form[h].out)
      BY <2>0, <2>5, BaseTyped DEF Form, Sync, PagesOnce
    <3>2. /\ merge(Base(form[h].read), form[h].out, text) \in Text
          /\ OnePerPage(merge(Base(form[h].read), form[h].out, text))
      BY <2>0, <3>1, MergeProperties, PagesApart
    <3>3. OneBookmarkPerPage'
      BY <2>0, <2>5, <3>2, OneAfterPut DEF Sync
    <3>4. /\ form'[h].at \in {"done", "idle"}
          /\ \A g \in Handler : g # h => form'[g] = form[g]
      BY <2>0, <2>5 DEF Sync, Done, Idle
    <3> QED BY <3>3, <3>4 DEF PagesOnce, At
  <2>6. ASSUME NEW h \in Handler, Fail(h) PROVE PagesOnce'
    BY <2>0, <2>6 DEF Fail, PagesOnce, OneBookmarkPerPage, At, Idle
  <2>7. CASE UNCHANGED vars
    BY <2>7 DEF vars, PagesOnce, OneBookmarkPerPage, At
  <2> QED BY <2>1, <2>2, <2>3, <2>4, <2>5, <2>6, <2>7 DEF Next
<1>3. PagesOnce => OneBookmarkPerPage
  BY DEF PagesOnce
<1> QED BY <1>1, <1>2, <1>3, OutStaysTheEdit, EditsAreSteps, PTL DEF Spec

-----------------------------------------------------------------------------
(***************************************************************************)
(* The feeds.  A handler that has read feeds.txt has the lock, and so what *)
(* it read is what the file says when it writes: FeedInv.                  *)
(***************************************************************************)
LEMMA FeedOperators ==
    /\ \A s, T : Feed!Keep(s, T) = Keep(s, T)
    /\ \A s : Feed!ToSet(s) = ToSet(s)
    /\ \A s : Feed!IsInjective(s) = IsInjective(s)
    /\ \A s, T : List!Keep(s, T) = Keep(s, T)
    /\ \A s : List!ToSet(s) = ToSet(s)
    /\ \A s : List!IsInjective(s) = IsInjective(s)
    /\ \A s, t : List!IsPrefix(s, t) = IsPrefix(s, t)
    /\ \A S : Feed!Cardinality(S) = Cardinality(S)
    /\ \A S : List!Cardinality(S) = Cardinality(S)
<1>1. \A s, T : Feed!Keep(s, T) = Keep(s, T)
  BY DEF Feed!Keep, Keep
<1>2. \A s : Feed!ToSet(s) = ToSet(s)
  BY DEF Feed!ToSet, ToSet
<1>3. \A s : Feed!IsInjective(s) = IsInjective(s)
  BY DEF Feed!IsInjective, IsInjective
<1>4. \A s, T : List!Keep(s, T) = Keep(s, T)
  BY DEF List!Keep, Keep
<1>5. \A s : List!ToSet(s) = ToSet(s)
  BY DEF List!ToSet, ToSet
<1>6. \A s : List!IsInjective(s) = IsInjective(s)
  BY DEF List!IsInjective, IsInjective
<1>7. \A s, t : List!IsPrefix(s, t) = IsPrefix(s, t)
  BY DEF List!IsPrefix, IsPrefix
<1>8. \A S : Feed!Cardinality(S) = Cardinality(S)
  BY DEF Feed!Cardinality, Cardinality
<1>9. \A S : List!Cardinality(S) = Cardinality(S)
  BY DEF List!Cardinality, Cardinality
<1> QED BY <1>1, <1>2, <1>3, <1>4, <1>5, <1>6, <1>7, <1>8, <1>9

Request == [at       : {"idle", "asked", "read"},
            follow   : Seq(Url),
            unfollow : SUBSET Url,
            read     : Seq(Url)]

FeedInv ==
    /\ feeds \in {None} \cup Seq(Url)
    /\ FeedsOnce
    /\ request \in [Server -> Request]
    /\ \A h \in Server : Feed!At(h, "read") => holder = h /\ request[h].read = Feed!feedsText

LEMMA FeedsTextTyped ==
    ASSUME FeedInv
    PROVE  Feed!feedsText \in Seq(Url)
BY WebAssumption DEF FeedInv, Feed!feedsText

LEMMA FreshFeeds ==
    ASSUME NEW file \in Seq(Url), NEW follow \in Seq(Url)
    PROVE  /\ Feed!Fresh(file, follow) \in Seq(Url)
           /\ IsInjective(Feed!Fresh(file, follow))
           /\ ToSet(Feed!Fresh(file, follow)) = ToSet(follow) \ ToSet(file)
<1> DEFINE First(i) == \A j \in 1..(i - 1) : follow[j] # follow[i]
           q == [i \in DOMAIN follow |-> IF First(i) THEN follow[i] ELSE None]
           T == Url \ ToSet(file)
<1>0. Len(follow) \in Nat /\ DOMAIN follow = 1..Len(follow)
  OBVIOUS
<1>1. Feed!Fresh(file, follow) = Keep(q, T)
  BY FeedOperators DEF Feed!Fresh
<1>2. q \in Seq(Url \cup {None}) /\ DOMAIN q = DOMAIN follow
  <2> HIDE DEF First
  <2> QED OBVIOUS
<1>3. ASSUME NEW i \in DOMAIN q, q[i] \in T PROVE q[i] = follow[i] /\ First(i)
  BY <1>3, WebAssumption
<1>4. ASSUME NEW i \in DOMAIN q, NEW j \in DOMAIN q, i # j, q[i] \in T, q[j] \in T
      PROVE  q[i] # q[j]
  <2>1. q[i] = follow[i] /\ First(i) /\ q[j] = follow[j] /\ First(j)
    <3> HIDE DEF q, First, T
    <3> QED BY <1>3, <1>4
  <2>2. i \in 1..(j - 1) \/ j \in 1..(i - 1)
    <3> HIDE DEF q
    <3> QED BY <1>0, <1>2, <1>4
  <2> QED BY <2>1, <2>2
<1> HIDE DEF q, First
<1>5. Keep(q, T) \in Seq(T \cap (Url \cup {None})) /\ ToSet(Keep(q, T)) = ToSet(q) \cap T
  BY <1>2, KeepSet
<1>6. T \cap (Url \cup {None}) \subseteq Url
  OBVIOUS
<1>7. Keep(q, T) \in Seq(Url)
  <2> HIDE DEF T
  <2> QED BY <1>5, <1>6
<1>8. IsInjective(Keep(q, T))
  BY <1>2, <1>4, OnceKept
<1>9. ASSUME NEW x \in ToSet(q), x \in T PROVE x \in ToSet(follow)
  BY <1>2, <1>3, <1>9 DEF ToSet
<1>10. ASSUME NEW x \in ToSet(follow) PROVE x \in ToSet(q) /\ x \in Url
  <2> DEFINE I == {i \in 1..Len(follow) : follow[i] = x}
  <2>1. I # {} /\ I \in SUBSET Nat
    BY <1>0, <1>10 DEF ToSet
  <2> HIDE DEF I
  <2>2. PICK i \in I : \A j \in I : i <= j
    BY <2>1, LeastNat
  <2>3. i \in 1..Len(follow) /\ follow[i] = x
    BY DEF I
  <2>4. First(i)
    <3> SUFFICES ASSUME NEW j \in 1..(i - 1), follow[j] = follow[i] PROVE FALSE
      BY DEF First
    <3>1. j \in I /\ ~(i <= j)
      BY <1>0, <2>3 DEF I
    <3> QED BY <2>2, <3>1
  <2>5. q[i] = x
    BY <1>0, <2>3, <2>4 DEF q
  <2> QED BY <1>0, <1>2, <2>3, <2>5 DEF ToSet
<1> QED BY <1>1, <1>5, <1>7, <1>8, <1>9, <1>10

\* As many feeds as lines, or fewer, when some are there twice.
LEMMA FeedsCount ==
    ASSUME NEW s \in Seq(Url)
    PROVE  /\ IsFiniteSet(ToSet(s)) /\ Cardinality(ToSet(s)) \in Nat
           /\ Cardinality(ToSet(s)) <= Len(s)
           /\ IsInjective(s) => Cardinality(ToSet(s)) = Len(s)
<1> DEFINE D == 1..Len(s)
<1>0. Len(s) \in Nat /\ DOMAIN s = D
  OBVIOUS
<1>1. IsFiniteSet(D) /\ Cardinality(D) = Len(s)
  <2>1. \A len \in Nat : IsFiniteSet(1..len) /\ Cardinality(1..len) = len
    <3> SUFFICES ASSUME NEW len \in Nat
                 PROVE  IsFiniteSet(1..len) /\ Cardinality(1..len) = len
      OBVIOUS
    <3>1. IsFiniteSet(1..len) /\ Cardinality(1..len) = IF 1 > len THEN 0 ELSE len - 1 + 1
      BY FS_Interval
    <3> QED BY <3>1
  <2> QED BY <1>0, <2>1
<1>2. s \in [D -> ToSet(s)] /\ \A x \in ToSet(s) : \E i \in D : s[i] = x
  BY <1>0 DEF ToSet
<1> HIDE DEF D
<1>3. s \in Surjection(D, ToSet(s))
  BY <1>2 DEF Surjection
<1>4. /\ IsFiniteSet(ToSet(s)) /\ Cardinality(ToSet(s)) <= Cardinality(D)
      /\ Cardinality(ToSet(s)) = Cardinality(D) <=> s \in Injection(D, ToSet(s))
  BY <1>1, <1>3, FS_Surjection
<1>5. IsInjective(s) => s \in Injection(D, ToSet(s))
  BY <1>0, <1>2 DEF Injection, IsInjective
<1>6. Cardinality(ToSet(s)) \in Nat
  BY <1>4, FS_CardinalityType
<1> QED BY <1>1, <1>4, <1>5, <1>6

\* What stands after a prefix.
LEMMA AfterPrefix ==
    ASSUME NEW S, NEW s \in Seq(S), NEW t \in Seq(S)
    PROVE  IsPrefix(s, s \o t) /\ SubSeq(s \o t, Len(s) + 1, Len(s \o t)) = t
<1>1. SubSeq(s \o t, 1, Len(s)) = s /\ Len(s) <= Len(s \o t) /\ Len(s) \in Nat
  OBVIOUS
<1>2. SubSeq(s \o t, Len(s) + 1, Len(s \o t)) = t
  OBVIOUS
<1> QED BY <1>1, <1>2 DEF IsPrefix

\* What a handler writes, of the file that it read: what it keeps, and then what is new.
LEMMA ChangedFeeds ==
    ASSUME NEW h \in Server, request[h] \in Request, ~Feed!TooMany(h)
    PROVE  LET file == request[h].read
               kept == Keep(file, Url \ request[h].unfollow)
               all  == Feed!Changed(h)
               new  == SubSeq(all, Len(kept) + 1, Len(all))
           IN  /\ all \in Seq(Url)
               /\ IsPrefix(kept, all)
               /\ IsInjective(new)
               /\ ToSet(new) = ToSet(request[h].follow) \ (ToSet(file) \cup request[h].unfollow)
               /\ new = << >> \/ Cardinality(ToSet(file) \cup ToSet(request[h].follow)) <= maxFeeds
               /\ IsInjective(file) /\ Len(file) <= maxFeeds
                     => IsInjective(all) /\ Len(all) <= maxFeeds
<1> DEFINE file  == request[h].read
           fresh == Feed!Fresh(file, request[h].follow)
           T     == Url \ request[h].unfollow
           q     == file \o fresh
           kept  == Keep(file, T)
           more  == Keep(fresh, T)
           all   == Feed!Changed(h)
           new   == SubSeq(all, Len(kept) + 1, Len(all))
<1>1. /\ file \in Seq(Url) /\ fresh \in Seq(Url) /\ IsInjective(fresh)
      /\ ToSet(fresh) = ToSet(request[h].follow) \ ToSet(file)
  BY FreshFeeds DEF Request
<1>2. all = kept \o more /\ all = Keep(q, T)
  <2>1. all = Keep(q, T)
    BY FeedOperators DEF Feed!Changed
  <2>2. Keep(q, T) = kept \o more
    BY <1>1, KeepConcat
  <2> QED BY <2>1, <2>2
<1>3. fresh = << >> \/ Cardinality(ToSet(file)) + Len(fresh) <= maxFeeds
  <2>1. Cardinality(ToSet(file)) \in Nat /\ Len(fresh) \in Nat /\ maxFeeds \in Nat
    BY <1>1, FeedsCount, WebAssumption
  <2>2. fresh = << >> \/ ~(Cardinality(ToSet(file)) + Len(fresh) > maxFeeds)
    <3>1. Feed!Cardinality(Feed!ToSet(file)) = Cardinality(ToSet(file))
      BY FeedOperators
    <3>2. Feed!TooMany(h) =
             (fresh # << >> /\ Feed!Cardinality(Feed!ToSet(file)) + Len(fresh) > maxFeeds)
      BY DEF Feed!TooMany
    <3> HIDE DEF file, fresh
    <3> QED BY <3>1, <3>2
  <2> HIDE DEF file, fresh
  <2> QED BY <2>1, <2>2
<1>4. ToSet(file) \cup ToSet(request[h].follow) = ToSet(file) \cup ToSet(fresh)
  BY <1>1
<1> HIDE DEF file, fresh, T, all
<1>5. /\ kept \in Seq(Url) /\ more \in Seq(Url) /\ IsInjective(more)
      /\ ToSet(more) = ToSet(fresh) \cap T
  <2>1. /\ kept \in Seq(T \cap Url) /\ more \in Seq(T \cap Url)
        /\ ToSet(more) = ToSet(fresh) \cap T
    BY <1>1, KeepSet
  <2>2. \A i, j \in DOMAIN fresh : i # j /\ fresh[i] \in T /\ fresh[j] \in T => fresh[i] # fresh[j]
    BY <1>1 DEF IsInjective
  <2>3. IsInjective(more)
    BY <1>1, <2>2, OnceKept
  <2> QED BY <2>1, <2>3
<1>6. IsPrefix(kept, all)
  <2> HIDE DEF kept, more
  <2> QED BY <1>2, <1>5, AfterPrefix
<1>7. new = more /\ all \in Seq(Url)
  <2> HIDE DEF kept, more
  <2>1. kept \o more \in Seq(Url)
    BY <1>5
  <2> QED BY <1>2, <1>5, <2>1, AfterPrefix
<1>8. ToSet(new) = ToSet(request[h].follow) \ (ToSet(file) \cup request[h].unfollow)
  <2>1. ToSet(fresh) \subseteq Url
    BY <1>1 DEF ToSet
  <2> QED BY <1>1, <1>5, <1>7, <2>1 DEF T
<1>9. fresh = << >> => new = << >>
  <2>1. SUFFICES ASSUME fresh = << >> PROVE more = << >>
    BY <1>7
  <2>2. Len(more) <= Len(fresh)
    BY <1>1, KeepLength
  <2> HIDE DEF more
  <2> QED BY <1>5, <2>1, <2>2
<1>10. new = << >> \/ Cardinality(ToSet(file) \cup ToSet(request[h].follow)) <= maxFeeds
  <2>1. /\ IsFiniteSet(ToSet(file)) /\ Cardinality(ToSet(file)) \in Nat
        /\ IsFiniteSet(ToSet(fresh)) /\ Cardinality(ToSet(fresh)) \in Nat
        /\ Cardinality(ToSet(fresh)) <= Len(fresh) /\ Len(fresh) \in Nat
    BY <1>1, FeedsCount
  <2>2. Cardinality(ToSet(file) \cup ToSet(fresh))
           = Cardinality(ToSet(file)) + Cardinality(ToSet(fresh))
                - Cardinality(ToSet(file) \cap ToSet(fresh))
    BY <2>1, FS_Union
  <2>3. ToSet(file) \cap ToSet(fresh) = {}
    BY <1>1
  <2>4. Cardinality(ToSet(file) \cap ToSet(fresh)) = 0
    BY <2>3, FS_EmptySet
  <2>5. maxFeeds \in Nat
    BY WebAssumption
  <2>6. CASE Cardinality(ToSet(file)) + Len(fresh) <= maxFeeds
    <3>1. Cardinality(ToSet(file) \cup ToSet(fresh)) <= maxFeeds
      BY <2>1, <2>2, <2>4, <2>5, <2>6
    <3> QED BY <1>4, <3>1
  <2> QED BY <1>3, <1>9, <2>6
<1>11. ASSUME IsInjective(file), Len(file) <= maxFeeds
       PROVE  IsInjective(all) /\ Len(all) <= maxFeeds
  <2>1. /\ q \in Seq(Url) /\ Len(q) = Len(file) + Len(fresh) /\ DOMAIN q = 1..Len(q)
        /\ Len(file) \in Nat /\ Len(fresh) \in Nat
        /\ DOMAIN file = 1..Len(file) /\ DOMAIN fresh = 1..Len(fresh)
        /\ \A i \in 1..Len(file) : q[i] = file[i] /\ file[i] \in ToSet(file)
        /\ \A i \in (Len(file) + 1)..(Len(file) + Len(fresh)) :
              q[i] = fresh[i - Len(file)] /\ fresh[i - Len(file)] \in ToSet(fresh)
    BY <1>1 DEF ToSet
  <2>2. Len(file) + Len(fresh) <= maxFeeds
    <3>1. Cardinality(ToSet(file)) = Len(file)
      BY <1>1, <1>11, FeedsCount
    <3>2. fresh = << >> => Len(fresh) = 0
      OBVIOUS
    <3>3. maxFeeds \in Nat
      BY WebAssumption
    <3> QED BY <1>3, <1>11, <2>1, <3>1, <3>2, <3>3
  <2>3. ASSUME NEW i \in DOMAIN q, NEW j \in DOMAIN q, i < j PROVE q[i] # q[j]
    <3> HIDE DEF q
    <3>1. CASE j <= Len(file)
      <4>1. i \in 1..Len(file) /\ j \in 1..Len(file) /\ i # j
        BY <2>1, <2>3, <3>1
      <4> QED BY <1>1, <1>11, <2>1, <4>1 DEF IsInjective
    <3>2. CASE i <= Len(file) /\ j > Len(file)
      <4>1. i \in 1..Len(file) /\ j \in (Len(file) + 1)..(Len(file) + Len(fresh))
        BY <2>1, <2>3, <3>2
      <4> QED BY <1>1, <2>1, <4>1
    <3>3. CASE i > Len(file)
      <4>1. /\ i \in (Len(file) + 1)..(Len(file) + Len(fresh))
            /\ j \in (Len(file) + 1)..(Len(file) + Len(fresh))
        BY <2>1, <2>3, <3>3
      <4>2. /\ i - Len(file) \in DOMAIN fresh /\ j - Len(file) \in DOMAIN fresh
            /\ i - Len(file) # j - Len(file)
        BY <1>1, <2>1, <2>3, <4>1
      <4> QED BY <1>1, <2>1, <4>1, <4>2 DEF IsInjective
    <3> QED BY <2>1, <3>1, <3>2, <3>3
  <2>4. \A i, j \in DOMAIN q : i # j => q[i] # q[j]
    <3> HIDE DEF q
    <3> SUFFICES ASSUME NEW i \in DOMAIN q, NEW j \in DOMAIN q, i # j PROVE q[i] # q[j]
      OBVIOUS
    <3>1. i < j \/ j < i
      BY <2>1
    <3> QED BY <2>3, <3>1
  <2> HIDE DEF q
  <2>5. IsInjective(Keep(q, T)) /\ Len(Keep(q, T)) <= Len(q)
    BY <2>1, <2>4, OnceKept, KeepLength
  <2>6. Len(Keep(q, T)) \in Nat
    BY <1>2, <1>7
  <2>7. maxFeeds \in Nat
    BY WebAssumption
  <2> QED BY <1>2, <2>1, <2>2, <2>5, <2>6, <2>7
<1> HIDE DEF new, kept, more
<1>12. /\ all \in Seq(Url) /\ IsPrefix(kept, all) /\ IsInjective(new)
       /\ ToSet(new) = ToSet(request[h].follow) \ (ToSet(file) \cup request[h].unfollow)
       /\ new = << >> \/ Cardinality(ToSet(file) \cup ToSet(request[h].follow)) <= maxFeeds
       /\ IsInjective(file) /\ Len(file) <= maxFeeds => IsInjective(all) /\ Len(all) <= maxFeeds
  BY <1>5, <1>6, <1>7, <1>8, <1>10, <1>11
<1> QED BY <1>12 DEF new, kept, all, file, T

LEMMA FeedsStart == WebInit => FeedInv
<1> SUFFICES ASSUME WebInit PROVE FeedInv
  OBVIOUS
<1>1. feeds = None /\ request = [h \in Server |-> Feed!Idle]
  BY DEF WebInit, Feed!Init
<1>2. Feed!Idle \in Request /\ Feed!Idle.at = "idle"
  <2>1. << >> \in Seq(Url)
    OBVIOUS
  <2> QED BY <2>1 DEF Feed!Idle, Request
<1>3. FeedsOnce
  BY <1>1, FeedOperators, WebAssumption DEF FeedsOnce, Feed!FeedsOnce, Feed!feedsText
<1> QED BY <1>1, <1>2, <1>3 DEF FeedInv, Feed!At

\* What one step of a handler does: who has the lock, has what the file says, and the
\* file changes only by one who has the lock.
LEMMA FeedsSteps == FeedInv /\ [WebNext]_webVars => FeedInv'
<1> SUFFICES ASSUME FeedInv, [WebNext]_webVars PROVE FeedInv'
  OBVIOUS
<1>0. request \in [Server -> Request] /\ Feed!feedsText \in Seq(Url) /\ FeedsOnce
  BY FeedsTextTyped DEF FeedInv
<1>1. CASE UNCHANGED feedVars
  BY <1>1 DEF feedVars, FeedInv, FeedsOnce, Feed!FeedsOnce, Feed!feedsText, Feed!At
<1>2. ASSUME NEW h \in Server, NEW follow \in Seq(Url), NEW unfollow \in SUBSET Url,
             Feed!Ask(h, follow, unfollow)
      PROVE  FeedInv'
  <2> DEFINE f == [at |-> "asked", follow |-> follow, unfollow |-> unfollow, read |-> << >>]
  <2>1. f \in Request /\ f.at = "asked"
    <3>1. << >> \in Seq(Url)
      OBVIOUS
    <3> QED BY <3>1 DEF Request
  <2>2. request' = [request EXCEPT ![h] = f] /\ feeds' = feeds /\ holder' = holder
    BY <1>2 DEF Feed!Ask
  <2> HIDE DEF f
  <2>3. /\ request' \in [Server -> Request] /\ request'[h].at = "asked"
        /\ \A g \in Server : g # h => request'[g] = request[g]
    BY <1>0, <2>1, <2>2
  <2> QED BY <2>2, <2>3 DEF FeedInv, FeedsOnce, Feed!FeedsOnce, Feed!feedsText, Feed!At
<1>3. ASSUME NEW h \in Server, Feed!Read(h) PROVE FeedInv'
  <2>1. /\ request' = [request EXCEPT ![h].at = "read", ![h].read = Feed!feedsText]
        /\ feeds' = feeds /\ holder = None /\ holder' = h
    BY <1>3 DEF Feed!Read
  <2>2. /\ request' \in [Server -> Request] /\ request'[h].read = Feed!feedsText
        /\ \A g \in Server : g # h => request'[g] = request[g]
    BY <1>0, <2>1 DEF Request
  <2>3. \A g \in Server : g # h => ~Feed!At(g, "read")
    BY <2>1, WebAssumption DEF FeedInv
  <2> QED BY <2>1, <2>2, <2>3 DEF FeedInv, FeedsOnce, Feed!FeedsOnce, Feed!feedsText, Feed!At
<1>4. ASSUME NEW h \in Server, Feed!Release(h)
      PROVE  /\ request' \in [Server -> Request] /\ request'[h].at = "idle"
             /\ \A g \in Server : g # h => request'[g] = request[g]
             /\ \A g \in Server : g # h /\ holder = g => holder' = g
  <2>1. Feed!Idle \in Request /\ Feed!Idle.at = "idle"
    <3>1. << >> \in Seq(Url)
      OBVIOUS
    <3> QED BY <3>1 DEF Feed!Idle, Request
  <2>2. /\ request' = [request EXCEPT ![h] = Feed!Idle]
        /\ holder' = IF holder = h THEN None ELSE holder
    BY <1>4 DEF Feed!Release
  <2> QED BY <1>0, <2>1, <2>2
<1>5. ASSUME NEW h \in Server, Feed!Write(h) PROVE FeedInv'
  <2>1. /\ Feed!At(h, "read") /\ ~Feed!TooMany(h) /\ Feed!Release(h)
        /\ feeds' = Feed!Changed(h)
    BY <1>5 DEF Feed!Write
  <2>2. holder = h /\ request[h].read = Feed!feedsText /\ request[h] \in Request
    BY <1>0, <2>1 DEF FeedInv
  <2>3. IsInjective(defaultFeeds) /\ Len(defaultFeeds) <= maxFeeds
           => IsInjective(Feed!feedsText) /\ Len(Feed!feedsText) <= maxFeeds
    BY <1>0, FeedOperators DEF FeedsOnce, Feed!FeedsOnce
  <2>4. /\ feeds' \in Seq(Url)
        /\ IsInjective(Feed!feedsText) /\ Len(Feed!feedsText) <= maxFeeds
              => IsInjective(feeds') /\ Len(feeds') <= maxFeeds
    BY <2>1, <2>2, ChangedFeeds
  <2>5. Feed!feedsText' = feeds'
    BY <2>4, WebAssumption DEF Feed!feedsText
  <2>6. FeedsOnce'
    BY <2>3, <2>4, <2>5, FeedOperators DEF FeedsOnce, Feed!FeedsOnce
  <2>7. \A g \in Server : g # h => ~Feed!At(g, "read")
    BY <2>2 DEF FeedInv
  <2>8. \A g \in Server : ~(request'[g].at = "read")
    BY <1>4, <2>1, <2>7 DEF Feed!At
  <2> QED BY <1>4, <2>1, <2>4, <2>6, <2>8 DEF FeedInv, Feed!At
<1>6. ASSUME NEW h \in Server, Feed!Fail(h) PROVE FeedInv'
  <2>1. Feed!Release(h) /\ feeds' = feeds
    BY <1>6 DEF Feed!Fail
  <2> QED BY <1>4, <2>1 DEF FeedInv, FeedsOnce, Feed!FeedsOnce, Feed!feedsText, Feed!At
<1>7. CASE Feed!RemoveAccount
  <2>1. feeds' \in {None, feeds} /\ request' = request /\ holder = None
    BY <1>7 DEF Feed!RemoveAccount
  <2>2. \A h \in Server : ~Feed!At(h, "read")
    BY <2>1, WebAssumption DEF FeedInv
  <2>3. FeedsOnce'
    <3>1. CASE feeds' = feeds
      BY <1>0, <3>1 DEF FeedsOnce, Feed!FeedsOnce, Feed!feedsText
    <3>2. CASE feeds' = None
      <4>1. Feed!feedsText' = defaultFeeds
        BY <3>2 DEF Feed!feedsText
      <4> QED BY <4>1, FeedOperators, WebAssumption DEF FeedsOnce, Feed!FeedsOnce
    <3> QED BY <2>1, <3>1, <3>2
  <2> QED BY <2>1, <2>2, <2>3 DEF FeedInv, Feed!At
<1>8. CASE FeedStep
  <2>1. CASE \E h \in Server, follow \in Pages : Feed!Ask(h, follow, {})
    BY <1>2, <2>1, WebAssumption
  <2>2. CASE \E h \in Server, u \in Url : Feed!Ask(h, << >>, {u})
    <3>1. << >> \in Seq(Url) /\ \A u \in Url : {u} \in SUBSET Url
      OBVIOUS
    <3> QED BY <1>2, <2>2, <3>1
  <2> QED BY <1>3, <1>5, <1>6, <1>7, <1>8, <2>1, <2>2 DEF FeedStep, Feed!Next
<1> QED BY <1>1, <1>8 DEF WebNext, EditStep, SearchStep, LimitStep, webVars

\* No feed is followed twice, and not too many are (feed.go:592-602, 636-643), when that
\* is so of the default feeds.
THEOREM FeedsAreOnce == WebSpec => []FeedsOnce
<1>1. FeedInv => FeedsOnce
  BY DEF FeedInv
<1> QED BY <1>1, FeedsStart, FeedsSteps, PTL DEF WebSpec

\* Feeds implements FeedList: the moment of a change is the write of feeds.txt, and what
\* the handler read is the list still (feed.go:302-321).
THEOREM FeedsImplementList == WebSpec => ImplementsFeedList
<1> DEFINE R == [h \in Server |-> Asked(request[h])]
           L == <<Feed!feedsText, there, R>>
<1>0. Asked(Feed!Idle) = List!NotAsked
  <2>1. ToSet(<< >>) = {}
    BY DEF ToSet
  <2>2. Feed!Idle.at = "idle" /\ Feed!Idle.follow = << >> /\ Feed!Idle.unfollow = {}
    BY DEF Feed!Idle
  <2>3. ~(Feed!Idle.at # "idle")
    BY <2>2
  <2>4. (Feed!Idle.at # "idle") = FALSE
    BY <2>3
  <2> QED BY <2>1, <2>2, <2>4 DEF Asked, List!NotAsked
<1>1. WebInit => List!Init
  <2> SUFFICES ASSUME WebInit PROVE List!Init
    OBVIOUS
  <2>1. feeds = None /\ there = TRUE /\ request = [h \in Server |-> Feed!Idle]
    BY DEF WebInit, Feed!Init
  <2>2. Asked(Feed!Idle) = List!NotAsked
    BY <1>0
  <2> QED BY <2>1, <2>2 DEF List!Init, Feed!feedsText
<1>2. ASSUME FeedInv, NEW h \in Server, \A g \in Server : g # h => request'[g] = request[g],
             request' \in [Server -> Request]
      PROVE  R' = [R EXCEPT ![h] = Asked(request'[h])] /\ R[h] = Asked(request[h])
  <2>1. R' = [g \in Server |-> Asked(request'[g])]
    OBVIOUS
  <2>2. \A g \in Server : g # h => Asked(request'[g]) = Asked(request[g])
    BY <1>2
  <2> QED BY <2>1, <2>2
<1>3. FeedInv /\ FeedInv' /\ [WebNext]_webVars => [List!Next]_L
  <2> SUFFICES ASSUME FeedInv, FeedInv', [WebNext]_webVars PROVE [List!Next]_L
    OBVIOUS
  <2>0. request \in [Server -> Request] /\ request' \in [Server -> Request]
    BY DEF FeedInv
  <2> HIDE DEF R
  <2>1. CASE UNCHANGED feedVars
    BY <2>1 DEF feedVars, Feed!feedsText, R
  <2>2. ASSUME NEW h \in Server, NEW follow, NEW unfollow, Feed!Ask(h, follow, unfollow)
        PROVE  List!Ask(h)
    <3>1. /\ Feed!At(h, "idle") /\ there /\ UNCHANGED <<feeds, there>>
          /\ \A g \in Server : g # h => request'[g] = request[g]
          /\ request'[h].at = "asked"
      BY <2>0, <2>2 DEF Feed!Ask
    <3>2. R' = [R EXCEPT ![h] = Asked(request'[h])] /\ R[h] = Asked(request[h])
      BY <1>2, <2>0, <3>1
    <3>3. Asked(request'[h]).asks /\ ~Asked(request[h]).asks
      BY <3>1 DEF Asked, Feed!At
    <3>4. R'[h] = Asked(request'[h])
      BY <2>0 DEF R
    <3> QED BY <3>1, <3>2, <3>3, <3>4 DEF List!Ask, Feed!feedsText, R
  <2>3. ASSUME NEW h \in Server, Feed!Read(h) PROVE UNCHANGED L
    <3>1. /\ Feed!At(h, "asked") /\ UNCHANGED <<feeds, there>>
          /\ request' = [request EXCEPT ![h].at = "read", ![h].read = Feed!feedsText]
      BY <2>3 DEF Feed!Read
    <3>2. /\ \A g \in Server : g # h => request'[g] = request[g]
          /\ request'[h].follow = request[h].follow /\ request'[h].unfollow = request[h].unfollow
          /\ request'[h].at = "read"
      BY <2>0, <3>1 DEF Request
    <3>3. Asked(request'[h]) = Asked(request[h])
      BY <3>1, <3>2 DEF Asked, Feed!At
    <3>4. R' = R
      BY <3>2, <3>3 DEF R
    <3> QED BY <3>1, <3>4 DEF Feed!feedsText
  <2>4. ASSUME NEW h \in Server, Feed!Release(h), ~Feed!At(h, "idle")
        PROVE  List!Ends(h) /\ R[h].asks
    <3>1. request' = [request EXCEPT ![h] = Feed!Idle]
      BY <2>4 DEF Feed!Release
    <3>2. (\A g \in Server : g # h => request'[g] = request[g]) /\ request'[h] = Feed!Idle
      BY <2>0, <3>1
    <3>3. R' = [R EXCEPT ![h] = Asked(request'[h])] /\ R[h] = Asked(request[h])
      BY <1>2, <2>0, <3>2
    <3>4. Asked(Feed!Idle) = List!NotAsked
      BY <1>0
    <3>5. R[h].asks
      <4>1. Asked(request[h]).asks
        BY <2>4 DEF Asked, Feed!At
      <4> QED BY <3>3, <4>1
    <3> QED BY <3>2, <3>3, <3>4, <3>5 DEF List!Ends, R
  <2>5. ASSUME NEW h \in Server, Feed!Write(h) PROVE List!Change(h)
    <3>1. /\ Feed!At(h, "read") /\ ~Feed!TooMany(h) /\ Feed!Release(h)
          /\ feeds' = Feed!Changed(h) /\ there' = there
      BY <2>5 DEF Feed!Write
    <3>2. request[h].read = Feed!feedsText /\ request[h] \in Request
      BY <3>1 DEF FeedInv
    <3>3. Feed!Changed(h) \in Seq(Url)
      BY <3>1, <3>2, ChangedFeeds
    <3>4. Feed!feedsText' = Feed!Changed(h)
      BY <3>1, <3>3, WebAssumption DEF Feed!feedsText
    <3>5. List!Ends(h) /\ R[h].asks
      BY <2>4, <3>1 DEF Feed!At
    <3>6. R[h].follow = ToSet(request[h].follow) /\ R[h].unfollow = request[h].unfollow
      BY DEF R, Asked
    <3> DEFINE kept == Keep(Feed!feedsText, Url \ R[h].unfollow)
               all  == Feed!feedsText'
               new  == SubSeq(all, Len(kept) + 1, Len(all))
    <3>7. /\ IsPrefix(kept, all) /\ IsInjective(new)
          /\ ToSet(new) = R[h].follow \ (ToSet(Feed!feedsText) \cup R[h].unfollow)
          /\ new = << >> \/ Cardinality(ToSet(Feed!feedsText) \cup R[h].follow) <= maxFeeds
      BY <3>1, <3>2, <3>4, <3>6, ChangedFeeds
    <3>8. /\ Len(kept) = Len(List!Keep(Feed!feedsText, Url \ R[h].unfollow))
          /\ kept = List!Keep(Feed!feedsText, Url \ R[h].unfollow)
      BY FeedOperators
    <3>9. /\ List!IsPrefix(kept, all) /\ List!IsInjective(new)
          /\ List!ToSet(new) = R[h].follow \ (List!ToSet(Feed!feedsText) \cup R[h].unfollow)
          /\ new = << >>
                \/ List!Cardinality(List!ToSet(Feed!feedsText) \cup R[h].follow) <= maxFeeds
      <4> HIDE DEF kept, all, new
      <4> QED BY <3>7, FeedOperators
    <3>10. there' = there
      BY <3>1
    <3> QED BY <3>5, <3>8, <3>9, <3>10 DEF List!Change, R
  <2>6. ASSUME NEW h \in Server, Feed!Fail(h) PROVE List!Fail(h)
    <3>1. ~Feed!At(h, "idle") /\ Feed!Release(h) /\ UNCHANGED <<feeds, there>>
      BY <2>6 DEF Feed!Fail
    <3> QED BY <2>4, <3>1 DEF List!Fail, Feed!feedsText, R
  <2>7. CASE Feed!RemoveAccount
    <3>1. there' = FALSE /\ feeds' \in {None, feeds} /\ request' = request
      BY <2>7 DEF Feed!RemoveAccount
    <3>2. Feed!feedsText' \in {Feed!feedsText, defaultFeeds}
      BY <3>1 DEF Feed!feedsText
    <3>3. List!Close
      BY <3>1, <3>2 DEF List!Close
    <3> QED BY <3>3 DEF List!Next
  <2>8. CASE FeedStep
    <3>1. CASE \E h \in Server, follow \in Pages : Feed!Ask(h, follow, {})
      BY <2>2, <3>1 DEF List!Next
    <3>2. CASE \E h \in Server, u \in Url : Feed!Ask(h, << >>, {u})
      BY <2>2, <3>2 DEF List!Next
    <3>3. CASE \E h \in Server : Feed!Write(h) \/ Feed!Fail(h)
      BY <2>5, <2>6, <3>3 DEF List!Next
    <3> QED BY <2>3, <2>7, <2>8, <3>1, <3>2, <3>3 DEF FeedStep, Feed!Next
  <2> QED BY <2>1, <2>8 DEF WebNext, EditStep, SearchStep, LimitStep, webVars
<1> QED BY <1>1, <1>3, FeedsStart, FeedsSteps, PTL
        DEF WebSpec, ImplementsFeedList, List!Spec, List!listVars

-----------------------------------------------------------------------------
(***************************************************************************)
(* The live search.  As long as no update waits for its time, the newest   *)
(* one is for what is in the box; and what an Enter waits for is never     *)
(* newer than the newest.                                                  *)
(***************************************************************************)
Update == [query : Query, went : {"open", "well", "wrong"}]

SearchInv ==
    /\ updates \in Seq(Update) /\ box \in Query /\ running = Search!newest
    /\ ~timer => IF Search!newest = 0 THEN shown = box
                 ELSE updates[Search!newest].query = box
    /\ Search!newest # 0 /\ updates[Search!newest].went = "well"
          => shown = updates[Search!newest].query
    /\ \A e \in enters :
          /\ e.update \in 0..Search!newest
          /\ e.update = Search!newest =>
                e.query = IF Search!newest = 0 THEN shown ELSE updates[Search!newest].query

LEMMA SearchStarts == WebInit => SearchInv
<1> SUFFICES ASSUME WebInit PROVE SearchInv
  OBVIOUS
<1>1. /\ box \in Query /\ shown = box /\ updates = << >> /\ running = 0 /\ enters = {}
  BY DEF WebInit, Search!Init
<1>2. updates \in Seq(Update) /\ Len(updates) = 0
  BY <1>1
<1> QED BY <1>1, <1>2 DEF SearchInv, Search!newest

\* An update that starts is the newest, and for what is in the box.
LEMMA UpdateStarts ==
    ASSUME SearchInv, Search!update
    PROVE  /\ updates' \in Seq(Update) /\ Search!newest' = Search!newest + 1
           /\ Search!newest \in Nat
           /\ updates'[Search!newest'].query = box
           /\ updates'[Search!newest'].went = "well" => shown' = box
<1> DEFINE clear == clears /\ box = Blank
           u     == [query |-> box, went |-> IF clear THEN "well" ELSE "open"]
<1>1. updates' = Append(updates, u) /\ shown' = IF clear THEN box ELSE shown
  BY DEF Search!update
<1>2. u \in Update /\ u.query = box /\ (u.went = "well" => clear)
  BY DEF SearchInv, Update
<1> HIDE DEF u, clear
<1>3. updates \in Seq(Update)
  BY DEF SearchInv
<1>4. /\ updates' \in Seq(Update) /\ Len(updates') = Len(updates) + 1
      /\ Len(updates) \in Nat /\ updates'[Len(updates) + 1] = u
  BY <1>1, <1>2, <1>3
<1> QED BY <1>1, <1>2, <1>4 DEF Search!newest

LEMMA UpdateEnds ==
    ASSUME SearchInv, NEW n \in DOMAIN updates, NEW went \in {"well", "wrong"},
           Search!Open(n), updates' = [updates EXCEPT ![n].went = went],
           shown' = IF went = "well" /\ n = Search!newest THEN updates[n].query ELSE shown,
           UNCHANGED <<box, timer, running, enters>>
    PROVE  SearchInv'
<1>1. updates \in Seq(Update) /\ n \in 1..Len(updates) /\ Len(updates) \in Nat
  BY DEF SearchInv
<1>2. /\ updates' \in Seq(Update) /\ Len(updates') = Len(updates)
      /\ \A k \in 1..Len(updates) : updates'[k].query = updates[k].query
      /\ \A k \in 1..Len(updates) : k # n => updates'[k].went = updates[k].went
      /\ updates'[n].went = went
  <2> DEFINE u == [updates[n] EXCEPT !.went = went]
  <2>1. \A k \in 1..Len(updates) : updates[k] \in Update
    BY <1>1
  <2>2. u \in Update /\ u.query = updates[n].query /\ u.went = went
    BY <1>1, <2>1 DEF Update
  <2>3. updates' = [updates EXCEPT ![n] = u]
    OBVIOUS
  <2> HIDE DEF u
  <2> QED BY <1>1, <2>2, <2>3
<1>3. Search!newest' = Search!newest /\ Search!newest = Len(updates)
  BY <1>2 DEF Search!newest
<1>4. shown' = shown \/ (Search!newest # 0 /\ shown' = updates[Search!newest].query)
  BY <1>1, <1>3
<1>5. Search!newest # 0 => updates'[Search!newest].query = updates[Search!newest].query
  BY <1>1, <1>2, <1>3
<1>6. Search!newest # 0
  BY <1>1, <1>3
<1>7. updates'[Search!newest].went = "well" => shown' = updates[Search!newest].query
  <2>1. CASE n = Search!newest
    BY <1>2, <2>1
  <2>2. CASE n # Search!newest
    BY <1>1, <1>2, <1>3, <1>6, <2>2 DEF SearchInv
  <2> QED BY <2>1, <2>2
<1> HIDE DEF Search!newest
<1> QED BY <1>2, <1>3, <1>4, <1>5, <1>6, <1>7 DEF SearchInv

LEMMA SearchSteps == SearchInv /\ [WebNext]_webVars => SearchInv'
<1> SUFFICES ASSUME SearchInv, [WebNext]_webVars PROVE SearchInv'
  OBVIOUS
<1>0. Search!newest \in Nat /\ updates \in Seq(Update)
  BY DEF SearchInv, Search!newest
<1>1. CASE UNCHANGED searchVars
  BY <1>1 DEF searchVars, SearchInv, Search!newest
<1>2. ASSUME NEW q \in Query, Search!Type(q) PROVE SearchInv'
  BY <1>2 DEF Search!Type, SearchInv, Search!newest
<1>3. CASE Search!Fire
  <2>1. /\ Search!update /\ running' = Search!newest + 1
        /\ box' = box /\ enters' = enters
    BY <1>3 DEF Search!Fire
  <2>2. /\ updates' \in Seq(Update) /\ Search!newest' = Search!newest + 1
        /\ updates'[Search!newest'].query = box
        /\ updates'[Search!newest'].went = "well" => shown' = box
    BY <2>1, UpdateStarts
  <2>3. \A e \in enters : e.update \in 0..Search!newest' /\ e.update # Search!newest'
    BY <1>0, <2>2 DEF SearchInv
  <2> QED BY <1>0, <2>1, <2>2, <2>3 DEF SearchInv
<1>4. CASE Search!Enter
  <2> DEFINE e0 == [update |-> running', query |-> box, nth |-> typed'.enters]
  <2>1. enters' = enters \cup {e0} /\ box' = box /\ timer' = FALSE
    BY <1>4 DEF Search!Enter
  <2>2. CASE timer
    <3>1. Search!update /\ running' = Search!newest + 1
      BY <1>4, <2>2 DEF Search!Enter
    <3>2. /\ updates' \in Seq(Update) /\ Search!newest' = Search!newest + 1
          /\ updates'[Search!newest'].query = box
          /\ updates'[Search!newest'].went = "well" => shown' = box
      BY <3>1, UpdateStarts
    <3>3. \A e \in enters : e.update \in 0..Search!newest' /\ e.update # Search!newest'
      BY <1>0, <3>2 DEF SearchInv
    <3>4. e0.update = Search!newest' /\ e0.query = box /\ Search!newest' # 0
      BY <1>0, <3>1, <3>2
    <3> HIDE DEF e0
    <3> QED BY <1>0, <2>1, <3>1, <3>2, <3>3, <3>4 DEF SearchInv
  <2>3. CASE ~timer
    <3>1. updates' = updates /\ shown' = shown /\ running' = running
      BY <1>4, <2>3 DEF Search!Enter
    <3>2. Search!newest' = Search!newest
      BY <3>1 DEF Search!newest
    <3>3. e0.update = Search!newest /\ e0.query = box
      BY <3>1 DEF SearchInv
    <3> HIDE DEF e0
    <3> QED BY <1>0, <2>1, <2>3, <3>1, <3>2, <3>3 DEF SearchInv
  <2> QED BY <2>2, <2>3
<1>5. ASSUME NEW n \in DOMAIN updates, Search!Answer(n) PROVE SearchInv'
  BY <1>5, UpdateEnds DEF Search!Answer
<1>6. ASSUME NEW n \in DOMAIN updates, Search!FailUpdate(n) PROVE SearchInv'
  BY <1>6, UpdateEnds DEF Search!FailUpdate
<1>7. ASSUME NEW e \in enters, Search!OpenFirst(e) PROVE SearchInv'
  BY <1>7 DEF Search!OpenFirst, SearchInv, Search!newest
<1> QED BY <1>1, <1>2, <1>3, <1>4, <1>5, <1>6, <1>7
        DEF WebNext, EditStep, FeedStep, SearchStep, LimitStep, webVars, Search!Next

\* Enter opens a result of what was typed (search.js:34, 51-63).
THEOREM EnterIsFresh == WebSpec => EnterOpensFresh
<1>1. SearchInv /\ [WebNext]_webVars =>
        [\A e \in enters \ enters' :
           e.update = Search!newest
           /\ (Search!newest = 0 \/ updates[Search!newest].went = "well")
             => shown = e.query]_searchVars
  BY DEF SearchInv
<1> QED BY <1>1, SearchStarts, SearchSteps, PTL
        DEF WebSpec, EnterOpensFresh, Search!EnterOpensFresh, searchVars, Search!searchVars

-----------------------------------------------------------------------------
(***************************************************************************)
(* The limit on attempts.  What the map has for a key are the times of     *)
(* attempts that were allowed, each of another (Counts), and as long as    *)
(* the map was never forgotten they are all of the window (In).            *)
(***************************************************************************)
Attempt == [key : Key, time : Nat, allowed : BOOLEAN]

\* The attempts of L with key k that were allowed in the window that ends at t.
In(L, k, t) == {i \in 1..Len(L) : L[i].key = k /\ L[i].allowed /\ t - L[i].time < per}

KeysOf(L) == {L[i].key : i \in 1..Len(L)}

Counts(q, L, k, e) ==
    /\ e \in [1..Len(q) -> 1..Len(L)]
    /\ \A l, m \in 1..Len(q) : e[l] = e[m] => l = m
    /\ \A m \in 1..Len(q) : L[e[m]].key = k /\ L[e[m]].allowed /\ L[e[m]].time = q[m]

Covers(q, L, k, e, t) == \A i \in In(L, k, t) : \E m \in 1..Len(q) : e[m] = i

\* What q has for key k is right for the attempts L.
Right(q, L, k, t) ==
    /\ q \in Seq(Nat)
    /\ \E e : Counts(q, L, k, e) /\ (Cardinality(KeysOf(L)) <= MaxKeys => Covers(q, L, k, e, t))

HitsOf(f, k) == IF k \in DOMAIN f THEN f[k] ELSE << >>

LimitInv ==
    /\ now \in Nat
    /\ log \in Seq(Attempt)
    /\ \A i \in 1..Len(log) : log[i].time <= now
    /\ DOMAIN hits \subseteq KeysOf(log)
    /\ \A k \in Key : Right(HitsOf(hits, k), log, k, now)
    /\ LimitIsExact

LEMMA KeysFinite ==
    ASSUME NEW L \in Seq(Attempt)
    PROVE  IsFiniteSet(KeysOf(L)) /\ Cardinality(KeysOf(L)) \in Nat
<1> DEFINE f == [i \in 1..Len(L) |-> L[i].key]
<1>1. f \in Surjection(1..Len(L), KeysOf(L))
  BY DEF Surjection, KeysOf
<1>2. IsFiniteSet(1..Len(L))
  BY FS_Interval
<1> HIDE DEF f
<1> QED BY <1>1, <1>2, FS_Surjection, FS_CardinalityType

LEMMA MoreKeys ==
    ASSUME NEW L \in Seq(Attempt), NEW a \in Attempt
    PROVE  /\ KeysOf(Append(L, a)) = KeysOf(L) \cup {a.key}
           /\ Cardinality(KeysOf(Append(L, a))) <= MaxKeys => Cardinality(KeysOf(L)) <= MaxKeys
<1> DEFINE M == Append(L, a)
<1>1. /\ M \in Seq(Attempt) /\ Len(L) \in Nat /\ Len(M) = Len(L) + 1
      /\ M[Len(M)] = a /\ \A i \in 1..Len(L) : M[i] = L[i]
  OBVIOUS
<1> HIDE DEF M
<1>2. KeysOf(M) = KeysOf(L) \cup {a.key}
  <2>1. 1..Len(M) = 1..Len(L) \cup {Len(M)}
    BY <1>1
  <2> QED BY <1>1, <2>1 DEF KeysOf
<1>3. IsFiniteSet(KeysOf(M)) /\ Cardinality(KeysOf(M)) \in Nat /\ Cardinality(KeysOf(L)) \in Nat
  BY <1>1, KeysFinite
<1>4. Cardinality(KeysOf(L)) <= Cardinality(KeysOf(M))
  BY <1>2, <1>3, FS_Subset
<1>5. MaxKeys \in Nat
  BY WebAssumption
<1> QED BY <1>2, <1>3, <1>4, <1>5 DEF M

\* As many as the times, or fewer, when they are all.
LEMMA LenIsCount ==
    ASSUME NEW L \in Seq(Attempt), NEW k, NEW t \in Nat, NEW q \in Seq(Nat), NEW e, Counts(q, L, k, e),
           \A m \in 1..Len(q) : t - q[m] < per
    PROVE  /\ Cardinality(In(L, k, t)) \in Nat
           /\ Len(q) <= Cardinality(In(L, k, t))
           /\ Covers(q, L, k, e, t) => Cardinality(In(L, k, t)) = Len(q)
<1> DEFINE B == In(L, k, t)
           D == 1..Len(q)
<1>0. Len(q) \in Nat /\ Len(L) \in Nat
  OBVIOUS
<1>1. IsFiniteSet(B)
  <2>1. IsFiniteSet(1..Len(L))
    BY <1>0, FS_Interval
  <2> QED BY <2>1, FS_Subset DEF In
<1>2. IsFiniteSet(D) /\ Cardinality(D) = Len(q)
  <2>1. \A len \in Nat : IsFiniteSet(1..len) /\ Cardinality(1..len) = len
    <3> SUFFICES ASSUME NEW len \in Nat
                 PROVE  IsFiniteSet(1..len) /\ Cardinality(1..len) = len
      OBVIOUS
    <3>1. IsFiniteSet(1..len)
      BY FS_Interval
    <3>2. Cardinality(1..len) = IF 1 > len THEN 0 ELSE len - 1 + 1
      BY FS_Interval
    <3> QED BY <3>1, <3>2
  <2> QED BY <1>0, <2>1
<1>3. \A m \in D : e[m] \in B
  BY DEF Counts, In
<1>4. e \in Injection(D, B)
  <2>1. e \in [D -> B]
    BY <1>3 DEF Counts
  <2> HIDE DEF B
  <2> QED BY <2>1 DEF Injection, IsInjective, Counts
<1>5. Covers(q, L, k, e, t) => e \in Surjection(D, B)
  <2>1. e \in [D -> B]
    BY <1>3 DEF Counts
  <2> QED BY <2>1 DEF Surjection, Covers
<1> HIDE DEF B, D
<1>6. Cardinality(D) <= Cardinality(B) /\ Cardinality(B) \in Nat
  BY <1>1, <1>4, FS_Injection, FS_CardinalityType
<1>7. Covers(q, L, k, e, t) => Cardinality(B) <= Cardinality(D)
  BY <1>2, <1>5, FS_Surjection
<1>8. /\ Cardinality(B) \in Nat /\ Len(q) <= Cardinality(B)
      /\ Covers(q, L, k, e, t) => Cardinality(B) = Len(q)
  BY <1>0, <1>2, <1>6, <1>7
<1> QED BY <1>8 DEF B

\* What is kept of some times is embedded in them.
Embedding(d, r, q, W) ==
    /\ d \in [1..Len(r) -> 1..Len(q)]
    /\ \A m \in 1..Len(r) : r[m] = q[d[m]]
    /\ \A l, m \in 1..Len(r) : l < m => d[l] < d[m]
    /\ \A j \in 1..Len(q) : q[j] \in W => \E m \in 1..Len(r) : d[m] = j

LEMMA TimesEmbed ==
    ASSUME NEW q \in Seq(Nat), NEW W
    PROVE  \E d : Embedding(d, Keep(q, W), q, W)
<1>1. PICK d \in [1..Len(Keep(q, W)) -> 1..Len(q)] :
         /\ \A m \in 1..Len(Keep(q, W)) : Keep(q, W)[m] = q[d[m]]
         /\ \A l, m \in 1..Len(Keep(q, W)) : l < m => d[l] < d[m]
         /\ \A j \in 1..Len(q) : q[j] \in W => \E m \in 1..Len(Keep(q, W)) : d[m] = j
  BY KeepEmbeds
<1>2. Embedding(d, Keep(q, W), q, W)
  BY <1>1 DEF Embedding
<1> QED BY <1>2

\* The times that are in the window still.
LEMMA RecentIsRight ==
    ASSUME NEW L \in Seq(Attempt), NEW k, NEW t \in Nat, NEW q, Right(q, L, k, t),
           \A i \in 1..Len(L) : L[i].time <= t
    PROVE  LET r == Keep(q, {s \in 0..t : t - s < per})
           IN  Right(r, L, k, t) /\ \A m \in 1..Len(r) : r[m] <= t /\ t - r[m] < per
<1> DEFINE W == {s \in 0..t : t - s < per}
           r == Keep(q, W)
<1>1. q \in Seq(Nat) /\ Len(q) \in Nat
  BY DEF Right
<1>2. PICK e : /\ Counts(q, L, k, e)
               /\ Cardinality(KeysOf(L)) <= MaxKeys => Covers(q, L, k, e, t)
  BY DEF Right
<1>3. r \in Seq(W \cap Nat)
  BY <1>1, KeepSet
<1>n. PICK d : Embedding(d, r, q, W)
  <2> HIDE DEF W
  <2> QED BY <1>1, TimesEmbed
<1> HIDE DEF r
<1>4. /\ d \in [1..Len(r) -> 1..Len(q)]
      /\ \A m \in 1..Len(r) : r[m] = q[d[m]]
      /\ \A l, m \in 1..Len(r) : l < m => d[l] < d[m]
      /\ \A j \in 1..Len(q) : q[j] \in W => \E m \in 1..Len(r) : d[m] = j
  <2> HIDE DEF W
  <2> QED BY <1>n DEF Embedding
<1>5. r \in Seq(Nat) /\ Len(r) \in Nat /\ \A m \in 1..Len(r) : r[m] \in W
  BY <1>3
<1> DEFINE c == [m \in 1..Len(r) |-> e[d[m]]]
<1>6. Counts(r, L, k, c)
  <2>1. \A l, m \in 1..Len(r) : d[l] = d[m] => l = m
    <3> SUFFICES ASSUME NEW l \in 1..Len(r), NEW m \in 1..Len(r), d[l] = d[m], l # m
                 PROVE  FALSE
      OBVIOUS
    <3>1. l < m \/ m < l
      BY <1>5
    <3>2. d[l] \in 1..Len(q) /\ d[m] \in 1..Len(q)
      BY <1>4
    <3>3. d[l] < d[m] \/ d[m] < d[l]
      BY <1>4, <3>1
    <3> QED BY <3>2, <3>3
  <2>2. c \in [1..Len(r) -> 1..Len(L)]
    BY <1>2, <1>4 DEF Counts
  <2>3. ASSUME NEW l \in 1..Len(r), NEW m \in 1..Len(r), c[l] = c[m] PROVE l = m
    <3>1. e[d[l]] = e[d[m]] /\ d[l] \in 1..Len(q) /\ d[m] \in 1..Len(q)
      BY <1>4, <2>3
    <3>2. d[l] = d[m]
      BY <1>2, <3>1 DEF Counts
    <3> QED BY <2>1, <3>2
  <2>4. \A m \in 1..Len(r) : L[c[m]].key = k /\ L[c[m]].allowed /\ L[c[m]].time = r[m]
    BY <1>2, <1>4 DEF Counts
  <2> HIDE DEF c
  <2> QED BY <2>2, <2>3, <2>4 DEF Counts
<1>7. ASSUME Covers(q, L, k, e, t) PROVE Covers(r, L, k, c, t)
  <2> SUFFICES ASSUME NEW i \in In(L, k, t) PROVE \E m \in 1..Len(r) : c[m] = i
    BY DEF Covers
  <2>1. PICK j \in 1..Len(q) : e[j] = i
    BY <1>7 DEF Covers
  <2>2. i \in 1..Len(L) /\ t - L[i].time < per /\ L[i].time \in Nat /\ L[i].time <= t
    <3>1. i \in 1..Len(L) /\ t - L[i].time < per
      BY DEF In
    <3>2. L[i] \in Attempt
      BY <3>1
    <3> QED BY <3>1, <3>2 DEF Attempt
  <2>3. q[j] \in W
    BY <1>2, <2>1, <2>2 DEF Counts
  <2>4. PICK m \in 1..Len(r) : d[m] = j
    BY <1>4, <2>3
  <2> QED BY <2>1, <2>4
<1> HIDE DEF c
<1>8. Right(r, L, k, t)
  BY <1>2, <1>5, <1>6, <1>7 DEF Right
<1>9. \A m \in 1..Len(r) : r[m] <= t /\ t - r[m] < per
  BY <1>5
<1> QED BY <1>8, <1>9 DEF r

\* One more attempt, of another key or refused.
LEMMA OthersAreRight ==
    ASSUME NEW L \in Seq(Attempt), NEW k, NEW t \in Nat, NEW q, Right(q, L, k, t),
           NEW a \in Attempt, a.key # k \/ ~a.allowed
    PROVE  Right(q, Append(L, a), k, t)
<1> DEFINE M == Append(L, a)
<1>1. /\ M \in Seq(Attempt) /\ Len(L) \in Nat /\ Len(M) = Len(L) + 1
      /\ M[Len(M)] = a /\ \A i \in 1..Len(L) : M[i] = L[i]
  OBVIOUS
<1> HIDE DEF M
<1>2. PICK e : /\ Counts(q, L, k, e)
               /\ Cardinality(KeysOf(L)) <= MaxKeys => Covers(q, L, k, e, t)
  BY DEF Right
<1>3. q \in Seq(Nat)
  BY DEF Right
<1>4. Counts(q, M, k, e)
  <2>1. e \in [1..Len(q) -> 1..Len(M)]
    BY <1>1, <1>2 DEF Counts
  <2>2. \A m \in 1..Len(q) : M[e[m]] = L[e[m]]
    BY <1>1, <1>2 DEF Counts
  <2> QED BY <1>2, <2>1, <2>2 DEF Counts
<1>5. In(M, k, t) \subseteq In(L, k, t)
  <2> SUFFICES ASSUME NEW i \in In(M, k, t) PROVE i \in In(L, k, t)
    OBVIOUS
  <2>1. i \in 1..Len(M) /\ M[i].key = k /\ M[i].allowed /\ t - M[i].time < per
    BY DEF In
  <2>2. i # Len(M)
    BY <1>1, <2>1
  <2>3. i \in 1..Len(L)
    BY <1>1, <2>1, <2>2
  <2> QED BY <1>1, <2>1, <2>3 DEF In
<1>6. Cardinality(KeysOf(M)) <= MaxKeys => Cardinality(KeysOf(L)) <= MaxKeys
  BY <1>1, MoreKeys DEF M
<1> QED BY <1>2, <1>3, <1>4, <1>5, <1>6 DEF Right, Covers, M

\* One more attempt that is allowed: its time is put in.
LEMMA AllowedIsRight ==
    ASSUME NEW L \in Seq(Attempt), NEW k \in Key, NEW t \in Nat, NEW q, Right(q, L, k, t)
    PROVE  Right(Append(q, t), Append(L, [key |-> k, time |-> t, allowed |-> TRUE]), k, t)
<1> DEFINE a == [key |-> k, time |-> t, allowed |-> TRUE]
           M == Append(L, a)
           r == Append(q, t)
<1>1. a \in Attempt /\ a.key = k /\ a.allowed /\ a.time = t
  BY DEF Attempt
<1> HIDE DEF a
<1>2. /\ M \in Seq(Attempt) /\ Len(L) \in Nat /\ Len(M) = Len(L) + 1
      /\ M[Len(M)] = a /\ \A i \in 1..Len(L) : M[i] = L[i]
  BY <1>1
<1>3. q \in Seq(Nat) /\ Len(q) \in Nat
  BY DEF Right
<1>4. /\ r \in Seq(Nat) /\ Len(r) = Len(q) + 1
      /\ r[Len(r)] = t /\ \A m \in 1..Len(q) : r[m] = q[m]
  BY <1>3
<1>5. PICK e : /\ Counts(q, L, k, e)
               /\ Cardinality(KeysOf(L)) <= MaxKeys => Covers(q, L, k, e, t)
  BY DEF Right
<1>6. Cardinality(KeysOf(M)) <= MaxKeys => Cardinality(KeysOf(L)) <= MaxKeys
  BY <1>1, MoreKeys
<1> HIDE DEF M, r
<1> DEFINE d == [m \in 1..Len(r) |-> IF m = Len(r) THEN Len(M) ELSE e[m]]
<1>7. \A m \in 1..Len(r) : m # Len(r) => m \in 1..Len(q)
  BY <1>3, <1>4
<1>8. \A m \in 1..Len(q) : e[m] \in 1..Len(L) /\ L[e[m]].key = k /\ L[e[m]].allowed /\ L[e[m]].time = q[m]
  BY <1>5 DEF Counts
<1>9. Counts(r, M, k, d)
  <2>1. d \in [1..Len(r) -> 1..Len(M)]
    BY <1>2, <1>7, <1>8
  <2>2. ASSUME NEW l \in 1..Len(r), NEW m \in 1..Len(r), d[l] = d[m] PROVE l = m
    <3>1. \A i \in 1..Len(L) : i # Len(M)
      BY <1>2
    <3> QED BY <1>5, <1>7, <1>8, <2>2, <3>1 DEF Counts
  <2>3. \A m \in 1..Len(r) : M[d[m]].key = k /\ M[d[m]].allowed /\ M[d[m]].time = r[m]
    BY <1>1, <1>2, <1>4, <1>7, <1>8
  <2> HIDE DEF d
  <2> QED BY <2>1, <2>2, <2>3 DEF Counts
<1>10. ASSUME Covers(q, L, k, e, t) PROVE Covers(r, M, k, d, t)
  <2> SUFFICES ASSUME NEW i \in In(M, k, t) PROVE \E m \in 1..Len(r) : d[m] = i
    BY DEF Covers
  <2>1. i \in 1..Len(M) /\ M[i].key = k /\ M[i].allowed /\ t - M[i].time < per
    BY DEF In
  <2>2. CASE i = Len(M)
    <3>1. Len(r) \in 1..Len(r)
      BY <1>3, <1>4
    <3>2. d[Len(r)] = i
      BY <2>2, <3>1
    <3> QED BY <3>1, <3>2
  <2>3. CASE i # Len(M)
    <3>1. i \in 1..Len(L)
      BY <1>2, <2>1, <2>3
    <3>2. i \in In(L, k, t)
      BY <1>2, <2>1, <3>1 DEF In
    <3>3. PICK m \in 1..Len(q) : e[m] = i
      BY <1>10, <3>2 DEF Covers
    <3>4. m \in 1..Len(r) /\ m # Len(r)
      BY <1>3, <1>4
    <3>5. d[m] = i
      BY <3>3, <3>4
    <3> QED BY <3>4, <3>5
  <2> QED BY <2>2, <2>3
<1> HIDE DEF d
<1> QED BY <1>4, <1>5, <1>6, <1>9, <1>10 DEF Right, M, r, a

\* As time goes by, attempts leave the window.
LEMMA LaterIsRight ==
    ASSUME NEW L \in Seq(Attempt), NEW k, NEW t \in Nat, NEW q, Right(q, L, k, t)
    PROVE  Right(q, L, k, t + 1)
<1>1. In(L, k, t + 1) \subseteq In(L, k, t)
  <2> SUFFICES ASSUME NEW i \in In(L, k, t + 1) PROVE i \in In(L, k, t)
    OBVIOUS
  <2>1. i \in 1..Len(L) /\ L[i].key = k /\ L[i].allowed /\ (t + 1) - L[i].time < per
    BY DEF In
  <2>2. L[i] \in Attempt
    BY <2>1
  <2>3. L[i].time \in Nat
    BY <2>2 DEF Attempt
  <2>p. per \in Nat
    BY WebAssumption
  <2>4. t - L[i].time < per
    BY <2>1, <2>3, <2>p
  <2> QED BY <2>1, <2>4 DEF In
<1> QED BY <1>1 DEF Right, Covers

\* A map that is empty, since it was forgotten or nobody came yet.
LEMMA NothingIsRight ==
    ASSUME NEW L \in Seq(Attempt), NEW k, NEW t \in Nat, Cardinality(KeysOf(L)) <= MaxKeys => L = << >>
    PROVE  Right(<< >>, L, k, t)
<1> DEFINE e == [m \in 1..0 |-> 0]
<1>1. << >> \in Seq(Nat) /\ Len(<< >>) = 0 /\ 1..0 = {}
  OBVIOUS
<1>2. Counts(<< >>, L, k, e)
  <2>1. e \in [1..0 -> 1..Len(L)]
    BY <1>1
  <2> HIDE DEF e
  <2> QED BY <1>1, <2>1 DEF Counts
<1>3. ASSUME L = << >> PROVE Covers(<< >>, L, k, e, t)
  BY <1>1, <1>3 DEF Covers, In
<1> HIDE DEF e
<1> QED BY <1>1, <1>2, <1>3 DEF Right

-----------------------------------------------------------------------------
\* Attempt j of L was answered as it should.
Exact(L, j) ==
    LET before == {i \in 1..(j - 1) : /\ L[i].key = L[j].key /\ L[i].allowed
                                      /\ L[j].time - L[i].time < per}
        keys   == {L[i].key : i \in 1..(j - 1)}
    IN  IF L[j].allowed THEN Cardinality(before) >= attempts => Cardinality(keys) > MaxKeys
        ELSE Cardinality(before) >= attempts

LEMMA LimitOperators ==
    /\ \A s, T : Limit!Keep(s, T) = Keep(s, T)
    /\ \A S : Limit!Cardinality(S) = Cardinality(S)
<1>1. \A s, T : Limit!Keep(s, T) = Keep(s, T)
  BY DEF Limit!Keep, Keep
<1>2. \A S : Limit!Cardinality(S) = Cardinality(S)
  BY DEF Limit!Cardinality, Cardinality
<1> QED BY <1>1, <1>2

LEMMA AllExact == LimitIsExact <=> \A j \in DOMAIN log : Exact(log, j)
BY LimitOperators DEF LimitIsExact, Limit!LimitIsExact, Exact

LEMMA OneMoreExact ==
    ASSUME NEW L \in Seq(Attempt), NEW a \in Attempt, \A j \in 1..Len(L) : Exact(L, j),
           IF a.allowed
           THEN Cardinality(In(L, a.key, a.time)) >= attempts => Cardinality(KeysOf(L)) > MaxKeys
           ELSE Cardinality(In(L, a.key, a.time)) >= attempts
    PROVE  \A j \in 1..Len(Append(L, a)) : Exact(Append(L, a), j)
<1> DEFINE M == Append(L, a)
<1>1. /\ M \in Seq(Attempt) /\ Len(L) \in Nat /\ Len(M) = Len(L) + 1
      /\ M[Len(M)] = a /\ \A i \in 1..Len(L) : M[i] = L[i]
  OBVIOUS
<1> HIDE DEF M
<1>2. ASSUME NEW j \in 1..Len(L) PROVE Exact(M, j)
  <2>1. /\ \A i \in 1..(j - 1) : M[i] = L[i]
        /\ M[j] = L[j]
    BY <1>1
  <2>2. /\ {i \in 1..(j - 1) : M[i].key = M[j].key /\ M[i].allowed /\ M[j].time - M[i].time < per}
           = {i \in 1..(j - 1) : L[i].key = L[j].key /\ L[i].allowed /\ L[j].time - L[i].time < per}
        /\ {M[i].key : i \in 1..(j - 1)} = {L[i].key : i \in 1..(j - 1)}
    BY <2>1
  <2> QED BY <1>2, <2>1, <2>2 DEF Exact
<1>3. Exact(M, Len(M))
  <2>1. Len(M) - 1 = Len(L)
    BY <1>1
  <2>2. /\ {i \in 1..(Len(M) - 1) : M[i].key = M[Len(M)].key /\ M[i].allowed
                                    /\ M[Len(M)].time - M[i].time < per} = In(L, a.key, a.time)
        /\ {M[i].key : i \in 1..(Len(M) - 1)} = KeysOf(L)
    BY <1>1, <2>1 DEF In, KeysOf
  <2>3. M[Len(M)].allowed = a.allowed
    BY <1>1
  <2> QED BY <2>2, <2>3 DEF Exact
<1>4. \A j \in 1..Len(M) : j \in 1..Len(L) \/ j = Len(M)
  BY <1>1
<1> QED BY <1>2, <1>3, <1>4 DEF M

\* A limiter that just started.
LEMMA NothingKnown ==
    ASSUME NEW L, L = << >>
    PROVE  /\ L \in Seq(Attempt) /\ Len(L) = 0 /\ DOMAIN L = {}
           /\ KeysOf(L) = {}
           /\ \A k \in Key, t \in Nat : Right(HitsOf(L, k), L, k, t)
<1>1. L \in Seq(Attempt) /\ Len(L) = 0 /\ DOMAIN L = {} /\ 1..0 = {}
  OBVIOUS
<1>2. KeysOf(L) = {}
  BY <1>1 DEF KeysOf
<1>3. ASSUME NEW k \in Key, NEW t \in Nat PROVE Right(HitsOf(L, k), L, k, t)
  <2>1. HitsOf(L, k) = << >>
    BY <1>1 DEF HitsOf
  <2> QED BY <1>1, <2>1, NothingIsRight
<1> QED BY <1>1, <1>2, <1>3

LEMMA LimitStarts == WebInit => LimitInv
<1> SUFFICES ASSUME WebInit PROVE LimitInv
  OBVIOUS
<1>1. now = 0 /\ hits = << >> /\ log = << >>
  BY DEF WebInit, Limit!Init
<1>2. /\ now \in Nat /\ log \in Seq(Attempt) /\ Len(log) = 0 /\ DOMAIN log = {} /\ DOMAIN hits = {}
      /\ \A k \in Key : Right(HitsOf(hits, k), log, k, now)
  BY <1>1, NothingKnown
<1>3. LimitIsExact
  BY <1>2, AllExact
<1> QED BY <1>2, <1>3 DEF LimitInv

LEMMA AllowStep ==
    ASSUME LimitInv, NEW k \in Key, Limit!allow(k)
    PROVE  LimitInv'
<1> DEFINE map    == Limit!Map
           q      == HitsOf(map, k)
           recent == Keep(q, {t \in 0..now : now - t < per})
           yes    == Len(recent) < attempts
           a      == [key |-> k, time |-> now, allowed |-> yes]
<1>0. /\ now \in Nat /\ log \in Seq(Attempt) /\ Len(log) \in Nat /\ DOMAIN log = 1..Len(log)
      /\ \A i \in 1..Len(log) : log[i].time <= now
      /\ DOMAIN hits \subseteq KeysOf(log)
      /\ \A j \in 1..Len(log) : Exact(log, j)
      /\ MaxKeys \in Nat /\ attempts \in Nat
  <2>1. MaxKeys \in Nat /\ attempts \in Nat
    BY WebAssumption
  <2>2. log \in Seq(Attempt)
    BY DEF LimitInv
  <2>3. Len(log) \in Nat /\ DOMAIN log = 1..Len(log)
    BY <2>2
  <2> QED BY <2>1, <2>2, <2>3, AllExact DEF LimitInv
<1>1. /\ log' = Append(log, a)
      /\ hits' = [x \in DOMAIN map \cup {k} |->
                    IF x # k THEN map[x] ELSE IF yes THEN Append(recent, now) ELSE recent]
      /\ now' = now
  BY LimitOperators DEF Limit!allow, Limit!Recent, HitsOf
<1>2. IsFiniteSet(KeysOf(log)) /\ Cardinality(KeysOf(log)) \in Nat
  BY <1>0, KeysFinite
<1>3. /\ DOMAIN map \subseteq KeysOf(log)
      /\ \A x \in Key : Right(HitsOf(map, x), log, x, now)
  <2>1. CASE map = hits
    BY <1>0, <2>1 DEF LimitInv
  <2>2. CASE map # hits
    <3>1. Cardinality(DOMAIN hits) > MaxKeys /\ map = << >>
      BY <2>2, LimitOperators DEF Limit!Map
    <3>2. Cardinality(KeysOf(log)) > MaxKeys
      <4>1. Cardinality(DOMAIN hits) <= Cardinality(KeysOf(log)) /\ IsFiniteSet(DOMAIN hits)
        BY <1>0, <1>2, FS_Subset
      <4> QED BY <1>0, <1>2, <3>1, <4>1, FS_CardinalityType
    <3>3. DOMAIN map = {}
      BY <3>1
    <3>4. \A x : HitsOf(map, x) = << >>
      BY <3>3 DEF HitsOf
    <3>5. ~(Cardinality(KeysOf(log)) <= MaxKeys)
      BY <1>0, <1>2, <3>2
    <3> QED BY <1>0, <3>3, <3>4, <3>5, NothingIsRight
  <2> QED BY <2>1, <2>2
<1> HIDE DEF map, q
<1>4. Right(recent, log, k, now) /\ \A m \in 1..Len(recent) : recent[m] <= now /\ now - recent[m] < per
  BY <1>0, <1>3, RecentIsRight DEF q
<1> HIDE DEF recent
<1>5. recent \in Seq(Nat) /\ Len(recent) \in Nat
  BY <1>4 DEF Right
<1>6. a \in Attempt /\ a.key = k /\ a.time = now /\ a.allowed = yes
  BY <1>0 DEF Attempt
<1>7. IF yes THEN Cardinality(In(log, k, now)) >= attempts => Cardinality(KeysOf(log)) > MaxKeys
      ELSE Cardinality(In(log, k, now)) >= attempts
  <2>1. PICK e : /\ Counts(recent, log, k, e)
                 /\ Cardinality(KeysOf(log)) <= MaxKeys => Covers(recent, log, k, e, now)
    BY <1>4 DEF Right
  <2>2. /\ Cardinality(In(log, k, now)) \in Nat
        /\ Len(recent) <= Cardinality(In(log, k, now))
        /\ Covers(recent, log, k, e, now) => Cardinality(In(log, k, now)) = Len(recent)
    BY <1>0, <1>4, <1>5, <2>1, LenIsCount
  <2> QED BY <1>0, <1>2, <1>5, <2>1, <2>2
<1>8. /\ log' \in Seq(Attempt) /\ Len(log') = Len(log) + 1 /\ DOMAIN log' = 1..Len(log')
      /\ log'[Len(log')] = a /\ \A i \in 1..Len(log) : log'[i] = log[i]
  <2> HIDE DEF a
  <2> QED BY <1>0, <1>1, <1>6
<1>9. \A j \in DOMAIN log' : Exact(log', j)
  <2> HIDE DEF a, yes
  <2> QED BY <1>0, <1>1, <1>6, <1>7, <1>8, OneMoreExact
<1>10. DOMAIN hits' \subseteq KeysOf(log')
  <2>1. KeysOf(log') = KeysOf(log) \cup {k}
    <3> HIDE DEF a
    <3> QED BY <1>0, <1>1, <1>6, MoreKeys
  <2>2. DOMAIN hits' = DOMAIN map \cup {k}
    BY <1>1
  <2> QED BY <1>3, <2>1, <2>2
<1>11. ASSUME NEW x \in Key PROVE Right(HitsOf(hits', x), log', x, now)
  <2>1. CASE x # k
    <3>1. HitsOf(hits', x) = HitsOf(map, x)
      BY <1>1, <2>1 DEF HitsOf
    <3> HIDE DEF a
    <3> QED BY <1>0, <1>1, <1>3, <1>6, <2>1, <3>1, OthersAreRight
  <2>2. CASE x = k /\ yes
    <3>1. HitsOf(hits', x) = Append(recent, now)
      BY <1>1, <2>2 DEF HitsOf
    <3>2. log' = Append(log, [key |-> k, time |-> now, allowed |-> TRUE])
      BY <1>1, <2>2
    <3> QED BY <1>0, <1>4, <2>2, <3>1, <3>2, AllowedIsRight
  <2>3. CASE x = k /\ ~yes
    <3>1. HitsOf(hits', x) = recent
      BY <1>1, <2>3 DEF HitsOf
    <3> HIDE DEF a, yes
    <3> QED BY <1>0, <1>1, <1>4, <1>6, <2>3, <3>1, OthersAreRight
  <2> QED BY <2>1, <2>2, <2>3
<1>12. \A i \in 1..Len(log') : log'[i].time <= now'
  <2>1. \A i \in 1..Len(log') : i \in 1..Len(log) \/ i = Len(log')
    BY <1>0, <1>8
  <2> QED BY <1>0, <1>1, <1>6, <1>8, <2>1
<1>13. LimitIsExact'
  BY <1>9, LimitOperators DEF LimitIsExact, Limit!LimitIsExact, Exact
<1> QED BY <1>0, <1>1, <1>8, <1>10, <1>11, <1>12, <1>13 DEF LimitInv

LEMMA LimitSteps == LimitInv /\ [WebNext]_webVars => LimitInv'
<1> SUFFICES ASSUME LimitInv, [WebNext]_webVars PROVE LimitInv'
  OBVIOUS
<1>1. CASE UNCHANGED limitVars
  BY <1>1 DEF limitVars, LimitInv, LimitIsExact, Limit!LimitIsExact
<1>2. CASE Limit!Tick
  <2>1. now' = now + 1 /\ hits' = hits /\ log' = log
    BY <1>2 DEF Limit!Tick
  <2>2. /\ now \in Nat /\ log \in Seq(Attempt) /\ DOMAIN hits \subseteq KeysOf(log)
        /\ \A i \in 1..Len(log) : log[i].time <= now
        /\ \A k \in Key : Right(HitsOf(hits, k), log, k, now)
    BY DEF LimitInv
  <2>3. \A k \in Key : Right(HitsOf(hits', k), log', k, now')
    BY <2>1, <2>2, LaterIsRight
  <2>4. \A i \in 1..Len(log) : log[i].time <= now + 1
    <3> SUFFICES ASSUME NEW i \in 1..Len(log) PROVE log[i].time <= now + 1
      OBVIOUS
    <3>1. log[i] \in Attempt
      BY <2>2
    <3>2. log[i].time \in Nat
      BY <3>1 DEF Attempt
    <3> QED BY <2>2, <3>2
  <2>5. LimitIsExact'
    BY <2>1 DEF LimitInv, LimitIsExact, Limit!LimitIsExact
  <2> QED BY <2>1, <2>2, <2>3, <2>4, <2>5 DEF LimitInv
<1>3. CASE Limit!Restart
  <2>1. hits' = << >> /\ log' = << >> /\ now' = now
    BY <1>3 DEF Limit!Restart
  <2>2. LimitIsExact'
    BY <2>1 DEF LimitIsExact, Limit!LimitIsExact
  <2>3. now \in Nat
    BY DEF LimitInv
  <2>4. /\ log' \in Seq(Attempt) /\ Len(log') = 0 /\ DOMAIN hits' = {}
        /\ \A k \in Key : Right(HitsOf(hits', k), log', k, now)
    BY <2>1, <2>3, NothingKnown
  <2>5. \A i \in 1..Len(log') : log'[i].time <= now'
    BY <2>4
  <2> QED BY <2>1, <2>2, <2>3, <2>4, <2>5 DEF LimitInv
<1>4. ASSUME NEW k \in Key, Limit!allow(k) PROVE LimitInv'
  BY <1>4, AllowStep
<1> QED BY <1>1, <1>2, <1>3, <1>4
        DEF WebNext, EditStep, FeedStep, SearchStep, LimitStep, webVars, Limit!Next

\* An attempt is refused only when its key had attempts enough in the window, and is
\* allowed beyond that only when there were too many keys; for any number of keys and
\* attempts and any times (main.go:857-876).
THEOREM AttemptsAreCounted == WebSpec => []LimitIsExact
<1>1. LimitInv => LimitIsExact
  BY DEF LimitInv
<1> QED BY <1>1, LimitStarts, LimitSteps, PTL DEF WebSpec

=============================================================================
