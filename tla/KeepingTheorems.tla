-------------------------- MODULE KeepingTheorems --------------------------
(***************************************************************************)
(* Facts about Keep that hold for all sequences, proved by induction on    *)
(* the length; the induction principle comes from the fact that a set of   *)
(* natural numbers has a least element.                                    *)
(***************************************************************************)
EXTENDS Keeping, WellFoundedInduction, SequenceTheorems, TLAPS

\* A set of natural numbers that is not empty has a least element.
LEMMA LeastNat ==
    ASSUME NEW S \in SUBSET Nat, S # {}
    PROVE  \E x \in S : \A y \in S : x <= y
<1> DEFINE Lt == {ss \in Nat \X Nat : ss[1] < ss[2]}
<1>1. IsWellFoundedOn(Lt, Nat)
  BY NatLessThanWellFounded DEF OpToRel
<1>2. PICK x \in S : \A y \in S : ~(<<y, x>> \in Lt)
  <2> HIDE DEF Lt
  <2> QED BY <1>1, WFMin
<1>3. ASSUME NEW y \in S PROVE x <= y
  <2>1. x \in Nat /\ y \in Nat
    OBVIOUS
  <2>2. ~(y < x)
    BY <1>2, <2>1
  <2> QED BY <2>1, <2>2
<1> QED BY <1>3

\* Induction on the natural numbers, for a property given as a set.
LEMMA SetInduction ==
    ASSUME NEW S \in SUBSET Nat, 0 \in S, \A n \in S : n + 1 \in S
    PROVE  S = Nat
<1>1. SUFFICES ASSUME Nat \ S # {} PROVE FALSE
  OBVIOUS
<1>2. PICK m \in Nat \ S : \A y \in Nat \ S : m <= y
  BY <1>1, LeastNat
<1>3. m - 1 \in Nat /\ m - 1 < m
  BY <1>2
<1>4. m - 1 \in S
  BY <1>3, <1>2
<1> QED BY <1>4, <1>3, <1>2

-----------------------------------------------------------------------------
\* One step of Keep: what the function kept has at i, from what it has at i - 1.
KeptStep(s, T, f, i) == IF i = 0 THEN << >>
                        ELSE IF s[i] \in T THEN Append(f[i - 1], s[i])
                        ELSE f[i - 1]

\* The recursive definition in Keep has a solution.
LEMMA KeptExists ==
    ASSUME NEW s, NEW T, NEW n \in Nat
    PROVE  \E f : f = [i \in 0..n |-> KeptStep(s, T, f, i)]
<1> DEFINE M == {m \in Nat : \E f : f = [i \in 0..m |-> KeptStep(s, T, f, i)]}
<1>1. 0 \in M
  <2>1. [i \in 0..0 |-> << >>] = [i \in 0..0 |-> KeptStep(s, T, [j \in 0..0 |-> << >>], i)]
    BY DEF KeptStep
  <2> QED BY <2>1
<1>2. ASSUME NEW m \in M PROVE m + 1 \in M
  <2>1. PICK f : f = [i \in 0..m |-> KeptStep(s, T, f, i)]
    OBVIOUS
  <2> DEFINE g == [i \in 0..(m + 1) |-> IF i = m + 1 THEN KeptStep(s, T, f, i) ELSE f[i]]
  <2>2. ASSUME NEW i \in 0..(m + 1) PROVE g[i] = KeptStep(s, T, g, i)
    <3>1. i # 0 => i - 1 \in 0..m /\ i - 1 # m + 1 /\ i - 1 \in 0..(m + 1)
      OBVIOUS
    <3>2. i # 0 => g[i - 1] = f[i - 1]
      BY <3>1
    <3>3. KeptStep(s, T, g, i) = KeptStep(s, T, f, i)
      BY <3>2 DEF KeptStep
    <3>4. CASE i = m + 1
      BY <3>3, <3>4
    <3>5. CASE i # m + 1
      <4>1. i \in 0..m
        BY <3>5
      <4>2. f[i] = KeptStep(s, T, f, i)
        BY <2>1, <4>1
      <4> QED BY <3>3, <3>5, <4>2
    <3> QED BY <3>4, <3>5
  <2>3. g = [i \in 0..(m + 1) |-> KeptStep(s, T, g, i)]
    BY <2>2
  <2>4. \E h : h = [i \in 0..(m + 1) |-> KeptStep(s, T, h, i)]
    <3> HIDE DEF g
    <3> QED BY <2>3
  <2> QED BY <2>4
<1>3. M = Nat
  <2> HIDE DEF M
  <2>1. M \in SUBSET Nat BY DEF M
  <2> QED BY <1>1, <1>2, <2>1, SetInduction
<1> QED BY <1>3

\* What Keep unfolds to.
LEMMA KeepUnfolds ==
    ASSUME NEW s, NEW T, Len(s) \in Nat
    PROVE  \E f : /\ \A i \in 0..Len(s) : f[i] = KeptStep(s, T, f, i)
                  /\ Keep(s, T) = f[Len(s)]
<1> DEFINE R(f) == f = [i \in 0..Len(s) |-> KeptStep(s, T, f, i)]
           k == CHOOSE f : R(f)
<1>1. \E f : R(f)
  BY KeptExists
<1>2. R(k)
  <2> HIDE DEF R
  <2> QED BY <1>1
<1>3. Keep(s, T) = k[Len(s)]
  BY DEF Keep, KeptStep
<1>4. \A i \in 0..Len(s) : k[i] = KeptStep(s, T, k, i)
  <2> HIDE DEF k
  <2> QED BY <1>2
<1> HIDE DEF k
<1> QED BY <1>3, <1>4

LEMMA ToSetAppend ==
    ASSUME NEW S, NEW q \in Seq(S), NEW e
    PROVE  ToSet(Append(q, e)) = ToSet(q) \cup {e}
<1>1. DOMAIN Append(q, e) = 1..(Len(q) + 1) /\ DOMAIN q = 1..Len(q) /\ Len(q) \in Nat
  OBVIOUS
<1>2. \A i \in 1..Len(q) : Append(q, e)[i] = q[i]
  OBVIOUS
<1>3. Append(q, e)[Len(q) + 1] = e
  OBVIOUS
<1> QED BY <1>1, <1>2, <1>3 DEF ToSet

LEMMA ToSetConcat ==
    ASSUME NEW S, NEW p \in Seq(S), NEW q \in Seq(S)
    PROVE  /\ p \o q \in Seq(S)
           /\ ToSet(p \o q) = ToSet(p) \cup ToSet(q)
<1>1. /\ p \o q \in Seq(S)
      /\ DOMAIN (p \o q) = 1..(Len(p) + Len(q))
      /\ DOMAIN p = 1..Len(p) /\ DOMAIN q = 1..Len(q)
      /\ Len(p) \in Nat /\ Len(q) \in Nat
  OBVIOUS
<1>2. ASSUME NEW x \in ToSet(p) PROVE x \in ToSet(p \o q)
  <2>1. PICK i \in 1..Len(p) : x = p[i]
    BY <1>1 DEF ToSet
  <2>2. i \in 1..(Len(p) + Len(q)) /\ (p \o q)[i] = p[i]
    BY <1>1
  <2> QED BY <2>1, <2>2, <1>1 DEF ToSet
<1>3. ASSUME NEW x \in ToSet(q) PROVE x \in ToSet(p \o q)
  <2>1. PICK i \in 1..Len(q) : x = q[i]
    BY <1>1 DEF ToSet
  <2>2. Len(p) + i \in 1..(Len(p) + Len(q)) /\ (p \o q)[Len(p) + i] = q[i]
    BY <1>1
  <2> QED BY <2>1, <2>2, <1>1 DEF ToSet
<1>4. ASSUME NEW x \in ToSet(p \o q) PROVE x \in ToSet(p) \cup ToSet(q)
  <2>1. PICK i \in 1..(Len(p) + Len(q)) : x = (p \o q)[i]
    BY <1>1 DEF ToSet
  <2>2. CASE i <= Len(p)
    <3>1. i \in 1..Len(p) /\ (p \o q)[i] = p[i]
      BY <2>2, <1>1
    <3> QED BY <3>1, <2>1, <1>1 DEF ToSet
  <2>3. CASE ~(i <= Len(p))
    <3>1. i - Len(p) \in 1..Len(q) /\ (p \o q)[i] = q[i - Len(p)]
      BY <2>3, <1>1
    <3> QED BY <3>1, <2>1, <1>1 DEF ToSet
  <2> QED BY <2>2, <2>3
<1> QED BY <1>1, <1>2, <1>3, <1>4

\* Keep gives the lines of s that are in T, and no other.
LEMMA KeepSet ==
    ASSUME NEW S, NEW T, NEW s \in Seq(S)
    PROVE  /\ Keep(s, T) \in Seq(T \cap S)
           /\ ToSet(Keep(s, T)) = ToSet(s) \cap T
<1>0. Len(s) \in Nat /\ DOMAIN s = 1..Len(s)
  OBVIOUS
<1>1. PICK f : /\ \A i \in 0..Len(s) : f[i] = KeptStep(s, T, f, i)
               /\ Keep(s, T) = f[Len(s)]
  BY <1>0, KeepUnfolds
<1> DEFINE upto(i) == {s[j] : j \in 1..i}
           M == {i \in Nat : i <= Len(s) => /\ f[i] \in Seq(T \cap S)
                                            /\ ToSet(f[i]) = upto(i) \cap T}
<1>2. 0 \in M
  <2>1. f[0] = << >>
    BY <1>0, <1>1 DEF KeptStep
  <2>2. f[0] \in Seq(T \cap S) /\ ToSet(f[0]) = {}
    BY <2>1 DEF ToSet
  <2> QED BY <2>2
<1>3. ASSUME NEW i \in M PROVE i + 1 \in M
  <2>1. SUFFICES ASSUME i + 1 <= Len(s)
                 PROVE  /\ f[i + 1] \in Seq(T \cap S)
                        /\ ToSet(f[i + 1]) = upto(i + 1) \cap T
    OBVIOUS
  <2>2. /\ f[i] \in Seq(T \cap S)
        /\ ToSet(f[i]) = upto(i) \cap T
    BY <2>1, <1>0
  <2>3. s[i + 1] \in S
    BY <2>1, <1>0
  <2>4. upto(i + 1) = upto(i) \cup {s[i + 1]}
    OBVIOUS
  <2>5. f[i + 1] = IF s[i + 1] \in T THEN Append(f[i], s[i + 1]) ELSE f[i]
    <3>1. i + 1 \in 0..Len(s) /\ i + 1 # 0 /\ (i + 1) - 1 = i
      BY <2>1, <1>0
    <3> QED BY <3>1, <1>1 DEF KeptStep
  <2>6. CASE s[i + 1] \in T
    <3>1. f[i + 1] = Append(f[i], s[i + 1])
      BY <2>5, <2>6
    <3>2. f[i + 1] \in Seq(T \cap S)
      BY <3>1, <2>2, <2>3, <2>6
    <3>3. ToSet(f[i + 1]) = ToSet(f[i]) \cup {s[i + 1]}
      BY <3>1, <2>2, ToSetAppend
    <3> HIDE DEF upto
    <3> QED BY <3>2, <3>3, <2>2, <2>4, <2>6
  <2>7. CASE s[i + 1] \notin T
    <3> HIDE DEF upto
    <3> QED BY <2>5, <2>7, <2>2, <2>4
  <2> QED BY <2>6, <2>7
<1>4. M = Nat
  <2> HIDE DEF M
  <2>1. M \in SUBSET Nat BY DEF M
  <2> QED BY <1>2, <1>3, <2>1, SetInduction
<1>5. f[Len(s)] \in Seq(T \cap S) /\ ToSet(f[Len(s)]) = upto(Len(s)) \cap T
  <2>1. Len(s) \in M
    <3> HIDE DEF M
    <3> QED BY <1>4, <1>0
  <2> QED BY <2>1, <1>0
<1>6. upto(Len(s)) = ToSet(s)
  BY <1>0 DEF ToSet
<1> QED BY <1>1, <1>5, <1>6

\* Keep takes all elements of s that are in T, one after the other: e tells where each of
\* them was.
LEMMA KeepEmbeds ==
    ASSUME NEW S, NEW T, NEW s \in Seq(S)
    PROVE  \E e \in [1..Len(Keep(s, T)) -> 1..Len(s)] :
              /\ \A n \in 1..Len(Keep(s, T)) : Keep(s, T)[n] = s[e[n]]
              /\ \A m, n \in 1..Len(Keep(s, T)) : m < n => e[m] < e[n]
              /\ \A j \in 1..Len(s) : s[j] \in T => \E n \in 1..Len(Keep(s, T)) : e[n] = j
<1>0. Len(s) \in Nat
  OBVIOUS
<1>1. PICK f : /\ \A i \in 0..Len(s) : f[i] = KeptStep(s, T, f, i)
               /\ Keep(s, T) = f[Len(s)]
  BY <1>0, KeepUnfolds
<1> DEFINE Along(i, e) == /\ e \in [1..Len(f[i]) -> 1..i]
                          /\ \A n \in 1..Len(f[i]) : f[i][n] = s[e[n]]
                          /\ \A m, n \in 1..Len(f[i]) : m < n => e[m] < e[n]
                          /\ \A j \in 1..i : s[j] \in T => \E n \in 1..Len(f[i]) : e[n] = j
           M == {i \in Nat : i <= Len(s) => f[i] \in Seq(S) /\ \E e : Along(i, e)}
<1>2. 0 \in M
  <2>1. f[0] = << >>
    BY <1>0, <1>1 DEF KeptStep
  <2>2. f[0] \in Seq(S) /\ Len(f[0]) = 0
    <3>1. << >> \in Seq(S) /\ Len(<< >>) = 0
      OBVIOUS
    <3> QED BY <2>1, <3>1
  <2>3. [n \in 1..Len(f[0]) |-> 0] \in [1..Len(f[0]) -> 1..0]
    BY <2>2
  <2>4. Along(0, [n \in 1..Len(f[0]) |-> 0])
    BY <2>2, <2>3
  <2> HIDE DEF Along
  <2> QED BY <2>2, <2>4
<1>3. ASSUME NEW i \in M PROVE i + 1 \in M
  <2>1. SUFFICES ASSUME i + 1 <= Len(s)
                 PROVE  f[i + 1] \in Seq(S) /\ \E e : Along(i + 1, e)
    <3> HIDE DEF Along
    <3> QED OBVIOUS
  <2>2. i \in Nat /\ f[i] \in Seq(S) /\ \E e : Along(i, e)
    <3> HIDE DEF Along
    <3> QED BY <2>1, <1>0
  <2>3. PICK e : Along(i, e)
    BY <2>2
  <2>4. s[i + 1] \in S
    BY <2>1, <2>2, <1>0
  <2>5. f[i + 1] = IF s[i + 1] \in T THEN Append(f[i], s[i + 1]) ELSE f[i]
    <3>1. i + 1 \in 0..Len(s) /\ i + 1 # 0 /\ (i + 1) - 1 = i
      <4> HIDE DEF M
      <4> QED BY <2>1, <2>2, <1>0
    <3> QED BY <3>1, <1>1 DEF KeptStep
  <2> HIDE DEF M
  <2>6. CASE s[i + 1] \in T
    <3> DEFINE k == Len(f[i])
               d == [n \in 1..(k + 1) |-> IF n <= k THEN e[n] ELSE i + 1]
    <3>1. /\ f[i + 1] = Append(f[i], s[i + 1]) /\ f[i + 1] \in Seq(S)
          /\ k \in Nat /\ Len(f[i + 1]) = k + 1
          /\ f[i + 1][k + 1] = s[i + 1]
          /\ \A n \in 1..k : f[i + 1][n] = f[i][n]
      BY <2>2, <2>4, <2>5, <2>6
    <3>2. /\ \A n \in 1..k : e[n] \in 1..i /\ f[i][n] = s[e[n]]
          /\ \A m, n \in 1..k : m < n => e[m] < e[n]
          /\ \A j \in 1..i : s[j] \in T => \E n \in 1..k : e[n] = j
      BY <2>3
    <3> HIDE DEF Along, k
    <3>3. d \in [1..(k + 1) -> 1..(i + 1)]
      BY <2>2, <3>1, <3>2
    <3>4. ASSUME NEW n \in 1..(k + 1) PROVE f[i + 1][n] = s[d[n]]
      <4>1. CASE n \in 1..k
        BY <3>1, <3>2, <4>1
      <4>2. CASE n = k + 1
        BY <3>1, <4>2
      <4> QED BY <3>1, <4>1, <4>2
    <3>5. ASSUME NEW m \in 1..(k + 1), NEW n \in 1..(k + 1), m < n PROVE d[m] < d[n]
      <4>1. m \in 1..k /\ d[m] = e[m] /\ e[m] \in 1..i
        BY <3>1, <3>2, <3>5
      <4>2. CASE n \in 1..k
        BY <3>1, <3>2, <3>5, <4>1, <4>2
      <4>3. CASE n = k + 1
        BY <2>2, <3>1, <4>1, <4>3
      <4> QED BY <3>1, <4>2, <4>3
    <3>6. ASSUME NEW j \in 1..(i + 1), s[j] \in T PROVE \E n \in 1..(k + 1) : d[n] = j
      <4>1. CASE j \in 1..i
        <5>1. PICK n \in 1..k : e[n] = j
          BY <3>2, <3>6, <4>1
        <5>2. n \in 1..(k + 1) /\ d[n] = j
          BY <3>1, <5>1
        <5> QED BY <5>2
      <4>2. CASE j = i + 1
        <5>1. k + 1 \in 1..(k + 1) /\ d[k + 1] = j
          BY <3>1, <4>2
        <5> QED BY <5>1
      <4> QED BY <2>2, <4>1, <4>2
    <3> HIDE DEF d
    <3>7. Along(i + 1, d)
      BY <3>1, <3>3, <3>4, <3>5, <3>6 DEF Along
    <3> QED BY <3>1, <3>7
  <2>7. CASE s[i + 1] \notin T
    <3>1. f[i + 1] = f[i]
      BY <2>5, <2>7
    <3>2. Along(i + 1, e)
      <4>1. e \in [1..Len(f[i]) -> 1..(i + 1)]
        BY <2>2, <2>3
      <4>2. \A j \in 1..(i + 1) : s[j] \in T => j \in 1..i
        BY <2>2, <2>7
      <4> QED BY <2>3, <3>1, <4>1, <4>2
    <3> HIDE DEF Along
    <3> QED BY <2>2, <3>1, <3>2
  <2> QED BY <2>6, <2>7
<1>4. M = Nat
  <2> HIDE DEF M
  <2>1. M \in SUBSET Nat BY DEF M
  <2> QED BY <1>2, <1>3, <2>1, SetInduction
<1>5. \E e : Along(Len(s), e)
  <2>1. Len(s) \in M
    <3> HIDE DEF M
    <3> QED BY <1>0, <1>4
  <2> HIDE DEF Along
  <2> QED BY <1>0, <2>1
<1> QED BY <1>1, <1>5

\* Keep makes nothing longer.
LEMMA KeepLength ==
    ASSUME NEW S, NEW T, NEW s \in Seq(S)
    PROVE  Len(Keep(s, T)) <= Len(s)
<1>0. Len(s) \in Nat
  OBVIOUS
<1>1. PICK f : /\ \A i \in 0..Len(s) : f[i] = KeptStep(s, T, f, i)
               /\ Keep(s, T) = f[Len(s)]
  BY <1>0, KeepUnfolds
<1> DEFINE M == {i \in Nat : i <= Len(s) => f[i] \in Seq(S) /\ Len(f[i]) <= i}
<1>2. 0 \in M
  <2>1. f[0] = << >>
    BY <1>0, <1>1 DEF KeptStep
  <2>2. f[0] \in Seq(S) /\ Len(f[0]) <= 0
    <3>1. << >> \in Seq(S) /\ Len(<< >>) = 0
      OBVIOUS
    <3> QED BY <2>1, <3>1
  <2> QED BY <2>2
<1>3. ASSUME NEW i \in M PROVE i + 1 \in M
  <2>1. SUFFICES ASSUME i + 1 <= Len(s)
                 PROVE  f[i + 1] \in Seq(S) /\ Len(f[i + 1]) <= i + 1
    OBVIOUS
  <2>2. f[i] \in Seq(S) /\ Len(f[i]) <= i /\ i \in Nat
    BY <2>1, <1>0
  <2>3. s[i + 1] \in S
    BY <2>1, <2>2, <1>0
  <2>4. f[i + 1] = IF s[i + 1] \in T THEN Append(f[i], s[i + 1]) ELSE f[i]
    <3>1. i + 1 \in 0..Len(s) /\ i + 1 # 0 /\ (i + 1) - 1 = i
      <4> HIDE DEF M
      <4> QED BY <2>1, <2>2, <1>0
    <3> QED BY <3>1, <1>1 DEF KeptStep
  <2> HIDE DEF M
  <2> QED BY <2>2, <2>3, <2>4
<1>4. M = Nat
  <2> HIDE DEF M
  <2>1. M \in SUBSET Nat BY DEF M
  <2> QED BY <1>2, <1>3, <2>1, SetInduction
<1>5. Len(s) \in M
  <2> HIDE DEF M
  <2> QED BY <1>0, <1>4
<1> QED BY <1>0, <1>1, <1>5

\* Where no element comes twice, leaving one out makes the sequence shorter by one at
\* most.
LEMMA KeepAllButOne ==
    ASSUME NEW S, NEW s \in Seq(S), IsInjective(s), NEW v
    PROVE  Len(s) <= Len(Keep(s, ToSet(s) \ {v})) + 1
<1> DEFINE T == ToSet(s) \ {v}
<1>0. Len(s) \in Nat /\ DOMAIN s = 1..Len(s)
  OBVIOUS
<1>1. PICK f : /\ \A i \in 0..Len(s) : f[i] = KeptStep(s, T, f, i)
               /\ Keep(s, T) = f[Len(s)]
  BY <1>0, KeepUnfolds
<1>2. \A i \in 1..Len(s) : s[i] \in S /\ (s[i] \in T <=> s[i] # v)
  BY <1>0 DEF ToSet
<1> HIDE DEF T
<1> DEFINE M == {i \in Nat : i <= Len(s) =>
                    /\ f[i] \in Seq(S)
                    /\ i <= Len(f[i]) + 1
                    /\ (\A j \in 1..i : s[j] # v) => Len(f[i]) = i}
<1>3. 0 \in M
  <2>1. f[0] = << >>
    BY <1>0, <1>1 DEF KeptStep
  <2>2. << >> \in Seq(S) /\ Len(<< >>) = 0
    OBVIOUS
  <2>3. f[0] \in Seq(S) /\ Len(f[0]) = 0
    BY <2>1, <2>2
  <2> QED BY <2>3
<1>4. ASSUME NEW i \in M PROVE i + 1 \in M
  <2>1. SUFFICES ASSUME i + 1 <= Len(s)
                 PROVE  /\ f[i + 1] \in Seq(S)
                        /\ i + 1 <= Len(f[i + 1]) + 1
                        /\ (\A j \in 1..(i + 1) : s[j] # v) => Len(f[i + 1]) = i + 1
    OBVIOUS
  <2>2. /\ i \in Nat /\ f[i] \in Seq(S) /\ i <= Len(f[i]) + 1
        /\ (\A j \in 1..i : s[j] # v) => Len(f[i]) = i
    BY <1>0, <2>1
  <2> HIDE DEF M
  <2>3. f[i + 1] = IF s[i + 1] \in T THEN Append(f[i], s[i + 1]) ELSE f[i]
    <3>1. i + 1 \in 0..Len(s) /\ i + 1 # 0 /\ (i + 1) - 1 = i
      BY <2>1, <2>2, <1>0
    <3> QED BY <3>1, <1>1 DEF KeptStep
  <2>4. s[i + 1] \in S /\ (s[i + 1] \in T <=> s[i + 1] # v)
    BY <1>0, <1>2, <2>1, <2>2
  <2>5. CASE s[i + 1] # v
    BY <2>2, <2>3, <2>4, <2>5
  <2>6. CASE s[i + 1] = v
    <3>1. \A j \in 1..i : s[j] # v
      BY <1>0, <2>1, <2>2, <2>6 DEF IsInjective
    <3>2. f[i + 1] = f[i] /\ Len(f[i]) = i
      BY <2>2, <2>3, <2>4, <2>6, <3>1
    <3>3. i + 1 \in 1..(i + 1)
      BY <2>2
    <3> QED BY <2>2, <2>6, <3>2, <3>3
  <2> QED BY <2>5, <2>6
<1>5. Len(s) \in M
  <2> HIDE DEF M
  <2>1. M = Nat
    <3>1. M \in SUBSET Nat
      BY DEF M
    <3> QED BY <1>3, <1>4, <3>1, SetInduction
  <2> QED BY <1>0, <2>1
<1> QED BY <1>0, <1>1, <1>5 DEF T

\* When all of s is in T, Keep gives s, whatever follows that is not in T.
LEMMA KeepPrefix ==
    ASSUME NEW T, NEW U, NEW s \in Seq(T), NEW t \in Seq(U), T \cap U = {}
    PROVE  Keep(s \o t, T) = s
<1> DEFINE st == s \o t
<1>0. /\ Len(s) \in Nat /\ Len(t) \in Nat
      /\ st \in Seq(T \cup U)
      /\ Len(st) = Len(s) + Len(t)
      /\ \A i \in 1..Len(s) : st[i] = s[i] /\ st[i] \in T
      /\ \A i \in (Len(s) + 1)..Len(st) : st[i] = t[i - Len(s)] /\ st[i] \notin T
  <2>1. s \in Seq(T \cup U) /\ t \in Seq(T \cup U)
    OBVIOUS
  <2>2. /\ Len(s) \in Nat /\ Len(t) \in Nat
        /\ \A i \in 1..Len(s) : s[i] \in T
        /\ \A i \in 1..Len(t) : t[i] \in U
    OBVIOUS
  <2>3. st \in Seq(T \cup U) /\ Len(st) = Len(s) + Len(t)
    BY <2>1
  <2>4. \A i \in 1..Len(s) : st[i] = s[i]
    BY <2>1, <2>2
  <2>5. \A i \in (Len(s) + 1)..Len(st) : st[i] = t[i - Len(s)] /\ i - Len(s) \in 1..Len(t)
    BY <2>1, <2>2, <2>3
  <2> QED BY <2>2, <2>3, <2>4, <2>5
<1> HIDE DEF st
<1>1. PICK f : /\ \A i \in 0..Len(st) : f[i] = KeptStep(st, T, f, i)
               /\ Keep(st, T) = f[Len(st)]
  <2>1. Len(st) \in Nat
    BY <1>0
  <2> QED BY <2>1, KeepUnfolds
<1> DEFINE M == {i \in Nat : i <= Len(st) =>
                    f[i] = IF i <= Len(s) THEN SubSeq(s, 1, i) ELSE s}
<1>2. 0 \in M
  <2>1. f[0] = << >>
    BY <1>0, <1>1 DEF KeptStep
  <2>2. SubSeq(s, 1, 0) = << >>
    OBVIOUS
  <2>3. 0 <= Len(s)
    OBVIOUS
  <2>4. f[0] = IF 0 <= Len(s) THEN SubSeq(s, 1, 0) ELSE s
    BY <2>1, <2>2, <2>3, Zenon
  <2> QED BY <2>4
<1>3. ASSUME NEW i \in M PROVE i + 1 \in M
  <2>1. SUFFICES ASSUME i + 1 <= Len(st)
                 PROVE  f[i + 1] = IF i + 1 <= Len(s) THEN SubSeq(s, 1, i + 1) ELSE s
    OBVIOUS
  <2>2. f[i] = IF i <= Len(s) THEN SubSeq(s, 1, i) ELSE s
    BY <2>1, <1>0
  <2>3. f[i + 1] = IF st[i + 1] \in T THEN Append(f[i], st[i + 1]) ELSE f[i]
    <3>1. i \in Nat /\ Len(st) \in Nat
      BY <1>0
    <3>2. i + 1 \in 0..Len(st) /\ i + 1 # 0 /\ (i + 1) - 1 = i
      <4> HIDE DEF M
      <4> QED BY <2>1, <3>1
    <3> QED BY <3>2, <1>1 DEF KeptStep
  <2>4. CASE i + 1 <= Len(s)
    <3>1. f[i + 1] = Append(SubSeq(s, 1, i), s[i + 1])
      BY <2>2, <2>3, <2>4, <1>0
    <3>2. Append(SubSeq(s, 1, i), s[i + 1]) = SubSeq(s, 1, i + 1)
      BY <2>4, <1>0
    <3> QED BY <3>1, <3>2, <2>4
  <2>5. CASE ~(i + 1 <= Len(s))
    <3>1. st[i + 1] \notin T
      BY <2>5, <2>1, <1>0
    <3>2. i <= Len(s) => i = Len(s)
      BY <2>5, <1>0
    <3>3. SubSeq(s, 1, Len(s)) = s
      OBVIOUS
    <3> QED BY <3>1, <3>2, <3>3, <2>2, <2>3, <2>5
  <2> QED BY <2>4, <2>5
<1>4. M = Nat
  <2> HIDE DEF M
  <2>1. M \in SUBSET Nat BY DEF M
  <2> QED BY <1>2, <1>3, <2>1, SetInduction
<1>5. f[Len(st)] = IF Len(st) <= Len(s) THEN SubSeq(s, 1, Len(st)) ELSE s
  <2>1. Len(st) \in M
    <3> HIDE DEF M
    <3> QED BY <1>4, <1>0
  <2> QED BY <2>1, <1>0
<1>6. f[Len(st)] = s
  <2>1. SubSeq(s, 1, Len(s)) = s
    OBVIOUS
  <2>2. Len(st) <= Len(s) => Len(st) = Len(s)
    BY <1>0
  <2> HIDE DEF M
  <2> QED BY <2>1, <2>2, <1>5
<1> QED BY <1>6, <1>1 DEF st

-----------------------------------------------------------------------------
(***************************************************************************)
(* Keep looks at nothing but the elements that it keeps.                   *)
(***************************************************************************)

Unfolds(f, s, T) == \A i \in 0..Len(s) : f[i] = KeptStep(s, T, f, i)

AgreeUpTo(n, s, t, T) == \A i \in 1..n : s[i] \in T \/ t[i] \in T => s[i] = t[i]

LEMMA KeepFolds ==
    ASSUME NEW s, NEW T, Len(s) \in Nat
    PROVE  \E f : Unfolds(f, s, T) /\ Keep(s, T) = f[Len(s)]
BY KeepUnfolds DEF Unfolds

\* Two sequences with the same kept elements at the same places, up to n.
LEMMA KeptUpTo ==
    ASSUME NEW s, NEW t, NEW T, Len(s) \in Nat, Len(t) \in Nat,
           NEW f, Unfolds(f, s, T), NEW g, Unfolds(g, t, T),
           NEW n \in Nat, n <= Len(s), n <= Len(t), AgreeUpTo(n, s, t, T)
    PROVE  f[n] = g[n]
<1> DEFINE M == {i \in Nat : i <= n => f[i] = g[i]}
<1>1. 0 \in M
  <2>1. f[0] = << >> /\ g[0] = << >>
    BY DEF KeptStep, Unfolds
  <2> QED BY <2>1
<1>2. ASSUME NEW i \in M PROVE i + 1 \in M
  <2>1. SUFFICES ASSUME i + 1 <= n PROVE f[i + 1] = g[i + 1]
    OBVIOUS
  <2>2. i \in Nat /\ f[i] = g[i]
    BY <2>1
  <2>3. i + 1 \in 0..Len(s) /\ i + 1 \in 0..Len(t) /\ i + 1 \in 1..n /\ i + 1 # 0 /\ (i + 1) - 1 = i
    BY <2>1, <2>2
  <2>4. /\ f[i + 1] = IF s[i + 1] \in T THEN Append(f[i], s[i + 1]) ELSE f[i]
        /\ g[i + 1] = IF t[i + 1] \in T THEN Append(g[i], t[i + 1]) ELSE g[i]
    BY <2>3 DEF KeptStep, Unfolds
  <2> QED BY <2>2, <2>3, <2>4 DEF AgreeUpTo
<1>3. M = Nat
  <2> HIDE DEF M
  <2>1. M \in SUBSET Nat BY DEF M
  <2> QED BY <1>1, <1>2, <2>1, SetInduction
<1>4. n \in M
  BY <1>3
<1> QED BY <1>4

LEMMA KeepAppend ==
    ASSUME NEW S, NEW q \in Seq(S), NEW e, NEW T
    PROVE  Keep(Append(q, e), T) = IF e \in T THEN Append(Keep(q, T), e) ELSE Keep(q, T)
<1> DEFINE a == Append(q, e)
<1>0. /\ Len(q) \in Nat /\ Len(a) = Len(q) + 1
      /\ \A i \in 1..Len(q) : a[i] = q[i]
      /\ a[Len(q) + 1] = e
  OBVIOUS
<1> HIDE DEF a
<1>1. PICK f : Unfolds(f, q, T) /\ Keep(q, T) = f[Len(q)]
  BY <1>0, KeepFolds
<1>2. PICK g : Unfolds(g, a, T) /\ Keep(a, T) = g[Len(a)]
  <2>1. Len(a) \in Nat
    BY <1>0
  <2> QED BY <2>1, KeepFolds
<1>3. f[Len(q)] = g[Len(q)]
  <2>1. AgreeUpTo(Len(q), q, a, T)
    BY <1>0 DEF AgreeUpTo
  <2>2. Len(q) <= Len(q) /\ Len(q) <= Len(a) /\ Len(a) \in Nat
    BY <1>0
  <2> QED BY <1>0, <1>1, <1>2, <2>1, <2>2, KeptUpTo
<1>4. Len(a) \in 0..Len(a) /\ Len(a) # 0 /\ Len(a) - 1 = Len(q)
  BY <1>0
<1>5. g[Len(a)] = IF a[Len(a)] \in T THEN Append(g[Len(q)], a[Len(a)]) ELSE g[Len(q)]
  BY <1>2, <1>4 DEF KeptStep, Unfolds
<1> QED BY <1>0, <1>1, <1>2, <1>3, <1>5 DEF a

\* What t has beyond s does not count when it is not in T.
LEMMA KeepSame ==
    ASSUME NEW S, NEW s \in Seq(S), NEW t \in Seq(S), NEW T, Len(s) <= Len(t),
           \A i \in 1..Len(s) : s[i] \in T \/ t[i] \in T => s[i] = t[i],
           \A i \in (Len(s) + 1)..Len(t) : t[i] \notin T
    PROVE  Keep(s, T) = Keep(t, T)
<1>0. Len(s) \in Nat /\ Len(t) \in Nat
  OBVIOUS
<1>1. PICK f : Unfolds(f, s, T) /\ Keep(s, T) = f[Len(s)]
  BY <1>0, KeepFolds
<1>2. PICK g : Unfolds(g, t, T) /\ Keep(t, T) = g[Len(t)]
  BY <1>0, KeepFolds
<1>3. f[Len(s)] = g[Len(s)]
  <2>1. AgreeUpTo(Len(s), s, t, T)
    BY DEF AgreeUpTo
  <2>2. Len(s) <= Len(s)
    BY <1>0
  <2> QED BY <1>0, <1>1, <1>2, <2>1, <2>2, KeptUpTo
<1> DEFINE M == {i \in Nat : Len(s) + i <= Len(t) => g[Len(s) + i] = g[Len(s)]}
<1>4. 0 \in M
  BY <1>0
<1>5. ASSUME NEW i \in M PROVE i + 1 \in M
  <2>1. SUFFICES ASSUME Len(s) + (i + 1) <= Len(t)
                 PROVE  g[Len(s) + (i + 1)] = g[Len(s)]
    OBVIOUS
  <2>2. i \in Nat /\ g[Len(s) + i] = g[Len(s)]
    BY <1>0, <2>1
  <2> DEFINE k == Len(s) + (i + 1)
  <2>3. k \in 0..Len(t) /\ k # 0 /\ k - 1 = Len(s) + i /\ k \in (Len(s) + 1)..Len(t)
    BY <1>0, <2>1, <2>2
  <2> HIDE DEF k
  <2>4. g[k] = g[k - 1]
    BY <1>2, <2>3 DEF KeptStep, Unfolds
  <2> QED BY <2>2, <2>3, <2>4 DEF k
<1>6. M = Nat
  <2> HIDE DEF M
  <2>1. M \in SUBSET Nat BY DEF M
  <2> QED BY <1>4, <1>5, <2>1, SetInduction
<1>7. g[Len(t)] = g[Len(s)]
  <2>1. Len(t) - Len(s) \in M /\ Len(s) + (Len(t) - Len(s)) = Len(t)
    <3> HIDE DEF M
    <3> QED BY <1>0, <1>6
  <2> QED BY <1>0, <2>1
<1> QED BY <1>1, <1>2, <1>3, <1>7

\* To keep twice is to keep what is in both sets.
LEMMA KeepTwice ==
    ASSUME NEW S, NEW s \in Seq(S), NEW T, NEW U
    PROVE  Keep(Keep(s, T), U) = Keep(s, T \cap U)
<1>0. Len(s) \in Nat
  OBVIOUS
<1>1. PICK f : Unfolds(f, s, T) /\ Keep(s, T) = f[Len(s)]
  BY <1>0, KeepFolds
<1>2. PICK g : Unfolds(g, s, T \cap U) /\ Keep(s, T \cap U) = g[Len(s)]
  BY <1>0, KeepFolds
<1> DEFINE M == {i \in Nat : i <= Len(s) => f[i] \in Seq(S) /\ Keep(f[i], U) = g[i]}
<1>3. 0 \in M
  <2>1. f[0] = << >> /\ g[0] = << >>
    BY <1>0, <1>1, <1>2 DEF KeptStep, Unfolds
  <2>2. << >> \in Seq({}) /\ << >> \in Seq(S)
    OBVIOUS
  <2>3. Keep(<< >>, U) \in Seq(U \cap {})
    BY <2>2, KeepSet
  <2>4. \A p \in Seq(U \cap {}) : p = << >>
    OBVIOUS
  <2> QED BY <2>1, <2>2, <2>3, <2>4
<1>4. ASSUME NEW i \in M PROVE i + 1 \in M
  <2>1. SUFFICES ASSUME i + 1 <= Len(s)
                 PROVE  f[i + 1] \in Seq(S) /\ Keep(f[i + 1], U) = g[i + 1]
    OBVIOUS
  <2>2. i \in Nat /\ f[i] \in Seq(S) /\ Keep(f[i], U) = g[i]
    BY <1>0, <2>1
  <2>3. i + 1 \in 0..Len(s) /\ i + 1 # 0 /\ (i + 1) - 1 = i /\ s[i + 1] \in S
    BY <1>0, <2>1, <2>2
  <2>4. /\ f[i + 1] = IF s[i + 1] \in T THEN Append(f[i], s[i + 1]) ELSE f[i]
        /\ g[i + 1] = IF s[i + 1] \in T \cap U THEN Append(g[i], s[i + 1]) ELSE g[i]
    BY <1>1, <1>2, <2>3 DEF KeptStep, Unfolds
  <2>5. Keep(Append(f[i], s[i + 1]), U)
           = IF s[i + 1] \in U THEN Append(Keep(f[i], U), s[i + 1]) ELSE Keep(f[i], U)
    <3> DEFINE q == f[i]
               e == s[i + 1]
    <3>1. q \in Seq(S)
      BY <2>2
    <3> HIDE DEF q, e
    <3>2. Keep(Append(q, e), U) = IF e \in U THEN Append(Keep(q, U), e) ELSE Keep(q, U)
      BY <3>1, KeepAppend
    <3> QED BY <3>2 DEF q, e
  <2>6. f[i + 1] \in Seq(S)
    BY <2>2, <2>3, <2>4
  <2> QED BY <2>2, <2>4, <2>5, <2>6
<1>5. M = Nat
  <2> HIDE DEF M
  <2>1. M \in SUBSET Nat BY DEF M
  <2> QED BY <1>3, <1>4, <2>1, SetInduction
<1>6. Keep(f[Len(s)], U) = g[Len(s)]
  <2>1. Len(s) \in M
    <3> HIDE DEF M
    <3> QED BY <1>0, <1>5
  <2> QED BY <1>0, <2>1
<1> QED BY <1>1, <1>2, <1>6

-----------------------------------------------------------------------------
\* An increasing function that starts after c stays ahead of its argument by c.
LEMMA Ahead ==
    ASSUME NEW n \in Nat, NEW c \in Nat, NEW e,
           \A i \in 1..n : e[i] \in Nat /\ e[i] > c,
           \A i, j \in 1..n : i < j => e[i] < e[j]
    PROVE  \A i \in 1..n : e[i] >= i + c
<1> DEFINE M == {i \in Nat : i + 1 \in 1..n => e[i + 1] >= i + 1 + c}
<1>1. 0 \in M
  OBVIOUS
<1>2. ASSUME NEW i \in M PROVE i + 1 \in M
  <2>1. SUFFICES ASSUME i + 2 \in 1..n PROVE e[i + 2] >= i + 2 + c
    OBVIOUS
  <2>2. i \in Nat /\ i + 1 \in 1..n /\ i + 2 \in 1..n /\ i + 1 < i + 2
    BY <2>1
  <2>3. e[i + 1] < e[i + 2] /\ e[i + 1] >= i + 1 + c
    BY <2>2
  <2>4. e[i + 1] \in Nat /\ e[i + 2] \in Nat
    BY <2>2
  <2> QED BY <2>2, <2>3, <2>4
<1>3. M = Nat
  <2> HIDE DEF M
  <2>1. M \in SUBSET Nat
    BY DEF M
  <2> QED BY <1>1, <1>2, <2>1, SetInduction
<1>4. ASSUME NEW i \in 1..n PROVE e[i] >= i + c
  <2>1. i - 1 \in M
    <3> HIDE DEF M
    <3> QED BY <1>3
  <2>2. (i - 1) + 1 = i
    OBVIOUS
  <2> QED BY <2>1, <2>2
<1> QED BY <1>4

\* When one element is left out, what is after it comes one place nearer, and what is
\* before it keeps its place.
LEMMA KeepSkipsOne ==
    ASSUME NEW S, NEW s \in Seq(S), IsInjective(s), NEW v
    PROVE  LET k == Keep(s, ToSet(s) \ {v})
           IN  \E e \in [1..Len(k) -> 1..Len(s)] :
                  /\ \A n \in 1..Len(k) : k[n] = s[e[n]] /\ e[n] <= n + 1
                  /\ \A m, n \in 1..Len(k) : m < n => e[m] < e[n]
<1> DEFINE T == ToSet(s) \ {v}
           k == Keep(s, T)
<1>0. Len(s) \in Nat /\ DOMAIN s = 1..Len(s)
  OBVIOUS
<1>1. \A i \in 1..Len(s) : s[i] \in T <=> s[i] # v
  BY <1>0 DEF ToSet
<1>2. \A i, j \in 1..Len(s) : s[i] = s[j] => i = j
  BY <1>0 DEF IsInjective
<1> HIDE DEF T
<1>3. PICK e \in [1..Len(k) -> 1..Len(s)] :
         /\ \A n \in 1..Len(k) : k[n] = s[e[n]]
         /\ \A m, n \in 1..Len(k) : m < n => e[m] < e[n]
         /\ \A j \in 1..Len(s) : s[j] \in T => \E n \in 1..Len(k) : e[n] = j
  BY KeepEmbeds
<1>4. k \in Seq(T \cap S) /\ Len(k) \in Nat /\ \A n \in 1..Len(k) : k[n] \in T
  <2>1. k \in Seq(T \cap S)
    BY KeepSet
  <2> HIDE DEF k
  <2> QED BY <2>1
<1>5. \A n \in 1..Len(k) : e[n] \in 1..Len(s) /\ s[e[n]] # v
  BY <1>1, <1>3, <1>4
<1> HIDE DEF k
<1> DEFINE at(n) == IF n = 0 THEN 0 ELSE e[n]
           Right(n) == at(n) = n \/ (at(n) = n + 1 /\ \E j \in 1..at(n) : s[j] = v)
           M == {n \in Nat : n <= Len(k) => Right(n)}
<1>6. 0 \in M
  OBVIOUS
<1>7. ASSUME NEW n \in M PROVE n + 1 \in M
  <2>1. SUFFICES ASSUME n + 1 <= Len(k) PROVE Right(n + 1)
    OBVIOUS
  <2>2. n \in Nat /\ Right(n)
    BY <1>4, <2>1
  <2>3. n + 1 \in 1..Len(k) /\ at(n + 1) = e[n + 1] /\ at(n + 1) \in 1..Len(s) /\ s[at(n + 1)] # v
    BY <1>4, <1>5, <2>1, <2>2
  <2>4. at(n) \in 0..Len(s) /\ at(n) < at(n + 1)
    BY <1>0, <1>3, <1>4, <1>5, <2>1, <2>2, <2>3
  <2>5. ASSUME NEW j \in 1..Len(s), j > at(n), s[j] # v PROVE at(n + 1) <= j
    <3>1. PICK m \in 1..Len(k) : e[m] = j
      BY <1>1, <1>3, <2>5
    <3>2. m >= n + 1
      <4>1. SUFFICES ASSUME m <= n PROVE FALSE
        BY <1>4, <2>2
      <4>2. n \in 1..Len(k) /\ at(n) = e[n]
        BY <1>4, <2>1, <2>2, <4>1
      <4>3. m = n \/ e[m] < e[n]
        BY <1>3, <1>4, <2>2, <4>1, <4>2
      <4> QED BY <1>5, <2>4, <2>5, <3>1, <4>2, <4>3
    <3>3. m = n + 1 \/ e[n + 1] < e[m]
      BY <1>3, <1>4, <2>2, <2>3, <3>2
    <3> QED BY <1>5, <2>3, <3>1, <3>3
  <2>6. CASE s[at(n) + 1] # v
    <3>1. at(n) + 1 \in 1..Len(s) /\ at(n) + 1 > at(n)
      BY <1>0, <2>3, <2>4
    <3>2. at(n + 1) = at(n) + 1
      BY <1>0, <2>3, <2>4, <2>5, <2>6, <3>1
    <3> HIDE DEF at
    <3> QED BY <1>0, <2>2, <2>4, <3>2
  <2>7. CASE s[at(n) + 1] = v
    <3>1. at(n + 1) # at(n) + 1 /\ at(n) + 1 \in 1..Len(s) /\ at(n) + 2 \in 1..Len(s)
      BY <1>0, <2>3, <2>4, <2>7
    <3>2. s[at(n) + 2] # v
      BY <1>0, <1>2, <2>4, <2>7, <3>1
    <3>3. at(n + 1) = at(n) + 2
      BY <1>0, <2>3, <2>4, <2>5, <3>1, <3>2
    <3>4. at(n) = n
      <4>1. ASSUME NEW j \in 1..at(n), s[j] = v PROVE FALSE
        <5>1. j \in 1..Len(s) /\ j # at(n) + 1
          BY <1>0, <2>4, <4>1
        <5> QED BY <1>2, <2>7, <3>1, <4>1, <5>1
      <4> QED BY <2>2, <4>1
    <3>5. at(n) + 1 \in 1..at(n + 1)
      BY <2>4, <3>3
    <3> HIDE DEF at
    <3> QED BY <2>2, <2>7, <3>3, <3>4, <3>5
  <2> QED BY <2>6, <2>7
<1>8. M = Nat
  <2> HIDE DEF M
  <2>1. M \in SUBSET Nat
    BY DEF M
  <2> QED BY <1>6, <1>7, <2>1, SetInduction
<1>9. \A n \in 1..Len(k) : e[n] <= n + 1
  <2> SUFFICES ASSUME NEW n \in 1..Len(k) PROVE e[n] <= n + 1
    OBVIOUS
  <2>1. n \in M /\ n \in Nat /\ n <= Len(k) /\ n # 0
    BY <1>4, <1>8
  <2> QED BY <2>1
<1> QED BY <1>3, <1>9 DEF k, T

Joins(s, t, e) == Append(s \o t, e) = s \o Append(t, e)

LEMMA AppendLast ==
    ASSUME NEW S, NEW s \in Seq(S), NEW t \in Seq(S), NEW e \in S
    PROVE  Joins(s, t, e)
BY DEF Joins

\* What is kept of one list after another is what is kept of each.
LEMMA KeepConcat ==
    ASSUME NEW S, NEW s \in Seq(S), NEW t \in Seq(S), NEW T
    PROVE  Keep(s \o t, T) = Keep(s, T) \o Keep(t, T)
<1>0. Len(s) \in Nat /\ Len(t) \in Nat /\ Keep(s, T) \in Seq(S)
  <2>1. Keep(s, T) \in Seq(T \cap S)
    BY KeepSet
  <2> QED BY <2>1
<1> DEFINE u(n) == SubSeq(t, 1, n)
           p(n) == s \o u(n)
           M == {n \in Nat : n <= Len(t) => Keep(p(n), T) = Keep(s, T) \o Keep(u(n), T)}
<1>1. 0 \in M
  <2>1. p(0) = s /\ u(0) = << >>
    OBVIOUS
  <2>2. Keep(<< >>, T) = << >>
    <3>1. << >> \in Seq(S) /\ Len(<< >>) = 0
      OBVIOUS
    <3>2. PICK f : Unfolds(f, << >>, T) /\ Keep(<< >>, T) = f[Len(<< >>)]
      <4>1. Len(<< >>) \in Nat
        OBVIOUS
      <4> QED BY <4>1, KeepFolds
    <3> QED BY <3>1, <3>2 DEF Unfolds, KeptStep
  <2>3. Keep(s, T) \o << >> = Keep(s, T)
    BY <1>0
  <2> HIDE DEF p, u
  <2> QED BY <2>1, <2>2, <2>3
<1>2. ASSUME NEW n \in M PROVE n + 1 \in M
  <2> SUFFICES ASSUME n + 1 <= Len(t)
               PROVE  Keep(p(n + 1), T) = Keep(s, T) \o Keep(u(n + 1), T)
    OBVIOUS
  <2>1. n \in Nat /\ n <= Len(t) /\ n + 1 \in 1..Len(t)
    BY <1>0
  <2>2. u(n) \in Seq(S) /\ u(n + 1) = Append(u(n), t[n + 1])
    <3>1. SubSeq(t, 1, n) \in Seq(S) /\ SubSeq(t, 1, n + 1) = Append(SubSeq(t, 1, n), t[n + 1])
      BY <1>0, <2>1
    <3> QED BY <3>1
  <2>3. p(n) \in Seq(S) /\ p(n + 1) = Append(p(n), t[n + 1])
    <3>1. /\ SubSeq(t, 1, n) \in Seq(S)
          /\ SubSeq(t, 1, n + 1) = Append(SubSeq(t, 1, n), t[n + 1]) /\ t[n + 1] \in S
      BY <1>0, <2>1, <2>2
    <3>2. \A a \in Seq(S) : \A e \in S : s \o Append(a, e) = Append(s \o a, e)
      OBVIOUS
    <3> QED BY <3>1, <3>2
  <2>4. Keep(p(n), T) = Keep(s, T) \o Keep(u(n), T)
    BY <2>1
  <2>5. Keep(u(n), T) \in Seq(S)
    <3>1. Keep(u(n), T) \in Seq(T \cap S)
      BY <2>2, KeepSet
    <3> QED BY <3>1
  <2> HIDE DEF p, u
  <2>6. ASSUME NEW q \in Seq(S), NEW e
        PROVE  Keep(Append(q, e), T) = IF e \in T THEN Append(Keep(q, T), e) ELSE Keep(q, T)
    BY KeepAppend
  <2>7. CASE t[n + 1] \in T
    <3>1. /\ Keep(p(n + 1), T) = Append(Keep(p(n), T), t[n + 1])
          /\ Keep(u(n + 1), T) = Append(Keep(u(n), T), t[n + 1])
      BY <2>2, <2>3, <2>6, <2>7
    <3>2. t[n + 1] \in S
      BY <2>1
    <3>3. Append(Keep(s, T) \o Keep(u(n), T), t[n + 1])
             = Keep(s, T) \o Append(Keep(u(n), T), t[n + 1])
      <4>1. Joins(Keep(s, T), Keep(u(n), T), t[n + 1])
        BY <1>0, <2>5, <3>2, AppendLast
      <4> QED BY <4>1 DEF Joins
    <3> QED BY <2>4, <3>1, <3>3
  <2>8. CASE t[n + 1] \notin T
    BY <2>2, <2>3, <2>4, <2>6, <2>8
  <2> QED BY <2>7, <2>8
<1>3. M = Nat
  <2> HIDE DEF M
  <2>1. M \in SUBSET Nat BY DEF M
  <2> QED BY <1>1, <1>2, <2>1, SetInduction
<1>4. p(Len(t)) = s \o t /\ u(Len(t)) = t
  <2>1. SubSeq(t, 1, Len(t)) = t
    BY <1>0
  <2> QED BY <2>1
<1>5. Len(t) \in M /\ Len(t) <= Len(t)
  BY <1>0, <1>3
<1> HIDE DEF p, u
<1> QED BY <1>4, <1>5

=============================================================================
