---------------------------- MODULE DigestProofs ----------------------------
(***************************************************************************)
(* At most one mail a day, a file of its own for each feed, and no item    *)
(* that is dropped, for any number of feeds, items, changes and faults,    *)
(* and with any names; and no item twice and none that is old, of a feed   *)
(* whose files no other feed can get.                                      *)
(*                                                                         *)
(* All rest on what the files say while the job is between two of them.    *)
(* A mail may go out when the file digest is old, and the file mailed is   *)
(* there; the job must not lose that order when it stops anywhere.  And    *)
(* what the user got is in mailed, or the record of it is the next step.   *)
(***************************************************************************)
EXTENDS Digest, KeepingTheorems, FiniteSetTheorems, TLAPS

\* No address is there twice.
UrlsDiffer == \A i, j \in DOMAIN feeds : feeds[i].url = feeds[j].url => i = j

\* The steps that have the file mailed.
Working == {"note", "know", "mail", "record"}

\* A key in the file mailed was noted or sent.
Accounted ==
    mailed # NoFile \/ job.at \in Working =>
        \A k \in mailed : k \in Key /\ (k \in noted \/ inbox[k.item] > 0)

\* What the job is about to record was sent.
SentBeforeRecord == At("record") => \A k \in newKeys : inbox[k.item] > 0

\* Only a first digest goes this way.
NoneMailed == At("first") => mailed = NoFile

\* No mail can go out before the file digest is written again, or a day is over.  When the
\* file digest is about to go and mailed stayed, a fault has paid for the next mail.
Spent ==
    \/ ~due /\ (At("unstamp") => mailed = NoFile)
    \/ job.at \in {"first", "firstknown", "record", "stamp"}
    \/ /\ job.at \in {"idle", "turn", "fetch", "clean", "forget", "unstamp", "unknow"}
       /\ mailed = NoFile

MailToCome == today <= faults + (IF Spent THEN 1 ELSE 0)

IInv == TypeOK /\ UrlsDiffer /\ Accounted /\ SentBeforeRecord /\ NoneMailed /\ MailToCome

-----------------------------------------------------------------------------
(***************************************************************************)
(* The list of feeds.                                                      *)
(***************************************************************************)

\* The files that are tried for a feed differ.
LEMMA NumbersTell ==
    ASSUME NEW base \in Seq(Stem \cup Nat), NEW i \in Nat, NEW j \in Nat,
           Numbered(base, i) = Numbered(base, j)
    PROVE  i = j
<1>1. \A n \in Nat : /\ Len(Append(base, n)) = Len(base) + 1
                     /\ Append(base, n)[Len(base) + 1] = n
  OBVIOUS
<1>2. Len(base) \in Nat
  OBVIOUS
<1>3. ASSUME NEW n \in Nat, Append(base, n) = base PROVE FALSE
  <2>1. Len(base) + 1 = Len(base)
    BY <1>1, <1>3
  <2> QED BY <1>2, <2>1
<1>4. CASE i = 1 \/ j = 1
  BY <1>3, <1>4 DEF Numbered
<1>5. CASE i # 1 /\ j # 1
  BY <1>1, <1>5 DEF Numbered
<1> QED BY <1>4, <1>5

\* While fewer files are used than there are addresses, one of those of a name is free.
LEMMA FreeIsFree ==
    ASSUME NEW name \in Name, NEW used, IsFiniteSet(used),
           Cardinality(used) < Cardinality(Url)
    PROVE  Free(name, used) \in Tries(name) /\ Free(name, used) \notin used
<1> DEFINE N == Cardinality(Url)
           T(i) == Numbered(fileName(name), i)
           M == {i \in 1..N : T(i) \notin used}
<1>1. N \in Nat /\ fileName(name) \in Seq(Stem \cup Nat)
  BY DigestAssumption, FS_CardinalityType DEF fileName
<1>2. M # {}
  <2> SUFFICES ASSUME \A i \in 1..N : T(i) \in used PROVE FALSE
    OBVIOUS
  <2>1. [i \in 1..N |-> T(i)] \in Injection(1..N, used)
    <3>1. [i \in 1..N |-> T(i)] \in [1..N -> used]
      OBVIOUS
    <3>2. ASSUME NEW i \in 1..N, NEW j \in 1..N, T(i) = T(j)
          PROVE  i = j
      <4>1. i \in Nat /\ j \in Nat
        BY <1>1
      <4> QED BY <1>1, <3>2, <4>1, NumbersTell
    <3> QED BY <3>1, <3>2 DEF Injection, IsInjective
  <2>2. Cardinality(1..N) <= Cardinality(used)
    BY <2>1, FS_Injection
  <2>3. Cardinality(1..N) = N
    BY <1>1, FS_Interval
  <2>4. Cardinality(used) \in Nat
    BY FS_CardinalityType
  <2> QED BY <1>1, <2>2, <2>3, <2>4
<1>3. PICK x \in M : \A y \in M : x <= y
  <2> HIDE DEF M
  <2>1. M \in SUBSET Nat
    BY DEF M
  <2> QED BY <1>2, <2>1, LeastNat
<1>4. /\ x \in 1..N /\ T(x) \notin used
      /\ \A j \in 1..(x - 1) : T(j) \in used
  <2>1. \A j \in 1..(x - 1) : j \in 1..N /\ ~(x <= j)
    BY <1>1
  <2> QED BY <1>3, <2>1
<1> DEFINE i == CHOOSE i \in 1..N : T(i) \notin used /\ \A j \in 1..(i - 1) : T(j) \in used
<1>5. i \in 1..N /\ T(i) \notin used
  BY <1>4
<1>6. Free(name, used) = T(i)
  BY DEF Free
<1> HIDE DEF i
<1> QED BY <1>5, <1>6 DEF Tries

\* One step of parseFeeds: what is parsed at i, from what is parsed at i - 1.
ParsedStep(list, f, i) ==
    IF i = 0 THEN {}
    ELSE f[i - 1] \cup
         {[url |-> list[i].url, file |-> Free(list[i].name, FilesOf(f[i - 1]))]}

\* The recursive definition in parseFeeds has a solution.
LEMMA ParsedExists ==
    ASSUME NEW list, NEW n \in Nat
    PROVE  \E f : f = [i \in 0..n |-> ParsedStep(list, f, i)]
<1> DEFINE M == {m \in Nat : \E f : f = [i \in 0..m |-> ParsedStep(list, f, i)]}
<1>1. 0 \in M
  <2>1. [i \in 0..0 |-> {}] = [i \in 0..0 |-> ParsedStep(list, [j \in 0..0 |-> {}], i)]
    BY DEF ParsedStep
  <2> QED BY <2>1
<1>2. ASSUME NEW m \in M PROVE m + 1 \in M
  <2>1. PICK f : f = [i \in 0..m |-> ParsedStep(list, f, i)]
    OBVIOUS
  <2> DEFINE g == [i \in 0..(m + 1) |-> IF i = m + 1 THEN ParsedStep(list, f, i) ELSE f[i]]
  <2>2. ASSUME NEW i \in 0..(m + 1) PROVE g[i] = ParsedStep(list, g, i)
    <3>1. i # 0 => i - 1 \in 0..m /\ i - 1 # m + 1 /\ i - 1 \in 0..(m + 1)
      OBVIOUS
    <3>2. i # 0 => g[i - 1] = f[i - 1]
      BY <3>1
    <3>3. ParsedStep(list, g, i) = ParsedStep(list, f, i)
      BY <3>2 DEF ParsedStep
    <3>4. CASE i = m + 1
      BY <3>3, <3>4
    <3>5. CASE i # m + 1
      <4>1. i \in 0..m
        BY <3>5
      <4>2. f[i] = ParsedStep(list, f, i)
        BY <2>1, <4>1
      <4> QED BY <3>3, <3>5, <4>2
    <3> QED BY <3>4, <3>5
  <2>3. g = [i \in 0..(m + 1) |-> ParsedStep(list, g, i)]
    BY <2>2
  <2>4. \E h : h = [i \in 0..(m + 1) |-> ParsedStep(list, h, i)]
    <3> HIDE DEF g
    <3> QED BY <2>3
  <2> QED BY <2>4
<1>3. M = Nat
  <2> HIDE DEF M
  <2>1. M \in SUBSET Nat BY DEF M
  <2> QED BY <1>1, <1>2, <2>1, SetInduction
<1> QED BY <1>3

\* What parseFeeds unfolds to.
LEMMA ParsedUnfolds ==
    ASSUME NEW list, Len(list) \in Nat
    PROVE  \E f : /\ \A i \in 0..Len(list) : f[i] = ParsedStep(list, f, i)
                  /\ parseFeeds(list) = f[Len(list)]
<1> DEFINE R(f) == f = [i \in 0..Len(list) |-> ParsedStep(list, f, i)]
           p == CHOOSE f : R(f)
<1>1. \E f : R(f)
  BY ParsedExists
<1>2. R(p)
  <2> HIDE DEF R
  <2> QED BY <1>1
<1>3. parseFeeds(list) = p[Len(list)]
  BY DEF parseFeeds, ParsedStep
<1>4. \A i \in 0..Len(list) : p[i] = ParsedStep(list, p, i)
  <2> HIDE DEF p
  <2> QED BY <1>2
<1> HIDE DEF p
<1> QED BY <1>3, <1>4

\* Feeds have different files and addresses.
Differ(fs) == \A f, g \in fs : f.url = g.url \/ f.file = g.file => f = g

\* The feeds fs are those of the first n lines, each with a file of its name.
AreOf(fs, list, n) ==
    \A f \in fs : \E i \in 1..n : f = [url |-> list[i].url, file |-> f.file]
                                  /\ f.file \in Tries(list[i].name)

\* A list in which no address is twice has as many feeds as lines.
LEMMA FeedsParsed ==
    ASSUME NEW list \in Seq(Lines),
           \A j, k \in DOMAIN list : list[j].url = list[k].url => j = k
    PROVE  /\ AreOf(parseFeeds(list), list, Len(list))
           /\ Differ(parseFeeds(list))
           /\ Cardinality(parseFeeds(list)) = Len(list)
<1>1. /\ Len(list) \in Nat /\ DOMAIN list = 1..Len(list)
      /\ \A i \in 1..Len(list) : list[i] \in Lines
  OBVIOUS
<1>2. \A i \in 1..Len(list) : list[i].url \in Url /\ list[i].name \in Name
  BY <1>1, DigestAssumption
<1>3. Len(list) <= Cardinality(Url)
  <2>1. [i \in 1..Len(list) |-> list[i].url] \in Injection(1..Len(list), Url)
    BY <1>1, <1>2 DEF Injection, IsInjective
  <2>2. Cardinality(1..Len(list)) <= Cardinality(Url)
    BY <2>1, DigestAssumption, FS_Injection
  <2>3. Cardinality(1..Len(list)) = Len(list)
    BY <1>1, FS_Interval
  <2> QED BY <2>2, <2>3
<1>4. Cardinality(Url) \in Nat
  BY DigestAssumption, FS_CardinalityType
<1>5. PICK p : /\ \A i \in 0..Len(list) : p[i] = ParsedStep(list, p, i)
               /\ parseFeeds(list) = p[Len(list)]
  BY <1>1, ParsedUnfolds
<1> DEFINE Good(n) == /\ AreOf(p[n], list, n) /\ Differ(p[n])
                      /\ IsFiniteSet(p[n]) /\ Cardinality(p[n]) = n
                      /\ IsFiniteSet(FilesOf(p[n])) /\ Cardinality(FilesOf(p[n])) = n
           M == {n \in Nat : n <= Len(list) => Good(n)}
<1>6. 0 \in M
  <2>1. p[0] = {}
    <3>1. 0 \in 0..Len(list)
      BY <1>1
    <3>2. p[0] = ParsedStep(list, p, 0)
      BY <1>5, <3>1
    <3> QED BY <3>2 DEF ParsedStep
  <2>2. IsFiniteSet({}) /\ Cardinality({}) = 0
    BY FS_EmptySet
  <2>3. FilesOf(p[0]) = {}
    BY <2>1 DEF FilesOf
  <2> QED BY <2>1, <2>2, <2>3 DEF AreOf, Differ
<1>7. ASSUME NEW n \in M PROVE n + 1 \in M
  <2> SUFFICES ASSUME n + 1 <= Len(list) PROVE Good(n + 1)
    OBVIOUS
  <2>1. n \in Nat /\ n + 1 \in 1..Len(list) /\ n + 1 \in 0..Len(list) /\ n <= Len(list)
    BY <1>1
  <2>2. Good(n)
    BY <2>1
  <2> DEFINE l == list[n + 1]
             file == Free(l.name, FilesOf(p[n]))
             e == [url |-> l.url, file |-> file]
  <2>3. p[n + 1] = p[n] \cup {e}
    <3>1. n + 1 # 0 /\ (n + 1) - 1 = n
      BY <2>1
    <3> QED BY <1>5, <2>1, <3>1 DEF ParsedStep
  <2>4. file \in Tries(l.name) /\ file \notin FilesOf(p[n])
    <3>1. Cardinality(FilesOf(p[n])) < Cardinality(Url)
      BY <1>1, <1>3, <1>4, <2>1, <2>2
    <3> QED BY <1>2, <2>1, <2>2, <3>1, FreeIsFree
  <2> HIDE DEF file
  <2>5. AreOf(p[n + 1], list, n + 1)
    <3> SUFFICES ASSUME NEW f \in p[n + 1]
                 PROVE  \E i \in 1..(n + 1) : f = [url |-> list[i].url, file |-> f.file]
                                              /\ f.file \in Tries(list[i].name)
      BY DEF AreOf
    <3>1. CASE f \in p[n]
      <4>1. PICK i \in 1..n : f = [url |-> list[i].url, file |-> f.file]
                              /\ f.file \in Tries(list[i].name)
        BY <2>2, <3>1 DEF AreOf
      <4>2. i \in 1..(n + 1)
        BY <2>1
      <4> QED BY <4>1, <4>2
    <3>2. CASE f = e
      <4>1. n + 1 \in 1..(n + 1)
        BY <2>1
      <4>2. f = [url |-> list[n + 1].url, file |-> f.file] /\ f.file \in Tries(list[n + 1].name)
        BY <2>4, <3>2
      <4> QED BY <4>1, <4>2
    <3> QED BY <2>3, <3>1, <3>2
  <2>6. \A f \in p[n] : f.url # l.url /\ f.file # file
    <3> SUFFICES ASSUME NEW f \in p[n]
                 PROVE  f.url # l.url /\ f.file # file
      OBVIOUS
    <3>1. PICK i \in 1..n : f = [url |-> list[i].url, file |-> f.file]
      BY <2>2 DEF AreOf
    <3>2. f.url = list[i].url /\ i \in 1..Len(list) /\ i # n + 1
      BY <2>1, <3>1
    <3>3. f.file \in FilesOf(p[n])
      BY DEF FilesOf
    <3> QED BY <1>1, <2>1, <2>4, <3>2, <3>3
  <2>7. Differ(p[n + 1])
    BY <2>2, <2>3, <2>6 DEF Differ
  <2>8. e \notin p[n]
    BY <2>6
  <2>9. IsFiniteSet(p[n + 1]) /\ Cardinality(p[n + 1]) = n + 1
    <3>1. IsFiniteSet(p[n]) /\ Cardinality(p[n]) = n
      BY <2>2
    <3>2. IsFiniteSet(p[n] \cup {e}) /\ Cardinality(p[n] \cup {e}) = n + 1
      BY <2>8, <3>1, FS_AddElement
    <3> QED BY <2>3, <3>2
  <2>10. FilesOf(p[n + 1]) = FilesOf(p[n]) \cup {file}
    <3>1. e.file = file
      OBVIOUS
    <3> HIDE DEF e
    <3> QED BY <2>3, <3>1 DEF FilesOf
  <2>11. IsFiniteSet(FilesOf(p[n + 1])) /\ Cardinality(FilesOf(p[n + 1])) = n + 1
    BY <2>2, <2>4, <2>10, FS_AddElement
  <2> QED BY <2>5, <2>7, <2>9, <2>11
<1>8. M = Nat
  <2> HIDE DEF M
  <2>1. M \in SUBSET Nat BY DEF M
  <2> QED BY <1>6, <1>7, <2>1, SetInduction
<1>9. Good(Len(list))
  <2> HIDE DEF Good
  <2> QED BY <1>1, <1>8
<1> QED BY <1>5, <1>9

LEMMA FeedsTyped ==
    ASSUME TypeOK, UrlsDiffer
    PROVE  parseFeeds(feeds) \subseteq Feed
<1>1. feeds \in Seq(Lines)
  BY DEF TypeOK
<1>2. AreOf(parseFeeds(feeds), feeds, Len(feeds))
  BY <1>1, FeedsParsed DEF UrlsDiffer
<1> SUFFICES ASSUME NEW f \in parseFeeds(feeds)
             PROVE  f \in Feed
  OBVIOUS
<1>3. PICK i \in 1..Len(feeds) : f = [url |-> feeds[i].url, file |-> f.file]
                                 /\ f.file \in Tries(feeds[i].name)
  BY <1>2 DEF AreOf
<1>4. feeds[i].url \in Url /\ feeds[i].name \in Name
  BY <1>1, DigestAssumption
<1> QED BY <1>3, <1>4 DEF Feed, File

\* A list without one of its lines.
LEMMA Removal ==
    ASSUME NEW list \in Seq(Lines), NEW i \in DOMAIN list
    PROVE  /\ RemoveAt(list, i) \in Seq(Lines)
           /\ DOMAIN RemoveAt(list, i) = 1..(Len(list) - 1)
           /\ \A j \in 1..(Len(list) - 1) :
                 RemoveAt(list, i)[j] = list[IF j < i THEN j ELSE j + 1]
<1>1. Len(list) \in Nat /\ i \in 1..Len(list)
  OBVIOUS
<1>2. /\ SubSeq(list, 1, i - 1) \in Seq(Lines)
      /\ Len(SubSeq(list, 1, i - 1)) = i - 1
      /\ \A j \in 1..(i - 1) : SubSeq(list, 1, i - 1)[j] = list[j]
  BY <1>1
<1>3. /\ SubSeq(list, i + 1, Len(list)) \in Seq(Lines)
      /\ Len(SubSeq(list, i + 1, Len(list))) = Len(list) - i
      /\ \A j \in 1..(Len(list) - i) : SubSeq(list, i + 1, Len(list))[j] = list[i + j]
  BY <1>1
<1> DEFINE a == SubSeq(list, 1, i - 1)
<1> DEFINE b == SubSeq(list, i + 1, Len(list))
<1>4. RemoveAt(list, i) = a \o b
  BY DEF RemoveAt
<1> HIDE DEF a, b
<1>5. /\ a \in Seq(Lines) /\ Len(a) = i - 1 /\ \A j \in 1..(i - 1) : a[j] = list[j]
      /\ b \in Seq(Lines) /\ Len(b) = Len(list) - i
      /\ \A j \in 1..(Len(list) - i) : b[j] = list[i + j]
  BY <1>2, <1>3 DEF a, b
<1>6. a \o b \in Seq(Lines) /\ Len(a \o b) = Len(list) - 1
  BY <1>1, <1>5
<1>7. ASSUME NEW j \in 1..(Len(list) - 1)
      PROVE  (a \o b)[j] = list[IF j < i THEN j ELSE j + 1]
  <2>1. CASE j < i
    <3>1. (a \o b)[j] = a[j]
      BY <1>1, <1>5, <2>1
    <3> QED BY <1>1, <1>5, <2>1, <3>1
  <2>2. CASE ~(j < i)
    <3>1. j - (i - 1) \in 1..(Len(list) - i) /\ j > Len(a) /\ j \in 1..(Len(a) + Len(b))
      BY <1>1, <1>5, <2>2
    <3>2. (a \o b)[j] = b[j - Len(a)]
      <4>1. a \in Seq(Lines) /\ b \in Seq(Lines)
        BY <1>5
      <4>2. Len(a) \in Nat /\ Len(b) \in Nat /\ j \in Int
        BY <4>1
      <4> QED BY <3>1, <4>1, <4>2
    <3>3. b[j - (i - 1)] = list[i + (j - (i - 1))]
      BY <1>5, <3>1
    <3>4. i + (j - (i - 1)) = j + 1
      BY <1>1
    <3> QED BY <1>5, <2>2, <3>2, <3>3, <3>4
  <2> QED BY <2>1, <2>2
<1> QED BY <1>4, <1>6, <1>7

-----------------------------------------------------------------------------
(***************************************************************************)
(* The types, action by action.  The user's and the world's steps first.   *)
(***************************************************************************)

LEMMA FollowKeeps ==
    ASSUME TypeOK, UrlsDiffer, NEW l \in Lines, Follow(l)
    PROVE  TypeOK' /\ UrlsDiffer'
<1>1. feeds \in Seq(Lines) /\ feeds' = Append(feeds, l)
  BY DEF TypeOK, Follow
<1>2. feeds' \in Seq(Lines)
  BY <1>1
<1>3. DOMAIN feeds' = 1..(Len(feeds) + 1) /\ DOMAIN feeds = 1..Len(feeds) /\ Len(feeds) \in Nat
  BY <1>1
<1>4. feeds'[Len(feeds) + 1] = l /\ \A i \in 1..Len(feeds) : feeds'[i] = feeds[i]
  BY <1>1
<1>5. UrlsDiffer'
  BY <1>3, <1>4 DEF UrlsDiffer, Follow
<1>6. changes' \in 0..MaxChanges
  BY DigestAssumption DEF Follow, Changing, TypeOK
<1> QED BY <1>2, <1>5, <1>6 DEF TypeOK, Follow, record

LEMMA UnfollowKeeps ==
    ASSUME TypeOK, UrlsDiffer, NEW url \in Url, unfollowFeed(url)
    PROVE  TypeOK' /\ UrlsDiffer'
<1>1. feeds' \in Seq(Lines) /\ UrlsDiffer'
  <2>1. CASE UNCHANGED feeds
    BY <2>1 DEF TypeOK, UrlsDiffer
  <2>2. CASE \E i \in DOMAIN feeds : feeds' = RemoveAt(feeds, i)
    <3>1. PICK i \in DOMAIN feeds : feeds' = RemoveAt(feeds, i)
      BY <2>2
    <3>2. feeds \in Seq(Lines) /\ DOMAIN feeds = 1..Len(feeds) /\ Len(feeds) \in Nat
      BY DEF TypeOK
    <3>3. /\ feeds' \in Seq(Lines) /\ DOMAIN feeds' = 1..(Len(feeds) - 1)
          /\ \A j \in 1..(Len(feeds) - 1) : feeds'[j] = feeds[IF j < i THEN j ELSE j + 1]
      BY <3>1, <3>2, Removal
    <3>4. ASSUME NEW j \in 1..(Len(feeds) - 1), NEW k \in 1..(Len(feeds) - 1),
                 feeds'[j].url = feeds'[k].url
          PROVE  j = k
      <4>1. i \in 1..Len(feeds)
        BY <3>2
      <4>2. PICK m \in DOMAIN feeds : m = IF j < i THEN j ELSE j + 1
        BY <3>2, <4>1
      <4>3. PICK n \in DOMAIN feeds : n = IF k < i THEN k ELSE k + 1
        BY <3>2, <4>1
      <4>4. feeds'[j] = feeds[m] /\ feeds'[k] = feeds[n]
        BY <3>3, <4>2, <4>3
      <4>5. m = n
        BY <3>4, <4>4 DEF UrlsDiffer
      <4> QED BY <4>1, <4>2, <4>3, <4>5, <3>2
    <3> QED BY <3>3, <3>4 DEF UrlsDiffer
  <2> QED BY <2>1, <2>2 DEF unfollowFeed
<1>2. changes' \in 0..MaxChanges
  BY DigestAssumption DEF unfollowFeed, Changing, TypeOK
<1> QED BY <1>1, <1>2 DEF TypeOK, unfollowFeed, record

LEMMA SiteKeepsTypes ==
    ASSUME TypeOK, UrlsDiffer,
           \/ \E m \in {"digest", "nomail", "lapsed"} : SetMode(m)
           \/ \E u \in Url : Publish(u)
           \/ Day
    PROVE  TypeOK' /\ UrlsDiffer'
<1>1. CASE \E m \in {"digest", "nomail", "lapsed"} : SetMode(m)
  <2>1. changes' \in 0..MaxChanges
    BY <1>1, DigestAssumption DEF SetMode, Changing, TypeOK
  <2> QED BY <1>1, <2>1 DEF SetMode, TypeOK, UrlsDiffer, files, record
<1>2. CASE \E u \in Url : Publish(u)
  <2>1. published' \in [Url -> Nat]
    BY <1>2 DEF Publish, TypeOK
  <2> QED BY <1>2, <2>1 DEF Publish, TypeOK, UrlsDiffer, files, record
<1>3. CASE Day
  BY <1>3 DEF Day, TypeOK, UrlsDiffer, site
<1> QED BY <1>1, <1>2, <1>3

-----------------------------------------------------------------------------
(***************************************************************************)
(* The steps of the job.                                                   *)
(***************************************************************************)

JobType == [at : Steps, mode : {"digest", "nomail", "lapsed"},
            feeds : SUBSET Feed, up : SUBSET Feed]

\* A step goes to another one, or to the end.
LEMMA Stepping ==
    ASSUME TypeOK
    PROVE  /\ Idle \in JobType /\ Idle.at = "idle"
           /\ End => job' = Idle
           /\ \A s \in Steps : GoTo(s) => /\ job' \in JobType /\ job'.at = s
                                          /\ job'.feeds = job.feeds /\ job'.mode = job.mode
                                          /\ job'.up = job.up
           /\ \A s \in Steps : GoOnTo(s) => /\ job' \in JobType /\ job'.at = s
                                            /\ job'.feeds = job.feeds /\ job'.up = {}
<1>1. job \in JobType
  BY DEF TypeOK, JobType
<1>2. Idle \in JobType /\ Idle.at = "idle"
  BY DEF Idle, JobType, Steps
<1>3. ASSUME NEW s \in Steps, GoTo(s)
      PROVE  /\ job' \in JobType /\ job'.at = s
             /\ job'.feeds = job.feeds /\ job'.mode = job.mode /\ job'.up = job.up
  <2>1. job' = [job EXCEPT !.at = s]
    BY <1>3 DEF GoTo
  <2> QED BY <1>1, <2>1 DEF JobType
<1>4. ASSUME NEW s \in Steps, GoOnTo(s)
      PROVE  job' \in JobType /\ job'.at = s /\ job'.feeds = job.feeds /\ job'.up = {}
  <2>1. job' = [job EXCEPT !.at = s, !.up = {}]
    BY <1>4 DEF GoOnTo
  <2> QED BY <1>1, <2>1 DEF JobType
<1> QED BY <1>2, <1>3, <1>4 DEF End

LEMMA FaultTyped ==
    ASSUME TypeOK, NEW kind, Fault(kind)
    PROVE  faults' \in 0..MaxFaults /\ faults' = faults + 1 /\ faults \in Nat
BY DigestAssumption DEF TypeOK, Fault

LEMMA KeysTyped ==
    ASSUME TypeOK, NEW fs \in SUBSET Feed
    PROVE  keys(fs) \subseteq Key
<1> SUFFICES ASSUME NEW f \in fs, NEW x \in items[f.file]
             PROVE  [file |-> f.file, item |-> x] \in Key
  BY DEF keys
<1>1. f.file \in File
  BY DEF Feed
<1>2. x \in Item
  BY <1>1 DEF TypeOK
<1> QED BY <1>1, <1>2 DEF Key

\* The job's feeds are feeds.
LEMMA JobTyped ==
    ASSUME TypeOK
    PROVE  /\ job.feeds \in SUBSET Feed /\ job.up \in SUBSET Feed
           /\ job.mode \in {"digest", "nomail", "lapsed"} /\ job.at \in Steps
BY DEF TypeOK

\* A step that changes only the job, and perhaps the count of faults.
LEMMA OnlyJob ==
    ASSUME TypeOK, UrlsDiffer, UNCHANGED <<site, files, record>>,
           job' \in JobType, faults' \in 0..MaxFaults
    PROVE  TypeOK' /\ UrlsDiffer'
BY DEF TypeOK, UrlsDiffer, site, files, record, JobType

LEMMA StartKeeps ==
    ASSUME TypeOK, UrlsDiffer, Start
    PROVE  TypeOK' /\ UrlsDiffer'
<1>1. job' = [Idle EXCEPT !.at = "turn", !.mode = mode] /\ mode \in {"digest", "nomail", "lapsed"}
  BY DEF Start, TypeOK
<1>2. job' \in JobType
  BY <1>1 DEF Idle, JobType, Steps
<1>3. faults' \in 0..MaxFaults
  BY DEF Start, TypeOK
<1> QED BY <1>2, <1>3, OnlyJob DEF Start

LEMMA TurnKeeps ==
    ASSUME TypeOK, UrlsDiffer, NEW up \in SUBSET parseFeeds(feeds), Turn(up)
    PROVE  TypeOK' /\ UrlsDiffer'
<1>1. job' \in JobType
  <2>1. CASE job' = [job EXCEPT !.at = "fetch", !.feeds = parseFeeds(feeds), !.up = up]
    <3>1. job \in JobType /\ parseFeeds(feeds) \subseteq Feed
      BY FeedsTyped DEF TypeOK, JobType
    <3> QED BY <2>1, <3>1 DEF JobType, Steps
  <2>2. CASE End
    BY <2>2, Stepping
  <2> QED BY <2>1, <2>2 DEF Turn, Fails
<1>2. faults' \in 0..MaxFaults
  BY FaultTyped DEF Turn, Fails, TypeOK
<1>3. dir' \in BOOLEAN
  BY DEF Turn, TypeOK
<1> QED BY <1>1, <1>2, <1>3 DEF Turn, TypeOK, UrlsDiffer, site, record, JobType

LEMMA FetchKeeps ==
    ASSUME TypeOK, UrlsDiffer, NEW ok \in SUBSET job.up, Fetch(ok)
    PROVE  TypeOK' /\ UrlsDiffer'
<1>1. job' \in JobType
  BY Stepping DEF Fetch, Fails, Steps
<1>2. faults' \in 0..MaxFaults
  BY FaultTyped DEF Fetch, Fails, TypeOK
<1>3. \A f : Published(f) \subseteq Item
  BY DEF Published
<1>4. items' \in [File -> SUBSET Item] /\ old' \subseteq Key
  <2>1. CASE UNCHANGED <<items, old>>
    BY <2>1 DEF TypeOK
  <2>2. CASE Update(ok)
    <3>1. \A file \in File : items[file] \subseteq Item
      BY DEF TypeOK
    <3>2. items' \in [File -> SUBSET Item]
      BY <1>3, <2>2, <3>1 DEF Update
    <3>3. old' \subseteq Key
      <4>1. \A f \in Feed : PublishedKeys(f) \subseteq Key
        BY <1>3 DEF PublishedKeys, Key, Feed
      <4>2. Unknown \subseteq job.feeds /\ job.feeds \subseteq Feed
        BY JobTyped DEF Unknown
      <4>3. {f \in IF First THEN job.feeds ELSE Unknown :
               \A x \in items[f.file] : x[1] # f.url} \subseteq Feed
        BY <4>2
      <4> QED BY <2>2, <4>1, <4>3 DEF Update, TypeOK
    <3> QED BY <3>2, <3>3
  <2> QED BY <2>1, <2>2 DEF Fetch
<1> QED BY <1>1, <1>2, <1>4 DEF Fetch, TypeOK, UrlsDiffer, site, JobType

LEMMA CleanKeeps ==
    ASSUME TypeOK, UrlsDiffer, NEW left \in SUBSET Stale, Clean(left)
    PROVE  TypeOK' /\ UrlsDiffer'
<1>1. job' \in JobType
  BY Stepping DEF Clean, Fails, Steps
<1>2. faults' \in 0..MaxFaults
  BY FaultTyped DEF Clean, Fails, TypeOK
<1>3. items' \in [File -> SUBSET Item]
  BY DEF Clean, Sweep, TypeOK
<1> QED BY <1>1, <1>2, <1>3 DEF Clean, TypeOK, UrlsDiffer, site, record, JobType

LEMMA ForgetKeeps ==
    ASSUME TypeOK, UrlsDiffer, Forget
    PROVE  TypeOK' /\ UrlsDiffer'
<1>1. job' \in JobType
  BY Stepping DEF Forget, Steps
<1>2. faults' \in 0..MaxFaults
  BY FaultTyped DEF Forget, TypeOK
<1>3. inbox' \in [Item -> Nat] /\ noted' \subseteq Key /\ old' \subseteq Key
  BY DEF Forget, TypeOK
<1>4. /\ mailed' = NoFile \/ mailed' \subseteq Key
      /\ known' = NoFile \/ known' \subseteq Feed
      /\ due' \in BOOLEAN
  BY DEF Forget, TypeOK
<1> QED BY <1>1, <1>2, <1>3, <1>4 DEF Forget, TypeOK, UrlsDiffer, site, JobType

LEMMA FirstKeeps ==
    ASSUME TypeOK, UrlsDiffer, FirstDigest
    PROVE  TypeOK' /\ UrlsDiffer'
<1>1. job' \in JobType
  BY Stepping DEF FirstDigest, Fails, Steps
<1>2. faults' \in 0..MaxFaults
  BY FaultTyped DEF FirstDigest, Fails, TypeOK
<1>3. keys(job.feeds) \subseteq Key /\ job.feeds \subseteq Feed
  BY KeysTyped, JobTyped
<1>4. /\ mailed' = NoFile \/ mailed' \subseteq Key
      /\ noted' \subseteq Key
      /\ known' = NoFile \/ known' \subseteq Feed
  BY <1>3 DEF FirstDigest, TypeOK
<1> QED BY <1>1, <1>2, <1>4 DEF FirstDigest, TypeOK, UrlsDiffer, site, JobType

LEMMA FoundTyped ==
    ASSUME TypeOK
    PROVE  Found \subseteq job.feeds /\ Found \in SUBSET Feed /\ keys(Found) \subseteq Key
<1>1. Found \subseteq job.feeds
  BY DEF Found, Unknown
<1>2. Found \in SUBSET Feed
  BY <1>1, JobTyped
<1> QED BY <1>1, <1>2, KeysTyped

LEMMA NoteKeeps ==
    ASSUME TypeOK, UrlsDiffer, Accounted, Note
    PROVE  TypeOK' /\ UrlsDiffer'
<1>1. job' \in JobType
  BY Stepping DEF Note, Fails, Steps
<1>2. faults' \in 0..MaxFaults
  BY FaultTyped DEF Note, Fails, TypeOK
<1>3. mailed \subseteq Key
  BY DEF Accounted, Note, At, Working
<1>4. mailed' \subseteq Key /\ noted' \subseteq Key
  BY <1>3, FoundTyped DEF Note, TypeOK
<1> QED BY <1>1, <1>2, <1>4 DEF Note, TypeOK, UrlsDiffer, site, JobType

LEMMA KnowKeeps ==
    ASSUME TypeOK, UrlsDiffer, Know
    PROVE  TypeOK' /\ UrlsDiffer'
<1>1. job' \in JobType
  BY Stepping DEF Know, Fails, Steps
<1>2. faults' \in 0..MaxFaults
  BY FaultTyped DEF Know, Fails, TypeOK
<1>3. NowKnown \subseteq Feed
  BY FoundTyped, JobTyped DEF NowKnown
<1>4. known' = NoFile \/ known' \subseteq Feed
  BY <1>3 DEF Know, TypeOK
<1> QED BY <1>1, <1>2, <1>4 DEF Know, TypeOK, UrlsDiffer, site, record, JobType

LEMMA MailKeeps ==
    ASSUME TypeOK, UrlsDiffer, Mail
    PROVE  TypeOK' /\ UrlsDiffer'
<1>1. job' \in JobType
  BY Stepping DEF Mail, Send, Steps
<1>2. faults' \in 0..MaxFaults
  BY FaultTyped DEF Mail, Send, TypeOK
<1>3. Reach => inbox' \in [Item -> Nat] /\ today' \in Nat
  BY DEF Reach, TypeOK
<1>4. inbox' \in [Item -> Nat] /\ today' \in Nat
  BY <1>3 DEF Mail, Send, TypeOK
<1> QED BY <1>1, <1>2, <1>4 DEF Mail, TypeOK, UrlsDiffer, site, files, JobType

LEMMA RecordKeeps ==
    ASSUME TypeOK, UrlsDiffer, Accounted, Record
    PROVE  TypeOK' /\ UrlsDiffer'
<1>1. job' \in JobType
  BY Stepping DEF Record, Fails, Steps
<1>2. faults' \in 0..MaxFaults
  BY FaultTyped DEF Record, Fails, TypeOK
<1>3. mailed \subseteq Key
  BY DEF Accounted, Record, At, Working
<1>4. newKeys \subseteq Key
  BY KeysTyped, JobTyped DEF newKeys
<1>5. mailed' \subseteq Key
  BY <1>3, <1>4 DEF Record
<1> QED BY <1>1, <1>2, <1>5 DEF Record, TypeOK, UrlsDiffer, site, record, JobType

LEMMA StampKeeps ==
    ASSUME TypeOK, UrlsDiffer, Stamp
    PROVE  TypeOK' /\ UrlsDiffer'
<1>1. job' \in JobType
  BY Stepping DEF Stamp, Fails, Steps
<1>2. faults' \in 0..MaxFaults
  BY FaultTyped DEF Stamp, Fails, TypeOK
<1>3. due' \in BOOLEAN
  BY DEF Stamp, TypeOK
<1> QED BY <1>1, <1>2, <1>3 DEF Stamp, TypeOK, UrlsDiffer, site, record, JobType

LEMMA CrashKeeps ==
    ASSUME TypeOK, UrlsDiffer, Crash
    PROVE  TypeOK' /\ UrlsDiffer'
<1>1. job' \in JobType
  BY Stepping DEF Crash
<1>2. faults' \in 0..MaxFaults
  BY FaultTyped DEF Crash
<1> QED BY <1>1, <1>2, OnlyJob DEF Crash

-----------------------------------------------------------------------------
(***************************************************************************)
(* What the file mailed says.                                              *)
(***************************************************************************)

Said == Accounted /\ SentBeforeRecord /\ NoneMailed

\* The steps that leave mailed, noted, inbox and the items alone keep it, when the job
\* stays where it is, or goes on to where the same is asked of it, or to less.
LEMMA SaidStays ==
    ASSUME Said, UNCHANGED <<items, mailed, inbox, noted, job>>
    PROVE  Said'
BY DEF Said, Accounted, SentBeforeRecord, NoneMailed, At, newKeys, keys

LEMMA SaidAtEase ==
    ASSUME Said, UNCHANGED <<mailed, inbox, noted>>,
           job'.at \in {"idle", "turn", "fetch", "clean", "forget", "unstamp", "unknow",
                       "stamp", "firstknown"}
    PROVE  Said'
BY DEF Said, Accounted, SentBeforeRecord, NoneMailed, At, Working

LEMMA SaidByClean ==
    ASSUME TypeOK, Said, NEW left \in SUBSET Stale, Clean(left)
    PROVE  Said'
<1>1. UNCHANGED <<mailed, inbox, noted>>
  BY DEF Clean, record
<1>2. CASE End \/ GoOnTo("forget")
  <2>1. job'.at \in {"idle", "forget"}
    BY <1>2, Stepping DEF Steps
  <2> QED BY <1>1, <2>1, SaidAtEase
<1>3. CASE GoOnTo(IF First THEN "first" ELSE "note")
  <2>1. CASE mailed = NoFile
    <3>1. job'.at = "first"
      BY <1>3, <2>1, Stepping DEF First, Steps
    <3> QED BY <1>1, <2>1, <3>1 DEF Said, Accounted, SentBeforeRecord, NoneMailed, At, Working
  <2>2. CASE mailed # NoFile
    <3>1. job'.at = "note"
      BY <1>3, <2>2, Stepping DEF First, Steps
    <3> QED BY <1>1, <2>2, <3>1 DEF Said, Accounted, SentBeforeRecord, NoneMailed, At
  <2> QED BY <2>1, <2>2
<1> QED BY <1>2, <1>3 DEF Clean, Fails

LEMMA SaidByForget ==
    ASSUME TypeOK, Said, Forget
    PROVE  Said'
<1>1. job'.at \in {"unstamp", "unknow", "idle"}
  BY Stepping DEF Forget, Steps
<1>2. CASE mailed' = NoFile
  BY <1>1, <1>2 DEF Said, Accounted, SentBeforeRecord, NoneMailed, At, Working
<1>3. CASE UNCHANGED <<mailed, inbox, noted>>
  BY <1>1, <1>3, SaidAtEase
<1> QED BY <1>2, <1>3 DEF Forget

LEMMA SaidByFirst ==
    ASSUME TypeOK, Said, FirstDigest
    PROVE  Said'
<1>1. CASE mailed' = keys(job.feeds) /\ noted' = noted \cup keys(job.feeds) /\ GoTo("firstknown")
  <2>1. job'.at = "firstknown"
    BY <1>1, Stepping DEF Steps
  <2>2. keys(job.feeds) \subseteq Key
    BY KeysTyped, JobTyped
  <2>3. \A k \in mailed' : k \in Key /\ k \in noted'
    BY <1>1, <2>2
  <2> QED BY <2>1, <2>3 DEF Said, Accounted, SentBeforeRecord, NoneMailed, At, Working
<1>2. CASE job'.at \in {"idle", "stamp"} /\ UNCHANGED <<mailed, noted>>
  <2>1. UNCHANGED inbox
    BY DEF FirstDigest
  <2> QED BY <1>2, <2>1, SaidAtEase
<1> QED BY <1>1, <1>2, Stepping DEF FirstDigest, Fails, Steps

LEMMA SaidByNoteAndKnow ==
    ASSUME TypeOK, Said, Note \/ Know
    PROVE  Said'
<1>1. \A k \in mailed : k \in Key /\ (k \in noted \/ inbox[k.item] > 0)
  BY DEF Said, Accounted, Note, Know, At, Working
<1>2. CASE Note
  <2>1. UNCHANGED inbox
    BY <1>2 DEF Note
  <2>2. CASE mailed' = mailed \cup keys(Found) /\ noted' = noted \cup keys(Found) /\ GoTo("know")
    <3>1. job'.at = "know"
      BY <2>2, Stepping DEF Steps
    <3>2. \A k \in mailed' : k \in Key /\ (k \in noted' \/ inbox'[k.item] > 0)
      BY <1>1, <2>1, <2>2, FoundTyped
    <3> QED BY <3>1, <3>2 DEF Said, Accounted, SentBeforeRecord, NoneMailed, At
  <2>3. CASE End /\ UNCHANGED <<mailed, noted>>
    BY <2>1, <2>3, SaidAtEase, Stepping
  <2> QED BY <1>2, <2>2, <2>3 DEF Note, Fails
<1>3. CASE Know
  <2>1. UNCHANGED <<mailed, inbox, noted>>
    BY <1>3 DEF Know, record
  <2>2. job'.at \in {"mail", "idle"}
    BY <1>3, Stepping DEF Know, Fails, Steps
  <2> QED BY <1>1, <2>1, <2>2 DEF Said, Accounted, SentBeforeRecord, NoneMailed, At
<1> QED BY <1>2, <1>3

LEMMA SaidByMail ==
    ASSUME TypeOK, Said, Mail
    PROVE  Said'
<1>1. \A k \in mailed : k \in Key /\ (k \in noted \/ inbox[k.item] > 0)
  BY DEF Said, Accounted, Mail, At, Working
<1>2. UNCHANGED <<items, mailed, noted>>
  BY DEF Mail, files
<1>3. \A x \in Item : inbox[x] \in Nat /\ inbox'[x] \in Nat /\ inbox'[x] >= inbox[x]
  <2>1. \A x \in Item : inbox[x] \in Nat
    BY DEF TypeOK
  <2>2. ASSUME Reach, NEW x \in Item
        PROVE  inbox'[x] \in Nat /\ inbox'[x] >= inbox[x]
    <3>1. inbox'[x] = inbox[x] + IF \E k \in newKeys : k.item = x THEN 1 ELSE 0
      BY <2>2 DEF Reach
    <3>2. inbox'[x] = inbox[x] + 1 \/ inbox'[x] = inbox[x]
      BY <2>1, <3>1
    <3> QED BY <2>1, <3>2
  <2>3. Reach \/ UNCHANGED inbox
    BY DEF Mail, Send
  <2> QED BY <2>1, <2>2, <2>3
<1>4. \A k \in mailed : k \in Key /\ (k \in noted' \/ inbox'[k.item] > 0)
  BY <1>1, <1>2, <1>3 DEF Key
<1>5. CASE End
  BY <1>2, <1>4, <1>5, Stepping DEF Said, Accounted, SentBeforeRecord, NoneMailed, At
<1>6. CASE Reach /\ GoTo("record")
  <2>1. job'.at = "record" /\ job'.feeds = job.feeds
    BY <1>6, Stepping DEF Steps
  <2>2. newKeys' = newKeys
    BY <1>2, <2>1 DEF newKeys, keys
  <2>3. newKeys \subseteq Key
    BY KeysTyped, JobTyped DEF newKeys
  <2>4. \A k \in newKeys : inbox'[k.item] > 0
    BY <1>6, <2>3 DEF Reach, Key, TypeOK
  <2> QED BY <1>2, <1>4, <2>1, <2>2, <2>4 DEF Said, Accounted, SentBeforeRecord, NoneMailed, At
<1> QED BY <1>5, <1>6 DEF Mail, Send

LEMMA SaidByRecord ==
    ASSUME TypeOK, Said, Record
    PROVE  Said'
<1>1. \A k \in mailed : k \in Key /\ (k \in noted \/ inbox[k.item] > 0)
  BY DEF Said, Accounted, Record, At, Working
<1>2. UNCHANGED <<inbox, noted>>
  BY DEF Record, record
<1>3. CASE mailed' = mailed \cup newKeys /\ GoTo("stamp")
  <2>1. job'.at = "stamp"
    BY <1>3, Stepping DEF Steps
  <2>2. newKeys \subseteq Key
    BY KeysTyped, JobTyped DEF newKeys
  <2>3. \A k \in newKeys : inbox[k.item] > 0
    BY DEF Said, SentBeforeRecord, Record
  <2>4. \A k \in mailed' : k \in Key /\ (k \in noted' \/ inbox'[k.item] > 0)
    BY <1>1, <1>2, <1>3, <2>2, <2>3
  <2> QED BY <2>1, <2>4 DEF Said, Accounted, SentBeforeRecord, NoneMailed, At
<1>4. CASE End /\ UNCHANGED mailed
  BY <1>2, <1>4, SaidAtEase, Stepping
<1> QED BY <1>3, <1>4 DEF Record, Fails

-----------------------------------------------------------------------------
(***************************************************************************)
(* How many mails a day there can still be.                                *)
(***************************************************************************)

\* A fault pays for what the job loses when it stops.
LEMMA FaultPays ==
    ASSUME TypeOK, MailToCome, NEW kind, Fault(kind), UNCHANGED today
    PROVE  MailToCome'
<1>1. faults' = faults + 1 /\ faults \in Nat /\ today \in Nat
  BY FaultTyped DEF TypeOK
<1> QED BY <1>1 DEF MailToCome

\* So does a day, or whatever leaves as little to come as there was.
LEMMA NoMoreToCome ==
    ASSUME TypeOK, MailToCome, UNCHANGED <<today, faults>>, Spent => Spent'
    PROVE  MailToCome'
<1>1. faults \in Nat /\ today \in Nat
  BY DEF TypeOK
<1> QED BY <1>1 DEF MailToCome

LEMMA SiteKeepsRoom ==
    ASSUME TypeOK, MailToCome,
           \/ \E l \in Lines : Follow(l)
           \/ \E u \in Url : unfollowFeed(u) \/ Publish(u)
           \/ \E m \in {"digest", "nomail", "lapsed"} : SetMode(m)
           \/ Day
    PROVE  MailToCome'
<1>1. CASE Day
  <2>1. today' = 0 /\ faults' = faults /\ faults \in Nat
    BY <1>1 DEF Day, TypeOK
  <2> QED BY <2>1 DEF MailToCome
<1>2. CASE UNCHANGED <<due, job, mailed, today, faults>>
  <2>1. Spent => Spent'
    BY <1>2 DEF Spent, At
  <2> QED BY <1>2, <2>1, NoMoreToCome
<1> QED BY <1>1, <1>2 DEF Follow, unfollowFeed, Publish, SetMode, files, record

LEMMA JobKeepsRoom ==
    ASSUME TypeOK, MailToCome, NoneMailed,
           \/ Start
           \/ \E up \in SUBSET parseFeeds(feeds) : Turn(up)
           \/ \E ok \in SUBSET job.up : Fetch(ok)
           \/ \E left \in SUBSET Stale : Clean(left)
           \/ Forget
    PROVE  MailToCome'
<1>1. today \in Nat /\ faults \in Nat /\ UNCHANGED today
  <2>1. UNCHANGED today
    <3>1. Start \/ Forget \/ (\E left : Clean(left)) => UNCHANGED today
      BY DEF Start, Clean, Forget, record
    <3>2. \A up : Turn(up) => UNCHANGED today
      BY DEF Turn, record
    <3>3. \A ok : Fetch(ok) => UNCHANGED today
      BY DEF Fetch
    <3> QED BY <3>1, <3>2, <3>3
  <2> QED BY <2>1 DEF TypeOK
<1>2. CASE Fails
  BY <1>1, <1>2, FaultPays DEF Fails
<1>3. ASSUME UNCHANGED <<due, mailed, faults>>,
             job.at \in {"idle", "turn", "fetch", "clean", "forget"},
             job'.at \in {"idle", "turn", "fetch", "clean", "forget"}
      PROVE  MailToCome'
  BY <1>1, <1>3, NoMoreToCome DEF Spent, At
<1>4. CASE Start
  <2>1. job.at = "idle" /\ job'.at = "turn" /\ UNCHANGED <<due, mailed, faults>>
    BY <1>4 DEF Start, At, Idle, files
  <2> QED BY <1>3, <2>1
<1>5. ASSUME NEW up \in SUBSET parseFeeds(feeds), Turn(up) PROVE MailToCome'
  <2>1. job.at = "turn" /\ UNCHANGED <<due, mailed>>
    BY <1>5 DEF Turn, At
  <2>2. CASE job' = [job EXCEPT !.at = "fetch", !.feeds = parseFeeds(feeds), !.up = up]
             /\ UNCHANGED faults
    <3>1. job'.at = "fetch"
      BY <2>2 DEF TypeOK
    <3> QED BY <1>3, <2>1, <2>2, <3>1
  <2>3. CASE End /\ UNCHANGED faults
    <3>1. job'.at = "idle"
      BY <2>3, Stepping
    <3> QED BY <1>3, <2>1, <2>3, <3>1
  <2> QED BY <1>2, <1>5, <2>2, <2>3 DEF Turn
<1>6. ASSUME NEW ok \in SUBSET job.up, Fetch(ok) PROVE MailToCome'
  <2>1. job.at = "fetch" /\ UNCHANGED <<due, mailed>>
    BY <1>6 DEF Fetch, At
  <2>2. CASE GoTo("clean") /\ UNCHANGED faults
    <3>1. job'.at = "clean"
      BY <2>2, Stepping DEF Steps
    <3> QED BY <1>3, <2>1, <2>2, <3>1
  <2> QED BY <1>2, <1>6, <2>2 DEF Fetch
<1>7. ASSUME NEW kind, Fault(kind) PROVE MailToCome'
  BY <1>1, <1>7, FaultPays
<1>8. ASSUME NEW left \in SUBSET Stale, Clean(left) PROVE MailToCome'
  <2>1. job.at = "clean" /\ UNCHANGED <<due, mailed>>
    BY <1>8 DEF Clean, At
  <2>2. CASE GoOnTo("forget") /\ UNCHANGED faults
    <3>1. job'.at = "forget"
      BY <2>2, Stepping DEF Steps
    <3> QED BY <1>3, <2>1, <2>2, <3>1
  <2>3. CASE End /\ UNCHANGED faults
    <3>1. job'.at = "idle"
      BY <2>3, Stepping
    <3> QED BY <1>3, <2>1, <2>3, <3>1
  <2>4. CASE GoOnTo(IF First THEN "first" ELSE "note") /\ UNCHANGED faults
    <3>1. Spent => Spent'
      <4>1. CASE mailed = NoFile
        <5>1. job'.at = "first"
          BY <2>4, <4>1, Stepping DEF First, Steps
        <5> QED BY <5>1 DEF Spent
      <4>2. CASE mailed # NoFile
        <5>1. job'.at = "note"
          BY <2>4, <4>2, Stepping DEF First, Steps
        <5> QED BY <2>1, <4>2, <5>1 DEF Spent, At
      <4> QED BY <4>1, <4>2
    <3> QED BY <1>1, <2>4, <3>1, NoMoreToCome
  <2> QED BY <1>2, <1>7, <1>8, <2>2, <2>3, <2>4 DEF Clean
<1>9. CASE Forget
  <2>1. CASE UNCHANGED faults
    <3>1. CASE At("forget") /\ GoTo("unstamp") /\ mailed' = NoFile
      <4>1. job'.at = "unstamp"
        BY <3>1, Stepping DEF Steps
      <4>2. Spent'
        BY <3>1, <4>1 DEF Spent
      <4> QED BY <1>1, <2>1, <4>2, NoMoreToCome
    <3>2. CASE At("unstamp") /\ GoTo("unknow") /\ UNCHANGED mailed
      <4>1. job.at = "unstamp" /\ job'.at = "unknow"
        BY <3>2, Stepping DEF At, Steps
      <4>2. Spent => Spent'
        BY <3>2, <4>1 DEF Spent, At
      <4> QED BY <1>1, <2>1, <4>2, NoMoreToCome
    <3>3. CASE At("unknow") /\ End /\ UNCHANGED <<mailed, due>>
      <4>1. job.at = "unknow" /\ job'.at = "idle"
        BY <3>3, Stepping DEF At
      <4>2. Spent => Spent'
        BY <3>3, <4>1 DEF Spent, At
      <4> QED BY <1>1, <2>1, <4>2, NoMoreToCome
    <3>4. ~Fault("io")
      BY <1>1, <2>1 DEF Fault
    <3> QED BY <1>9, <3>1, <3>2, <3>3, <3>4 DEF Forget
  <2>2. CASE Fault("io")
    BY <1>7, <2>2
  <2> QED BY <1>9, <2>1, <2>2 DEF Forget
<1> QED BY <1>4, <1>5, <1>6, <1>8, <1>9

LEMMA DigestKeepsRoom ==
    ASSUME TypeOK, MailToCome, NoneMailed,
           FirstDigest \/ Note \/ Know \/ Mail \/ Record \/ Stamp \/ Crash
    PROVE  MailToCome'
<1>1. today \in Nat /\ faults \in Nat
  BY DEF TypeOK
<1>2. CASE Fails /\ UNCHANGED today
  BY <1>2, FaultPays DEF Fails
<1>3. CASE FirstDigest
  <2>1. UNCHANGED today
    BY <1>3 DEF FirstDigest
  <2>2. CASE (GoTo("firstknown") \/ GoTo("stamp")) /\ UNCHANGED faults
    <3>1. job'.at \in {"firstknown", "stamp"}
      BY <2>2, Stepping DEF Steps
    <3> QED BY <2>1, <2>2, <3>1, NoMoreToCome DEF Spent
  <2> QED BY <1>2, <1>3, <2>1, <2>2 DEF FirstDigest
<1>4. CASE Note \/ Know
  <2>1. UNCHANGED <<today, due>> /\ job.at \in {"note", "know"}
    BY <1>4 DEF Note, Know, At, record
  <2>2. CASE UNCHANGED faults
    <3>1. job'.at \in {"know", "mail", "idle"}
      BY <1>4, Stepping DEF Note, Know, Fails, Steps
    <3>2. Spent => Spent'
      BY <2>1, <3>1 DEF Spent, At
    <3> QED BY <2>1, <2>2, <3>2, NoMoreToCome
  <2> QED BY <1>2, <1>4, <2>1, <2>2 DEF Note, Know
<1>5. CASE Mail
  <2>1. job.at = "mail" /\ UNCHANGED due
    BY <1>5 DEF Mail, At, files
  <2>2. CASE End /\ UNCHANGED <<today, faults>>
    <3>1. job'.at = "idle"
      BY <2>2, Stepping
    <3>2. Spent => Spent'
      BY <2>1, <3>1 DEF Spent, At
    <3> QED BY <2>2, <3>2, NoMoreToCome
  <2>3. CASE due /\ Reach /\ GoTo("record") /\ UNCHANGED faults
    <3>1. today <= faults
      BY <1>1, <2>1, <2>3 DEF MailToCome, Spent
    <3>2. job'.at = "record"
      BY <2>3, Stepping DEF Steps
    <3>3. today' = today + 1 /\ faults' = faults /\ Spent'
      BY <2>3, <3>2 DEF Reach, Spent
    <3> QED BY <1>1, <3>1, <3>3 DEF MailToCome
  <2>4. CASE due /\ Fault("mail") /\ (Reach \/ UNCHANGED today)
    <3>1. today <= faults
      BY <1>1, <2>1, <2>4 DEF MailToCome, Spent
    <3>2. faults' = faults + 1 /\ (today' = today + 1 \/ today' = today)
      BY <2>4 DEF Fault, Reach
    <3> QED BY <1>1, <3>1, <3>2 DEF MailToCome
  <2> QED BY <1>5, <2>2, <2>3, <2>4 DEF Mail, Send
<1>6. CASE Record
  <2>1. UNCHANGED today
    BY <1>6 DEF Record, record
  <2>2. CASE GoTo("stamp") /\ UNCHANGED faults
    <3>1. job'.at = "stamp"
      BY <2>2, Stepping DEF Steps
    <3> QED BY <2>1, <2>2, <3>1, NoMoreToCome DEF Spent
  <2> QED BY <1>2, <1>6, <2>1, <2>2 DEF Record
<1>7. CASE Stamp
  <2>1. UNCHANGED today
    BY <1>7 DEF Stamp, record
  <2>2. CASE due' = FALSE /\ End /\ UNCHANGED faults
    <3>1. job'.at = "idle"
      BY <2>2, Stepping
    <3> QED BY <2>1, <2>2, <3>1, NoMoreToCome DEF Spent, At
  <2> QED BY <1>2, <1>7, <2>1, <2>2 DEF Stamp
<1>8. CASE Crash
  BY <1>8, FaultPays DEF Crash, record
<1> QED BY <1>3, <1>4, <1>5, <1>6, <1>7, <1>8

-----------------------------------------------------------------------------
LEMMA InitKeeps == Init => IInv
<1> SUFFICES ASSUME Init PROVE IInv
  OBVIOUS
<1>1. feeds \in Seq(Lines) /\ UrlsDiffer
  <2>1. CASE feeds = << >>
    <3>1. feeds \in Seq(Lines) /\ DOMAIN feeds = {}
      BY <2>1
    <3> QED BY <3>1 DEF UrlsDiffer
  <2>2. ASSUME NEW l \in Lines, feeds = <<l>> PROVE feeds \in Seq(Lines) /\ UrlsDiffer
    <3>1. <<l>> \in Seq(Lines) /\ DOMAIN <<l>> = 1..1
      OBVIOUS
    <3>2. \A i, j \in 1..1 : i = j
      OBVIOUS
    <3> QED BY <2>2, <3>1, <3>2 DEF UrlsDiffer
  <2> QED BY <2>1, <2>2 DEF Init
<1>2. TypeOK
  <2>1. job \in [at : Steps, mode : {"digest", "nomail", "lapsed"},
                 feeds : SUBSET Feed, up : SUBSET Feed]
    BY DEF Init, Idle, Steps
  <2>2. items \in [File -> SUBSET Item] /\ inbox \in [Item -> Nat]
        /\ published \in [Url -> Nat]
    BY DEF Init
  <2>3. dir \in BOOLEAN /\ due \in BOOLEAN /\ mode \in {"digest", "nomail", "lapsed"}
    BY DEF Init
  <2>4. mailed = NoFile /\ known = NoFile /\ noted = {} /\ old = {} /\ today = 0
    BY DEF Init
  <2>5. changes \in 0..MaxChanges /\ faults \in 0..MaxFaults
    BY DigestAssumption DEF Init
  <2> QED BY <1>1, <2>1, <2>2, <2>3, <2>4, <2>5 DEF TypeOK
<1>3. Accounted /\ SentBeforeRecord /\ NoneMailed
  BY DEF Init, Idle, Accounted, SentBeforeRecord, NoneMailed, Working, At
<1>4. MailToCome
  BY DEF Init, MailToCome
<1> QED BY <1>1, <1>2, <1>3, <1>4 DEF IInv

LEMMA StepKeepsTypes == IInv /\ [Next]_vars => TypeOK' /\ UrlsDiffer'
<1> SUFFICES ASSUME IInv, [Next]_vars PROVE TypeOK' /\ UrlsDiffer'
  OBVIOUS
<1>1. TypeOK /\ UrlsDiffer /\ Accounted
  BY DEF IInv
<1>2. CASE UNCHANGED vars
  BY <1>1, <1>2 DEF vars, site, files, record, TypeOK, UrlsDiffer
<1>3. CASE Next
  <2>1. CASE \E l \in Lines : Follow(l)
    BY <1>1, <2>1, FollowKeeps
  <2>2. CASE \E u \in Url : unfollowFeed(u)
    BY <1>1, <2>2, UnfollowKeeps
  <2>3. CASE \/ \E u \in Url : Publish(u)
             \/ \E m \in {"digest", "nomail", "lapsed"} : SetMode(m)
             \/ Day
    BY <1>1, <2>3, SiteKeepsTypes
  <2>4. CASE GoOn
    BY <1>1, <2>4, TurnKeeps, FetchKeeps, CleanKeeps, ForgetKeeps, FirstKeeps, NoteKeeps,
       KnowKeeps, MailKeeps, RecordKeeps, StampKeeps DEF GoOn
  <2> QED BY <1>1, <1>3, <2>1, <2>2, <2>3, <2>4, StartKeeps, CrashKeeps DEF Next
<1> QED BY <1>2, <1>3

LEMMA StepKeepsSaid == IInv /\ [Next]_vars => Said'
<1> SUFFICES ASSUME IInv, [Next]_vars PROVE Said'
  OBVIOUS
<1>1. TypeOK /\ Said
  BY DEF IInv, Said
<1>2. ASSUME UNCHANGED <<items, mailed, inbox, noted, job>> PROVE Said'
  BY <1>1, <1>2, SaidStays
<1>3. CASE UNCHANGED vars
  BY <1>2, <1>3 DEF vars, files, record
<1>4. CASE Next
  <2>1. CASE \/ \E l \in Lines : Follow(l)
             \/ \E u \in Url : unfollowFeed(u) \/ Publish(u)
             \/ \E m \in {"digest", "nomail", "lapsed"} : SetMode(m)
             \/ Day
    <3>1. UNCHANGED <<items, mailed, inbox, noted, job>>
      BY <2>1 DEF Follow, unfollowFeed, Publish, SetMode, Day, files, record
    <3> QED BY <1>2, <3>1
  <2>2. CASE Start
    <3>1. UNCHANGED <<mailed, inbox, noted>> /\ job'.at = "turn"
      BY <2>2 DEF Start, Idle, files, record
    <3> QED BY <1>1, <3>1, SaidAtEase
  <2>3. ASSUME NEW up \in SUBSET parseFeeds(feeds), Turn(up) PROVE Said'
    <3>1. UNCHANGED <<mailed, inbox, noted>>
      BY <2>3 DEF Turn, record
    <3>2. job'.at \in {"fetch", "idle"}
      <4>1. CASE End
        BY <1>1, <4>1, Stepping
      <4>2. CASE job' = [job EXCEPT !.at = "fetch", !.feeds = parseFeeds(feeds), !.up = up]
        BY <1>1, <4>2 DEF TypeOK
      <4> QED BY <2>3, <4>1, <4>2 DEF Turn, Fails
    <3> QED BY <1>1, <3>1, <3>2, SaidAtEase
  <2>4. ASSUME NEW ok \in SUBSET job.up, Fetch(ok) PROVE Said'
    <3>1. UNCHANGED <<mailed, inbox, noted>>
      BY <2>4 DEF Fetch
    <3>2. job'.at \in {"clean", "idle"}
      BY <1>1, <2>4, Stepping DEF Fetch, Fails, Steps
    <3> QED BY <1>1, <3>1, <3>2, SaidAtEase
  <2>5. CASE Stamp \/ Crash
    <3>1. UNCHANGED <<mailed, inbox, noted>>
      BY <2>5 DEF Stamp, Crash, files, record
    <3>2. job'.at = "idle"
      BY <1>1, <2>5, Stepping DEF Stamp, Crash, Fails
    <3> QED BY <1>1, <3>1, <3>2, SaidAtEase
  <2>6. CASE \/ \E left \in SUBSET Stale : Clean(left)
             \/ Forget \/ FirstDigest \/ Note \/ Know \/ Mail \/ Record
    BY <1>1, <2>6, SaidByClean, SaidByForget, SaidByFirst, SaidByNoteAndKnow, SaidByMail,
       SaidByRecord
  <2> QED BY <1>4, <2>1, <2>2, <2>3, <2>4, <2>5, <2>6 DEF Next, GoOn
<1> QED BY <1>3, <1>4

LEMMA StepKeepsRoom == IInv /\ [Next]_vars => MailToCome'
<1> SUFFICES ASSUME IInv, [Next]_vars PROVE MailToCome'
  OBVIOUS
<1>1. TypeOK /\ MailToCome /\ NoneMailed
  BY DEF IInv
<1>2. CASE UNCHANGED vars
  <2>1. UNCHANGED <<due, job, mailed, today, faults>>
    BY <1>2 DEF vars, files, record
  <2> QED BY <1>1, <2>1 DEF MailToCome, Spent, At
<1>3. CASE Next
  BY <1>1, <1>3, SiteKeepsRoom, JobKeepsRoom, DigestKeepsRoom DEF Next, GoOn
<1> QED BY <1>2, <1>3

THEOREM Inductive == Spec => []IInv
<1>1. IInv /\ [Next]_vars => IInv'
  BY StepKeepsTypes, StepKeepsSaid, StepKeepsRoom DEF IInv, Said
<1> QED BY InitKeeps, <1>1, PTL DEF Spec

-----------------------------------------------------------------------------
\* The job's files and what it read have their types: each feed of the job has a file of
\* those that its name gives (feed.go:164-182).
THEOREM DigestTyped == Spec => []TypeOK
<1>1. IInv => TypeOK
  BY DEF IInv
<1> QED BY Inductive, <1>1, PTL

\* However the job stops, and whatever the user changes meanwhile, a day has one mail,
\* and one more for each fault (feedjob.go:385-389, 428-434).
THEOREM OneMailADay == Spec => []OncePerDay
<1>1. IInv => OncePerDay
  BY DEF IInv, OncePerDay, MailToCome, TypeOK
<1> QED BY Inductive, <1>1, PTL

\* What the file mailed has was sent or noted, with any names of feeds, too: an item
\* whose mail failed is not in it (feedjob.go:428-431).
THEOREM NoItemDropped == Spec => []NothingDropped
<1>1. IInv => NothingDropped
  BY DEF IInv, NothingDropped, Accounted
<1> QED BY Inductive, <1>1, PTL

-----------------------------------------------------------------------------
(***************************************************************************)
(* Nothing is sent twice, and nothing old is sent, of a feed whose files   *)
(* no other feed can get: they hold its items only.  A key that is met     *)
(* will not be new to a mail: it is in mailed, or its feed is unknown and  *)
(* notes it when it gets known.                                            *)
(***************************************************************************)

\* A feed with this address can have the file.
Of(file, url) == \E l \in Lines : l.url = url /\ file \in Tries(l.name)

FilesTell ==
    /\ \A f \in job.feeds : Of(f.file, f.url)
    /\ Differ(job.feeds)
    /\ job.up \subseteq job.feeds
    /\ \A file \in File : \A x \in items[file] : Of(file, x[1]) /\ x[2] <= published[x[1]]

\* What holds where the digest is: what becomes known is noted; at the mail, the feeds with
\* items are known, and no other feed is.
Stages ==
    /\ job.at \in Working => mailed # NoFile
    /\ At("know") => keys(Found) \subseteq mailed
    /\ job.at \in {"mail", "record"} =>
          /\ known # NoFile /\ known \subseteq job.feeds
          /\ \A f \in job.feeds : items[f.file] # {} => f \in known

\* The item files are those of the job's feeds.  Where an old one could not be removed, an
\* item can be sent that this file does not have yet.  The fault pays for it.
Tidy == \A file \in File : items[file] # {} => file \in FilesOf(job.feeds)

Spare == IF job.at \in {"note", "know", "mail"} /\ ~Tidy THEN 1 ELSE 0

\* Nothing was sent, or met; and faults have paid for what was sent.
Blank == (\A x \in Item : inbox[x] = 0) /\ (FirstToo \/ old = {})

Spared == \A x \in Item : Alone(x[1]) => inbox[x] + Spare <= faults

BlankAtFirst ==
    /\ mailed = NoFile \/ At("firstknown") => Blank
    /\ known = NoFile => Spared /\ (FirstToo \/ old = {})
    /\ job.at \in {"unstamp", "unknow"} => Spared

Met(file, x) ==
    /\ x[2] <= published[x[1]]
    /\ \/ [file |-> file, item |-> x] \in mailed
       \/ /\ [url |-> x[1], file |-> file] \notin known
          /\ items[file] = {} \/ x \in items[file]

Settled(x) == \A file \in File : Of(file, x[1]) => Met(file, x)

OldMet ==
    FirstToo \/ \A k \in old : Alone(k.item[1]) => Of(k.file, k.item[1]) /\ Met(k.file, k.item)

\* An item that was sent is settled, unless its record is still to come.
Counted ==
    \A x \in Item : Alone(x[1]) =>
        \/ inbox[x] + Spare <= faults
        \/ /\ inbox[x] + Spare <= faults + 1
           /\ Settled(x) \/ (At("record") /\ Tidy /\ \E k \in newKeys : k.item = x)

OnceInv == FilesTell /\ Stages /\ BlankAtFirst /\ OldMet /\ Counted

-----------------------------------------------------------------------------
LEMMA ItemTyped ==
    ASSUME NEW x \in Item
    PROVE  x[1] \in Url /\ x[2] \in Nat
<1>1. PICK u \in Url : x \in {u} \X (1..MaxItems[u])
  BY DEF Item
<1> QED BY <1>1

LEMMA Counts ==
    ASSUME TypeOK, NEW x \in Item
    PROVE  inbox[x] \in Nat /\ faults \in Nat /\ published[x[1]] \in Nat
BY ItemTyped, DigestAssumption DEF TypeOK

\* A key stays met.
LEMMA MetStays ==
    ASSUME TypeOK, TypeOK', NEW x \in Item, NEW file \in File, Met(file, x),
           published'[x[1]] >= published[x[1]],
           LET k == [file |-> file, item |-> x]
               f == [url |-> x[1], file |-> file]
           IN  /\ k \in mailed => k \in mailed'
               /\ k \notin mailed =>
                     /\ f \in known' => f \in known \/ k \in mailed'
                     /\ items'[file] = items[file] \/ items'[file] = {} \/ x \in items'[file]
    PROVE  Met(file, x)'
<1>1. x[2] <= published'[x[1]]
  <2>1. x[2] \in Nat /\ published[x[1]] \in Nat /\ published'[x[1]] \in Nat
    BY ItemTyped, Counts DEF TypeOK
  <2> QED BY <2>1 DEF Met
<1> QED BY <1>1 DEF Met

LEMMA OfTells ==
    ASSUME NEW file, NEW url, NEW other, Alone(url), Of(file, url), Of(file, other)
    PROVE  other = url
BY DEF Of, Alone

LEMMA SpareIs ==
    /\ Spare \in {0, 1} /\ (Tidy => Spare = 0)
    /\ job.at \notin {"note", "know", "mail"} => Spare = 0
BY DEF Spare

\* A step has no more to pay for than there was, or a fault pays for it.
PaidFor == \/ faults' = faults + 1
           \/ faults' = faults /\ Spare' \in {0, Spare}

LEMMA Paying ==
    ASSUME TypeOK, PaidFor, NEW x \in Item, UNCHANGED inbox
    PROVE  /\ inbox[x] + Spare <= faults => inbox'[x] + Spare' <= faults'
           /\ inbox[x] + Spare <= faults + 1 => inbox'[x] + Spare' <= faults' + 1
<1>1. inbox[x] \in Nat /\ faults \in Nat /\ Spare \in {0, 1} /\ Spare' \in {0, 1}
  BY Counts DEF Spare
<1>2. CASE faults' = faults + 1
  BY <1>1, <1>2
<1>3. CASE faults' = faults /\ Spare' \in {0, Spare}
  BY <1>1, <1>3
<1> QED BY <1>2, <1>3 DEF PaidFor

\* When all that is met stays met, the count stays right.
LEMMA CountStays ==
    ASSUME TypeOK, TypeOK', OldMet, Counted, UNCHANGED <<inbox, old>>,
           \A file \in File, x \in Item :
              Alone(x[1]) /\ Of(file, x[1]) /\ Met(file, x) => Met(file, x)',
           PaidFor,
           At("record") => \/ faults' = faults + 1 /\ Spare' = 0
                           \/ At("record")' /\ newKeys' = newKeys /\ Tidy' = Tidy
    PROVE  OldMet' /\ Counted'
<1>1. OldMet'
  <2>1. \A k \in old : k.file \in File /\ k.item \in Item
    BY DEF TypeOK, Key
  <2> QED BY <2>1 DEF OldMet, Of
<1>2. ASSUME NEW x \in Item, Alone(x[1]), ~(inbox'[x] + Spare' <= faults')
      PROVE  /\ inbox'[x] + Spare' <= faults' + 1
             /\ Settled(x)' \/ (At("record")' /\ Tidy' /\ \E k \in newKeys' : k.item = x)
  <2>1. ~(inbox[x] + Spare <= faults)
    BY <1>2, Paying
  <2>2. /\ inbox[x] + Spare <= faults + 1
        /\ Settled(x) \/ (At("record") /\ Tidy /\ \E k \in newKeys : k.item = x)
    BY <1>2, <2>1 DEF Counted
  <2>3. inbox'[x] + Spare' <= faults' + 1
    BY <2>2, Paying
  <2>4. Settled(x) => Settled(x)'
    BY <1>2 DEF Settled, Of
  <2>5. At("record") => ~(faults' = faults + 1 /\ Spare' = 0)
    <3>1. At("record") => Spare = 0
      BY SpareIs DEF At
    <3>2. inbox[x] \in Nat /\ faults \in Nat
      BY Counts
    <3> QED BY <1>2, <2>2, <3>1, <3>2
  <2> QED BY <2>2, <2>3, <2>4, <2>5
<1> QED BY <1>1, <1>2 DEF Counted

LEMMA CountBlank ==
    ASSUME TypeOK', Blank', job'.at \notin {"note", "know", "mail"}
    PROVE  OldMet' /\ Counted'
<1>1. \A x \in Item : inbox'[x] = 0 /\ faults' \in Nat
  BY DigestAssumption DEF Blank, TypeOK
<1>2. Spare' = 0
  BY DEF Spare
<1>3. \A x \in Item : inbox'[x] + Spare' <= faults'
  BY <1>1, <1>2
<1> QED BY <1>3 DEF Blank, OldMet, Counted

\* What faults have paid for stays paid for.
LEMMA SparedStays ==
    ASSUME TypeOK, Spared, UNCHANGED inbox, PaidFor
    PROVE  Spared'
BY Paying DEF Spared

\* A fault pays for what was sent.
LEMMA FaultSpares ==
    ASSUME TypeOK, TypeOK', Counted, UNCHANGED inbox, faults' = faults + 1, Spare' = 0
    PROVE  Spared'
<1> SUFFICES ASSUME NEW x \in Item, Alone(x[1])
             PROVE  inbox[x] + Spare' <= faults'
  BY DEF Spared
<1>1. inbox[x] \in Nat /\ faults \in Nat /\ Spare \in Nat
  BY Counts DEF Spare
<1>2. inbox[x] + Spare <= faults + 1
  BY <1>1 DEF Counted
<1> QED BY <1>1, <1>2

LEMMA BlankIsSpared ==
    ASSUME TypeOK', Blank', Spare' = 0
    PROVE  Spared'
<1> SUFFICES ASSUME NEW x \in Item
             PROVE  inbox'[x] + Spare' <= faults'
  BY DEF Spared
<1> QED BY DigestAssumption DEF Blank, TypeOK

\* A step that keeps the mails and the keys that were met, and what is paid for.
LEMMA BlankStays ==
    ASSUME TypeOK, TypeOK', BlankAtFirst, UNCHANGED <<mailed, known, inbox, old>>,
           PaidFor,
           At("firstknown")' => At("firstknown"),
           job'.at \in {"unstamp", "unknow"} => job.at \in {"unstamp", "unknow"}
    PROVE  BlankAtFirst'
<1>1. Spared => Spared'
  BY SparedStays
<1>2. Blank => Blank'
  BY DEF Blank
<1> QED BY <1>1, <1>2 DEF BlankAtFirst

\* A step that leaves the files as they are.
LEMMA FilesRest ==
    ASSUME TypeOK, TypeOK', OldMet, Counted, UNCHANGED <<items, mailed, known, inbox, old>>,
           \A u \in Url : published'[u] >= published[u],
           PaidFor,
           At("record") => \/ faults' = faults + 1 /\ Spare' = 0
                           \/ At("record")' /\ job'.feeds = job.feeds
    PROVE  OldMet' /\ Counted'
<1>1. \A file \in File, x \in Item : Of(file, x[1]) /\ Met(file, x) => Met(file, x)'
  BY MetStays, ItemTyped
<1>2. job'.feeds = job.feeds => newKeys' = newKeys /\ Tidy' = Tidy
  BY DEF newKeys, keys, Tidy
<1> QED BY <1>1, <1>2, CountStays

\* What is new to a mail is of a known feed, and was not met.
LEMMA NewIsNotMet ==
    ASSUME TypeOK, FilesTell, Stages, job.at \in {"mail", "record"},
           NEW k \in newKeys, Alone(k.item[1])
    PROVE  /\ k.file \in File /\ k.item \in Item /\ k \notin mailed
           /\ k = [file |-> k.file, item |-> k.item]
           /\ Of(k.file, k.item[1])
           /\ [url |-> k.item[1], file |-> k.file] \in known \cap job.feeds
           /\ k.item \in items[k.file]
           /\ ~Met(k.file, k.item)
<1>1. PICK f \in job.feeds : \E x \in items[f.file] : k = [file |-> f.file, item |-> x]
  BY DEF newKeys, keys
<1>2. PICK x \in items[f.file] : k = [file |-> f.file, item |-> x]
  BY <1>1
<1>3. f \in Feed /\ f.file \in File /\ x \in Item
  BY JobTyped DEF TypeOK, Feed
<1>4. Of(f.file, x[1]) /\ Of(f.file, f.url)
  BY <1>3 DEF FilesTell
<1>5. x[1] = f.url
  <2>1. Alone(x[1])
    BY <1>2
  <2> QED BY <1>4, <2>1, OfTells
<1>6. f = [url |-> x[1], file |-> f.file]
  BY <1>3, <1>5 DEF Feed
<1>7. f \in known
  BY <1>2 DEF Stages
<1>8. k \notin mailed
  BY DEF newKeys
<1> QED BY <1>2, <1>3, <1>4, <1>6, <1>7, <1>8 DEF Met

\* The items that are recorded are settled, in the files of all feeds.
LEMMA RecordSettles ==
    ASSUME TypeOK, FilesTell, Stages, Tidy, At("record"), NEW k \in newKeys, Alone(k.item[1]),
           mailed' = mailed \cup newKeys, UNCHANGED <<items, known, published>>
    PROVE  Settled(k.item)'
<1> DEFINE x == k.item
           f == [url |-> x[1], file |-> k.file]
<1>1. /\ k.file \in File /\ x \in Item /\ k = [file |-> k.file, item |-> x]
      /\ f \in known /\ f \in job.feeds /\ x \in items[k.file]
  BY NewIsNotMet DEF At
<1>2. k \in mailed' /\ x[2] <= published'[x[1]]
  BY <1>1 DEF FilesTell
<1> SUFFICES ASSUME NEW file \in File, Of(file, x[1])
             PROVE  Met(file, x)'
  BY DEF Settled, Of
<1>3. known \subseteq job.feeds
  BY DEF Stages, At
<1>4. ASSUME [url |-> x[1], file |-> file] \in job.feeds
      PROVE  file = k.file
  BY <1>1, <1>4 DEF FilesTell, Differ
<1>5. CASE file = k.file
  BY <1>1, <1>2, <1>5 DEF Met
<1>6. CASE file # k.file
  <2>1. [url |-> x[1], file |-> file] \notin known
    BY <1>3, <1>4, <1>6
  <2>2. items[file] = {}
    <3>1. SUFFICES ASSUME items[file] # {} PROVE FALSE
      OBVIOUS
    <3>2. PICK g \in job.feeds : g.file = file
      BY <3>1 DEF Tidy, FilesOf
    <3>3. g \in Feed /\ Of(file, g.url)
      BY <3>2, JobTyped DEF FilesTell
    <3>4. g.url = x[1]
      BY <3>3, OfTells
    <3>5. g = [url |-> x[1], file |-> file]
      BY <3>2, <3>3, <3>4 DEF Feed
    <3> QED BY <1>4, <1>6, <3>5
  <2> QED BY <1>2, <2>1, <2>2 DEF Met
<1> QED BY <1>5, <1>6

-----------------------------------------------------------------------------
(***************************************************************************)
(* The steps.                                                              *)
(***************************************************************************)

\* A step that stays, or goes to where nothing is asked of the files.
LEMMA StagesRest ==
    ASSUME Stages, \/ UNCHANGED <<job, items, mailed, known>>
                   \/ job'.at \notin Working
    PROVE  Stages'
<1>1. CASE UNCHANGED <<job, items, mailed, known>>
  BY <1>1 DEF Stages, At, Found, Unknown, keys
<1>2. CASE job'.at \notin Working
  BY <1>2 DEF Stages, Working, At
<1> QED BY <1>1, <1>2

LEMMA SiteOnce ==
    ASSUME TypeOK, TypeOK', OnceInv,
           \/ \E l \in Lines : Follow(l)
           \/ \E u \in Url : unfollowFeed(u) \/ Publish(u)
           \/ \E m \in {"digest", "nomail", "lapsed"} : SetMode(m)
           \/ Day
           \/ UNCHANGED vars
    PROVE  OnceInv'
<1> USE DEF OnceInv
<1>1. UNCHANGED <<items, mailed, known, job, inbox, old, faults>>
  BY DEF Follow, unfollowFeed, Publish, SetMode, Day, vars, files, record
<1>2. \A u \in Url : published'[u] >= published[u]
  <2>1. published \in [Url -> Nat]
    BY DEF TypeOK
  <2>2. published' = published \/ \E u \in Url : published' = [published EXCEPT ![u] = @ + 1]
    BY DEF Follow, unfollowFeed, Publish, SetMode, Day, vars, site
  <2> QED BY <2>1, <2>2
<1>3. FilesTell'
  <2>1. ASSUME NEW file \in File, NEW x \in items[file]
        PROVE  Of(file, x[1]) /\ x[2] <= published'[x[1]]
    <3>1. x \in Item
      BY DEF TypeOK
    <3>2. x[2] \in Nat /\ published[x[1]] \in Nat /\ published'[x[1]] \in Nat
      BY <3>1, ItemTyped DEF TypeOK
    <3>3. published'[x[1]] >= published[x[1]]
      BY <1>2, <3>1, ItemTyped
    <3> QED BY <3>2, <3>3 DEF FilesTell
  <2> QED BY <1>1, <2>1 DEF FilesTell, Of
<1>4. PaidFor
  <2>1. Spare' = Spare
    BY <1>1 DEF Spare, Tidy
  <2> QED BY <1>1, <2>1 DEF PaidFor
<1>5. OldMet' /\ Counted'
  BY <1>1, <1>2, <1>4, FilesRest DEF At
<1>6. BlankAtFirst'
  BY <1>1, <1>4, BlankStays DEF At
<1> QED BY <1>1, <1>3, <1>5, <1>6, StagesRest

\* Where nothing is paid for any more.
LEMMA SpareSpent ==
    ASSUME faults' \in {faults, faults + 1}, job'.at \notin {"note", "know", "mail"}
    PROVE  Spare' = 0 /\ PaidFor
BY DEF Spare, PaidFor

\* A step of the job that leaves the files, to a step at which nothing is asked.
LEMMA JobOnce ==
    ASSUME TypeOK, TypeOK', OnceInv,
           UNCHANGED <<published, items, mailed, known, inbox, old>>,
           job'.at \notin Working \cup {"firstknown", "unstamp", "unknow"},
           faults' \in {faults, faults + 1}, At("record") => faults' = faults + 1,
           (job'.feeds = job.feeds /\ job'.up = job.up) \/ (job'.feeds = {} /\ job'.up = {})
    PROVE  OnceInv'
<1> USE DEF OnceInv
<1>1. FilesTell'
  BY DEF FilesTell, Of, Differ
<1>2. \A u \in Url : published'[u] >= published[u]
  BY DEF TypeOK
<1>3. Spare' = 0 /\ PaidFor
  BY SpareSpent DEF Working
<1>4. OldMet' /\ Counted'
  BY <1>2, <1>3, FilesRest
<1>5. BlankAtFirst'
  BY <1>3, BlankStays DEF At
<1> QED BY <1>1, <1>4, <1>5, StagesRest

\* The job ends here, after an error, or where no mail was sent.
LEMMA EndOnce ==
    ASSUME TypeOK, TypeOK', OnceInv, End,
           UNCHANGED <<published, items, mailed, known, inbox, old>>,
           faults' \in {faults, faults + 1}, At("record") => faults' = faults + 1
    PROVE  OnceInv'
<1>1. job' = Idle
  BY DEF End
<1>2. /\ job'.at \notin Working \cup {"firstknown", "unstamp", "unknow"}
      /\ job'.feeds = {} /\ job'.up = {}
  BY <1>1 DEF Idle, Working
<1> QED BY <1>2, JobOnce

LEMMA FailsOnce ==
    ASSUME TypeOK, TypeOK', OnceInv, Fails,
           UNCHANGED <<published, items, mailed, known, inbox, old>>
    PROVE  OnceInv'
<1>1. faults' = faults + 1 /\ faults' \in {faults, faults + 1}
  BY FaultTyped DEF Fails
<1> QED BY <1>1, EndOnce DEF Fails

LEMMA StartOnce ==
    ASSUME TypeOK, TypeOK', OnceInv, Start
    PROVE  OnceInv'
<1>1. UNCHANGED <<published, items, mailed, known, inbox, old, faults>> /\ At("idle")
  BY DEF Start, site, files, record
<1>2. job'.at = "turn" /\ job'.feeds = {} /\ job'.up = {}
  BY DEF Start, Idle
<1>3. faults' \in {faults, faults + 1}
  BY <1>1, DigestAssumption DEF TypeOK
<1> QED BY <1>1, <1>2, <1>3, JobOnce DEF At, Working

\* The feeds of feeds.txt have different files, each one of its name.
LEMMA TurnOnce ==
    ASSUME TypeOK, TypeOK', UrlsDiffer, OnceInv, NEW up \in SUBSET parseFeeds(feeds), Turn(up)
    PROVE  OnceInv'
<1> USE DEF OnceInv
<1>1. UNCHANGED <<published, items, mailed, known, inbox, old>> /\ At("turn")
  BY DEF Turn, site, record
<1>2. CASE job' = [job EXCEPT !.at = "fetch", !.feeds = parseFeeds(feeds), !.up = up]
           /\ UNCHANGED faults
  <2>1. job'.at = "fetch" /\ job'.feeds = parseFeeds(feeds) /\ job'.up = up
    BY <1>2 DEF TypeOK
  <2>2. feeds \in Seq(Lines) /\ \A i \in 1..Len(feeds) : feeds[i] \in Lines
    BY DEF TypeOK
  <2>3. AreOf(parseFeeds(feeds), feeds, Len(feeds)) /\ Differ(parseFeeds(feeds))
    BY <2>2, FeedsParsed DEF UrlsDiffer
  <2>4. ASSUME NEW f \in parseFeeds(feeds)
        PROVE  Of(f.file, f.url)
    <3>1. PICK i \in 1..Len(feeds) : f = [url |-> feeds[i].url, file |-> f.file]
                                     /\ f.file \in Tries(feeds[i].name)
      BY <2>3 DEF AreOf
    <3>2. f.url = feeds[i].url
      BY <3>1
    <3> QED BY <2>2, <3>1, <3>2 DEF Of
  <2>5. FilesTell'
    BY <1>1, <2>1, <2>3, <2>4 DEF FilesTell, Of, Differ
  <2>6. faults' \in {faults, faults + 1} /\ \A u \in Url : published'[u] >= published[u]
    BY <1>1, <1>2, DigestAssumption DEF TypeOK
  <2>7. PaidFor
    BY <2>1, <2>6, SpareSpent
  <2>8. OldMet' /\ Counted' /\ BlankAtFirst'
    BY <1>1, <2>1, <2>6, <2>7, FilesRest, BlankStays DEF At
  <2>9. Stages'
    BY <2>1, StagesRest DEF Working
  <2> QED BY <2>5, <2>8, <2>9
<1>3. CASE End /\ UNCHANGED faults
  <2>1. faults' \in {faults, faults + 1}
    BY <1>3, DigestAssumption DEF TypeOK
  <2> QED BY <1>1, <1>3, <2>1, EndOnce DEF At
<1>4. CASE Fails
  BY <1>1, <1>4, FailsOnce
<1> QED BY <1>2, <1>3, <1>4 DEF Turn

\* A fetch brings all that a feed has, or nothing.
LEMMA FetchOnce ==
    ASSUME TypeOK, TypeOK', OnceInv, NEW ok \in SUBSET job.up, Fetch(ok)
    PROVE  OnceInv'
<1> USE DEF OnceInv
<1>1. UNCHANGED <<published, mailed, known, inbox>> /\ At("fetch")
  BY DEF Fetch, site
<1>2. CASE Fails /\ UNCHANGED <<items, old>>
  BY <1>1, <1>2, FailsOnce
<1>3. CASE Update(ok) /\ GoTo("clean") /\ UNCHANGED faults
  <2>1. job'.at = "clean" /\ job'.feeds = job.feeds /\ job'.up = job.up
    BY <1>3, Stepping DEF Steps
  <2>2. \A file \in File :
           items'[file] = items[file] \cup UNION {Published(f) : f \in {f \in ok : f.file = file}}
    BY <1>3 DEF Update
  <2>3. \A f \in ok : f \in job.feeds /\ f \in Feed /\ Of(f.file, f.url)
    BY JobTyped DEF FilesTell
  <2>4. FilesTell'
    <3>1. ASSUME NEW file \in File, NEW x \in items'[file]
          PROVE  Of(file, x[1]) /\ x[2] <= published'[x[1]]
      <4>1. CASE x \in items[file]
        BY <1>1, <4>1 DEF FilesTell
      <4>2. CASE x \notin items[file]
        <5>1. PICK f \in ok : f.file = file /\ x \in Published(f)
          BY <2>2, <4>2
        <5> QED BY <1>1, <2>3, <5>1 DEF Published
      <4> QED BY <4>1, <4>2
    <3> QED BY <2>1, <3>1 DEF FilesTell, Of, Differ
  <2>5. ASSUME NEW file \in File, NEW x \in Item, Alone(x[1]), Of(file, x[1]), Met(file, x)
        PROVE  Met(file, x)'
    <3>1. published'[x[1]] >= published[x[1]]
      BY <1>1, Counts
    <3>2. CASE [file |-> file, item |-> x] \in mailed
      BY <1>1, <2>5, <3>1, <3>2, MetStays
    <3>3. CASE \E f \in ok : f.file = file
      <4>1. PICK f \in ok : f.file = file
        BY <3>3
      <4>2. f.url = x[1]
        BY <2>3, <2>5, <4>1, OfTells
      <4>3. x \in Published(f)
        BY <2>5, <4>2 DEF Published, Met
      <4>4. x \in items'[file]
        BY <2>2, <4>1, <4>3
      <4> QED BY <1>1, <2>5, <3>1, <4>4, MetStays
    <3>4. CASE ~\E f \in ok : f.file = file
      <4>1. {f \in ok : f.file = file} = {}
        BY <3>4
      <4>2. UNION {Published(f) : f \in {f \in ok : f.file = file}} = {}
        BY <4>1, Zenon
      <4>3. items'[file] = items[file]
        BY <2>2, <4>2
      <4> QED BY <1>1, <2>5, <3>1, <4>3, MetStays
    <3> QED BY <3>2, <3>3, <3>4
  <2>6. Counted'
    <3>1. \A x \in Item : Alone(x[1]) /\ Settled(x) => Settled(x)'
      BY <2>5 DEF Settled, Of
    <3>2. ~At("record") /\ Spare = 0 /\ Spare' = 0
      BY <1>1, <2>1 DEF At, Spare
    <3> QED BY <1>1, <1>3, <3>1, <3>2 DEF Counted
  <2>7. ASSUME ~FirstToo, NEW k \in old', k \notin old
        PROVE  /\ k.file \in File /\ k.item \in Item
               /\ Alone(k.item[1]) => Of(k.file, k.item[1]) /\ Met(k.file, k.item)
               /\ mailed # NoFile /\ known # NoFile
    <3>1. ~First /\ k \in UNION {PublishedKeys(f) :
                                 f \in {f \in Unknown : \A x \in items[f.file] : x[1] # f.url}}
      BY <1>3, <2>7 DEF Update
    <3>2. PICK f \in Unknown : (\A x \in items[f.file] : x[1] # f.url) /\ k \in PublishedKeys(f)
      BY <3>1
    <3>3. PICK x \in Published(f) : k = [file |-> f.file, item |-> x]
      BY <3>2 DEF PublishedKeys
    <3>4. known # NoFile /\ f \in job.feeds /\ f \notin known
      BY DEF Unknown
    <3>5. f \in Feed /\ f.file \in File
      BY <3>4, JobTyped DEF Feed
    <3>6. x \in Item /\ x[1] = f.url /\ x[2] <= published[x[1]]
      BY DEF Published
    <3>7. f = [url |-> x[1], file |-> f.file]
      BY <3>5, <3>6 DEF Feed
    <3>8. Of(f.file, x[1])
      BY <3>4, <3>6 DEF FilesTell
    <3>9. ASSUME Alone(x[1]) PROVE items[f.file] = {}
      <4>1. \A y \in items[f.file] : Of(f.file, y[1])
        BY <3>5 DEF FilesTell
      <4>2. \A y \in items[f.file] : y[1] = x[1]
        BY <3>8, <3>9, <4>1, OfTells
      <4> QED BY <3>2, <3>6, <4>2
    <3>10. Alone(x[1]) => Met(f.file, x)
      BY <3>4, <3>6, <3>7, <3>9 DEF Met
    <3> QED BY <3>1, <3>3, <3>4, <3>5, <3>6, <3>8, <3>10 DEF First
  <2>8. OldMet'
    <3> SUFFICES ASSUME ~FirstToo, NEW k \in old', Alone(k.item[1])
                 PROVE  Of(k.file, k.item[1]) /\ Met(k.file, k.item)'
      BY DEF OldMet, Of
    <3>1. /\ k.file \in File /\ k.item \in Item
          /\ Of(k.file, k.item[1]) /\ Met(k.file, k.item)
      BY <2>7 DEF OldMet, TypeOK, Key
    <3> QED BY <2>5, <3>1
  <2>9. BlankAtFirst'
    <3>1. mailed = NoFile \/ known = NoFile => FirstToo \/ old' \subseteq old
      BY <2>7
    <3>2. Spare = 0 /\ Spare' = 0
      BY <1>1, <2>1 DEF At, Spare
    <3>3. Spared' = Spared
      BY <1>1, <1>3, <3>2 DEF Spared
    <3> QED BY <1>1, <2>1, <3>1, <3>3 DEF BlankAtFirst, Blank, At
  <2>10. Stages'
    BY <2>1, StagesRest DEF Working
  <2> QED BY <2>4, <2>6, <2>8, <2>9, <2>10
<1> QED BY <1>2, <1>3 DEF Fetch

\* An item file that stays is that of a feed, or a fault pays for it.
LEMMA CleanOnce ==
    ASSUME TypeOK, TypeOK', OnceInv, NEW left \in SUBSET Stale, Clean(left)
    PROVE  OnceInv'
<1> USE DEF OnceInv
<1>1. UNCHANGED <<published, mailed, known, inbox, old>> /\ At("clean")
  BY DEF Clean, site, record
<1>2. CASE Fails /\ UNCHANGED items
  BY <1>1, <1>2, FailsOnce
<1>3. CASE Sweep(left) /\ (IF left = {} THEN UNCHANGED faults ELSE faults' = faults + 1)
           /\ (End \/ GoOnTo("forget") \/ GoOnTo(IF First THEN "first" ELSE "note"))
  <2>1. \A file \in File :
           items'[file] = IF file \in left \cup FilesOf(job.up) THEN items[file] ELSE {}
    BY <1>3 DEF Sweep
  <2>2. /\ (job'.feeds = job.feeds /\ job'.up = {}) \/ (job'.feeds = {} /\ job'.up = {})
        /\ \/ job'.at \in {"forget", "idle", "first"}
           \/ job'.at = "note" /\ mailed # NoFile /\ job'.feeds = job.feeds
    <3>1. CASE End
      BY <3>1, Stepping DEF Idle
    <3>2. CASE GoOnTo("forget")
      BY <3>2, Stepping DEF Steps
    <3>3. CASE GoOnTo(IF First THEN "first" ELSE "note")
      BY <3>3, Stepping DEF First, Steps
    <3> QED BY <1>3, <3>1, <3>2, <3>3
  <2>3. \A file \in File : items'[file] = items[file] \/ items'[file] = {}
    BY <2>1
  <2>4. FilesTell'
    <3>1. ASSUME NEW file \in File, NEW x \in items'[file]
          PROVE  Of(file, x[1]) /\ x[2] <= published'[x[1]]
      BY <1>1, <2>3 DEF FilesTell
    <3> QED BY <2>2, <3>1 DEF FilesTell, Of, Differ
  <2>5. ASSUME NEW file \in File, NEW x \in Item, Alone(x[1]), Of(file, x[1]), Met(file, x)
        PROVE  Met(file, x)'
    <3>1. published'[x[1]] >= published[x[1]]
      BY <1>1, Counts
    <3> QED BY <1>1, <2>3, <2>5, <3>1, MetStays
  <2>6. PaidFor
    <3>1. CASE left = {} /\ job'.at = "note"
      <4>1. FilesOf(job.up) \subseteq FilesOf(job'.feeds)
        BY <2>2, <3>1 DEF FilesTell, FilesOf
      <4>2. Tidy'
        BY <2>1, <3>1, <4>1 DEF Tidy
      <4> QED BY <1>3, <3>1, <4>2 DEF Spare, PaidFor
    <3>2. CASE left # {}
      BY <1>3, <3>2 DEF PaidFor
    <3>3. CASE left = {} /\ job'.at # "note"
      BY <1>3, <2>2, <3>3 DEF Spare, PaidFor
    <3> QED BY <3>1, <3>2, <3>3
  <2>7. OldMet' /\ Counted'
    BY <1>1, <2>5, <2>6, CountStays DEF At
  <2>8. BlankAtFirst'
    BY <1>1, <2>2, <2>6, BlankStays DEF At
  <2>9. Stages'
    <3>1. CASE job'.at = "note"
      BY <1>1, <2>2, <3>1 DEF Stages, At
    <3>2. CASE job'.at # "note"
      BY <2>2, <3>2, StagesRest DEF Working
    <3> QED BY <3>1, <3>2
  <2> QED BY <2>4, <2>7, <2>8, <2>9
<1>4. \A kind : Fault(kind) => faults' = faults + 1
  BY DEF Fault
<1> QED BY <1>2, <1>3, <1>4 DEF Clean

\* A file that cannot be removed is a fault, and it pays for what was sent.
LEMMA ForgetOnce ==
    ASSUME TypeOK, TypeOK', NoneMailed, OnceInv, Forget
    PROVE  OnceInv'
<1> USE DEF OnceInv
<1>1. UNCHANGED <<published, items>> /\ faults \in Nat
  BY DEF Forget, site, TypeOK
<1>2. /\ (job'.feeds = job.feeds /\ job'.up = job.up) \/ (job'.feeds = {} /\ job'.up = {})
      /\ job'.at \in {"unstamp", "unknow", "idle"}
      /\ ~At("record")
  BY Stepping DEF Forget, At, Steps, Idle
<1>3. FilesTell'
  BY <1>1, <1>2 DEF FilesTell, Of, Differ
<1>4. Stages'
  BY <1>2, StagesRest DEF Working
<1>5. faults' = faults \/ faults' = faults + 1
  BY DEF Forget, Fault
<1>6. Spare = 0 /\ Spare' = 0
  BY <1>2 DEF Forget, At, Spare
<1>7. PaidFor
  BY <1>5, <1>6 DEF PaidFor
<1>8. CASE Blank' /\ known' = known
  <2>1. Spared'
    BY <1>6, <1>8, BlankIsSpared
  <2>2. OldMet' /\ Counted'
    BY <1>2, <1>8, CountBlank
  <2>3. BlankAtFirst'
    BY <1>8, <2>1 DEF BlankAtFirst, Blank
  <2> QED BY <1>3, <1>4, <2>2, <2>3
<1>9. CASE UNCHANGED <<mailed, known, inbox, old>>
           /\ (At("forget") => faults' = faults + 1)
  <2>1. \A u \in Url : published'[u] >= published[u]
    BY <1>1 DEF TypeOK
  <2>2. OldMet' /\ Counted'
    BY <1>1, <1>2, <1>7, <1>9, <2>1, FilesRest
  <2>3. BlankAtFirst'
    <3>1. At("forget") => Spared'
      BY <1>6, <1>9, FaultSpares
    <3>2. ~At("forget") => job.at \in {"unstamp", "unknow"}
      BY DEF Forget, At
    <3>3. Spared => Spared'
      BY <1>7, <1>9, SparedStays
    <3>4. Blank => Blank'
      BY <1>9 DEF Blank
    <3> QED BY <1>2, <1>9, <3>1, <3>2, <3>3, <3>4 DEF BlankAtFirst, At
  <2> QED BY <1>3, <1>4, <2>2, <2>3
<1>10. CASE At("unknow") /\ old' = {} /\ UNCHANGED <<mailed, inbox, faults>> /\ End
  <2>1. Spared'
    BY <1>7, <1>10, SparedStays DEF BlankAtFirst, At
  <2>2. OldMet' /\ Counted'
    BY <1>10, <2>1 DEF OldMet, Counted, Spared
  <2>3. BlankAtFirst'
    <3>1. Blank => Blank'
      BY <1>10 DEF Blank
    <3>2. ~At("firstknown")'
      BY <1>2 DEF At
    <3> QED BY <1>10, <2>1, <3>1, <3>2 DEF BlankAtFirst
  <2> QED BY <1>3, <1>4, <2>2, <2>3
<1>11. \A kind : Fault(kind) => faults' = faults + 1
  BY DEF Fault
<1>12. inbox' = [x \in Item |-> 0] /\ old' = {} => Blank'
  BY DEF Blank
<1> QED BY <1>8, <1>9, <1>10, <1>11, <1>12 DEF Forget, At

LEMMA FirstOnce ==
    ASSUME TypeOK, TypeOK', NoneMailed, OnceInv, FirstDigest
    PROVE  OnceInv'
<1> USE DEF OnceInv
<1>1. UNCHANGED <<published, items, inbox, old>>
  BY DEF FirstDigest, site
<1>2. CASE Fails /\ UNCHANGED <<mailed, known>>
  BY <1>1, <1>2, FailsOnce
<1>3. CASE ~(Fails /\ UNCHANGED <<mailed, known>>)
  <2>1. /\ job'.feeds = job.feeds /\ job'.up = job.up
        /\ job'.at \in {"firstknown", "stamp"}
    BY <1>3, Stepping DEF FirstDigest, Steps
  <2>2. Blank'
    BY <1>1 DEF FirstDigest, NoneMailed, At, BlankAtFirst, Blank
  <2>3. FilesTell'
    BY <1>1, <2>1 DEF FilesTell, Of, Differ
  <2>4. OldMet' /\ Counted'
    BY <2>1, <2>2, CountBlank
  <2>5. BlankAtFirst'
    <3>1. Spare' = 0
      BY <2>1 DEF Spare
    <3>2. Spared'
      BY <2>2, <3>1, BlankIsSpared
    <3> QED BY <2>2, <3>2 DEF BlankAtFirst, Blank
  <2>6. Stages'
    BY <2>1, StagesRest DEF Working
  <2> QED BY <2>3, <2>4, <2>5, <2>6
<1> QED BY <1>2, <1>3

\* What the digest finds is noted before it becomes known.
LEMMA NoteOnce ==
    ASSUME TypeOK, TypeOK', Accounted, OnceInv, Note
    PROVE  OnceInv'
<1> USE DEF OnceInv
<1>1. UNCHANGED <<published, items, known, inbox, old>> /\ At("note")
  BY DEF Note, site
<1>2. CASE Fails /\ UNCHANGED mailed
  BY <1>1, <1>2, FailsOnce
<1>3. CASE mailed' = mailed \cup keys(Found) /\ GoTo("know") /\ UNCHANGED faults
  <2>1. job'.feeds = job.feeds /\ job'.up = job.up /\ job'.at = "know"
    BY <1>3, Stepping DEF Steps
  <2>2. mailed # NoFile /\ mailed' # NoFile
    <3>1. mailed \subseteq Key
      BY <1>1 DEF Accounted, At, Working
    <3>2. mailed' \in SUBSET Key
      BY <1>3, <3>1, FoundTyped
    <3> QED BY <1>1, <3>2, NoneAssumption DEF NoFile, Stages, At, Working
  <2>3. FilesTell'
    BY <1>1, <2>1 DEF FilesTell, Of, Differ
  <2>4. ASSUME NEW file \in File, NEW x \in Item, Alone(x[1]), Of(file, x[1]), Met(file, x)
        PROVE  Met(file, x)'
    <3>1. published'[x[1]] >= published[x[1]]
      BY <1>1, Counts
    <3> QED BY <1>1, <1>3, <2>4, <3>1, MetStays
  <2>5. Spare' = Spare /\ PaidFor
    <3>1. Spare' = Spare
      BY <1>1, <2>1 DEF Spare, Tidy, At
    <3> QED BY <1>3, <3>1 DEF PaidFor
  <2>6. OldMet' /\ Counted'
    BY <1>1, <2>4, <2>5, CountStays DEF At
  <2>7. BlankAtFirst'
    BY <1>1, <1>3, <2>1, <2>2, <2>5 DEF BlankAtFirst, Blank, Spared, At
  <2>8. Stages'
    <3>1. Found' = Found /\ keys(Found)' = keys(Found)
      BY <1>1, <2>1 DEF Found, Unknown, keys
    <3>2. keys(Found)' \subseteq mailed'
      BY <1>3, <3>1
    <3> QED BY <1>1, <2>1, <2>2, <3>2 DEF Stages, At, Working
  <2> QED BY <2>3, <2>6, <2>7, <2>8
<1> QED BY <1>2, <1>3 DEF Note

LEMMA KnowOnce ==
    ASSUME TypeOK, TypeOK', OnceInv, Know
    PROVE  OnceInv'
<1> USE DEF OnceInv
<1>1. UNCHANGED <<published, items, mailed, inbox, old>> /\ At("know")
  BY DEF Know, site, record
<1>2. CASE Fails /\ UNCHANGED known
  BY <1>1, <1>2, FailsOnce
<1>3. CASE known' = NowKnown /\ GoTo("mail") /\ UNCHANGED faults
  <2>1. job'.feeds = job.feeds /\ job'.up = job.up /\ job'.at = "mail"
    BY <1>3, Stepping DEF Steps
  <2>2. NowKnown \subseteq job.feeds /\ NowKnown # NoFile
    <3>1. NowKnown \subseteq job.feeds /\ job.feeds \subseteq Feed
      BY FoundTyped, JobTyped DEF NowKnown
    <3> QED BY <3>1, NoneAssumption DEF NoFile
  <2>3. FilesTell'
    BY <1>1, <2>1 DEF FilesTell, Of, Differ
  <2>4. ASSUME known = NoFile
        PROVE  OldMet' /\ Counted'
    <3>1. Spared /\ (FirstToo \/ old = {})
      BY <2>4 DEF BlankAtFirst
    <3>2. Spare' = Spare
      BY <1>1, <2>1 DEF Spare, Tidy, At
    <3> QED BY <1>1, <1>3, <3>1, <3>2 DEF OldMet, Counted, Spared
  <2>5. ASSUME known # NoFile
        PROVE  OldMet' /\ Counted'
    <3>1. ASSUME NEW file \in File, NEW x \in Item, Alone(x[1]), Of(file, x[1]), Met(file, x)
          PROVE  Met(file, x)'
      <4> DEFINE f == [url |-> x[1], file |-> file]
                 k == [file |-> file, item |-> x]
      <4>1. published'[x[1]] >= published[x[1]]
        BY <1>1, Counts
      <4>2. CASE k \in mailed
        BY <1>1, <3>1, <4>1, <4>2, MetStays
      <4>3. ASSUME k \notin mailed, f \in known', f \notin known
            PROVE  FALSE
        <5>1. f \in Found
          BY <1>3, <2>5, <4>3 DEF NowKnown
        <5>2. items[file] # {}
          BY <5>1 DEF Found
        <5>3. x \in items[file]
          BY <3>1, <4>3, <5>2 DEF Met
        <5>4. k \in keys(Found)
          BY <5>1, <5>3 DEF keys
        <5> QED BY <1>1, <4>3, <5>4 DEF Stages
      <4>4. CASE k \notin mailed
        BY <1>1, <3>1, <4>1, <4>3, <4>4, MetStays
      <4> QED BY <4>2, <4>4
    <3>2. Spare' = Spare
      BY <1>1, <2>1 DEF Spare, Tidy, At
    <3>3. PaidFor
      BY <1>3, <3>2 DEF PaidFor
    <3> QED BY <1>1, <3>1, <3>3, CountStays DEF At
  <2>6. BlankAtFirst'
    BY <1>1, <1>3, <2>1, <2>2 DEF BlankAtFirst, Blank, At
  <2>7. Stages'
    <3>1. \A f \in job.feeds : items[f.file] # {} => f \in NowKnown
      BY DEF NowKnown, Found, Unknown
    <3> QED BY <1>1, <1>3, <2>1, <2>2, <3>1 DEF Stages, At, Working
  <2> QED BY <2>3, <2>4, <2>5, <2>6, <2>7
<1> QED BY <1>2, <1>3 DEF Know

\* A mail has what was not met, once more.
LEMMA MailOnce ==
    ASSUME TypeOK, TypeOK', OnceInv, Mail
    PROVE  OnceInv'
<1> USE DEF OnceInv
<1>1. UNCHANGED <<published, items, mailed, known, due, noted, old>> /\ At("mail")
  BY DEF Mail, site, files
<1>2. CASE End /\ UNCHANGED <<inbox, faults>>
  <2>1. faults' \in {faults, faults + 1}
    BY <1>2, DigestAssumption DEF TypeOK
  <2> QED BY <1>1, <1>2, <2>1, EndOnce DEF At
<1>3. CASE Fault("mail") /\ End /\ UNCHANGED inbox
  <2>1. faults' \in {faults, faults + 1}
    BY <1>3, FaultTyped
  <2> QED BY <1>1, <1>3, <2>1, EndOnce DEF At
<1>4. CASE Reach /\ ((GoTo("record") /\ UNCHANGED faults) \/ (Fault("mail") /\ End))
  <2>1. ASSUME NEW x \in Item
        PROVE  inbox'[x] = inbox[x] + IF \E k \in newKeys : k.item = x THEN 1 ELSE 0
    BY <1>4, <2>1 DEF Reach
  <2>2. ASSUME NEW x \in Item, Alone(x[1]), \E k \in newKeys : k.item = x
        PROVE  inbox[x] + Spare <= faults
    <3>1. PICK k \in newKeys : k.item = x
      BY <2>2
    <3>2. k.file \in File /\ Of(k.file, x[1]) /\ ~Met(k.file, x)
      BY <1>1, <2>2, <3>1, NewIsNotMet DEF At
    <3>3. ~Settled(x) /\ ~At("record")
      BY <1>1, <3>2 DEF Settled, At
    <3> QED BY <2>2, <3>3 DEF Counted
  <2>3. mailed # NoFile /\ known # NoFile
    BY <1>1 DEF Stages, At, Working
  <2>4. \A k \in old : k.file \in File /\ k.item \in Item
    BY DEF TypeOK, Key
  <2>5. ASSUME NEW file, NEW x
        PROVE  Met(file, x)' = Met(file, x)
    BY <1>1 DEF Met
  <2>6. OldMet'
    BY <1>1, <2>5 DEF OldMet, Of
  <2>7. CASE GoTo("record") /\ UNCHANGED faults
    <3>1. job'.at = "record" /\ job'.feeds = job.feeds /\ job'.up = job.up
      BY <2>7, Stepping DEF Steps
    <3>2. newKeys' = newKeys
      BY <1>1, <3>1 DEF newKeys, keys
    <3>3. Counted'
      <4> SUFFICES ASSUME NEW x \in Item, Alone(x[1]), ~(inbox'[x] + Spare' <= faults')
                   PROVE  /\ inbox'[x] + Spare' <= faults' + 1
                          /\ Settled(x)' \/ (Tidy /\ \E k \in newKeys : k.item = x)
        BY <1>1, <3>1, <3>2 DEF Counted, At, Tidy
      <4>1. /\ inbox[x] \in Nat /\ faults \in Nat /\ faults' = faults
            /\ Spare \in {0, 1} /\ Spare' = 0 /\ (~Tidy => Spare = 1)
        BY <1>1, <2>7, <3>1, Counts DEF Spare, At
      <4>2. CASE \E k \in newKeys : k.item = x
        <5>1. inbox'[x] = inbox[x] + 1 /\ inbox[x] + Spare <= faults
          BY <2>1, <2>2, <4>2
        <5> QED BY <4>1, <4>2, <5>1
      <4>3. CASE ~\E k \in newKeys : k.item = x
        <5>1. inbox'[x] = inbox[x]
          BY <2>1, <4>1, <4>3
        <5>2. Settled(x) /\ inbox[x] + Spare <= faults + 1
          BY <1>1, <4>1, <5>1 DEF Counted, At
        <5>3. Settled(x)'
          BY <2>5, <5>2 DEF Settled, Of
        <5> QED BY <4>1, <5>1, <5>2, <5>3
      <4> QED BY <4>2, <4>3
    <3>4. FilesTell'
      BY <1>1, <3>1 DEF FilesTell, Of, Differ
    <3>5. BlankAtFirst'
      BY <1>1, <2>3, <3>1 DEF BlankAtFirst, At
    <3>6. Stages'
      BY <1>1, <3>1 DEF Stages, At, Working
    <3> QED BY <2>6, <3>3, <3>4, <3>5, <3>6
  <2>8. CASE Fault("mail") /\ End
    <3>1. job'.at = "idle" /\ job'.feeds = {} /\ job'.up = {}
      BY <2>8 DEF End, Idle
    <3>2. Counted'
      <4> SUFFICES ASSUME NEW x \in Item, Alone(x[1])
                   PROVE  inbox'[x] + Spare' <= faults'
        BY DEF Counted
      <4>1. /\ inbox[x] \in Nat /\ faults \in Nat /\ faults' = faults + 1
            /\ Spare \in {0, 1} /\ Spare' = 0
        BY <2>8, <3>1, Counts, FaultTyped DEF Spare
      <4>2. inbox[x] + Spare <= faults + 1
        BY <4>1 DEF Counted
      <4> QED BY <2>1, <2>2, <4>1, <4>2
    <3>3. FilesTell'
      BY <1>1, <3>1 DEF FilesTell, Of, Differ
    <3>4. BlankAtFirst'
      BY <1>1, <2>3, <3>1 DEF BlankAtFirst, At
    <3>5. Stages'
      BY <3>1, StagesRest DEF Working
    <3> QED BY <2>6, <3>2, <3>3, <3>4, <3>5
  <2> QED BY <1>4, <2>7, <2>8
<1> QED BY <1>2, <1>3, <1>4 DEF Mail, Send

\* What was sent is recorded, and met from then on.
LEMMA RecordOnce ==
    ASSUME TypeOK, TypeOK', OnceInv, Record
    PROVE  OnceInv'
<1> USE DEF OnceInv
<1>1. UNCHANGED <<published, items, known, inbox, old>> /\ At("record")
  BY DEF Record, site, record
<1>2. CASE Fails /\ UNCHANGED mailed
  BY <1>1, <1>2, FailsOnce
<1>3. CASE mailed' = mailed \cup newKeys /\ GoTo("stamp") /\ UNCHANGED faults
  <2>1. job'.feeds = job.feeds /\ job'.up = job.up /\ job'.at = "stamp"
    BY <1>3, Stepping DEF Steps
  <2>2. FilesTell'
    BY <1>1, <2>1 DEF FilesTell, Of, Differ
  <2>3. ASSUME NEW file \in File, NEW x \in Item, Alone(x[1]), Of(file, x[1]), Met(file, x)
        PROVE  Met(file, x)'
    <3>1. published'[x[1]] >= published[x[1]]
      BY <1>1, Counts
    <3> QED BY <1>1, <1>3, <2>3, <3>1, MetStays
  <2>4. OldMet'
    <3>1. \A k \in old : k.file \in File /\ k.item \in Item
      BY DEF TypeOK, Key
    <3> QED BY <1>1, <2>3, <3>1 DEF OldMet, Of
  <2>5. Counted'
    <3>0. Spare = 0 /\ Spare' = 0
      BY <1>1, <2>1 DEF Spare, At
    <3> SUFFICES ASSUME NEW x \in Item, Alone(x[1]), ~(inbox[x] + Spare <= faults)
                 PROVE  inbox[x] + Spare <= faults + 1 /\ Settled(x)'
      BY <1>1, <1>3, <3>0 DEF Counted
    <3>1. /\ inbox[x] + Spare <= faults + 1
          /\ Settled(x) \/ (Tidy /\ \E k \in newKeys : k.item = x)
      BY DEF Counted
    <3>2. CASE Settled(x)
      BY <2>3, <3>1, <3>2 DEF Settled, Of
    <3>3. CASE Tidy /\ \E k \in newKeys : k.item = x
      BY <1>1, <1>3, <3>1, <3>3, RecordSettles
    <3> QED BY <3>1, <3>2, <3>3
  <2>6. BlankAtFirst'
    <3>1. mailed' # NoFile
      <4>1. mailed # NoFile /\ newKeys \subseteq Key
        BY <1>1, KeysTyped, JobTyped DEF Stages, At, Working, newKeys
      <4>2. mailed' \in SUBSET Key
        BY <1>3, <4>1 DEF TypeOK
      <4> QED BY <4>2, NoneAssumption DEF NoFile
    <3>2. known' # NoFile
      BY <1>1 DEF Stages, At
    <3> QED BY <2>1, <3>1, <3>2 DEF BlankAtFirst, At
  <2>7. Stages'
    BY <2>1, StagesRest DEF Working
  <2> QED BY <2>2, <2>4, <2>5, <2>6, <2>7
<1> QED BY <1>2, <1>3 DEF Record

LEMMA EndsOnce ==
    ASSUME TypeOK, TypeOK', OnceInv, Stamp \/ Crash
    PROVE  OnceInv'
<1>1. UNCHANGED <<published, items, mailed, known, inbox, old>>
  BY DEF Stamp, Crash, site, files, record
<1>2. End
  BY DEF Stamp, Crash, Fails
<1>3. faults' \in {faults, faults + 1} /\ (At("record") => faults' = faults + 1)
  <2>1. CASE At("stamp") /\ UNCHANGED faults
    BY <2>1, DigestAssumption DEF TypeOK, At
  <2>2. CASE \E kind \in {"io", "crash"} : Fault(kind)
    BY <2>2, FaultTyped
  <2> QED BY <2>1, <2>2 DEF Stamp, Crash, Fails
<1> QED BY <1>1, <1>2, <1>3, EndOnce

LEMMA InitOnce == Init => OnceInv
<1> SUFFICES ASSUME Init PROVE OnceInv
  OBVIOUS
<1>1. job.at = "idle" /\ job.feeds = {} /\ job.up = {}
  BY DEF Init, Idle
<1>2. \A file \in File : items[file] = {}
  BY DEF Init
<1>3. \A x \in Item : inbox[x] = 0 /\ inbox[x] <= faults
  BY DEF Init
<1>4. FilesTell
  BY <1>1, <1>2 DEF FilesTell, Differ
<1>5. Stages
  BY <1>1 DEF Stages, Working, At
<1>6. Blank /\ OldMet
  BY <1>3 DEF Blank, OldMet, Init
<1>7. Counted /\ Spared
  <2>1. Spare = 0
    BY <1>1 DEF Spare
  <2>2. \A x \in Item : inbox[x] + Spare <= faults
    BY <1>3, <2>1
  <2> QED BY <2>2 DEF Counted, Spared
<1> QED BY <1>4, <1>5, <1>6, <1>7 DEF OnceInv, BlankAtFirst, Blank

LEMMA NextOnce ==
    ASSUME IInv, TypeOK', OnceInv, [Next]_vars
    PROVE  OnceInv'
<1> USE DEF IInv
<1>1. CASE \/ \E l \in Lines : Follow(l)
           \/ \E u \in Url : unfollowFeed(u) \/ Publish(u)
           \/ \E m \in {"digest", "nomail", "lapsed"} : SetMode(m)
           \/ Day
           \/ UNCHANGED vars
  BY <1>1, SiteOnce
<1>2. CASE Start
  BY <1>2, StartOnce
<1>3. CASE \E up \in SUBSET parseFeeds(feeds) : Turn(up)
  BY <1>3, TurnOnce
<1>4. CASE \E ok \in SUBSET job.up : Fetch(ok)
  BY <1>4, FetchOnce
<1>5. CASE \E left \in SUBSET Stale : Clean(left)
  BY <1>5, CleanOnce
<1>6. CASE Forget
  BY <1>6, ForgetOnce
<1>7. CASE FirstDigest
  BY <1>7, FirstOnce
<1>8. CASE Note
  BY <1>8, NoteOnce
<1>9. CASE Know
  BY <1>9, KnowOnce
<1>10. CASE Mail
  BY <1>10, MailOnce
<1>11. CASE Record
  BY <1>11, RecordOnce
<1>12. CASE Stamp \/ Crash
  BY <1>12, EndsOnce
<1> QED BY <1>1, <1>2, <1>3, <1>4, <1>5, <1>6, <1>7, <1>8, <1>9, <1>10, <1>11, <1>12
        DEF Next, GoOn

\* Whatever the names of the feeds, each one that is followed has an item file that no other
\* one has, and none is lost: so it is in feeds.txt, and in the job, which works with what
\* it read (feed.go:164-182).
THEOREM FilesAreOwn == Spec => []FilesDiffer
<1>1. Init => OnceInv
  BY InitOnce
<1>2. IInv /\ IInv' /\ OnceInv /\ [Next]_vars => OnceInv'
  BY NextOnce DEF IInv
<1>3. IInv /\ OnceInv => FilesDiffer
  <2> SUFFICES ASSUME IInv, OnceInv PROVE FilesDiffer
    OBVIOUS
  <2>1. feeds \in Seq(Lines)
    BY DEF IInv, TypeOK
  <2>2. Differ(parseFeeds(feeds)) /\ Cardinality(parseFeeds(feeds)) = Len(feeds)
    BY <2>1, FeedsParsed DEF IInv, UrlsDiffer
  <2>3. Differ(job.feeds)
    BY DEF OnceInv, FilesTell
  <2> QED BY <2>2, <2>3 DEF FilesDiffer, Differ
<1> QED BY <1>1, <1>2, <1>3, Inductive, PTL DEF Spec

\* Each item of a feed whose files no other feed can get is sent once, but for each fault
\* one more time (feedjob.go:428-431: the mail goes before its record).
THEOREM MailsAreOnce == Spec => []MailedOnce
<1>1. Init => OnceInv
  BY InitOnce
<1>2. IInv /\ IInv' /\ OnceInv /\ [Next]_vars => OnceInv'
  BY NextOnce DEF IInv
<1>3. IInv /\ OnceInv => MailedOnce
  <2> SUFFICES ASSUME IInv, OnceInv, NEW x \in Item, Alone(x[1])
               PROVE  inbox[x] <= 1 + faults
    BY DEF MailedOnce
  <2>1. inbox[x] \in Nat /\ faults \in Nat /\ Spare \in Nat
    BY Counts DEF IInv, Spare
  <2>2. inbox[x] + Spare <= faults \/ inbox[x] + Spare <= faults + 1
    BY DEF OnceInv, Counted
  <2> QED BY <2>1, <2>2
<1> QED BY <1>1, <1>2, <1>3, Inductive, PTL DEF Spec

\* What such a feed had before the digest knew it is in no mail (feedjob.go:303-304).
THEOREM OldIsNeverSent ==
    ASSUME FirstToo = FALSE
    PROVE  Spec => OldStaysUnsent
<1>1. Init => OnceInv
  BY InitOnce
<1>2. IInv /\ IInv' /\ OnceInv /\ [Next]_vars => OnceInv'
  BY NextOnce DEF IInv
<1>3. IInv /\ OnceInv /\ [Next]_vars => [today' > today =>
                                              \A k \in old : Alone(k.item[1]) => k \notin newKeys]_vars
  <2> SUFFICES ASSUME IInv, OnceInv, [Next]_vars, today' > today
               PROVE  \A k \in old : Alone(k.item[1]) => k \notin newKeys
    BY Zenon
  <2> USE DEF IInv, OnceInv
  <2>1. today \in Nat /\ TypeOK
    BY DEF TypeOK
  <2>2. ~(0 > today) /\ ~(today > today)
    BY <2>1
  <2>3. Mail
    BY <2>2 DEF Next, GoOn, Follow, unfollowFeed, SetMode, Publish, Day, Start, Turn, Fetch,
                Clean, Forget, FirstDigest, Note, Know, Record, Stamp, Crash, record, vars
  <2>4. At("mail")
    BY <2>3 DEF Mail
  <2>5. \A k \in newKeys : Alone(k.item[1]) => Of(k.file, k.item[1]) /\ ~Met(k.file, k.item)
    BY <2>1, <2>4, NewIsNotMet DEF At
  <2> QED BY <2>5 DEF OldMet
<1> QED BY <1>1, <1>2, <1>3, Inductive, PTL DEF Spec, OldStaysUnsent

=============================================================================
