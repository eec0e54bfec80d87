-------------------------- MODULE SyncStoreProofs --------------------------
(***************************************************************************)
(* The invariants of SyncStore, and that it implements SharedFile, for any *)
(* devices, goroutines, lines, bounds and kinds of fault; then what        *)
(* SyncHistory says of the users' edits and of the versions that are kept. *)
(***************************************************************************)
EXTENDS SyncRefinement, SyncHistory, MergeTheorems

\* While the files of an account are erased, the account is gone from disk, and
\* the server knows no account that the disk has not.
AccountsAgree ==
    /\ known => saved
    /\ \A h \in Handler : At(h, {"erasing"}) => ~saved

\* The inductive invariant: the lock is what keeps the files still between the
\* steps of a sync, so each of the others needs LockIsHeld.
IInv == TypeOK /\ LockIsHeld /\ AccountsAgree /\ MergeIsSafe /\ HeadExists

Goroutines == [Handler -> [at : Step, device : Device \cup {Nobody},
                           base : Name, local : Text, merged : Text]]

-----------------------------------------------------------------------------
LEMMA IdleTyped ==
    Idle \in [at : Step, device : Device \cup {Nobody}, base : Name,
              local : Text, merged : Text]
BY DEF Idle, Step, Name, Text

\* A goroutine goes to a step, and all else of it stays.
LEMMA GoToSteps ==
    ASSUME handler \in Goroutines, NEW h \in Handler, NEW step \in Step,
           GoTo(h, step)
    PROVE  /\ handler' \in Goroutines
           /\ handler'[h].at = step
           /\ handler'[h].device = handler[h].device
           /\ handler'[h].base = handler[h].base
           /\ handler'[h].local = handler[h].local
           /\ handler'[h].merged = handler[h].merged
           /\ \A g \in Handler \ {h} : handler'[g] = handler[g]
BY DEF Goroutines, GoTo

LEMMA VersionsWithout ==
    ASSUME versions \in Seq(Text), NEW v
    PROVE  /\ Keep(versions, ToSet(versions) \ {v}) \in Seq(Text)
           /\ ToSet(Keep(versions, ToSet(versions) \ {v})) = ToSet(versions) \ {v}
<1> DEFINE T == ToSet(versions) \ {v}
<1>1. /\ Keep(versions, T) \in Seq(T \cap Text)
      /\ ToSet(Keep(versions, T)) = ToSet(versions) \cap T
  BY KeepSet
<1>2. Keep(versions, T) \in Seq(Text)
  <2> HIDE DEF T
  <2> QED BY <1>1
<1> QED BY <1>1, <1>2

LEMMA InsertAtSet ==
    ASSUME NEW s \in Seq(Text), NEW x \in Text, NEW i \in 2..(Len(s) + 1)
    PROVE  /\ InsertAt(s, i, x) \in Seq(Text)
           /\ ToSet(InsertAt(s, i, x)) = ToSet(s) \cup {x}
<1> DEFINE p == SubSeq(s, 1, i - 1)
           q == SubSeq(s, i, Len(s))
<1>0. Len(s) \in Nat
  OBVIOUS
<1>1. p \in Seq(Text) /\ q \in Seq(Text) /\ <<x>> \in Seq(Text)
  BY <1>0
<1>2. InsertAt(s, i, x) = (p \o <<x>>) \o q
  BY DEF InsertAt
<1>3. /\ InsertAt(s, i, x) \in Seq(Text)
      /\ ToSet(InsertAt(s, i, x)) = (ToSet(p) \cup ToSet(<<x>>)) \cup ToSet(q)
  <2> HIDE DEF p, q
  <2>1. p \o <<x>> \in Seq(Text) /\ ToSet(p \o <<x>>) = ToSet(p) \cup ToSet(<<x>>)
    BY <1>1, ToSetConcat
  <2> DEFINE px == p \o <<x>>
  <2>2. px \in Seq(Text)
    BY <2>1
  <2> HIDE DEF px
  <2>3. px \o q \in Seq(Text) /\ ToSet(px \o q) = ToSet(px) \cup ToSet(q)
    BY <1>1, <2>2, ToSetConcat
  <2> QED BY <1>2, <2>1, <2>3 DEF px
<1>4. ToSet(<<x>>) = {x}
  BY DEF ToSet
<1>5. ToSet(p) \cup ToSet(q) = ToSet(s)
  <2>1. p \o q = s
    BY <1>0
  <2> HIDE DEF p, q
  <2> QED BY <1>1, <2>1, ToSetConcat
<1> QED BY <1>3, <1>4, <1>5

\* prune never deletes the version it was told to keep.
LEMMA DoomedIsNotKept ==
    ASSUME versions \in Seq(Text), NEW keep, Doomed(keep) # << >>
    PROVE  Head(Doomed(keep)) # keep
<1> DEFINE others == Keep(versions, ToSet(versions) \ {keep})
<1>1. others \in Seq(Text) /\ ToSet(others) = ToSet(versions) \ {keep}
  BY VersionsWithout
<1> HIDE DEF others
<1>2. Doomed(keep) = SubSeq(others, MaxVersions, Len(others))
  BY DEF Doomed, others
<1>3. Len(others) \in Nat /\ MaxVersions \in Nat /\ MaxVersions >= 1
  BY <1>1, StoreAssumption
<1>4. MaxVersions <= Len(others)
  BY <1>2, <1>3, <1>1
<1>5. Head(Doomed(keep)) = others[MaxVersions]
  BY <1>1, <1>2, <1>3, <1>4
<1>6. others[MaxVersions] \in ToSet(others)
  BY <1>1, <1>3, <1>4 DEF ToSet
<1> QED BY <1>1, <1>5, <1>6

-----------------------------------------------------------------------------
LEMMA InitIInv == Init => IInv
<1> SUFFICES ASSUME Init PROVE IInv
  OBVIOUS
<1>1. TypeOK
  BY IdleTyped, StoreAssumption DEF Init, TypeOK, Text, Name
<1>2. \A h \in Handler : handler[h].at = "idle"
  BY DEF Init, Idle
<1>3. LockIsHeld
  BY <1>2, StoreAssumption DEF Init, LockIsHeld, At, InLock
<1>4. AccountsAgree /\ MergeIsSafe /\ HeadExists
  BY <1>2 DEF Init, AccountsAgree, MergeIsSafe, HeadExists, At
<1> QED BY <1>1, <1>3, <1>4 DEF IInv

-----------------------------------------------------------------------------
\* A fault keeps the count in its bounds.
LEMMA FaultCounts ==
    ASSUME faults \in 0..MaxFaults, NEW kind, Fault(kind)
    PROVE  faults' \in 0..MaxFaults
BY StoreAssumption DEF Fault

\* The type invariant, one step for each action.
LEMMA TypeStep == TypeOK /\ [Next]_vars => TypeOK'
<1> SUFFICES ASSUME TypeOK, [Next]_vars PROVE TypeOK'
  OBVIOUS
<1> USE DEF TypeOK
<1>g. handler \in Goroutines
  BY DEF Goroutines
<1>1. ASSUME NEW d \in Device, Edit(d) PROVE TypeOK'
  <2>1. file' \in [Device -> Text]
    <3>1. file[d] \in Seq(Line)
      BY DEF Text
    <3>2. ASSUME NEW x \in Line, file' = [file EXCEPT ![d] = Append(@, x)]
          PROVE  file' \in [Device -> Text]
      <4>1. Append(file[d], x) \in Text
        BY <3>1 DEF Text
      <4> QED BY <3>2, <4>1
    <3>3. ASSUME NEW x, file' = [file EXCEPT ![d] = Keep(@, Line \ {x})]
          PROVE  file' \in [Device -> Text]
      <4>1. Keep(file[d], Line \ {x}) \in Seq((Line \ {x}) \cap Line)
        BY <3>1, KeepSet
      <4>2. Keep(file[d], Line \ {x}) \in Text
        BY <4>1 DEF Text
      <4> QED BY <3>3, <4>2
    <3>4. ASSUME NEW i \in DOMAIN file[d], NEW x \in Line,
                 file' = [file EXCEPT ![d][i] = x]
          PROVE  file' \in [Device -> Text]
      <4>1. [file[d] EXCEPT ![i] = x] \in Text
        BY <3>1 DEF Text
      <4> QED BY <3>4, <4>1
    <3> QED BY <1>1, <3>2, <3>3, <3>4 DEF Edit
  <2>2. edits' \in 0..MaxEdits
    BY <1>1, StoreAssumption DEF Edit
  <2> QED BY <1>1, <2>1, <2>2 DEF Edit, disk
<1>2. ASSUME NEW d \in Device, Send(d) PROVE TypeOK'
  <2>1. PICK h \in Handler :
           /\ handler' = [handler EXCEPT ![h] =
                [at |-> "sync", device |-> d, base |-> base[d],
                 local |-> file[d], merged |-> << >>]]
           /\ asks' = [asks EXCEPT ![d] = h]
    BY <1>2 DEF Send
  <2>2. handler' \in Goroutines
    BY <1>g, <2>1 DEF Goroutines, Step, Text
  <2> QED BY <1>2, <2>1, <2>2 DEF Send, disk, Goroutines
<1>3. ASSUME NEW d \in Device, Receive(d) PROVE TypeOK'
  <2>1. asks[d] \in Handler
    BY <1>3 DEF Receive
  <2>2. handler' \in Goroutines
    BY <1>3, <1>g, <2>1, IdleTyped DEF Receive, Goroutines
  <2>3. file' \in [Device -> Text] /\ base' \in [Device -> Name]
    BY <1>3, <2>1 DEF Receive, Name
  <2> QED BY <1>3, <2>2, <2>3 DEF Receive, disk, Goroutines
<1>4. ASSUME NEW d \in Device, GiveUp(d) PROVE TypeOK'
  BY <1>4, FaultCounts DEF GiveUp, disk
<1>5. ASSUME NEW d \in Device, Fetch(d) PROVE TypeOK'
  <2>1. Contents(head) \in Text
    BY DEF Contents, Name, Text
  <2> QED BY <1>5, <2>1 DEF Fetch, disk
<1>6. ASSUME NEW h \in Handler, EnterSync(h) PROVE TypeOK'
  <2>1. ASSUME NEW step \in Step, GoTo(h, step) PROVE handler' \in Goroutines
    BY <1>g, <2>1, GoToSteps
  <2>2. ASSUME NEW old \in Text, Merging(h, old)
        PROVE  handler' \in Goroutines /\ lock' = h
    <3>1. Contents(head) \in Text
      BY DEF Contents, Name, Text
    <3>2. merge(old, handler[h].local, Contents(head)) \in Text
      BY <3>1, MergeProperties
    <3> QED BY <1>g, <2>2, <3>2 DEF Merging, Goroutines, Step
  <2>3. << >> \in Text /\ BaseText(handler[h].base) \in Text
    BY DEF BaseText, ToSet, Text
  <2>4. handler' \in Goroutines /\ lock' \in Handler \cup {Nobody}
    BY <1>6, <2>1, <2>2, <2>3 DEF EnterSync, Step
  <2>5. faults' \in 0..MaxFaults
    BY <1>6, FaultCounts DEF EnterSync
  <2> QED BY <1>6, <2>4, <2>5 DEF EnterSync, disk, devices, Goroutines
<1>7. ASSUME NEW h \in Handler, WriteVersion(h) PROVE TypeOK'
  <2> DEFINE new == handler[h].merged
             others == Keep(versions, ToSet(versions) \ {new})
  <2>1. new \in Text /\ others \in Seq(Text)
    BY VersionsWithout
  <2>2. handler' \in Goroutines
    BY <1>7, <1>g, GoToSteps DEF WriteVersion, FailLocked, Step
  <2>3. versions' \in Seq(Text)
    <3> HIDE DEF new, others
    <3>1. <<new>> \o others \in Seq(Text)
      BY <2>1
    <3>2. \A i \in 2..(Len(others) + 1) : InsertAt(others, i, new) \in Seq(Text)
      BY <2>1, InsertAtSet
    <3> QED BY <1>7, <3>1, <3>2 DEF WriteVersion, new, others
  <2>4. lock' \in Handler \cup {Nobody} /\ faults' \in 0..MaxFaults
    BY <1>7, FaultCounts DEF WriteVersion, FailLocked
  <2> QED BY <1>7, <2>2, <2>3, <2>4 DEF WriteVersion, devices, Goroutines
<1>8. ASSUME NEW h \in Handler, WriteHead(h) PROVE TypeOK'
  <2>1. handler' \in Goroutines
    BY <1>8, <1>g, GoToSteps DEF WriteHead, FailLocked, Step
  <2>2. lock' \in Handler \cup {Nobody} /\ faults' \in 0..MaxFaults /\ head' \in Name
    BY <1>8, FaultCounts DEF WriteHead, FailLocked, Name
  <2> QED BY <1>8, <2>1, <2>2 DEF WriteHead, devices, Goroutines
<1>9. ASSUME NEW h \in Handler, Prune(h) PROVE TypeOK'
  <2>1. handler' \in Goroutines
    BY <1>9, <1>g, GoToSteps DEF Prune, FailLocked, Step
  <2>2. versions' \in Seq(Text)
    BY <1>9, VersionsWithout DEF Prune
  <2>3. lock' \in Handler \cup {Nobody} /\ faults' \in 0..MaxFaults
    BY <1>9, FaultCounts DEF Prune, FailLocked
  <2> QED BY <1>9, <2>1, <2>2, <2>3 DEF Prune, devices, Goroutines
<1>10. ASSUME NEW h \in Handler, RemoveAccount(h) PROVE TypeOK'
  <2>1. handler' \in Goroutines
    BY <1>10, <1>g, GoToSteps DEF RemoveAccount, Step
  <2> QED BY <1>10, <2>1, FaultCounts DEF RemoveAccount, devices, Goroutines
<1>11. ASSUME NEW h \in Handler, Erase(h) PROVE TypeOK'
  <2>1. handler' \in Goroutines
    BY <1>11, <1>g, GoToSteps DEF Erase, FailLocked, Step
  <2>2. versions' \in Seq(Text)
    BY <1>11, VersionsWithout DEF Erase
  <2>3. lock' \in Handler \cup {Nobody} /\ faults' \in 0..MaxFaults /\ head' \in Name
    BY <1>11, FaultCounts DEF Erase, FailLocked, Name
  <2> QED BY <1>11, <2>1, <2>2, <2>3 DEF Erase, devices, Goroutines
<1>12. ASSUME NEW h \in Handler, Drop(h) PROVE TypeOK'
  BY <1>12, <1>g, IdleTyped DEF Drop, disk, devices, Goroutines
<1>13. ASSUME AskRemove PROVE TypeOK'
  <2>1. [Idle EXCEPT !.at = "remove"] \in [at : Step, device : Device \cup {Nobody},
              base : Name, local : Text, merged : Text]
    BY IdleTyped DEF Step
  <2>2. handler' \in Goroutines
    BY <1>13, <1>g, <2>1 DEF AskRemove, Goroutines
  <2> QED BY <1>13, <2>2 DEF AskRemove, disk, devices, Goroutines
<1>14. ASSUME Crash PROVE TypeOK'
  BY <1>14, IdleTyped, FaultCounts DEF Crash, disk
<1>15. CASE UNCHANGED vars
  BY <1>15 DEF vars, disk, devices
<1> QED BY <1>1, <1>2, <1>3, <1>4, <1>5, <1>6, <1>7, <1>8, <1>9, <1>10, <1>11,
           <1>12, <1>13, <1>14, <1>15 DEF Next, GetLock, GoOn

-----------------------------------------------------------------------------
\* What each step does to the goroutines, to memory and to the disk, in the terms
\* of the invariants: a step of the devices or the end of a goroutine leaves the
\* lock, the disk and the goroutines that hold the lock alone.
Quiet == /\ UNCHANGED <<disk, known, lock>>
         /\ \A h \in Handler :
               \/ handler'[h] = handler[h]
               \/ At(h, Step \ InLock) /\ handler'[h].at \in Step \ InLock

LEMMA QuietSteps ==
    ASSUME TypeOK,
           \/ AskRemove
           \/ \E d \in Device : Edit(d) \/ Send(d) \/ Receive(d) \/ GiveUp(d) \/ Fetch(d)
           \/ \E h \in Handler : Drop(h)
           \/ UNCHANGED vars
    PROVE  Quiet
<1> USE DEF TypeOK, At, InLock, Answered, Step
<1>1. ASSUME AskRemove PROVE Quiet
  BY <1>1 DEF AskRemove, Quiet, Idle
<1>2. ASSUME NEW d \in Device, Edit(d) \/ GiveUp(d) \/ Fetch(d) PROVE Quiet
  BY <1>2 DEF Edit, GiveUp, Fetch, Quiet
<1>3. ASSUME NEW d \in Device, Send(d) PROVE Quiet
  BY <1>3 DEF Send, Quiet
<1>4. ASSUME NEW d \in Device, Receive(d) PROVE Quiet
  BY <1>4 DEF Receive, Quiet, Idle
<1>5. ASSUME NEW h \in Handler, Drop(h) PROVE Quiet
  BY <1>5 DEF Drop, Quiet, Idle
<1>6. CASE UNCHANGED vars
  BY <1>6 DEF vars, Quiet
<1> QED BY <1>1, <1>2, <1>3, <1>4, <1>5, <1>6

LEMMA QuietKeepsIInv == IInv /\ TypeOK' /\ Quiet => IInv'
<1> SUFFICES ASSUME IInv, TypeOK', Quiet PROVE IInv'
  OBVIOUS
<1> USE DEF IInv, Quiet, disk, At, InLock, Step
<1>1. LockIsHeld'
  BY DEF LockIsHeld
<1>2. AccountsAgree'
  BY DEF AccountsAgree
<1>3. MergeIsSafe'
  BY DEF MergeIsSafe
<1>4. HeadExists'
  BY DEF HeadExists
<1> QED BY <1>1, <1>2, <1>3, <1>4

\* Goroutine h goes to another step, and the others stay where they are.
OnlyAt(h, step) == /\ handler'[h].at = step
                   /\ handler'[h].merged = handler[h].merged
                   /\ \A g \in Handler \ {h} : handler'[g] = handler[g]

LEMMA GoToOnly ==
    ASSUME TypeOK, NEW h \in Handler, NEW step \in Step, GoTo(h, step)
    PROVE  OnlyAt(h, step)
BY GoToSteps DEF TypeOK, Goroutines, OnlyAt

LEMMA EnterKeepsIInv ==
    ASSUME IInv, TypeOK', NEW h \in Handler, EnterSync(h)
    PROVE  IInv'
<1> USE DEF IInv
<1>1. CASE ~known
  <2>1. OnlyAt(h, "refused") /\ UNCHANGED lock
    BY <1>1, GoToOnly DEF EnterSync, Step
  <2>2. Quiet
    BY <2>1 DEF EnterSync, OnlyAt, Quiet, At, InLock, Step, TypeOK
  <2> QED BY <2>2, QuietKeepsIInv
<1>2. CASE known /\ GoTo(h, "failed") /\ UNCHANGED lock
  <2>1. OnlyAt(h, "failed")
    BY <1>2, GoToOnly DEF Step
  <2>2. Quiet
    BY <1>2, <2>1 DEF EnterSync, OnlyAt, Quiet, At, InLock, Step, TypeOK
  <2> QED BY <2>2, QuietKeepsIInv
<1>3. ASSUME known, NEW old, Merging(h, old) PROVE IInv'
  <2>1. /\ lock' = h /\ lock = Nobody
        /\ handler'[h].at = "merged"
        /\ \A g \in Handler \ {h} : handler'[g] = handler[g]
        /\ UNCHANGED <<saved, head, versions, known>>
    BY <1>3 DEF EnterSync, Merging, TypeOK, disk
  <2>2. \A g \in Handler : ~At(g, InLock)
    BY <2>1, StoreAssumption DEF LockIsHeld
  <2>3. LockIsHeld'
    BY <2>1, <2>2 DEF LockIsHeld, At, InLock
  <2>4. AccountsAgree'
    BY <2>1 DEF AccountsAgree, At
  <2>5. MergeIsSafe'
    BY <1>3, <2>1, <2>2 DEF MergeIsSafe, AccountsAgree, At, InLock
  <2>6. HeadExists'
    BY <2>1 DEF HeadExists
  <2> QED BY <2>3, <2>4, <2>5, <2>6
<1> QED BY <1>1, <1>2, <1>3 DEF EnterSync

\* While h holds the lock, no other goroutine is at a step that needs it.
LEMMA AloneInLock ==
    ASSUME LockIsHeld, NEW h \in Handler, At(h, InLock)
    PROVE  \A g \in Handler \ {h} : ~At(g, InLock)
BY DEF LockIsHeld

\* An error of h lets the lock go and leaves the disk with the account as it was.
LEMMA FailKeepsIInv ==
    ASSUME IInv, TypeOK', NEW h \in Handler, At(h, InLock), FailLocked(h),
           UNCHANGED <<saved, head, versions, known>>
    PROVE  IInv'
<1> USE DEF IInv
<1>1. OnlyAt(h, "failed") /\ lock' = Nobody
  BY GoToOnly DEF FailLocked, Step
<1>2. \A g \in Handler \ {h} : ~At(g, InLock)
  BY AloneInLock
<1>3. \A g \in Handler : handler'[g].at \notin InLock
  BY <1>1, <1>2 DEF OnlyAt, At, InLock
<1>4. LockIsHeld'
  BY <1>1, <1>3, StoreAssumption DEF LockIsHeld, At
<1>5. AccountsAgree' /\ MergeIsSafe'
  BY <1>3 DEF AccountsAgree, MergeIsSafe, At, InLock
<1>6. HeadExists'
  BY DEF HeadExists
<1> QED BY <1>4, <1>5, <1>6

LEMMA WriteVersionKeepsIInv ==
    ASSUME IInv, TypeOK', NEW h \in Handler, WriteVersion(h)
    PROVE  IInv'
<1> USE DEF IInv
<1> DEFINE new == handler[h].merged
           others == Keep(versions, ToSet(versions) \ {new})
<1>1. At(h, {"merged"}) /\ UNCHANGED <<saved, head, known>>
  BY DEF WriteVersion
<1>2. At(h, InLock)
  BY <1>1 DEF At, InLock
<1>3. CASE FailLocked(h) /\ UNCHANGED versions
  BY <1>1, <1>2, <1>3, FailKeepsIInv
<1>4. CASE /\ \/ versions' = <<new>> \o others
              \/ \E i \in 2..(Len(others) + 1) : versions' = InsertAt(others, i, new)
           /\ GoTo(h, "written") /\ UNCHANGED lock
  <2>1. /\ new \in Text /\ others \in Seq(Text)
        /\ ToSet(others) = ToSet(versions) \ {new}
    BY VersionsWithout DEF TypeOK
  <2>2. ToSet(versions') = ToSet(versions) \cup {new}
    <3> HIDE DEF new, others
    <3>1. <<new>> \in Seq(Text) /\ ToSet(<<new>>) = {new}
      BY <2>1 DEF ToSet
    <3>2. ToSet(<<new>> \o others) = ToSet(<<new>>) \cup ToSet(others)
      <4> DEFINE one == <<new>>
      <4>1. one \in Seq(Text)
        BY <3>1
      <4> HIDE DEF one
      <4>2. ToSet(one \o others) = ToSet(one) \cup ToSet(others)
        BY <2>1, <4>1, ToSetConcat
      <4> QED BY <4>2 DEF one
    <3>3. \A i \in 2..(Len(others) + 1) :
             ToSet(InsertAt(others, i, new)) = ToSet(others) \cup {new}
      BY <2>1, InsertAtSet
    <3> QED BY <1>4, <2>1, <3>1, <3>2, <3>3
  <2>3. OnlyAt(h, "written")
    BY <1>4, GoToOnly DEF Step
  <2>4. \A g \in Handler \ {h} : ~At(g, InLock)
    BY <1>2, AloneInLock
  <2>5. LockIsHeld'
    BY <1>2, <1>4, <2>3 DEF LockIsHeld, OnlyAt, At, InLock
  <2>6. AccountsAgree'
    BY <1>1, <2>3 DEF AccountsAgree, OnlyAt, At
  <2>7. MergeIsSafe'
    BY <1>1, <2>2, <2>3, <2>4 DEF MergeIsSafe, OnlyAt, At, InLock
  <2>8. HeadExists'
    BY <1>1, <2>2 DEF HeadExists
  <2> QED BY <2>5, <2>6, <2>7, <2>8
<1> QED BY <1>3, <1>4 DEF WriteVersion

LEMMA WriteHeadKeepsIInv ==
    ASSUME IInv, TypeOK', NEW h \in Handler, WriteHead(h)
    PROVE  IInv'
<1> USE DEF IInv
<1>1. At(h, {"written"}) /\ UNCHANGED <<saved, versions, known>>
  BY DEF WriteHead
<1>2. At(h, InLock)
  BY <1>1 DEF At, InLock
<1>3. CASE FailLocked(h) /\ UNCHANGED head
  BY <1>1, <1>2, <1>3, FailKeepsIInv
<1>4. CASE head' = handler[h].merged /\ GoTo(h, "headed") /\ UNCHANGED lock
  <2>1. OnlyAt(h, "headed")
    BY <1>4, GoToOnly DEF Step
  <2>2. \A g \in Handler \ {h} : ~At(g, InLock)
    BY <1>2, AloneInLock
  <2>3. handler[h].merged \in ToSet(versions)
    BY <1>1 DEF MergeIsSafe, At
  <2>4. LockIsHeld'
    BY <1>2, <1>4, <2>1 DEF LockIsHeld, OnlyAt, At, InLock
  <2>5. AccountsAgree'
    BY <1>1, <2>1 DEF AccountsAgree, OnlyAt, At
  <2>6. MergeIsSafe'
    BY <1>1, <1>4, <2>1, <2>2, <2>3 DEF MergeIsSafe, OnlyAt, At, InLock
  <2>7. HeadExists'
    BY <1>1, <1>4, <2>3 DEF HeadExists
  <2> QED BY <2>4, <2>5, <2>6, <2>7
<1> QED BY <1>3, <1>4 DEF WriteHead

\* prune deletes other versions than the one that HEAD names.
LEMMA PruneKeepsIInv ==
    ASSUME IInv, TypeOK', NEW h \in Handler, Prune(h)
    PROVE  IInv'
<1> USE DEF IInv
<1> DEFINE doomed == Doomed(handler[h].merged)
<1>1. At(h, {"headed"}) /\ UNCHANGED <<saved, head, known>>
  BY DEF Prune
<1>2. At(h, InLock)
  BY <1>1 DEF At, InLock
<1>3. \A g \in Handler \ {h} : ~At(g, InLock)
  BY <1>2, AloneInLock
<1>4. CASE FailLocked(h) /\ UNCHANGED versions
  BY <1>1, <1>2, <1>4, FailKeepsIInv
<1>5. CASE /\ doomed # << >>
           /\ versions' = Keep(versions, ToSet(versions) \ {Head(doomed)})
           /\ UNCHANGED <<handler, lock>>
  <2>1. Head(doomed) # handler[h].merged
    BY <1>5, DoomedIsNotKept DEF TypeOK
  <2>2. ToSet(versions') = ToSet(versions) \ {Head(doomed)}
    BY <1>5, VersionsWithout DEF TypeOK
  <2>3. head = handler[h].merged /\ head \in ToSet(versions)
    BY <1>1 DEF MergeIsSafe, At
  <2> HIDE DEF doomed
  <2>4. head' \in ToSet(versions') /\ handler[h].merged \in ToSet(versions')
    BY <1>1, <2>1, <2>2, <2>3
  <2>5. LockIsHeld' /\ AccountsAgree'
    BY <1>1, <1>5 DEF LockIsHeld, AccountsAgree, At
  <2>6. MergeIsSafe'
    BY <1>1, <1>3, <1>5, <2>3, <2>4 DEF MergeIsSafe, At, InLock
  <2>7. HeadExists'
    BY <2>4 DEF HeadExists
  <2> QED BY <2>5, <2>6, <2>7
<1>6. CASE GoTo(h, "ok") /\ lock' = Nobody /\ UNCHANGED versions
  <2>1. OnlyAt(h, "ok")
    BY <1>6, GoToOnly DEF Step
  <2>2. \A g \in Handler : handler'[g].at \notin InLock
    BY <1>3, <2>1 DEF OnlyAt, At, InLock
  <2>3. LockIsHeld'
    BY <1>6, <2>2, StoreAssumption DEF LockIsHeld, At
  <2>4. AccountsAgree' /\ MergeIsSafe'
    BY <1>1, <2>2 DEF AccountsAgree, MergeIsSafe, At, InLock
  <2>5. HeadExists'
    BY <1>1, <1>6 DEF HeadExists
  <2> QED BY <2>3, <2>4, <2>5
<1> QED BY <1>4, <1>5, <1>6 DEF Prune

LEMMA RemoveKeepsIInv ==
    ASSUME IInv, TypeOK', NEW h \in Handler, RemoveAccount(h)
    PROVE  IInv'
<1> USE DEF IInv
<1>1. /\ At(h, {"remove"}) /\ lock = Nobody
      /\ known' = FALSE /\ UNCHANGED <<head, versions>>
  BY DEF RemoveAccount
<1>2. \A g \in Handler : ~At(g, InLock)
  BY <1>1, StoreAssumption DEF LockIsHeld
<1>3. CASE saved' = FALSE /\ GoTo(h, "erasing") /\ lock' = h
  <2>1. OnlyAt(h, "erasing")
    BY <1>3, GoToOnly DEF Step
  <2>2. LockIsHeld'
    BY <1>2, <1>3, <2>1 DEF LockIsHeld, OnlyAt, At, InLock
  <2>3. AccountsAgree' /\ HeadExists'
    BY <1>1, <1>3 DEF AccountsAgree, HeadExists
  <2>4. MergeIsSafe'
    BY <1>2, <2>1 DEF MergeIsSafe, OnlyAt, At, InLock
  <2> QED BY <2>2, <2>3, <2>4
<1>4. CASE GoTo(h, "failed") /\ UNCHANGED <<saved, lock>>
  <2>1. OnlyAt(h, "failed")
    BY <1>4, GoToOnly DEF Step
  <2>2. \A g \in Handler : handler'[g].at \notin InLock
    BY <1>2, <2>1 DEF OnlyAt, At, InLock
  <2>3. LockIsHeld'
    BY <1>1, <1>4, <2>2, StoreAssumption DEF LockIsHeld, At
  <2>4. AccountsAgree' /\ MergeIsSafe'
    BY <1>1, <2>2 DEF AccountsAgree, MergeIsSafe, At, InLock
  <2>5. HeadExists'
    BY <1>1, <1>4 DEF HeadExists
  <2> QED BY <2>3, <2>4, <2>5
<1> QED BY <1>3, <1>4 DEF RemoveAccount

\* Files go only when the account is gone from accounts.json.
LEMMA EraseKeepsIInv ==
    ASSUME IInv, TypeOK', NEW h \in Handler, Erase(h)
    PROVE  IInv'
<1> USE DEF IInv
<1>1. At(h, {"erasing"}) /\ UNCHANGED <<saved, known>>
  BY DEF Erase
<1>2. At(h, InLock) /\ ~saved
  BY <1>1 DEF At, InLock, AccountsAgree
<1>3. \A g \in Handler \ {h} : ~At(g, InLock)
  BY <1>2, AloneInLock
<1>4. CASE FailLocked(h) /\ UNCHANGED <<head, versions>>
  BY <1>1, <1>2, <1>4, FailKeepsIInv
<1>5. CASE UNCHANGED <<handler, lock>>
  <2>1. LockIsHeld' /\ AccountsAgree'
    BY <1>1, <1>5 DEF LockIsHeld, AccountsAgree, At
  <2>2. MergeIsSafe'
    BY <1>1, <1>2, <1>5 DEF MergeIsSafe, At
  <2>3. HeadExists'
    BY <1>1, <1>2 DEF HeadExists
  <2> QED BY <2>1, <2>2, <2>3
<1>6. CASE GoTo(h, "removed") /\ lock' = Nobody /\ UNCHANGED <<head, versions>>
  <2>1. OnlyAt(h, "removed")
    BY <1>6, GoToOnly DEF Step
  <2>2. \A g \in Handler : handler'[g].at \notin InLock
    BY <1>3, <2>1 DEF OnlyAt, At, InLock
  <2>3. LockIsHeld'
    BY <1>6, <2>2, StoreAssumption DEF LockIsHeld, At
  <2>4. AccountsAgree' /\ MergeIsSafe' /\ HeadExists'
    BY <1>1, <1>2, <2>2 DEF AccountsAgree, MergeIsSafe, HeadExists, At, InLock
  <2> QED BY <2>3, <2>4
<1> QED BY <1>4, <1>5, <1>6 DEF Erase

\* After a crash no goroutine is left to hold the lock, and memory is what the
\* disk has.
LEMMA CrashKeepsIInv ==
    ASSUME IInv, TypeOK', Crash
    PROVE  IInv'
<1> USE DEF IInv
<1>1. \A g \in Handler : handler'[g].at = "idle"
  BY DEF Crash, Idle
<1>2. LockIsHeld'
  BY <1>1, StoreAssumption DEF Crash, LockIsHeld, At, InLock
<1>3. AccountsAgree' /\ MergeIsSafe' /\ HeadExists'
  BY <1>1 DEF Crash, disk, AccountsAgree, MergeIsSafe, HeadExists, At
<1> QED BY <1>2, <1>3

LEMMA NextKeepsIInv == IInv /\ [Next]_vars => IInv'
<1> SUFFICES ASSUME IInv, [Next]_vars PROVE IInv'
  OBVIOUS
<1>1. TypeOK /\ TypeOK'
  BY TypeStep DEF IInv
<1>2. CASE \/ AskRemove
           \/ \E d \in Device : Edit(d) \/ Send(d) \/ Receive(d) \/ GiveUp(d) \/ Fetch(d)
           \/ \E h \in Handler : Drop(h)
           \/ UNCHANGED vars
  BY <1>1, <1>2, QuietSteps, QuietKeepsIInv
<1>3. ASSUME NEW h \in Handler, GetLock(h) PROVE IInv'
  BY <1>1, <1>3, EnterKeepsIInv, RemoveKeepsIInv DEF GetLock
<1>4. ASSUME NEW h \in Handler, WriteVersion(h) \/ WriteHead(h) PROVE IInv'
  BY <1>1, <1>4, WriteVersionKeepsIInv, WriteHeadKeepsIInv
<1>5. ASSUME NEW h \in Handler, Prune(h) \/ Erase(h) PROVE IInv'
  BY <1>1, <1>5, PruneKeepsIInv, EraseKeepsIInv
<1>6. ASSUME Crash PROVE IInv'
  BY <1>1, <1>6, CrashKeepsIInv
<1> QED BY <1>2, <1>3, <1>4, <1>5, <1>6 DEF Next, GoOn

-----------------------------------------------------------------------------
LEMMA Invariance == Spec => []IInv
BY InitIInv, NextKeepsIInv, PTL DEF Spec

\* The variables keep their types.
THEOREM StoreTyped == Spec => []TypeOK
<1>1. IInv => TypeOK
  BY DEF IInv
<1> QED BY <1>1, Invariance, PTL

\* HEAD always names a version that is on disk, for every order of steps, errors,
\* crashes and clocks (store.go:393-406 and 409-421).
THEOREM HeadIsOnDisk == Spec => []HeadExists
<1>1. IInv => HeadExists
  BY DEF IInv
<1> QED BY <1>1, Invariance, PTL

\* A goroutine between its merge and its answer works for an account that is
\* there, and no HEAD is written before its version (store.go:370-406).
THEOREM MergesAreSafe == Spec => []MergeIsSafe
<1>1. IInv => MergeIsSafe
  BY DEF IInv
<1> QED BY <1>1, Invariance, PTL

\* One goroutine at a time works on the files of an account, and no error leaves
\* the lock behind (store.go:346-348 and 371-373).
THEOREM LockExcludes == Spec => []LockIsHeld
<1>1. IInv => LockIsHeld
  BY DEF IInv
<1> QED BY <1>1, Invariance, PTL

\* No file comes back for an account that accounts.json has no longer: the syncs
\* that are past the lock have the account, and the others find it gone
\* (store.go:345-365 and 374-376).
THEOREM RemovedStaysRemoved == Spec => NothingAfterRemoval
<1>1. IInv /\ [Next]_vars => [~saved => /\ head' \in {head, NoVersion}
                                       /\ ToSet(versions') \subseteq ToSet(versions)]_vars
  <2> SUFFICES ASSUME IInv, Next, ~saved
               PROVE  /\ head' \in {head, NoVersion}
                      /\ ToSet(versions') \subseteq ToSet(versions)
    BY DEF vars, disk
  <2>1. CASE \/ AskRemove
             \/ \E d \in Device : Edit(d) \/ Send(d) \/ Receive(d) \/ GiveUp(d) \/ Fetch(d)
             \/ \E h \in Handler : Drop(h)
    BY <2>1, QuietSteps DEF IInv, Quiet, disk
  <2>2. CASE Crash \/ \E h \in Handler : EnterSync(h) \/ RemoveAccount(h)
    BY <2>2 DEF Crash, EnterSync, RemoveAccount, disk
  <2>3. ASSUME NEW h \in Handler, WriteVersion(h) \/ WriteHead(h) \/ Prune(h) PROVE FALSE
    BY <2>3 DEF WriteVersion, WriteHead, Prune, IInv, MergeIsSafe, At
  <2>4. ASSUME NEW h \in Handler, Erase(h)
        PROVE  /\ head' \in {head, NoVersion}
               /\ ToSet(versions') \subseteq ToSet(versions)
    BY <2>4, VersionsWithout DEF Erase, IInv, TypeOK
  <2> QED BY <2>1, <2>2, <2>3, <2>4 DEF Next, GetLock, GoOn
<1> QED BY <1>1, Invariance, PTL DEF Spec, NothingAfterRemoval

-----------------------------------------------------------------------------
\* A version has one file, so one place in the order of times.
VersionsOnce == IsInjective(versions)

LEMMA WithoutOnce ==
    ASSUME versions \in Seq(Text), VersionsOnce, NEW v
    PROVE  IsInjective(Keep(versions, ToSet(versions) \ {v}))
<1> DEFINE T == ToSet(versions) \ {v}
<1>1. \A i, j \in DOMAIN versions :
         i # j /\ versions[i] \in T /\ versions[j] \in T => versions[i] # versions[j]
  BY DEF VersionsOnce, IsInjective
<1> HIDE DEF T
<1>2. IsInjective(Keep(versions, T))
  BY <1>1, OnceKept
<1> QED BY <1>2 DEF T

\* A version that is put among the others is there once.
LEMMA PutOnce ==
    ASSUME NEW s \in Seq(Text), IsInjective(s), NEW x \in Text, x \notin ToSet(s)
    PROVE  /\ IsInjective(<<x>> \o s)
           /\ \A i \in 2..(Len(s) + 1) : IsInjective(InsertAt(s, i, x))
<1>0. /\ Len(s) \in Nat /\ DOMAIN s = 1..Len(s)
      /\ \A j, k \in 1..Len(s) : j # k => s[j] # s[k]
      /\ \A j \in 1..Len(s) : s[j] # x
  BY DEF IsInjective, ToSet
<1>1. IsInjective(<<x>> \o s)
  <2> DEFINE t == <<x>> \o s
  <2>1. /\ DOMAIN t = 1..(Len(s) + 1) /\ t[1] = x
        /\ \A j \in 2..(Len(s) + 1) : t[j] = s[j - 1] /\ j - 1 \in 1..Len(s)
    BY <1>0
  <2> HIDE DEF t
  <2>2. IsInjective(t)
    BY <1>0, <2>1 DEF IsInjective
  <2> QED BY <2>2 DEF t
<1>2. ASSUME NEW i \in 2..(Len(s) + 1) PROVE IsInjective(InsertAt(s, i, x))
  <2> DEFINE t == InsertAt(s, i, x)
  <2>1. t = (SubSeq(s, 1, i - 1) \o <<x>>) \o SubSeq(s, i, Len(s))
    BY DEF InsertAt
  <2>2. /\ DOMAIN t = 1..(Len(s) + 1) /\ t[i] = x
        /\ \A j \in 1..(i - 1) : t[j] = s[j]
        /\ \A j \in (i + 1)..(Len(s) + 1) : t[j] = s[j - 1]
    BY <1>0, <2>1
  <2> HIDE DEF t
  <2>3. ASSUME NEW j \in 1..(Len(s) + 1), NEW k \in 1..(Len(s) + 1), j < k
        PROVE  t[j] # t[k]
    BY <1>0, <2>2, <2>3
  <2>4. IsInjective(t)
    BY <1>0, <2>2, <2>3 DEF IsInjective
  <2> QED BY <2>4 DEF t
<1> QED BY <1>1, <1>2

LEMMA OnceStep == TypeOK /\ VersionsOnce /\ [Next]_vars => VersionsOnce'
<1> SUFFICES ASSUME TypeOK, VersionsOnce, [Next]_vars PROVE VersionsOnce'
  OBVIOUS
<1>1. CASE \/ AskRemove
           \/ \E d \in Device : Edit(d) \/ Send(d) \/ Receive(d) \/ GiveUp(d) \/ Fetch(d)
           \/ \E h \in Handler : Drop(h)
           \/ UNCHANGED vars
  BY <1>1, QuietSteps DEF Quiet, disk, VersionsOnce
<1>2. CASE Crash \/ \E h \in Handler : EnterSync(h) \/ WriteHead(h) \/ RemoveAccount(h)
  BY <1>2 DEF Crash, EnterSync, WriteHead, RemoveAccount, disk, VersionsOnce
<1>3. ASSUME NEW h \in Handler, WriteVersion(h) PROVE VersionsOnce'
  <2> DEFINE new == handler[h].merged
             others == Keep(versions, ToSet(versions) \ {new})
  <2>1. /\ new \in Text /\ others \in Seq(Text) /\ new \notin ToSet(others)
        /\ IsInjective(others)
    BY VersionsWithout, WithoutOnce DEF TypeOK
  <2> HIDE DEF new, others
  <2>2. \/ versions' = versions
        \/ versions' = <<new>> \o others
        \/ \E i \in 2..(Len(others) + 1) : versions' = InsertAt(others, i, new)
    BY <1>3 DEF WriteVersion, new, others
  <2> QED BY <2>1, <2>2, PutOnce DEF VersionsOnce
<1>4. ASSUME NEW h \in Handler, Prune(h) \/ Erase(h) PROVE VersionsOnce'
  <2>1. \/ versions' = versions
        \/ \E v : versions' = Keep(versions, ToSet(versions) \ {v})
    BY <1>4 DEF Prune, Erase
  <2> QED BY <2>1, WithoutOnce DEF VersionsOnce, TypeOK
<1> QED BY <1>1, <1>2, <1>3, <1>4 DEF Next, GetLock, GoOn

\* When nothing is left to delete, what is kept and the others are MaxVersions at most.
LEMMA NoneDoomed ==
    ASSUME TypeOK, VersionsOnce, NEW keep, Doomed(keep) = << >>
    PROVE  Len(versions) <= MaxVersions
<1> DEFINE others == Keep(versions, ToSet(versions) \ {keep})
<1>0. versions \in Seq(Text) /\ IsInjective(versions)
  BY DEF TypeOK, VersionsOnce
<1>1. others \in Seq(Text)
  BY <1>0, VersionsWithout
<1>2. Len(versions) <= Len(others) + 1
  BY <1>0, KeepAllButOne
<1> HIDE DEF others
<1>3. SubSeq(others, MaxVersions, Len(others)) = << >>
  BY DEF Doomed, others
<1>4. MaxVersions \in Nat \ {0}
  BY StoreAssumption
<1>5. Len(others) < MaxVersions
  <2>1. SUFFICES ASSUME MaxVersions <= Len(others) PROVE FALSE
    BY <1>1, <1>4
  <2>2. Len(SubSeq(others, MaxVersions, Len(others))) = Len(others) - MaxVersions + 1
    BY <1>1, <1>4, <2>1
  <2> QED BY <1>1, <1>3, <1>4, <2>1, <2>2
<1> QED BY <1>0, <1>1, <1>2, <1>4, <1>5

\* A sync that succeeds leaves MaxVersions versions at most, whatever earlier ones left
\* behind when they failed (store.go:440-468).
THEOREM FewVersions == Spec => SuccessBoundsVersions
<1>1. Init => VersionsOnce
  BY DEF Init, VersionsOnce, IsInjective
<1>2. TypeOK /\ VersionsOnce /\ [Next]_vars =>
        [\A h \in Handler : At(h, {"headed"}) /\ At(h, {"ok"})' =>
            Len(versions') <= MaxVersions]_vars
  <2> SUFFICES ASSUME TypeOK, VersionsOnce, Next,
                      NEW h \in Handler, At(h, {"headed"}), At(h, {"ok"})'
               PROVE  Len(versions') <= MaxVersions
    BY DEF vars
  <2>1. handler[h].at = "headed" /\ handler'[h].at = "ok"
    BY DEF At
  <2>2. CASE \/ AskRemove
             \/ \E d \in Device : Edit(d) \/ Send(d) \/ Receive(d) \/ GiveUp(d) \/ Fetch(d)
             \/ \E g \in Handler : Drop(g)
    <3>1. Quiet
      BY <2>2, QuietSteps
    <3> QED BY <2>1, <3>1 DEF Quiet, At, InLock
  <2>3. CASE Crash
    BY <2>1, <2>3 DEF Crash, Idle
  <2>4. ASSUME NEW g \in Handler,
               EnterSync(g) \/ WriteVersion(g) \/ WriteHead(g) \/ RemoveAccount(g) \/ Erase(g)
        PROVE  FALSE
    <3>1. g # h
      BY <2>1, <2>4 DEF EnterSync, WriteVersion, WriteHead, RemoveAccount, Erase, At
    <3>2. handler'[h] = handler[h]
      BY <2>4, <3>1 DEF EnterSync, WriteVersion, WriteHead, RemoveAccount, Erase,
                        FailLocked, GoTo, Merging, TypeOK
    <3> QED BY <2>1, <3>2
  <2>5. ASSUME NEW g \in Handler, Prune(g)
        PROVE  Len(versions') <= MaxVersions
    <3>1. CASE Doomed(handler[g].merged) = << >> /\ UNCHANGED versions
      BY <3>1, NoneDoomed
    <3>2. CASE UNCHANGED handler
      BY <2>1, <3>2
    <3>3. CASE GoTo(g, "failed")
      BY <2>1, <3>3 DEF GoTo, TypeOK
    <3> QED BY <2>5, <3>1, <3>2, <3>3 DEF Prune, FailLocked
  <2> QED BY <2>2, <2>3, <2>4, <2>5 DEF Next, GetLock, GoOn
<1> QED BY <1>1, <1>2, OnceStep, StoreTyped, PTL DEF Spec, SuccessBoundsVersions

-----------------------------------------------------------------------------
\* A goroutine that removes the account answers no device.
RemoverHasNoDevice ==
    \A h \in Handler : At(h, {"remove", "erasing", "removed"}) => handler[h].device = Nobody

\* The lock keeps HEAD still between the merge of a goroutine and its own write of
\* HEAD, which is what the refinement needs on top of IInv.
RInv == IInv /\ NoLostUpdate /\ RemoverHasNoDevice

-----------------------------------------------------------------------------
LEMMA RemoverStep == IInv /\ RemoverHasNoDevice /\ [Next]_vars => RemoverHasNoDevice'
<1> SUFFICES ASSUME IInv, RemoverHasNoDevice, [Next]_vars PROVE RemoverHasNoDevice'
  OBVIOUS
<1> USE DEF RemoverHasNoDevice, At
<1>t. handler \in Goroutines
  BY DEF IInv, TypeOK, Goroutines
<1>1. ASSUME NEW d \in Device, Edit(d) \/ Send(d) \/ Receive(d) \/ GiveUp(d) \/ Fetch(d)
      PROVE  RemoverHasNoDevice'
  BY <1>1, <1>t DEF Edit, Send, Receive, GiveUp, Fetch, Idle, Goroutines
<1>2. ASSUME NEW h \in Handler, EnterSync(h) PROVE RemoverHasNoDevice'
  <2>1. ASSUME NEW step \in {"failed", "refused"}, GoTo(h, step) PROVE RemoverHasNoDevice'
    BY <2>1, <1>t, GoToSteps DEF Step
  <2>2. ASSUME NEW old, Merging(h, old) PROVE RemoverHasNoDevice'
    BY <2>2, <1>t DEF Merging, Goroutines
  <2> QED BY <1>2, <2>1, <2>2 DEF EnterSync
<1>3. ASSUME NEW h \in Handler, WriteVersion(h) \/ WriteHead(h) \/ Prune(h)
      PROVE  RemoverHasNoDevice'
  <2>1. ASSUME NEW step \in {"written", "headed", "ok", "failed"}, GoTo(h, step)
        PROVE  RemoverHasNoDevice'
    BY <2>1, <1>t, GoToSteps DEF Step
  <2> QED BY <1>3, <2>1 DEF WriteVersion, WriteHead, Prune, FailLocked
<1>4. ASSUME NEW h \in Handler, RemoveAccount(h) \/ Erase(h) PROVE RemoverHasNoDevice'
  <2>1. handler[h].device = Nobody
    BY <1>4 DEF RemoveAccount, Erase
  <2>2. ASSUME NEW step \in Step, GoTo(h, step) PROVE RemoverHasNoDevice'
    BY <2>1, <2>2, <1>t, GoToSteps
  <2> QED BY <1>4, <2>2 DEF RemoveAccount, Erase, FailLocked, Step
<1>5. ASSUME NEW h \in Handler, Drop(h) PROVE RemoverHasNoDevice'
  BY <1>5, <1>t DEF Drop, Idle, Goroutines
<1>6. ASSUME AskRemove PROVE RemoverHasNoDevice'
  BY <1>6, <1>t DEF AskRemove, Idle, Goroutines
<1>7. ASSUME Crash PROVE RemoverHasNoDevice'
  BY <1>7 DEF Crash, Idle
<1>8. CASE UNCHANGED vars
  BY <1>8 DEF vars
<1> QED BY <1>1, <1>2, <1>3, <1>4, <1>5, <1>6, <1>7, <1>8 DEF Next, GetLock, GoOn

\* Only the goroutine in the lock writes HEAD.
LEMMA FreshStep == IInv /\ NoLostUpdate /\ [Next]_vars => NoLostUpdate'
<1> SUFFICES ASSUME IInv, NoLostUpdate, [Next]_vars PROVE NoLostUpdate'
  OBVIOUS
<1>t. handler \in Goroutines
  BY DEF IInv, TypeOK, Goroutines
<1>l. LockIsHeld /\ TypeOK
  BY DEF IInv
<1>q. ASSUME UNCHANGED head,
             \A g \in Handler : \/ handler'[g] = handler[g]
                                \/ handler'[g].at \notin {"merged", "written"}
      PROVE  NoLostUpdate'
  BY <1>q DEF NoLostUpdate, At
<1>1. CASE \/ AskRemove
           \/ \E d \in Device : Edit(d) \/ Send(d) \/ Receive(d) \/ GiveUp(d) \/ Fetch(d)
           \/ \E h \in Handler : Drop(h)
           \/ UNCHANGED vars
  <2>1. Quiet
    BY <1>1, <1>l, QuietSteps
  <2> QED BY <2>1, <1>q DEF Quiet, disk, InLock
<1>2. ASSUME NEW h \in Handler, EnterSync(h) PROVE NoLostUpdate'
  <2>1. ASSUME NEW step \in {"failed", "refused"}, GoTo(h, step) PROVE NoLostUpdate'
    BY <1>2, <2>1, <1>t, <1>q, GoToSteps DEF Step, EnterSync, disk
  <2>2. ASSUME NEW old \in {<< >>} \cup ({handler[h].base} \ {NoVersion}), Merging(h, old)
        PROVE  NoLostUpdate'
    <3>1. /\ handler'[h].base = handler[h].base
          /\ handler'[h].local = handler[h].local
          /\ handler'[h].merged = merge(old, handler[h].local, Contents(head))
          /\ \A g \in Handler \ {h} : handler'[g] = handler[g]
      BY <2>2, <1>t DEF Merging, Goroutines
    <3>2. UNCHANGED head
      BY <1>2 DEF EnterSync, disk
    <3> QED BY <3>1, <3>2 DEF NoLostUpdate, At
  <2>3. BaseText(handler[h].base) \in {<< >>} \cup ({handler[h].base} \ {NoVersion})
    <3>1. ToSet(versions) \subseteq Text
      BY <1>l DEF TypeOK, ToSet
    <3> QED BY <3>1, StoreAssumption DEF BaseText
  <2> QED BY <1>2, <2>1, <2>2, <2>3 DEF EnterSync
<1>3. ASSUME NEW h \in Handler, WriteVersion(h) PROVE NoLostUpdate'
  <2>1. /\ handler'[h].base = handler[h].base
        /\ handler'[h].local = handler[h].local
        /\ handler'[h].merged = handler[h].merged
        /\ \A g \in Handler \ {h} : handler'[g] = handler[g]
    BY <1>3, <1>t, GoToSteps DEF WriteVersion, FailLocked, Step
  <2>2. At(h, {"merged"}) /\ UNCHANGED head
    BY <1>3 DEF WriteVersion
  <2> QED BY <2>1, <2>2 DEF NoLostUpdate, At
<1>4. ASSUME NEW h \in Handler,
             WriteHead(h) \/ Prune(h) \/ RemoveAccount(h) \/ Erase(h)
      PROVE  NoLostUpdate'
  <2>1. \A g \in Handler \ {h} : handler'[g] = handler[g]
    BY <1>4, <1>t, GoToSteps
       DEF WriteHead, Prune, RemoveAccount, Erase, FailLocked, Step
  <2>2. handler'[h].at \notin {"merged", "written"}
    BY <1>4, <1>t, GoToSteps
       DEF WriteHead, Prune, RemoveAccount, Erase, FailLocked, Step, At
  <2>3. \/ UNCHANGED head
        \/ At(h, InLock)
    BY <1>4 DEF WriteHead, Prune, RemoveAccount, Erase, At, InLock
  <2>4. CASE UNCHANGED head
    BY <2>1, <2>2, <2>4, <1>q
  <2>5. CASE At(h, InLock)
    <3>1. \A g \in Handler \ {h} : ~At(g, InLock)
      BY <2>5, <1>l, AloneInLock
    <3> QED BY <2>1, <2>2, <3>1 DEF NoLostUpdate, At, InLock
  <2> QED BY <2>3, <2>4, <2>5
<1>5. ASSUME Crash PROVE NoLostUpdate'
  BY <1>5 DEF Crash, Idle, NoLostUpdate, At
<1> QED BY <1>1, <1>2, <1>3, <1>4, <1>5 DEF Next, GetLock, GoOn

LEMMA RInvariance == Spec => []RInv
<1>1. Init => NoLostUpdate /\ RemoverHasNoDevice
  BY DEF Init, Idle, NoLostUpdate, RemoverHasNoDevice, At
<1> QED BY <1>1, Invariance, FreshStep, RemoverStep, PTL DEF Spec, RInv

-----------------------------------------------------------------------------
Requests == [h \in Handler |-> RequestOf(handler[h])]

\* When the goroutines and the file look the same to the devices, nothing
\* happened to the shared file.
LEMMA Stutter ==
    ASSUME UNCHANGED <<Requests, CurrentFile, saved>>
    PROVE  UNCHANGED Shared!vars
BY DEF Shared!vars, Requests

LEMMA SameRequests ==
    ASSUME \A g \in Handler : RequestOf(handler'[g]) = RequestOf(handler[g])
    PROVE  Requests' = Requests
BY DEF Requests

\* Requests that end, all others staying as they are.
LEMMA Ending ==
    ASSUME NEW H \in SUBSET Handler, UNCHANGED <<CurrentFile, saved>>,
           \A g \in H : Stage(handler'[g]) = "none",
           \A g \in Handler \ H : RequestOf(handler'[g]) = RequestOf(handler[g])
    PROVE  Shared!Next
<1>1. \A g \in H : RequestOf(handler'[g]) = Shared!None
  BY DEF RequestOf, Shared!None
<1>2. Requests' = [h \in Handler |-> IF h \in H THEN Shared!None ELSE Requests[h]]
  BY <1>1 DEF Requests
<1>3. Shared!End
  BY <1>2 DEF Shared!End, Requests
<1> QED BY <1>3 DEF Shared!Next

\* A goroutine that fails: its device gets an error, or it had no device.
LEMMA Failing ==
    ASSUME IInv, NEW h \in Handler, NEW step \in {"failed", "refused"}, GoTo(h, step),
           handler[h].at \in {"sync", "merged", "written", "headed"},
           UNCHANGED <<CurrentFile, saved>>
    PROVE  Shared!Next
<1>1. /\ handler'[h].at = step
      /\ handler'[h].device = handler[h].device
      /\ handler'[h].base = handler[h].base
      /\ handler'[h].local = handler[h].local
      /\ handler'[h].merged = handler[h].merged
      /\ \A g \in Handler \ {h} : handler'[g] = handler[g]
  BY GoToSteps DEF IInv, TypeOK, Goroutines, Step
<1>2. CASE handler[h].device = Nobody
  <2>1. Stage(handler'[h]) = "none"
    BY <1>1, <1>2 DEF Stage
  <2> QED BY <1>1, <2>1, Ending
<1>3. CASE handler[h].device # Nobody
  <2>1. Stage(handler'[h]) = "failed" /\ Stage(handler[h]) \in {"asked", "merged"}
    BY <1>1, <1>3 DEF Stage
  <2>2. RequestOf(handler'[h]) = [st |-> "failed", base |-> handler[h].base,
                                  local |-> handler[h].local, answer |-> << >>]
    BY <1>1, <2>1 DEF RequestOf
  <2>3. /\ Requests[h].base = handler[h].base
        /\ Requests[h].local = handler[h].local
        /\ Requests' = [Requests EXCEPT ![h] = RequestOf(handler'[h])]
    <3>1. Requests[h].base = handler[h].base /\ Requests[h].local = handler[h].local
      BY <2>1 DEF Requests, RequestOf
    <3>2. Requests' = [Requests EXCEPT ![h] = RequestOf(handler'[h])]
      BY <1>1 DEF Requests
    <3> QED BY <3>1, <3>2
  <2>4. Requests[h].st \in {"asked", "merged"}
    BY <2>1 DEF Requests, RequestOf
  <2>5. Shared!Fail(h)
    BY <2>2, <2>3, <2>4 DEF Shared!Fail, Shared!Becomes, Requests
  <2> QED BY <2>5 DEF Shared!Next
<1> QED BY <1>2, <1>3

LEMMA ImplementsInit == Init => Shared!Init
<1> SUFFICES ASSUME Init PROVE Shared!Init
  OBVIOUS
<1>1. \A h \in Handler : RequestOf(handler[h]) = Shared!None
  BY DEF Init, Idle, RequestOf, Stage, Shared!None
<1>2. CurrentFile = << >>
  BY DEF Init, CurrentFile, Contents
<1> QED BY <1>1, <1>2 DEF Init, Shared!Init

LEMMA ImplementsSend ==
    ASSUME IInv, NEW d \in Device, Send(d)
    PROVE  Shared!Next
<1>0. handler \in Goroutines
  BY DEF IInv, TypeOK, Goroutines
<1>1. PICK h \in Handler :
         /\ handler[h].at = "idle"
         /\ handler' = [handler EXCEPT ![h] =
              [at |-> "sync", device |-> d, base |-> base[d],
               local |-> file[d], merged |-> << >>]]
  BY DEF Send, At
<1>2. UNCHANGED <<CurrentFile, saved>>
  BY DEF Send, disk, CurrentFile
<1>3. /\ handler'[h].at = "sync"
      /\ \A g \in Handler \ {h} : handler'[g] = handler[g]
  BY <1>0, <1>1 DEF Goroutines
<1>4. Requests[h] = Shared!None
  BY <1>1 DEF Requests, RequestOf, Stage, Shared!None
<1>5. Requests'[h].st = "asked" /\ Requests'[h].answer = << >>
  BY <1>3 DEF Requests, RequestOf, Stage
<1>6. Requests' = [Requests EXCEPT ![h] = Requests'[h]]
  BY <1>3 DEF Requests
<1>7. Shared!Ask(h)
  BY <1>2, <1>4, <1>5, <1>6 DEF Shared!Ask, Requests
<1> QED BY <1>7 DEF Shared!Next

LEMMA ImplementsEnter ==
    ASSUME IInv, NEW h \in Handler, EnterSync(h)
    PROVE  Shared!Next \/ UNCHANGED Shared!vars
<1>0. handler \in Goroutines
  BY DEF IInv, TypeOK, Goroutines
<1>1. handler[h].at = "sync" /\ UNCHANGED <<CurrentFile, saved>>
  BY DEF EnterSync, At, disk, CurrentFile
<1>2. ASSUME NEW step \in {"failed", "refused"}, GoTo(h, step) PROVE Shared!Next
  BY <1>1, <1>2, Failing
<1>3. ASSUME NEW old, Merging(h, old) PROVE UNCHANGED Shared!vars
  <2>1. /\ handler'[h].at = "merged"
        /\ handler'[h].base = handler[h].base
        /\ handler'[h].local = handler[h].local
        /\ \A g \in Handler \ {h} : handler'[g] = handler[g]
    BY <1>0, <1>3 DEF Merging, Goroutines
  <2>2. \A g \in Handler : RequestOf(handler'[g]) = RequestOf(handler[g])
    BY <1>1, <2>1 DEF RequestOf, Stage
  <2> QED BY <1>1, <2>2, SameRequests, Stutter
<1> QED BY <1>2, <1>3 DEF EnterSync

LEMMA ImplementsWriteVersion ==
    ASSUME IInv, NEW h \in Handler, WriteVersion(h)
    PROVE  Shared!Next \/ UNCHANGED Shared!vars
<1>1. handler[h].at = "merged" /\ UNCHANGED <<CurrentFile, saved>>
  BY DEF WriteVersion, At, CurrentFile
<1>2. CASE GoTo(h, "failed")
  BY <1>1, <1>2, Failing
<1>3. CASE GoTo(h, "written")
  <2>1. /\ handler'[h].at = "written"
        /\ handler'[h].base = handler[h].base
        /\ handler'[h].local = handler[h].local
        /\ \A g \in Handler \ {h} : handler'[g] = handler[g]
    BY <1>3, GoToSteps DEF IInv, TypeOK, Goroutines, Step
  <2>2. \A g \in Handler : RequestOf(handler'[g]) = RequestOf(handler[g])
    BY <1>1, <2>1 DEF RequestOf, Stage
  <2> QED BY <1>1, <2>2, SameRequests, Stutter
<1> QED BY <1>2, <1>3 DEF WriteVersion, FailLocked

\* The request takes effect: the file becomes the merge with what it was.
LEMMA ImplementsWriteHead ==
    ASSUME IInv, NoLostUpdate, NEW h \in Handler, WriteHead(h)
    PROVE  Shared!Next
<1>1. handler[h].at = "written" /\ UNCHANGED saved /\ saved
  BY DEF WriteHead, At, IInv, MergeIsSafe
<1>2. CASE GoTo(h, "failed") /\ UNCHANGED head
  <2>1. UNCHANGED CurrentFile
    BY <1>1, <1>2 DEF CurrentFile
  <2> QED BY <1>1, <1>2, <2>1, Failing
<1>3. CASE head' = handler[h].merged /\ GoTo(h, "headed")
  <2>1. /\ handler'[h].at = "headed"
        /\ handler'[h].base = handler[h].base
        /\ handler'[h].local = handler[h].local
        /\ handler'[h].merged = handler[h].merged
        /\ \A g \in Handler \ {h} : handler'[g] = handler[g]
    BY <1>3, GoToSteps DEF IInv, TypeOK, Goroutines, Step
  <2>2. handler[h].merged \in Text /\ handler[h].merged # NoVersion
    BY StoreAssumption DEF IInv, TypeOK
  <2>3. CurrentFile = Contents(head) /\ CurrentFile' = handler[h].merged
    BY <1>1, <1>3, <2>2 DEF CurrentFile, Contents
  <2>4. PICK old \in {<< >>} \cup ({handler[h].base} \ {NoVersion}) :
           handler[h].merged = merge(old, handler[h].local, Contents(head))
    BY <1>1 DEF NoLostUpdate, At
  <2>5. /\ Requests[h].st = "asked"
        /\ Requests[h].base = handler[h].base
        /\ Requests[h].local = handler[h].local
    BY <1>1 DEF Requests, RequestOf, Stage
  <2>6. RequestOf(handler'[h]) = [st |-> "merged", base |-> handler[h].base,
                                  local |-> handler[h].local, answer |-> CurrentFile']
    <3>1. Stage(handler'[h]) = "merged"
      BY <2>1 DEF Stage
    <3> QED BY <2>1, <2>3, <3>1 DEF RequestOf
  <2>7. Requests' = [Requests EXCEPT ![h] = RequestOf(handler'[h])]
    BY <2>1 DEF Requests
  <2>8. \E o \in Shared!BaseTexts(Requests[h].base) :
           CurrentFile' = merge(o, Requests[h].local, CurrentFile)
    BY <2>3, <2>4, <2>5 DEF Shared!BaseTexts
  <2>9. Shared!Merge(h)
    BY <1>1, <2>5, <2>6, <2>7, <2>8 DEF Shared!Merge, Shared!Becomes, Requests
  <2> QED BY <2>9 DEF Shared!Next
<1> QED BY <1>2, <1>3 DEF WriteHead, FailLocked

LEMMA ImplementsPrune ==
    ASSUME IInv, NEW h \in Handler, Prune(h)
    PROVE  Shared!Next \/ UNCHANGED Shared!vars
<1>1. handler[h].at = "headed" /\ UNCHANGED <<CurrentFile, saved>>
  BY DEF Prune, At, CurrentFile
<1>2. CASE GoTo(h, "failed")
  BY <1>1, <1>2, Failing
<1>3. CASE UNCHANGED handler
  <2>1. Requests' = Requests
    BY <1>3 DEF Requests
  <2> QED BY <1>1, <2>1, Stutter
<1>4. CASE GoTo(h, "ok")
  <2>1. /\ handler'[h].at = "ok"
        /\ handler'[h].base = handler[h].base
        /\ handler'[h].local = handler[h].local
        /\ handler'[h].merged = handler[h].merged
        /\ \A g \in Handler \ {h} : handler'[g] = handler[g]
    BY <1>4, GoToSteps DEF IInv, TypeOK, Goroutines, Step
  <2>2. Requests[h] = [st |-> "merged", base |-> handler[h].base,
                       local |-> handler[h].local, answer |-> handler[h].merged]
    BY <1>1 DEF Requests, RequestOf, Stage
  <2>3. RequestOf(handler'[h]) = [st |-> "ok", base |-> handler[h].base,
                                  local |-> handler[h].local, answer |-> handler[h].merged]
    BY <2>1 DEF RequestOf, Stage
  <2>4. Requests' = [Requests EXCEPT ![h] = RequestOf(handler'[h])]
    BY <2>1 DEF Requests
  <2>5. /\ Requests[h].st = "merged"
        /\ Requests[h].base = handler[h].base
        /\ Requests[h].local = handler[h].local
        /\ Requests[h].answer = handler[h].merged
    BY <2>2
  <2>6. Shared!Answer(h)
    BY <1>1, <2>3, <2>4, <2>5 DEF Shared!Answer, Shared!Becomes, Requests
  <2> QED BY <2>6 DEF Shared!Next
<1> QED BY <1>2, <1>3, <1>4 DEF Prune, FailLocked

\* The account goes, and the file with it; the files on disk are nobody's then.
LEMMA ImplementsRemoval ==
    ASSUME RInv, NEW h \in Handler, RemoveAccount(h) \/ Erase(h)
    PROVE  Shared!Next \/ UNCHANGED Shared!vars
<1>1. handler[h].at \in {"remove", "erasing"} /\ handler[h].device = Nobody
  BY DEF RemoveAccount, Erase, At, RInv, RemoverHasNoDevice
<1>2. Requests' = Requests
  <2>1. ASSUME NEW step \in {"erasing", "removed", "failed"}, GoTo(h, step)
        PROVE  Requests' = Requests
    <3>1. /\ handler'[h].at = step /\ handler'[h].device = Nobody
          /\ \A g \in Handler \ {h} : handler'[g] = handler[g]
      BY <1>1, <2>1, GoToSteps DEF RInv, IInv, TypeOK, Goroutines, Step
    <3>2. \A g \in Handler : RequestOf(handler'[g]) = RequestOf(handler[g])
      BY <1>1, <3>1 DEF RequestOf, Stage
    <3> QED BY <3>2, SameRequests
  <2>2. CASE UNCHANGED handler
    BY <2>2 DEF Requests
  <2> QED BY <2>1, <2>2 DEF RemoveAccount, Erase, FailLocked
<1>3. CASE RemoveAccount(h) /\ UNCHANGED saved
  <2>1. UNCHANGED CurrentFile
    BY <1>3 DEF RemoveAccount, CurrentFile
  <2> QED BY <1>2, <1>3, <2>1, Stutter
<1>4. CASE RemoveAccount(h) /\ saved' = FALSE
  <2>1. Shared!Close
    BY <1>2, <1>4 DEF Shared!Close, CurrentFile, Requests
  <2> QED BY <2>1 DEF Shared!Next
<1>5. CASE Erase(h)
  <2>1. ~saved /\ UNCHANGED saved
    BY <1>5 DEF Erase, RInv, IInv, AccountsAgree, At
  <2>2. UNCHANGED CurrentFile
    BY <2>1 DEF CurrentFile
  <2> QED BY <1>2, <2>1, <2>2, Stutter
<1> QED BY <1>3, <1>4, <1>5 DEF RemoveAccount

LEMMA ImplementsOthers ==
    ASSUME IInv,
           \/ AskRemove
           \/ Crash
           \/ \E d \in Device : Edit(d) \/ Receive(d) \/ GiveUp(d) \/ Fetch(d)
           \/ \E h \in Handler : Drop(h)
           \/ UNCHANGED vars
    PROVE  Shared!Next \/ UNCHANGED Shared!vars
<1>0. handler \in Goroutines
  BY DEF IInv, TypeOK, Goroutines
<1>c. UNCHANGED <<CurrentFile, saved>>
  BY DEF AskRemove, Crash, Edit, Receive, GiveUp, Fetch, Drop, vars, disk, CurrentFile
<1>1. CASE AskRemove
  <2>1. PICK h \in Handler : /\ handler[h].at = "idle"
                             /\ handler' = [handler EXCEPT ![h] = [Idle EXCEPT !.at = "remove"]]
    BY <1>1 DEF AskRemove, At
  <2>2. \A g \in Handler : RequestOf(handler'[g]) = RequestOf(handler[g])
    BY <1>0, <2>1 DEF RequestOf, Stage, Idle, Goroutines
  <2> QED BY <1>c, <2>2, SameRequests, Stutter
<1>2. CASE Crash
  <2>1. \A g \in Handler : RequestOf(handler'[g]) = Shared!None
    BY <1>2 DEF Crash, Idle, Stage, RequestOf, Shared!None
  <2>2. Requests' = [h \in Handler |-> IF h \in Handler THEN Shared!None ELSE Requests[h]]
    BY <2>1 DEF Requests
  <2>3. Shared!End
    BY <1>c, <2>2 DEF Shared!End, Requests
  <2> QED BY <2>3 DEF Shared!Next
<1>3. ASSUME NEW d \in Device, Edit(d) \/ GiveUp(d) \/ Fetch(d)
      PROVE  UNCHANGED Shared!vars
  <2>1. Requests' = Requests
    BY <1>3 DEF Edit, GiveUp, Fetch, Requests
  <2> QED BY <1>c, <2>1, Stutter
<1>4. ASSUME NEW h \in Handler, handler' = [handler EXCEPT ![h] = Idle]
      PROVE  Shared!Next
  <2>1. Stage(handler'[h]) = "none" /\ \A g \in Handler \ {h} : handler'[g] = handler[g]
    BY <1>0, <1>4 DEF Stage, Idle, Goroutines
  <2>2. \A g \in {h} : Stage(handler'[g]) = "none"
    BY <2>1
  <2>3. \A g \in Handler \ {h} : RequestOf(handler'[g]) = RequestOf(handler[g])
    BY <2>1
  <2>4. {h} \in SUBSET Handler
    OBVIOUS
  <2>5. PICK H \in SUBSET Handler : H = {h}
    BY <2>4
  <2> QED BY <1>c, <2>2, <2>3, <2>5, Ending
<1>5. ASSUME NEW d \in Device, Receive(d) PROVE Shared!Next
  <2>1. asks[d] \in Handler
    BY <1>5 DEF Receive, IInv, TypeOK
  <2> QED BY <1>4, <1>5, <2>1 DEF Receive
<1>6. ASSUME NEW h \in Handler, Drop(h) PROVE Shared!Next
  BY <1>4, <1>6 DEF Drop
<1>7. CASE UNCHANGED vars
  <2>1. Requests' = Requests
    BY <1>7 DEF vars, Requests
  <2> QED BY <1>c, <2>1, Stutter
<1> QED BY <1>1, <1>2, <1>3, <1>5, <1>6, <1>7

-----------------------------------------------------------------------------
\* The server implements one shared file: every request takes effect at one
\* moment, at most once, on the file as it is then, and is answered with the file
\* right after (store.go:367-407, main.go:689-724).
THEOREM SyncImplementsSharedFile == Spec => ImplementsSharedFile
<1>1. RInv /\ [Next]_vars => [Shared!Next]_(Shared!vars)
  <2> SUFFICES ASSUME RInv, [Next]_vars PROVE Shared!Next \/ UNCHANGED Shared!vars
    OBVIOUS
  <2>1. IInv /\ NoLostUpdate
    BY DEF RInv
  <2> QED BY <2>1, ImplementsSend, ImplementsEnter, ImplementsWriteVersion,
             ImplementsWriteHead, ImplementsPrune, ImplementsRemoval, ImplementsOthers
          DEF Next, GetLock, GoOn
<1> QED BY <1>1, ImplementsInit, RInvariance, PTL
        DEF Spec, Shared!Spec, ImplementsSharedFile

\* No sync overwrites another one: what a goroutine makes current was merged with
\* the file that is current until then (store.go:371-405).
THEOREM NothingOverwritten == Spec => []NoLostUpdate
<1>1. RInv => NoLostUpdate
  BY DEF RInv
<1> QED BY <1>1, RInvariance, PTL

-----------------------------------------------------------------------------
(***************************************************************************)
(* What is safe about convergence: a merge of what the server has, or of   *)
(* what a device got from it, is no change.                                *)
(***************************************************************************)
LEMMA NoNewsMerges ==
    ASSUME NEW b \in Text, NEW r \in Text
    PROVE  merge(b, r, r) = r /\ merge(b, b, r) = r
<1>1. merge(b, r, r) = r
  BY NothingToDo
<1>2. merge(b, b, r) = r
  <2>1. set(r) \subseteq set(b) \cup (set(r) \ set(b))
    OBVIOUS
  <2> QED BY <2>1, NothingToDo
<1> QED BY <1>1, <1>2

\* Goroutine g brings nothing new to a file c.
Bland(g, c) ==
    /\ g.at = "sync" => g.local \in {c, Contents(g.base)}
    /\ g.at \in {"merged", "written"} => g.merged = c

LEMMA NoNewsStep ==
    ASSUME IInv, NoNews, [Next]_vars, edits' = edits, known',
           \A h \in Handler : ~(Steps(h, "sync", "merged") /\ BaseLost(h))
    PROVE  NoNews' /\ Contents(head') = Contents(head)
<1> DEFINE c == Contents(head)
<1>0. /\ handler \in Goroutines /\ TypeOK /\ c \in Text
  BY DEF IInv, TypeOK, Goroutines, Contents, Name, Text
<1>1. /\ \A d \in Device : file[d] \in {c, Contents(base[d])}
      /\ \A h \in Handler : Bland(handler[h], c)
  BY DEF NoNews, Bland, At
<1>2. ASSUME Contents(head') = c, UNCHANGED <<file, base>>,
             \A h \in Handler : Bland(handler'[h], c)
      PROVE  NoNews' /\ Contents(head') = c
  BY <1>1, <1>2 DEF NoNews, Bland, At
<1>3. ASSUME NEW h \in Handler, NEW step \in Step \ {"sync", "merged"}, GoTo(h, step),
             step = "written" => At(h, {"merged"})
      PROVE  \A g \in Handler : Bland(handler'[g], c)
  BY <1>0, <1>1, <1>3, GoToSteps DEF Bland, At
<1>4. ASSUME NEW h \in Handler, EnterSync(h) PROVE NoNews' /\ Contents(head') = c
  <2>1. head' = head /\ UNCHANGED <<file, base>> /\ At(h, {"sync"})
    BY <1>4 DEF EnterSync, disk, devices
  <2>2. ASSUME NEW b \in Text, b \in {<< >>, handler[h].base}, Merging(h, b)
        PROVE  \A g \in Handler : Bland(handler'[g], c)
    <3>1. /\ handler'[h].at = "merged" /\ handler'[h].merged = merge(b, handler[h].local, c)
          /\ \A g \in Handler : g # h => handler'[g] = handler[g]
      BY <1>0, <2>2 DEF Merging, Goroutines
    <3>2. handler[h].local \in {c, Contents(handler[h].base)} /\ Contents(handler[h].base) \in Text
      BY <1>0, <1>1, <2>1 DEF Bland, At, Goroutines, Contents, Name, Text
    <3>3. ~BaseLost(h)
      BY <2>1, <3>1 DEF Steps, At
    <3>4. CASE handler[h].local = c
      BY <1>0, <1>1, <3>1, <3>4, NoNewsMerges DEF Bland
    <3>5. CASE handler[h].local = Contents(handler[h].base) /\ handler[h].base # NoVersion
      <4>1. handler'[h].merged = merge(handler[h].base, handler[h].local, c)
        BY <3>3, <3>5 DEF BaseLost
      <4>2. handler[h].local = handler[h].base
        BY <3>5 DEF Contents
      <4> QED BY <1>0, <1>1, <3>1, <3>2, <4>1, <4>2, NoNewsMerges DEF Bland
    <3>6. CASE handler[h].local = << >> /\ handler[h].base = NoVersion
      <4>1. b = << >>
        BY <2>2, <3>6, StoreAssumption
      <4> QED BY <1>0, <1>1, <3>1, <3>6, <4>1, NoNewsMerges DEF Bland
    <3> QED BY <3>2, <3>4, <3>5, <3>6 DEF Contents
  <2>3. ASSUME NEW step \in {"failed", "refused"}, GoTo(h, step)
        PROVE  \A g \in Handler : Bland(handler'[g], c)
    BY <1>3, <2>3 DEF Step
  <2>4. /\ BaseText(handler[h].base) \in Text \cap {<< >>, handler[h].base}
        /\ << >> \in Text
    <3>1. ToSet(versions) \subseteq Text
      BY <1>0 DEF TypeOK, ToSet
    <3> QED BY <3>1 DEF BaseText, Text
  <2>5. \A g \in Handler : Bland(handler'[g], c)
    BY <1>4, <2>2, <2>3, <2>4 DEF EnterSync
  <2> QED BY <1>2, <2>1, <2>5
<1>5. ASSUME NEW h \in Handler, WriteVersion(h) \/ Prune(h)
      PROVE  NoNews' /\ Contents(head') = c
  <2>1. UNCHANGED <<head, file, base>>
    BY <1>5 DEF WriteVersion, Prune, devices
  <2>2. \A g \in Handler : Bland(handler'[g], c)
    BY <1>1, <1>3, <1>5 DEF WriteVersion, Prune, FailLocked, Step, At
  <2> QED BY <1>2, <2>1, <2>2
<1>6. ASSUME NEW h \in Handler, WriteHead(h) PROVE NoNews' /\ Contents(head') = c
  <2>1. UNCHANGED <<file, base>>
    BY <1>6 DEF WriteHead, devices
  <2>2. \A g \in Handler : Bland(handler'[g], c)
    BY <1>3, <1>6 DEF WriteHead, FailLocked, Step, At
  <2>3. head' \in {head, handler[h].merged} /\ handler[h].merged = c
    BY <1>1, <1>6 DEF WriteHead, Bland, At
  <2>4. Contents(head') = c
    BY <1>0, <2>3, StoreAssumption DEF Contents
  <2> QED BY <1>2, <2>1, <2>2, <2>4
\* The account is there, so nothing is erased and nothing taken from memory.
<1>7. ASSUME NEW h \in Handler, Erase(h) \/ RemoveAccount(h) PROVE FALSE
  BY <1>7 DEF Erase, RemoveAccount, IInv, AccountsAgree, At
<1>8. ASSUME NEW d \in Device, Send(d) PROVE NoNews' /\ Contents(head') = c
  <2>1. UNCHANGED <<head, file, base>>
    BY <1>8 DEF Send, disk
  <2>2. \A g \in Handler : Bland(handler'[g], c)
    BY <1>0, <1>1, <1>8 DEF Send, Bland, Goroutines
  <2> QED BY <1>2, <2>1, <2>2
<1>9. ASSUME NEW d \in Device, Receive(d) PROVE NoNews' /\ Contents(head') = c
  <2> DEFINE g == asks[d]
  <2>1. UNCHANGED head /\ g \in Handler
    BY <1>0, <1>9 DEF Receive, disk, TypeOK
  <2>2. \A f \in Handler : Bland(handler'[f], c)
    BY <1>0, <1>1, <1>9, <2>1 DEF Receive, Bland, Goroutines, Idle
  <2>3. CASE UNCHANGED <<file, base>>
    BY <1>2, <2>1, <2>2, <2>3
  <2>4. CASE /\ file' = [file EXCEPT ![d] = handler[g].merged]
             /\ base' = [base EXCEPT ![d] = handler[g].merged]
    <3>1. handler[g].merged \in Text
      BY <1>0, <2>1 DEF Goroutines
    <3>2. Contents(handler[g].merged) = handler[g].merged
      BY <3>1, StoreAssumption DEF Contents
    <3>3. \A e \in Device : file'[e] \in {c, Contents(base'[e])}
      BY <1>0, <1>1, <2>4, <3>2 DEF TypeOK
    <3> QED BY <2>1, <2>2, <3>3 DEF NoNews, Bland, At
  <2> QED BY <1>9, <2>3, <2>4 DEF Receive
<1>10. ASSUME NEW d \in Device, Fetch(d) PROVE NoNews' /\ Contents(head') = c
  <2>1. UNCHANGED <<head, handler>>
    BY <1>10 DEF Fetch, disk
  <2>2. \A e \in Device : file'[e] \in {c, Contents(base'[e])}
    BY <1>0, <1>1, <1>10 DEF Fetch, TypeOK
  <2> QED BY <1>1, <2>1, <2>2 DEF NoNews, Bland, At
<1>11. ASSUME NEW d \in Device, GiveUp(d) PROVE NoNews' /\ Contents(head') = c
  BY <1>1, <1>2, <1>11 DEF GiveUp, disk
<1>12. ASSUME \/ AskRemove \/ Crash \/ \E h \in Handler : Drop(h)
      PROVE  NoNews' /\ Contents(head') = c
  <2>1. UNCHANGED <<head, file, base>>
    BY <1>12 DEF AskRemove, Crash, Drop, disk, devices
  <2>2. \A g \in Handler : handler'[g] = handler[g] \/ handler'[g].at \in {"idle", "remove"}
    <3>1. Idle.at = "idle" /\ [Idle EXCEPT !.at = "remove"].at = "remove"
      BY DEF Idle
    <3>2. CASE Crash
      BY <3>1, <3>2 DEF Crash
    <3>3. CASE AskRemove \/ \E h \in Handler : Drop(h)
      BY <1>0, <3>1, <3>3 DEF AskRemove, Drop, Goroutines
    <3> QED BY <1>12, <3>2, <3>3
  <2>3. \A g \in Handler : Bland(handler'[g], c)
    BY <1>1, <2>2 DEF Bland
  <2> QED BY <1>2, <2>1, <2>3
<1>13. CASE UNCHANGED vars
  BY <1>1, <1>2, <1>13 DEF vars, disk, devices
<1>14. ASSUME NEW d \in Device, Edit(d) PROVE FALSE
  BY <1>0, <1>14 DEF Edit, TypeOK
<1> QED BY <1>4, <1>5, <1>6, <1>7, <1>8, <1>9, <1>10, <1>11, <1>12, <1>13, <1>14
        DEF Next, GetLock, GoOn

\* Syncs do not answer each other for ever: once no device has anything to tell, no sync
\* changes the file of the server, nor makes a device have something to tell, whatever
\* fails and however stale a request is (merge.go:58-67 and 104-107, store.go:381-405).
THEOREM NoNewsChangesNothing == Spec => NoNewsLasts
<1>1. IInv /\ [Next]_vars =>
         [NoNews /\ edits' = edits /\ known'
             /\ (\A h \in Handler : ~(Steps(h, "sync", "merged") /\ BaseLost(h)))
           => NoNews' /\ Contents(head') = Contents(head)]_vars
  BY NoNewsStep
<1> QED BY <1>1, Invariance, PTL DEF Spec, NoNewsLasts

-----------------------------------------------------------------------------
(***************************************************************************)
(* What users did, and what became of it.  SyncHistory records it next to  *)
(* SyncStore, so its steps are steps of SyncStore.  A line is lost to the  *)
(* merge only when the base has it and the sender has not, which is a      *)
(* removal by a user, or for a line that a user put in for its page.       *)
(***************************************************************************)
\* Every line comes from a user.
FromUsers ==
    /\ set(Contents(head)) \subseteq put
    /\ \A d \in Device : set(file[d]) \cup set(Contents(base[d])) \subseteq put
    /\ \A h \in Handler : set(handler[h].local) \cup set(handler[h].merged) \subseteq put

\* What a file lacks of its base was taken off by a user.
RemovalsAreTaken ==
    /\ \A d \in Device : set(Contents(base[d])) \ set(file[d]) \subseteq taken
    /\ \A h \in Handler : set(Contents(handler[h].base)) \ set(handler[h].local) \subseteq taken

Excused(x) == x \in taken \/ \E y \in put \ {x} : key[y] = key[x] /\ key[y] # NoPage

NoneLost == saved => \A x \in seen : x \in set(Contents(head)) \/ Excused(x)

HistoryInv == FromUsers /\ RemovalsAreTaken /\ NoneLost

-----------------------------------------------------------------------------
LEMMA HistoryOfSteps == [HNext]_allVars => [Next]_vars
BY DEF HNext, allVars

LEMMA RecordGrows ==
    ASSUME [HNext]_allVars
    PROVE  /\ put \subseteq put' /\ taken \subseteq taken'
           /\ seen' \subseteq seen \cup set(Contents(head'))
           /\ edits' # edits => \A d \in Device : /\ set(file'[d]) \subseteq set(file[d]) \cup put'
                                                  /\ set(file[d]) \ set(file'[d]) \subseteq taken'
<1>1. CASE UNCHANGED allVars
  BY <1>1 DEF allVars, vars, history
<1>2. CASE Record
  <2>1. put \subseteq put' /\ taken \subseteq taken' /\ seen' \subseteq seen \cup set(Contents(head'))
    BY <1>2 DEF Record
  <2>2. ASSUME edits' # edits, NEW d \in Device
        PROVE  /\ set(file'[d]) \subseteq set(file[d]) \cup put'
               /\ set(file[d]) \ set(file'[d]) \subseteq taken'
    <3> DEFINE edited == {e \in Device : edits' # edits /\ file'[e] # file[e]}
    <3>1. /\ put' = put \cup UNION {set(file'[e]) \ set(file[e]) : e \in edited}
          /\ taken' = taken \cup UNION {set(file[e]) \ set(file'[e]) : e \in edited}
      BY <1>2 DEF Record
    <3>2. CASE file'[d] = file[d]
      BY <3>2
    <3>3. CASE file'[d] # file[d]
      <4>1. d \in edited
        BY <2>2, <3>3
      <4> HIDE DEF edited
      <4> QED BY <3>1, <4>1
    <3> QED BY <3>2, <3>3
  <2> QED BY <2>1, <2>2
<1> QED BY <1>1, <1>2 DEF HNext

\* A goroutine has what a device sent, or what its merge made of that.
LEMMA WhatGoroutinesHave ==
    ASSUME RInv, [Next]_vars, NEW g \in Handler
    PROVE  LET old == handler[g]
               new == handler'[g]
           IN  \/ /\ new.base = old.base /\ new.local = old.local
                  /\ \/ new.merged = old.merged
                     \/ set(new.merged) \subseteq set(new.local) \cup set(Contents(head))
               \/ new = Idle
               \/ \E d \in Device : /\ new.base = base[d] /\ new.local = file[d]
                                     /\ new.merged = << >>
               \/ new.base = NoVersion /\ new.local = << >> /\ new.merged = << >>
<1> DEFINE old == handler[g]
           new == handler'[g]
           Same == /\ new.base = old.base /\ new.local = old.local
                   /\ new.merged = old.merged
<1>t. handler \in Goroutines /\ TypeOK
  BY DEF RInv, IInv, TypeOK, Goroutines
<1>s. UNCHANGED handler => Same
  OBVIOUS
<1>g. ASSUME NEW h \in Handler, NEW step \in Step, GoTo(h, step) PROVE Same
  BY <1>t, <1>g, GoToSteps
<1>1. ASSUME NEW h \in Handler, EnterSync(h)
      PROVE  \/ Same
             \/ /\ new.base = old.base /\ new.local = old.local
                /\ set(new.merged) \subseteq set(new.local) \cup set(Contents(head))
  <2>1. ASSUME NEW b \in Text, Merging(h, b), g = h
        PROVE  /\ new.base = old.base /\ new.local = old.local
               /\ set(new.merged) \subseteq set(new.local) \cup set(Contents(head))
    <3>1. /\ new.base = old.base /\ new.local = old.local /\ new.local \in Text
          /\ new.merged = merge(b, old.local, Contents(head))
      BY <1>t, <2>1 DEF Merging, Goroutines
    <3>2. Contents(head) \in Text
      BY <1>t DEF TypeOK, Contents, Name, Text
    <3> QED BY <2>1, <3>1, <3>2, NewLines
  <2>2. ASSUME NEW b, Merging(h, b), g # h PROVE Same
    BY <1>t, <2>2 DEF Merging, Goroutines
  <2>3. BaseText(handler[h].base) \in Text /\ << >> \in Text
    BY <1>t DEF BaseText, TypeOK, ToSet, Text
  <2>4. CASE \E step \in {"failed", "refused"} : GoTo(h, step)
    BY <1>g, <2>4 DEF Step
  <2>5. CASE Merging(h, BaseText(handler[h].base)) \/ Merging(h, << >>)
    BY <2>1, <2>2, <2>3, <2>5
  <2> QED BY <1>1, <2>4, <2>5 DEF EnterSync
<1>2. ASSUME NEW h \in Handler, WriteVersion(h) \/ WriteHead(h) \/ Prune(h) \/ RemoveAccount(h) \/ Erase(h)
      PROVE  Same
  <2>1. UNCHANGED handler \/ \E step \in Step : GoTo(h, step)
    BY <1>2 DEF WriteVersion, WriteHead, Prune, RemoveAccount, Erase, FailLocked, Step
  <2> QED BY <1>g, <1>s, <2>1
<1>3. ASSUME NEW d \in Device, Edit(d) \/ GiveUp(d) \/ Fetch(d) PROVE Same
  BY <1>3, <1>s DEF Edit, GiveUp, Fetch
<1>4. ASSUME NEW h \in Handler, handler' = [handler EXCEPT ![h] = Idle] PROVE Same \/ new = Idle
  BY <1>4, <1>t DEF Goroutines
<1>5. ASSUME NEW d \in Device, Send(d)
      PROVE  Same \/ (new.base = base[d] /\ new.local = file[d] /\ new.merged = << >>)
  BY <1>5, <1>t DEF Send, Goroutines
<1>6. ASSUME AskRemove
      PROVE  Same \/ (new.base = NoVersion /\ new.local = << >> /\ new.merged = << >>)
  BY <1>6, <1>t DEF AskRemove, Goroutines, Idle
<1>7. ASSUME Crash PROVE new = Idle
  BY <1>7 DEF Crash
<1>8. ASSUME UNCHANGED vars PROVE Same
  BY <1>8, <1>s DEF vars
<1>r. ASSUME NEW d \in Device, Receive(d) PROVE Same \/ new = Idle
  <2>1. asks[d] \in Handler
    BY <1>t, <1>r DEF Receive, TypeOK
  <2> QED BY <1>4, <1>r, <2>1 DEF Receive
<1>d. ASSUME NEW h \in Handler, Drop(h) PROVE Same \/ new = Idle
  BY <1>4, <1>d DEF Drop
<1> DEFINE Goal == \/ Same
                   \/ /\ new.base = old.base /\ new.local = old.local
                      /\ set(new.merged) \subseteq set(new.local) \cup set(Contents(head))
                   \/ new = Idle
                   \/ \E d \in Device : new.base = base[d] /\ new.local = file[d] /\ new.merged = << >>
                   \/ new.base = NoVersion /\ new.local = << >> /\ new.merged = << >>
<1>9. /\ Same \/ new = Idle => Goal
      /\ \A h \in Handler : EnterSync(h) => Goal
      /\ \A d \in Device : Send(d) => Goal
      /\ AskRemove => Goal
  <2> HIDE DEF old, new, Same
  <2>1. Same \/ new = Idle => Goal
    OBVIOUS
  <2>2. ASSUME NEW h \in Handler, EnterSync(h) PROVE Goal
    BY <1>1, <2>2
  <2>3. ASSUME NEW d \in Device, Send(d) PROVE Goal
    BY <1>5, <2>3
  <2>4. ASSUME AskRemove PROVE Goal
    BY <1>6, <2>4
  <2> QED BY <2>1, <2>2, <2>3, <2>4
<1>10. Goal
  <2> HIDE DEF Goal, old, new, Same
  <2>1. ASSUME NEW d \in Device, Edit(d) \/ Send(d) \/ Receive(d) \/ GiveUp(d) \/ Fetch(d) PROVE Goal
    BY <1>3, <1>9, <1>r, <2>1
  <2>2. ASSUME NEW h \in Handler, GetLock(h) \/ GoOn(h) PROVE Goal
    BY <1>2, <1>9, <1>d, <2>2 DEF GetLock, GoOn
  <2>3. CASE AskRemove \/ Crash \/ UNCHANGED vars
    BY <1>7, <1>8, <1>9, <2>3
  <2> QED BY <2>1, <2>2, <2>3 DEF Next
<1> QED BY <1>10

LEMMA FromUsersStep ==
    ASSUME RInv, RInv', HistoryInv, [HNext]_allVars
    PROVE  FromUsers'
<1>t. TypeOK /\ handler \in Goroutines /\ FromUsers
  BY DEF RInv, IInv, TypeOK, Goroutines, HistoryInv
<1>n. [Next]_vars
  BY HistoryOfSteps
<1>m. put \subseteq put' /\ (edits' # edits => \A d \in Device : set(file'[d]) \subseteq set(file[d]) \cup put')
  BY RecordGrows
<1>0. set(<< >>) = {} /\ Contents(NoVersion) = << >>
  BY DEF set, ToSet, Contents
<1>1. set(Contents(head')) \subseteq put'
  <2>1. ASSUME NEW h \in Handler, WriteHead(h) PROVE head' = head \/ head' = handler[h].merged
    BY <2>1 DEF WriteHead
  <2>2. head' \in {head, NoVersion} \/ \E h \in Handler : head' = handler[h].merged
    BY <1>n, <2>1 DEF Next, Edit, Send, Receive, GiveUp, Fetch, GetLock, GoOn, EnterSync, RemoveAccount,
                      WriteVersion, Prune, Erase, Drop, AskRemove, Crash, vars, disk
  <2>3. \A h \in Handler : Contents(handler[h].merged) = handler[h].merged
    BY <1>t, StoreAssumption DEF Contents, Goroutines
  <2> QED BY <1>0, <1>m, <1>t, <2>2, <2>3 DEF FromUsers
<1>2. ASSUME NEW d \in Device PROVE set(file'[d]) \cup set(Contents(base'[d])) \subseteq put'
  <2>1. ASSUME NEW e \in Device, Edit(e) PROVE set(file'[d]) \cup set(Contents(base'[d])) \subseteq put'
    <3>1. edits' # edits /\ base' = base
      BY <1>t, <2>1 DEF Edit, TypeOK
    <3> QED BY <1>m, <1>t, <3>1 DEF FromUsers
  <2>2. ASSUME NEW e \in Device, Receive(e) PROVE set(file'[d]) \cup set(Contents(base'[d])) \subseteq put'
    <3>1. \/ file'[d] = file[d] /\ base'[d] = base[d]
          \/ \E h \in Handler : file'[d] = handler[h].merged /\ base'[d] = handler[h].merged
      BY <1>t, <2>2 DEF Receive, TypeOK
    <3>2. \A h \in Handler : Contents(handler[h].merged) = handler[h].merged
      BY <1>t, StoreAssumption DEF Contents, Goroutines
    <3> QED BY <1>m, <1>t, <3>1, <3>2 DEF FromUsers
  <2>3. ASSUME NEW e \in Device, Fetch(e) PROVE set(file'[d]) \cup set(Contents(base'[d])) \subseteq put'
    <3>1. \/ file'[d] = file[d] /\ base'[d] = base[d]
          \/ file'[d] = Contents(head) /\ base'[d] = head
      BY <1>t, <2>3 DEF Fetch, TypeOK
    <3> QED BY <1>m, <1>t, <3>1 DEF FromUsers
  <2>4. CASE UNCHANGED <<file, base>>
    BY <1>m, <1>t, <2>4 DEF FromUsers
  <2> QED BY <1>n, <2>1, <2>2, <2>3, <2>4
          DEF Next, Send, GiveUp, GetLock, GoOn, EnterSync, RemoveAccount, WriteVersion, WriteHead,
              Prune, Erase, Drop, AskRemove, Crash, vars, devices
<1>3. ASSUME NEW h \in Handler PROVE set(handler'[h].local) \cup set(handler'[h].merged) \subseteq put'
  BY <1>0, <1>m, <1>n, <1>t, WhatGoroutinesHave DEF FromUsers, Idle
<1> QED BY <1>1, <1>2, <1>3 DEF FromUsers

LEMMA RemovalsStep ==
    ASSUME RInv, RInv', HistoryInv, [HNext]_allVars
    PROVE  RemovalsAreTaken'
<1>t. TypeOK /\ handler \in Goroutines /\ RemovalsAreTaken
  BY DEF RInv, IInv, TypeOK, Goroutines, HistoryInv
<1>n. [Next]_vars
  BY HistoryOfSteps
<1>m. /\ taken \subseteq taken'
      /\ edits' # edits => \A d \in Device : set(file[d]) \ set(file'[d]) \subseteq taken'
  BY RecordGrows
<1>0. set(<< >>) = {} /\ Contents(NoVersion) = << >>
  BY DEF set, ToSet, Contents
<1>2. ASSUME NEW d \in Device PROVE set(Contents(base'[d])) \ set(file'[d]) \subseteq taken'
  <2>1. ASSUME NEW e \in Device, Edit(e) PROVE set(Contents(base'[d])) \ set(file'[d]) \subseteq taken'
    <3>1. edits' # edits /\ base' = base
      BY <1>t, <2>1 DEF Edit, TypeOK
    <3> QED BY <1>m, <1>t, <3>1 DEF RemovalsAreTaken
  <2>2. ASSUME NEW e \in Device, Receive(e) PROVE set(Contents(base'[d])) \ set(file'[d]) \subseteq taken'
    <3>1. \/ file'[d] = file[d] /\ base'[d] = base[d]
          \/ \E h \in Handler : file'[d] = handler[h].merged /\ base'[d] = handler[h].merged
      BY <1>t, <2>2 DEF Receive, TypeOK
    <3>2. \A h \in Handler : Contents(handler[h].merged) = handler[h].merged
      BY <1>t, StoreAssumption DEF Contents, Goroutines
    <3> QED BY <1>m, <1>t, <3>1, <3>2 DEF RemovalsAreTaken
  <2>3. ASSUME NEW e \in Device, Fetch(e) PROVE set(Contents(base'[d])) \ set(file'[d]) \subseteq taken'
    <3>1. \/ file'[d] = file[d] /\ base'[d] = base[d]
          \/ file'[d] = Contents(head) /\ base'[d] = head
      BY <1>t, <2>3 DEF Fetch, TypeOK
    <3> QED BY <1>m, <1>t, <3>1 DEF RemovalsAreTaken
  <2>4. CASE UNCHANGED <<file, base>>
    BY <1>m, <1>t, <2>4 DEF RemovalsAreTaken
  <2> QED BY <1>n, <2>1, <2>2, <2>3, <2>4
          DEF Next, Send, GiveUp, GetLock, GoOn, EnterSync, RemoveAccount, WriteVersion, WriteHead,
              Prune, Erase, Drop, AskRemove, Crash, vars, devices
<1>3. ASSUME NEW h \in Handler
      PROVE  set(Contents(handler'[h].base)) \ set(handler'[h].local) \subseteq taken'
  BY <1>0, <1>m, <1>n, <1>t, WhatGoroutinesHave DEF RemovalsAreTaken, Idle
<1> QED BY <1>2, <1>3 DEF RemovalsAreTaken

\* The step that makes a merge current.
LEMMA NoneLostStep ==
    ASSUME RInv, RInv', HistoryInv, [HNext]_allVars
    PROVE  NoneLost'
<1>t. TypeOK /\ handler \in Goroutines /\ AccountsAgree /\ NoLostUpdate
      /\ FromUsers /\ RemovalsAreTaken /\ NoneLost
  BY DEF RInv, IInv, TypeOK, Goroutines, HistoryInv
<1>n. [Next]_vars
  BY HistoryOfSteps
<1>m. put \subseteq put' /\ taken \subseteq taken' /\ seen' \subseteq seen \cup set(Contents(head'))
  BY RecordGrows
<1>e. \A x : Excused(x) => Excused(x)'
  BY <1>m DEF Excused
<1>1. ASSUME saved', NEW x \in seen', x \notin set(Contents(head'))
      PROVE  Excused(x)'
  <2>1. x \in seen
    BY <1>1, <1>m
  <2>2. saved
    BY <1>1, <1>n DEF Next, Edit, Send, Receive, GiveUp, Fetch, GetLock, GoOn, EnterSync, RemoveAccount,
                      WriteVersion, WriteHead, Prune, Erase, Drop, AskRemove, Crash, vars, disk
  <2>3. x \in set(Contents(head)) \/ Excused(x)
    BY <1>t, <2>1, <2>2 DEF NoneLost
  <2>4. CASE head' = head
    BY <1>1, <1>e, <2>3, <2>4
  <2>5. ASSUME NEW h \in Handler, WriteHead(h), head' # head, x \in set(Contents(head))
        PROVE  Excused(x)
    <3>1. At(h, {"written"}) /\ head' = handler[h].merged
      BY <2>5 DEF WriteHead
    <3>2. PICK old \in {<< >>} \cup ({handler[h].base} \ {NoVersion}) :
             handler[h].merged = merge(old, handler[h].local, Contents(head))
      BY <1>t, <3>1 DEF NoLostUpdate, At
    <3>3. /\ old \in Text /\ handler[h].local \in Text /\ Contents(head) \in Text
          /\ handler[h].merged \in Text
      <4>1. << >> \in Text
        BY DEF Text
      <4> QED BY <1>t, <4>1 DEF Goroutines, TypeOK, Name, Contents
    <3>4. Contents(head') = handler[h].merged
      BY <3>1, <3>3, StoreAssumption DEF Contents
    <3> DEFINE M == merge(old, handler[h].local, Contents(head))
    <3>5. x \in set(Contents(head)) \ set(M)
      BY <1>1, <2>5, <3>2, <3>4
    <3>6. /\ x \notin set(handler[h].local)
          /\ \/ x \in set(old)
             \/ \E y \in set(M) \ set(Contents(head)) : key[y] = key[x] /\ key[y] # NoPage
      BY <3>3, <3>5, GoneLines
    <3>7. CASE x \in set(old)
      <4>1. old = Contents(handler[h].base)
        BY <3>7 DEF Contents, set, ToSet
      <4> QED BY <1>t, <3>6, <3>7, <4>1 DEF RemovalsAreTaken, Excused
    <3>8. ASSUME NEW y \in set(M) \ set(Contents(head)), key[y] = key[x], key[y] # NoPage
          PROVE  Excused(x)
      <4>1. y \in set(handler[h].local)
        BY <3>3, <3>8, NewLines
      <4>2. y \in put \ {x}
        BY <1>t, <2>5, <3>8, <4>1 DEF FromUsers
      <4> QED BY <3>8, <4>2 DEF Excused
    <3> QED BY <3>6, <3>7, <3>8
  <2>6. CASE \E h \in Handler : Erase(h)
    BY <1>t, <2>2, <2>6 DEF Erase, AccountsAgree
  <2>7. head' = head \/ \E h \in Handler : WriteHead(h) \/ Erase(h)
    BY <1>n DEF Next, Edit, Send, Receive, GiveUp, Fetch, GetLock, GoOn, EnterSync, RemoveAccount,
                WriteVersion, Prune, Drop, AskRemove, Crash, vars, disk
  <2> QED BY <1>e, <2>3, <2>4, <2>5, <2>6, <2>7
<1> QED BY <1>1 DEF NoneLost

LEMMA HInvariance == HSpec => [](RInv /\ HistoryInv)
<1>1. HInit => Init
  BY DEF HInit
<1>2. HInit => HistoryInv
  BY DEF HInit, Init, Idle, HistoryInv, FromUsers, RemovalsAreTaken, NoneLost, Contents, set, ToSet
<1>3. RInv /\ RInv' /\ HistoryInv /\ [HNext]_allVars => HistoryInv'
  BY FromUsersStep, RemovalsStep, NoneLostStep DEF HistoryInv
<1> QED BY <1>1, <1>2, <1>3, HistoryOfSteps, RInvariance, PTL DEF HSpec, Spec

\* No bookmark disappears unless a user took it off, or put another in for its page,
\* whatever fails, is lost or comes late (store.go:367-407).
THEOREM NothingGetsLost == HSpec => []NoSilentLoss
<1>1. RInv /\ HistoryInv => NoSilentLoss
  BY DEF RInv, IInv, AccountsAgree, HistoryInv, NoneLost, Excused, NoSilentLoss
<1> QED BY <1>1, HInvariance, PTL

-----------------------------------------------------------------------------
(***************************************************************************)
(* The versions that are kept.  As long as no clock goes wrong, they are   *)
(* in the order in which they were written, so prune deletes old ones.     *)
(***************************************************************************)
\* What v has is in r, in the order of r.
InOrder(v, r) ==
    /\ \A m \in 1..Len(v) : \E i \in 1..Len(r) : v[m] = r[i]
    /\ \A m, n \in 1..Len(v) : \A i, j \in 1..Len(r) :
          m < n /\ v[m] = r[i] /\ v[n] = r[j] => i < j

Newest(v, r) == \A i \in 1..Len(r) : i <= MaxVersions => r[i] \in ToSet(v)

LEMMA KeepLengths ==
    ASSUME NEW v \in Seq(Text), NEW T
    PROVE  Len(Keep(v, T)) \in Nat /\ Len(v) \in Nat
<1> DEFINE k == Keep(v, T)
<1>1. k \in Seq(T \cap Text)
  BY KeepSet
<1> HIDE DEF k
<1>2. Len(k) \in Nat
  BY <1>1
<1> QED BY <1>2 DEF k

LEMMA KeptInOrder ==
    ASSUME NEW v \in Seq(Text), NEW r, InOrder(v, r), NEW T
    PROVE  InOrder(Keep(v, T), r)
<1> DEFINE k == Keep(v, T)
<1>1. PICK e \in [1..Len(k) -> 1..Len(v)] :
         /\ \A n \in 1..Len(k) : k[n] = v[e[n]]
         /\ \A m, n \in 1..Len(k) : m < n => e[m] < e[n]
  BY KeepEmbeds
<1>2. Len(k) \in Nat /\ Len(v) \in Nat
  BY KeepLengths
<1> HIDE DEF k
<1>3. InOrder(k, r)
  <2>1. \A n \in 1..Len(k) : e[n] \in 1..Len(v) /\ k[n] = v[e[n]]
    BY <1>1
  <2>2. ASSUME NEW m \in 1..Len(k), NEW n \in 1..Len(k), NEW i \in 1..Len(r), NEW j \in 1..Len(r),
               m < n, k[m] = r[i], k[n] = r[j]
        PROVE  i < j
    <3>1. e[m] < e[n] /\ v[e[m]] = r[i] /\ v[e[n]] = r[j]
      BY <1>1, <2>1, <2>2
    <3> QED BY <2>1, <3>1 DEF InOrder
  <2> QED BY <2>1, <2>2 DEF InOrder
<1> QED BY <1>3 DEF k

\* The same version in front of two lists that do not have it.
LEMMA OneInFront ==
    ASSUME NEW v, NEW r, NEW w, NEW s, NEW x,
           Len(v) \in Nat, Len(r) \in Nat,
           Len(w) = Len(v) + 1, Len(s) = Len(r) + 1, w[1] = x, s[1] = x,
           \A m \in 1..Len(v) : w[m + 1] = v[m] /\ v[m] # x,
           \A i \in 1..Len(r) : s[i + 1] = r[i] /\ r[i] # x,
           InOrder(v, r)
    PROVE  InOrder(w, s)
<1>1. \A m \in 1..Len(w) : m # 1 => m - 1 \in 1..Len(v) /\ w[m] = v[m - 1] /\ w[m] # x
  <2> SUFFICES ASSUME NEW m \in 1..Len(w), m # 1
               PROVE  m - 1 \in 1..Len(v) /\ w[m] = v[m - 1] /\ w[m] # x
    OBVIOUS
  <2>1. m - 1 \in 1..Len(v) /\ (m - 1) + 1 = m
    OBVIOUS
  <2> QED BY <2>1
<1>2. \A i \in 1..Len(s) : i # 1 => i - 1 \in 1..Len(r) /\ s[i] = r[i - 1] /\ s[i] # x
  <2> SUFFICES ASSUME NEW i \in 1..Len(s), i # 1
               PROVE  i - 1 \in 1..Len(r) /\ s[i] = r[i - 1] /\ s[i] # x
    OBVIOUS
  <2>1. i - 1 \in 1..Len(r) /\ (i - 1) + 1 = i
    OBVIOUS
  <2> QED BY <2>1
<1>3. ASSUME NEW m \in 1..Len(w) PROVE \E i \in 1..Len(s) : w[m] = s[i]
  <2>1. CASE m = 1
    BY <2>1
  <2>2. CASE m # 1
    <3>1. PICK i \in 1..Len(r) : v[m - 1] = r[i]
      BY <1>1, <2>2 DEF InOrder
    <3>2. i + 1 \in 1..Len(s) /\ s[i + 1] = r[i]
      OBVIOUS
    <3> QED BY <1>1, <2>2, <3>1, <3>2
  <2> QED BY <2>1, <2>2
<1>4. ASSUME NEW m \in 1..Len(w), NEW n \in 1..Len(w), NEW i \in 1..Len(s), NEW j \in 1..Len(s),
             m < n, w[m] = s[i], w[n] = s[j]
      PROVE  i < j
  <2>1. n # 1
    BY <1>4
  <2>2. n - 1 \in 1..Len(v) /\ w[n] = v[n - 1] /\ w[n] # x
    BY <1>1, <2>1
  <2>3. j # 1
    BY <1>4, <2>2
  <2>4. j - 1 \in 1..Len(r) /\ s[j] = r[j - 1]
    BY <1>2, <2>3
  <2>5. CASE i = 1
    BY <2>3, <2>5
  <2>6. CASE i # 1
    <3>1. i - 1 \in 1..Len(r) /\ s[i] = r[i - 1] /\ s[i] # x
      BY <1>2, <2>6
    <3>2. m # 1
      BY <1>4, <3>1
    <3>3. m - 1 \in 1..Len(v) /\ w[m] = v[m - 1] /\ m - 1 < n - 1
      BY <1>1, <1>4, <3>2
    <3>4. v[m - 1] = r[i - 1] /\ v[n - 1] = r[j - 1]
      BY <1>4, <2>2, <2>4, <3>1, <3>3
    <3>5. PICK a \in 1..Len(v), b \in 1..Len(v) : a = m - 1 /\ b = n - 1
      BY <2>2, <3>3
    <3>6. PICK c \in 1..Len(r), d \in 1..Len(r) : c = i - 1 /\ d = j - 1
      BY <2>4, <3>1
    <3>7. a < b /\ v[a] = r[c] /\ v[b] = r[d]
      BY <3>3, <3>4, <3>5, <3>6
    <3>8. c < d
      BY <3>7 DEF InOrder
    <3> QED BY <3>6, <3>8
  <2> QED BY <2>5, <2>6
<1>5. \A m \in 1..Len(w) : \E i \in 1..Len(s) : w[m] = s[i]
  BY <1>3
<1>6. \A m, n \in 1..Len(w) : \A i, j \in 1..Len(s) :
         m < n /\ w[m] = s[i] /\ w[n] = s[j] => i < j
  BY <1>4, Zenon
<1> QED BY <1>5, <1>6, Zenon DEF InOrder

\* A version that is written comes first in both, and moves the others by one place
\* at most.
LEMMA WrittenIsNewest ==
    ASSUME NEW v \in Seq(Text), NEW r \in Seq(Text), IsInjective(r),
           InOrder(v, r), Newest(v, r), NEW x \in Text
    PROVE  LET w == <<x>> \o Keep(v, ToSet(v) \ {x})
               s == <<x>> \o Keep(r, ToSet(r) \ {x})
           IN  /\ s \in Seq(Text) /\ IsInjective(s) /\ InOrder(w, s) /\ Newest(w, s)
               /\ w # << >> /\ w[1] = x
<1> DEFINE vk == Keep(v, ToSet(v) \ {x})
           rk == Keep(r, ToSet(r) \ {x})
           w  == <<x>> \o vk
           s  == <<x>> \o rk
<1>1. /\ vk \in Seq(Text) /\ ToSet(vk) = ToSet(v) \ {x}
      /\ rk \in Seq(Text) /\ ToSet(rk) = ToSet(r) \ {x}
  <2>1. ASSUME NEW q \in Seq(Text)
        PROVE  /\ Keep(q, ToSet(q) \ {x}) \in Seq(Text)
               /\ ToSet(Keep(q, ToSet(q) \ {x})) = ToSet(q) \ {x}
    <3> DEFINE T == ToSet(q) \ {x}
    <3>1. Keep(q, T) \in Seq(T \cap Text) /\ ToSet(Keep(q, T)) = ToSet(q) \cap T
      BY KeepSet
    <3>2. Keep(q, T) \in Seq(Text)
      <4> HIDE DEF T
      <4> QED BY <3>1
    <3> QED BY <3>1, <3>2
  <2> QED BY <2>1
<1>2. IsInjective(rk)
  <2> DEFINE T == ToSet(r) \ {x}
  <2>1. \A i, j \in DOMAIN r : i # j /\ r[i] \in T /\ r[j] \in T => r[i] # r[j]
    BY DEF IsInjective
  <2> HIDE DEF T
  <2>2. IsInjective(Keep(r, T))
    BY <2>1, OnceKept
  <2> QED BY <2>2 DEF T
<1>3. InOrder(vk, r)
  BY KeptInOrder
<1>4. PICK e \in [1..Len(rk) -> 1..Len(r)] :
         /\ \A n \in 1..Len(rk) : rk[n] = r[e[n]] /\ e[n] <= n + 1
         /\ \A m, n \in 1..Len(rk) : m < n => e[m] < e[n]
  BY KeepSkipsOne
<1> HIDE DEF vk, rk
<1>5. /\ Len(vk) \in Nat /\ Len(rk) \in Nat /\ Len(r) \in Nat
      /\ DOMAIN vk = 1..Len(vk) /\ DOMAIN rk = 1..Len(rk) /\ DOMAIN r = 1..Len(r)
  BY <1>1
<1>6. /\ w \in Seq(Text) /\ Len(w) = Len(vk) + 1 /\ w[1] = x /\ w # << >> /\ DOMAIN w = 1..Len(w)
      /\ \A m \in 1..Len(vk) : w[m + 1] = vk[m]
  BY <1>1, <1>5
<1>7. /\ s \in Seq(Text) /\ Len(s) = Len(rk) + 1 /\ s[1] = x
      /\ \A i \in 1..Len(rk) : s[i + 1] = rk[i]
  BY <1>1, <1>5
<1>8. IsInjective(s)
  <2>1. x \notin ToSet(rk)
    BY <1>1
  <2>2. IsInjective(<<x>> \o rk)
    BY <1>1, <1>2, <2>1, PutOnce
  <2> QED BY <2>2
<1> HIDE DEF w, s
<1>9. /\ \A m \in 1..Len(vk) : vk[m] # x /\ vk[m] \in ToSet(v)
      /\ \A i \in 1..Len(rk) : rk[i] # x
  <2>1. /\ \A m \in 1..Len(vk) : vk[m] \in ToSet(vk)
        /\ \A i \in 1..Len(rk) : rk[i] \in ToSet(rk)
    BY <1>5 DEF ToSet
  <2> QED BY <1>1, <2>1
<1>10. InOrder(vk, rk)
  <2> USE DEF InOrder
  <2>1. ASSUME NEW m \in 1..Len(vk) PROVE \E i \in 1..Len(rk) : vk[m] = rk[i]
    <3>1. PICK i \in 1..Len(r) : vk[m] = r[i]
      BY <1>3
    <3>2. r[i] \in ToSet(r)
      BY <1>5 DEF ToSet
    <3>3. vk[m] \in ToSet(rk)
      BY <1>1, <1>9, <3>1, <3>2
    <3> QED BY <1>5, <3>3 DEF ToSet
  <2>2. ASSUME NEW m \in 1..Len(vk), NEW n \in 1..Len(vk), NEW i \in 1..Len(rk), NEW j \in 1..Len(rk),
               m < n, vk[m] = rk[i], vk[n] = rk[j]
        PROVE  i < j
    <3>1. /\ e[i] \in 1..Len(r) /\ r[e[i]] = rk[i]
          /\ e[j] \in 1..Len(r) /\ r[e[j]] = rk[j]
      BY <1>4
    <3>2. e[i] < e[j]
      BY <1>3, <2>2, <3>1
    <3>3. j < i => e[j] < e[i]
      BY <1>4
    <3>4. i # j
      BY <1>5, <3>1, <3>2
    <3> QED BY <1>5, <3>1, <3>2, <3>3, <3>4
  <2> QED BY <2>1, <2>2
<1>11. InOrder(w, s)
  <2>1. \A m \in 1..Len(vk) : w[m + 1] = vk[m] /\ vk[m] # x
    BY <1>6, <1>9
  <2>2. \A i \in 1..Len(rk) : s[i + 1] = rk[i] /\ rk[i] # x
    BY <1>7, <1>9
  <2>3. /\ Len(vk) \in Nat /\ Len(rk) \in Nat /\ w[1] = x /\ s[1] = x
        /\ Len(w) = Len(vk) + 1 /\ Len(s) = Len(rk) + 1
    BY <1>5, <1>6, <1>7
  <2> QED BY <1>10, <2>1, <2>2, <2>3, OneInFront
<1>12. Newest(w, s)
  <2> SUFFICES ASSUME NEW i \in 1..Len(s), i <= MaxVersions PROVE s[i] \in ToSet(w)
    BY DEF Newest
  <2>1. CASE i = 1
    <3>1. 1 \in DOMAIN w
      BY <1>5, <1>6
    <3> QED BY <1>6, <1>7, <2>1, <3>1 DEF ToSet
  <2>2. ASSUME NEW j \in 1..Len(rk), i = j + 1 PROVE s[i] \in ToSet(w)
    <3>1. s[i] = rk[j] /\ e[j] \in 1..Len(r) /\ r[e[j]] = rk[j] /\ e[j] <= i
      BY <1>4, <1>7, <2>2
    <3>2. e[j] <= MaxVersions
      BY <1>5, <3>1, StoreAssumption
    <3>3. s[i] \in ToSet(v)
      BY <3>1, <3>2 DEF Newest
    <3>4. s[i] \in ToSet(vk)
      BY <1>1, <1>9, <3>1, <3>3
    <3>5. PICK m \in 1..Len(vk) : s[i] = vk[m]
      BY <1>5, <3>4 DEF ToSet
    <3>6. w[m + 1] = s[i]
      BY <1>6, <3>5
    <3>7. m + 1 \in DOMAIN w
      BY <1>5, <1>6
    <3> QED BY <3>6, <3>7 DEF ToSet
  <2>3. i = 1 \/ (i - 1 \in 1..Len(rk) /\ i = (i - 1) + 1)
    BY <1>5, <1>7
  <2> QED BY <2>1, <2>2, <2>3
<1> QED BY <1>6, <1>7, <1>8, <1>11, <1>12 DEF w, s, vk, rk

\* All but the first element have an element of their own before them.
LEMMA OthersAreBehind ==
    ASSUME NEW v \in Seq(Text), NEW keep, v # << >>, v[1] = keep,
           NEW n \in 1..Len(Keep(v, ToSet(v) \ {keep}))
    PROVE  \E p \in 1..Len(v) : p >= n + 1 /\ Keep(v, ToSet(v) \ {keep})[n] = v[p]
<1> DEFINE T == ToSet(v) \ {keep}
           k == Keep(v, T)
<1>1. keep \notin T
  OBVIOUS
<1> HIDE DEF T
<1>2. PICK e \in [1..Len(k) -> 1..Len(v)] :
         /\ \A m \in 1..Len(k) : k[m] = v[e[m]]
         /\ \A l, m \in 1..Len(k) : l < m => e[l] < e[m]
  BY KeepEmbeds
<1>3. k \in Seq(T \cap Text)
  BY KeepSet
<1> HIDE DEF k
<1>4. Len(k) \in Nat /\ n \in 1..Len(k) /\ \A m \in 1..Len(k) : k[m] \in T
  <2>1. n \in 1..Len(k)
    BY DEF k, T
  <2> QED BY <1>3, <2>1
<1>5. \A m \in 1..Len(k) : e[m] \in Nat /\ e[m] > 1
  <2> SUFFICES ASSUME NEW m \in 1..Len(k) PROVE e[m] \in Nat /\ e[m] > 1
    OBVIOUS
  <2>1. e[m] \in 1..Len(v) /\ v[e[m]] # keep
    BY <1>1, <1>2, <1>4
  <2> QED BY <2>1
<1>6. \A m \in 1..Len(k) : e[m] >= m + 1
  BY <1>2, <1>4, <1>5, Ahead
<1>7. e[n] \in 1..Len(v) /\ e[n] >= n + 1 /\ k[n] = v[e[n]]
  BY <1>2, <1>4, <1>6
<1> QED BY <1>7 DEF k, T

LEMMA FirstStays ==
    ASSUME NEW v \in Seq(Text), v # << >>, NEW T, v[1] \in T
    PROVE  Keep(v, T) # << >> /\ Keep(v, T)[1] = v[1]
<1> DEFINE k == Keep(v, T)
<1>1. PICK f \in [1..Len(k) -> 1..Len(v)] :
         /\ \A n \in 1..Len(k) : k[n] = v[f[n]]
         /\ \A m, n \in 1..Len(k) : m < n => f[m] < f[n]
         /\ \A j \in 1..Len(v) : v[j] \in T => \E n \in 1..Len(k) : f[n] = j
  BY KeepEmbeds
<1>2. k \in Seq(T \cap Text)
  BY KeepSet
<1> HIDE DEF k
<1>3. Len(k) \in Nat /\ 1 \in 1..Len(v)
  BY <1>2
<1>4. PICK n \in 1..Len(k) : f[n] = 1
  BY <1>1, <1>3
<1>5. 1 \in 1..Len(k)
  BY <1>3, <1>4
<1>6. f[1] \in 1..Len(v) /\ (n = 1 \/ f[1] < f[n])
  BY <1>1, <1>3, <1>4, <1>5
<1>7. k[1] = v[1]
  BY <1>1, <1>4, <1>5, <1>6
<1> QED BY <1>2, <1>5, <1>7 DEF k

\* A version is at least as far down among all versions as among those that are left.
LEMMA BehindIsOlder ==
    ASSUME NEW v \in Seq(Text), NEW r \in Seq(Text), InOrder(v, r), NEW p \in 1..Len(v)
    PROVE  \E i \in 1..Len(r) : i >= p /\ r[i] = v[p]
<1> DEFINE pos == [m \in 1..Len(v) |-> CHOOSE i \in 1..Len(r) : v[m] = r[i]]
<1>1. \A m \in 1..Len(v) : pos[m] \in 1..Len(r) /\ v[m] = r[pos[m]]
  BY DEF InOrder
<1> HIDE DEF pos
<1>2. \A m, n \in 1..Len(v) : m < n => pos[m] < pos[n]
  BY <1>1 DEF InOrder
<1>3. \A m \in 1..Len(v) : pos[m] \in Nat /\ pos[m] > 0
  BY <1>1
<1>4. Len(v) \in Nat
  OBVIOUS
<1>5. \A m \in 1..Len(v) : pos[m] >= m + 0
  BY <1>2, <1>3, <1>4, Ahead
<1>6. pos[p] >= p
  BY <1>4, <1>5
<1> QED BY <1>1, <1>6

\* What prune deletes is at least MaxVersions writes old.
LEMMA PrunedIsOld ==
    ASSUME versions \in Seq(Text), NEW r \in Seq(Text), IsInjective(r),
           InOrder(versions, r), Newest(versions, r), NEW keep,
           versions # << >>, versions[1] = keep, Doomed(keep) # << >>
    PROVE  LET w == Keep(versions, ToSet(versions) \ {Head(Doomed(keep))})
           IN  InOrder(w, r) /\ Newest(w, r) /\ w # << >> /\ w[1] = keep
<1> DEFINE others == Keep(versions, ToSet(versions) \ {keep})
           gone   == Head(Doomed(keep))
           T      == ToSet(versions) \ {gone}
           w      == Keep(versions, T)
<1>1. others \in Seq(Text)
  BY VersionsWithout
<1>2. MaxVersions \in 1..Len(others) /\ gone = others[MaxVersions]
  <2>1. Doomed(keep) = SubSeq(others, MaxVersions, Len(others))
    BY DEF Doomed
  <2> HIDE DEF others
  <2>2. Len(others) \in Nat /\ MaxVersions \in Nat /\ MaxVersions >= 1
    BY <1>1, StoreAssumption
  <2>3. MaxVersions <= Len(others)
    BY <1>1, <2>1, <2>2
  <2> QED BY <1>1, <2>1, <2>2, <2>3
<1>3. PICK p \in 1..Len(versions) : p >= MaxVersions + 1 /\ gone = versions[p]
  BY <1>2, OthersAreBehind
<1>4. PICK i \in 1..Len(r) : i >= p /\ r[i] = gone
  BY <1>3, BehindIsOlder
<1>5. w \in Seq(Text) /\ ToSet(w) = ToSet(versions) \ {gone}
  BY VersionsWithout
<1>6. keep \in T
  <2>1. gone # keep
    BY DoomedIsNotKept
  <2>2. 1 \in DOMAIN versions
    OBVIOUS
  <2> HIDE DEF gone
  <2> QED BY <2>1, <2>2 DEF ToSet
<1> HIDE DEF T
<1>7. InOrder(w, r)
  BY KeptInOrder
<1>8. w # << >> /\ w[1] = keep
  BY <1>6, FirstStays
<1> HIDE DEF w, gone, others
<1>9. Newest(w, r)
  <2> SUFFICES ASSUME NEW j \in 1..Len(r), j <= MaxVersions PROVE r[j] \in ToSet(w)
    BY DEF Newest
  <2>1. MaxVersions \in Nat /\ Len(r) \in Nat /\ DOMAIN r = 1..Len(r)
    BY StoreAssumption
  <2>2. i # j
    BY <1>3, <1>4, <2>1
  <2>3. r[j] # gone
    BY <1>4, <2>1, <2>2 DEF IsInjective
  <2> QED BY <1>5, <2>3 DEF Newest
<1> QED BY <1>7, <1>8, <1>9 DEF w, T, gone

-----------------------------------------------------------------------------
RecentInv ==
    /\ recent \in Seq(Text) /\ IsInjective(recent)
    /\ saved => /\ InOrder(versions, recent) /\ Newest(versions, recent)
                /\ \A h \in Handler : At(h, {"written", "headed"}) =>
                      versions # << >> /\ versions[1] = handler[h].merged

\* Steps that leave the versions alone, and bring nobody to one.
VersionsRest ==
    /\ UNCHANGED versions
    /\ saved' => saved
    /\ \A g \in Handler :
          /\ ~Steps(g, "merged", "written")
          /\ At(g, {"written", "headed"})' =>
                At(g, {"written", "headed"}) /\ handler'[g].merged = handler[g].merged

LEMMA RecordedOnlyWhenWritten ==
    ASSUME [HNext]_allVars, \A g \in Handler : ~Steps(g, "merged", "written")
    PROVE  recent' = recent
<1>1. CASE UNCHANGED allVars
  BY <1>1 DEF allVars, history
<1>2. CASE Record
  <2>1. {h \in Handler : Steps(h, "merged", "written")} = {}
    OBVIOUS
  <2> QED BY <1>2, <2>1 DEF Record
<1> QED BY <1>1, <1>2 DEF HNext

LEMMA WhoTouchesVersions ==
    ASSUME RInv, [Next]_vars
    PROVE  \/ VersionsRest
           \/ \E h \in Handler : WriteVersion(h) \/ Prune(h) \/ Erase(h)
<1>t. handler \in Goroutines /\ TypeOK
  BY DEF RInv, IInv, TypeOK, Goroutines
<1>1. ASSUME UNCHANGED <<handler, versions, saved>> PROVE VersionsRest
  BY <1>1 DEF VersionsRest, Steps, At
<1>2. ASSUME NEW h \in Handler, versions' = versions, saved' => saved,
             \A g \in Handler \ {h} : handler'[g] = handler[g],
             \/ handler'[h].at \notin {"written", "headed"}
             \/ At(h, {"written"}) /\ handler'[h].at = "headed"
                /\ handler'[h].merged = handler[h].merged
      PROVE  VersionsRest
  BY <1>2 DEF VersionsRest, Steps, At
<1>3. ASSUME NEW h \in Handler, NEW step \in Step, GoTo(h, step), versions' = versions, saved' => saved,
             step \notin {"written", "headed"} \/ (step = "headed" /\ At(h, {"written"}))
      PROVE  VersionsRest
  <2>1. /\ handler'[h].at = step /\ handler'[h].merged = handler[h].merged
        /\ \A g \in Handler \ {h} : handler'[g] = handler[g]
    BY <1>3, <1>t, GoToSteps
  <2> QED BY <1>2, <1>3, <2>1
<1>i. ASSUME NEW h \in Handler, handler' = [handler EXCEPT ![h] = Idle],
             versions' = versions, saved' = saved
      PROVE  VersionsRest
  <2>1. handler'[h].at = "idle" /\ \A g \in Handler \ {h} : handler'[g] = handler[g]
    BY <1>i, <1>t DEF Goroutines, Idle
  <2> QED BY <1>2, <1>i, <2>1
<1>4. ASSUME NEW d \in Device, Edit(d) \/ Send(d) \/ Receive(d) \/ GiveUp(d) \/ Fetch(d)
      PROVE  VersionsRest
  <2>0. versions' = versions /\ saved' = saved
    BY <1>4 DEF Edit, Send, Receive, GiveUp, Fetch, disk
  <2>1. CASE Edit(d) \/ GiveUp(d) \/ Fetch(d)
    BY <1>1, <2>0, <2>1 DEF Edit, GiveUp, Fetch
  <2>2. CASE Send(d)
    <3>1. PICK h \in Handler : handler' = [handler EXCEPT ![h] =
             [at |-> "sync", device |-> d, base |-> base[d], local |-> file[d], merged |-> << >>]]
      BY <2>2 DEF Send
    <3>2. handler'[h].at = "sync" /\ \A g \in Handler \ {h} : handler'[g] = handler[g]
      BY <1>t, <3>1 DEF Goroutines
    <3> QED BY <1>2, <2>0, <3>2
  <2>3. CASE Receive(d)
    <3>1. asks[d] \in Handler /\ handler' = [handler EXCEPT ![asks[d]] = Idle]
      BY <2>3, <1>t DEF Receive, TypeOK
    <3> QED BY <1>i, <2>0, <3>1
  <2> QED BY <1>4, <2>1, <2>2, <2>3
<1>5. ASSUME NEW h \in Handler, EnterSync(h) \/ RemoveAccount(h) \/ WriteHead(h) \/ Drop(h)
      PROVE  VersionsRest
  <2>1. CASE EnterSync(h)
    <3>1. versions' = versions /\ saved' = saved
      BY <2>1 DEF EnterSync, disk
    <3>2. ASSUME NEW b, Merging(h, b) PROVE VersionsRest
      <4>1. handler'[h].at = "merged" /\ \A g \in Handler \ {h} : handler'[g] = handler[g]
        BY <3>2, <1>t DEF Merging, Goroutines
      <4> QED BY <1>2, <3>1, <4>1
    <3>3. ASSUME GoTo(h, "refused") \/ GoTo(h, "failed") PROVE VersionsRest
      <4>1. PICK step \in Step : GoTo(h, step) /\ step \notin {"written", "headed"}
        BY <3>3 DEF Step
      <4>2. handler'[h].at = step /\ \A g \in Handler \ {h} : handler'[g] = handler[g]
        BY <1>t, <4>1, GoToSteps
      <4> QED BY <1>2, <3>1, <4>1, <4>2
    <3> QED BY <2>1, <3>2, <3>3 DEF EnterSync
  <2>2. CASE RemoveAccount(h)
    <3>1. versions' = versions /\ (saved' => saved)
      BY <2>2, <1>t DEF RemoveAccount, TypeOK
    <3>2. PICK step \in Step : GoTo(h, step) /\ step \notin {"written", "headed"}
      BY <2>2 DEF RemoveAccount, Step
    <3>3. handler'[h].at = step /\ \A g \in Handler \ {h} : handler'[g] = handler[g]
      BY <1>t, <3>2, GoToSteps
    <3> QED BY <1>2, <3>1, <3>2, <3>3
  <2>3. CASE WriteHead(h)
    <3>1. versions' = versions /\ saved' = saved /\ At(h, {"written"})
      BY <2>3 DEF WriteHead
    <3>2. GoTo(h, "headed") \/ GoTo(h, "failed")
      BY <2>3 DEF WriteHead, FailLocked
    <3>3. "headed" \in Step /\ "failed" \in Step
      BY DEF Step
    <3> QED BY <1>3, <3>1, <3>2, <3>3
  <2>4. CASE Drop(h)
    BY <2>4, <1>i DEF Drop, disk
  <2> QED BY <1>5, <2>1, <2>2, <2>3, <2>4
<1>6. CASE AskRemove
  <2>1. PICK h \in Handler : handler' = [handler EXCEPT ![h] = [Idle EXCEPT !.at = "remove"]]
    BY <1>6 DEF AskRemove
  <2>2. handler'[h].at = "remove" /\ \A g \in Handler \ {h} : handler'[g] = handler[g]
    BY <1>t, <2>1 DEF Goroutines, Idle
  <2>3. versions' = versions /\ saved' = saved
    BY <1>6 DEF AskRemove, disk
  <2> QED BY <1>2, <2>2, <2>3
<1>7. CASE Crash
  <2>1. \A g \in Handler : handler'[g].at = "idle"
    BY <1>7 DEF Crash, Idle
  <2>2. UNCHANGED <<versions, saved>>
    BY <1>7 DEF Crash, disk
  <2> QED BY <2>1, <2>2 DEF VersionsRest, Steps, At
<1>8. CASE UNCHANGED vars
  BY <1>1, <1>8 DEF vars, disk
<1> QED BY <1>4, <1>5, <1>6, <1>7, <1>8 DEF Next, GetLock, GoOn

LEMMA RecentStep ==
    ASSUME "clock" \notin Faults, RInv, RecentInv, [HNext]_allVars
    PROVE  RecentInv'
<1>t. handler \in Goroutines /\ TypeOK /\ LockIsHeld /\ MergeIsSafe /\ AccountsAgree
  BY DEF RInv, IInv, TypeOK, Goroutines
<1>n. [Next]_vars
  BY HistoryOfSteps
<1>a. ASSUME NEW h \in Handler, At(h, InLock), NEW g \in Handler \ {h} PROVE ~At(g, InLock)
  BY <1>a, <1>t DEF LockIsHeld
<1>1. CASE VersionsRest
  <2>1. recent' = recent
    BY <1>1, RecordedOnlyWhenWritten DEF VersionsRest
  <2>2. /\ versions' = versions /\ (saved' => saved)
        /\ \A g \in Handler : At(g, {"written", "headed"})' =>
              At(g, {"written", "headed"}) /\ handler'[g].merged = handler[g].merged
    BY <1>1 DEF VersionsRest
  <2> QED BY <2>1, <2>2 DEF RecentInv
<1>2. ASSUME NEW h \in Handler, WriteVersion(h) PROVE RecentInv'
  <2> DEFINE x == handler[h].merged
  <2>1. At(h, {"merged"}) /\ saved' = saved /\ saved /\ x \in Text
    BY <1>2, <1>t DEF WriteVersion, MergeIsSafe, At, Goroutines
  <2>2. \A g \in Handler \ {h} : ~At(g, {"merged", "written", "headed"})
    BY <1>a, <2>1 DEF At, InLock
  <2>3. CASE GoTo(h, "failed") /\ UNCHANGED versions
    <3>1. /\ handler'[h].at = "failed"
          /\ \A g \in Handler \ {h} : handler'[g] = handler[g]
      BY <1>t, <2>3, GoToSteps DEF Step
    <3>2. VersionsRest
      BY <2>1, <2>3, <3>1 DEF VersionsRest, Steps, At
    <3> QED BY <1>1, <3>2
  <2>4. CASE GoTo(h, "written") /\ versions' = <<x>> \o Keep(versions, ToSet(versions) \ {x})
    <3>1. /\ handler'[h].at = "written" /\ handler'[h].merged = x
          /\ \A g \in Handler \ {h} : handler'[g] = handler[g]
      BY <1>t, <2>4, GoToSteps DEF Step
    <3>2. {g \in Handler : Steps(g, "merged", "written")} = {h}
      BY <2>1, <2>2, <3>1 DEF Steps, At
    <3>3. ~(UNCHANGED handler)
      BY <2>1, <3>1 DEF At
    <3>4. recent' = <<x>> \o Keep(recent, ToSet(recent) \ {x})
      <4>1. Record
        BY <3>3 DEF HNext, allVars, vars
      <4>2. (CHOOSE g \in {h} : TRUE) = h
        OBVIOUS
      <4>3. {h} # {}
        OBVIOUS
      <4> QED BY <3>2, <4>1, <4>2, <4>3 DEF Record
    <3>5. /\ recent' \in Seq(Text) /\ IsInjective(recent')
          /\ InOrder(versions', recent') /\ Newest(versions', recent')
          /\ versions' # << >> /\ versions'[1] = x
      <4> HIDE DEF x
      <4>1. versions \in Seq(Text)
        BY <1>t DEF TypeOK
      <4> QED BY <2>1, <2>4, <3>4, <4>1, WrittenIsNewest DEF RecentInv
    <3>6. \A g \in Handler : At(g, {"written", "headed"})' => handler'[g].merged = x
      BY <2>2, <3>1 DEF At
    <3> QED BY <3>5, <3>6 DEF RecentInv
  <2> QED BY <1>2, <2>3, <2>4 DEF WriteVersion, FailLocked, Fault
<1>3. ASSUME NEW h \in Handler, Prune(h) PROVE RecentInv'
  <2> DEFINE x == handler[h].merged
  <2>1. At(h, {"headed"}) /\ saved' = saved /\ saved
    BY <1>3, <1>t DEF Prune, MergeIsSafe, At
  <2>2. \A g \in Handler \ {h} : ~At(g, {"written", "headed"})
    BY <1>a, <2>1 DEF At, InLock
  <2>3. ASSUME NEW step \in {"ok", "failed"}, GoTo(h, step), UNCHANGED versions PROVE RecentInv'
    <3>1. /\ handler'[h].at = step
          /\ \A g \in Handler \ {h} : handler'[g] = handler[g]
      BY <1>t, <2>3, GoToSteps DEF Step
    <3>2. VersionsRest
      BY <2>1, <2>3, <3>1 DEF VersionsRest, Steps, At
    <3> QED BY <1>1, <3>2
  <2>4. CASE /\ Doomed(x) # << >> /\ UNCHANGED handler
             /\ versions' = Keep(versions, ToSet(versions) \ {Head(Doomed(x))})
    <3>1. versions # << >> /\ versions[1] = x /\ versions \in Seq(Text)
      BY <1>t, <2>1 DEF RecentInv, At, TypeOK
    <3>2. recent' = recent
      BY <2>4, RecordedOnlyWhenWritten DEF Steps, At
    <3>3. /\ InOrder(versions', recent) /\ Newest(versions', recent)
          /\ versions' # << >> /\ versions'[1] = x
      <4> HIDE DEF x
      <4> QED BY <2>1, <2>4, <3>1, PrunedIsOld DEF RecentInv
    <3>4. \A g \in Handler : At(g, {"written", "headed"})' => handler'[g].merged = x
      BY <2>2, <2>4 DEF At
    <3> QED BY <3>2, <3>3, <3>4 DEF RecentInv
  <2> QED BY <1>3, <2>3, <2>4 DEF Prune, FailLocked
<1>4. ASSUME NEW h \in Handler, Erase(h) PROVE RecentInv'
  <2>1. ~saved /\ saved' = saved /\ handler[h].at = "erasing"
    BY <1>4, <1>t DEF Erase, AccountsAgree, At
  <2>2. UNCHANGED handler \/ \E step \in Step : GoTo(h, step)
    BY <1>4 DEF Erase, FailLocked, Step
  <2>3. \A g \in Handler : ~Steps(g, "merged", "written")
    BY <1>t, <2>1, <2>2, GoToSteps DEF Steps, At
  <2>4. recent' = recent
    BY <2>3, RecordedOnlyWhenWritten
  <2> QED BY <2>1, <2>4 DEF RecentInv
<1> QED BY <1>1, <1>2, <1>3, <1>4, <1>n, WhoTouchesVersions

\* The newest versions are there as long as no clock goes wrong: prune deletes no base
\* that is among the last MaxVersions, whatever fails (store.go:393-402 and 440-468).
THEOREM NewestAreKept ==
    ASSUME "clock" \notin Faults
    PROVE  HSpec => []RecentVersionsKept
<1>1. HInit => Init
  BY DEF HInit
<1>2. HInit => RecentInv
  BY DEF HInit, Init, Idle, RecentInv, InOrder, Newest, At, IsInjective
<1>3. RInv /\ RecentInv /\ [HNext]_allVars => RecentInv'
  BY RecentStep
<1>4. RecentInv => RecentVersionsKept
  BY DEF RecentInv, Newest, RecentVersionsKept
<1> QED BY <1>1, <1>2, <1>3, <1>4, HistoryOfSteps, RInvariance, PTL DEF HSpec, Spec

-----------------------------------------------------------------------------
(***************************************************************************)
(* The removals that reached the server.  A line comes back only from a    *)
(* sender that has it and whose base has it not, or from one whose base    *)
(* the server has no longer.                                               *)
(***************************************************************************)
BuriedInv ==
    /\ buried \cap set(Contents(head)) = {}
    /\ buried \cap Unsettled = {}
    /\ \A h \in Handler : At(h, {"merged", "written"}) =>
          IF h \in blind THEN buried \cap set(handler[h].local) = {}
          ELSE handler[h].merged =
                  merge(Contents(handler[h].base), handler[h].local, Contents(head))
    /\ \A h \in blind : At(h, InLock)

\* The steps of a goroutine on its way to HEAD.
Moved(g) ==
    LET old == handler[g]
        new == handler'[g]
    IN  \/ new = old
        \/ new.at \notin {"sync", "merged", "written", "headed"}
        \/ new.at = "sync" /\ \E d \in Device : new.base = base[d] /\ new.local = file[d]
        \/ /\ new.base = old.base /\ new.local = old.local
           /\ \/ /\ old.at = "sync" /\ new.at = "merged"
                 /\ lock = Nobody /\ head' = head
                 /\ \E b \in {BaseText(old.base), << >>} :
                       new.merged = merge(b, old.local, Contents(head))
              \/ old.at = "merged" /\ new.at = "written" /\ new.merged = old.merged /\ head' = head
              \/ old.at = "written" /\ new.at = "headed" /\ head' = old.merged

LEMMA HowGoroutinesMove ==
    ASSUME RInv, [Next]_vars, NEW g \in Handler
    PROVE  Moved(g)
<1>t. handler \in Goroutines /\ TypeOK
  BY DEF RInv, IInv, TypeOK, Goroutines
<1>1. ASSUME UNCHANGED handler PROVE Moved(g)
  BY <1>1 DEF Moved
<1>2. ASSUME NEW h \in Handler, \A q \in Handler \ {h} : handler'[q] = handler[q], Moved(h)
      PROVE  Moved(g)
  <2>1. CASE g = h
    BY <1>2, <2>1
  <2>2. CASE g # h
    BY <1>2, <2>2 DEF Moved
  <2> QED BY <2>1, <2>2
<1>3. ASSUME NEW h \in Handler, NEW step \in Step, GoTo(h, step),
             step \notin {"sync", "merged", "written", "headed"}
      PROVE  Moved(g)
  <2>1. handler'[h].at = step /\ \A q \in Handler \ {h} : handler'[q] = handler[q]
    BY <1>3, <1>t, GoToSteps
  <2>2. Moved(h)
    BY <1>3, <2>1 DEF Moved
  <2> QED BY <1>2, <2>1, <2>2
<1>i. ASSUME NEW h \in Handler, handler' = [handler EXCEPT ![h] = Idle] PROVE Moved(g)
  <2>1. handler'[h].at = "idle" /\ \A q \in Handler \ {h} : handler'[q] = handler[q]
    BY <1>i, <1>t DEF Goroutines, Idle
  <2>2. Moved(h)
    BY <2>1 DEF Moved
  <2> QED BY <1>2, <2>1, <2>2
<1>4. ASSUME NEW d \in Device, Edit(d) \/ Send(d) \/ Receive(d) \/ GiveUp(d) \/ Fetch(d)
      PROVE  Moved(g)
  <2>1. CASE Edit(d) \/ GiveUp(d) \/ Fetch(d)
    BY <1>1, <2>1 DEF Edit, GiveUp, Fetch
  <2>2. CASE Send(d)
    <3>1. PICK h \in Handler : handler' = [handler EXCEPT ![h] =
             [at |-> "sync", device |-> d, base |-> base[d], local |-> file[d], merged |-> << >>]]
      BY <2>2 DEF Send
    <3>2. /\ handler'[h].at = "sync" /\ handler'[h].base = base[d] /\ handler'[h].local = file[d]
          /\ \A q \in Handler \ {h} : handler'[q] = handler[q]
      BY <1>t, <3>1 DEF Goroutines
    <3>3. Moved(h)
      BY <3>2 DEF Moved
    <3> QED BY <1>2, <3>2, <3>3
  <2>3. CASE Receive(d)
    <3>1. asks[d] \in Handler /\ handler' = [handler EXCEPT ![asks[d]] = Idle]
      BY <2>3, <1>t DEF Receive, TypeOK
    <3> QED BY <1>i, <3>1
  <2> QED BY <1>4, <2>1, <2>2, <2>3
<1>5. ASSUME NEW h \in Handler, GetLock(h) \/ GoOn(h) PROVE Moved(g)
  <2>1. CASE EnterSync(h)
    <3>1. head' = head /\ lock = Nobody /\ handler[h].at = "sync"
      BY <2>1 DEF EnterSync, disk, At
    <3>2. ASSUME NEW b \in {BaseText(handler[h].base), << >>}, Merging(h, b) PROVE Moved(g)
      <4>1. /\ handler'[h].at = "merged" /\ handler'[h].base = handler[h].base
            /\ handler'[h].local = handler[h].local
            /\ handler'[h].merged = merge(b, handler[h].local, Contents(head))
            /\ \A q \in Handler \ {h} : handler'[q] = handler[q]
        BY <3>2, <1>t DEF Merging, Goroutines
      <4>2. Moved(h)
        BY <3>1, <4>1 DEF Moved
      <4> QED BY <1>2, <4>1, <4>2
    <3>3. ASSUME GoTo(h, "refused") \/ GoTo(h, "failed") PROVE Moved(g)
      <4>1. PICK step \in Step : GoTo(h, step) /\ step \notin {"sync", "merged", "written", "headed"}
        BY <3>3 DEF Step
      <4> QED BY <1>3, <4>1
    <3> QED BY <2>1, <3>2, <3>3 DEF EnterSync
  <2>2. ASSUME GoTo(h, "failed") \/ GoTo(h, "erasing") \/ GoTo(h, "ok") \/ GoTo(h, "removed")
        PROVE  Moved(g)
    <3>1. PICK step \in Step : GoTo(h, step) /\ step \notin {"sync", "merged", "written", "headed"}
      BY <2>2 DEF Step
    <3> QED BY <1>3, <3>1
  <2>3. CASE WriteVersion(h)
    <3>1. CASE GoTo(h, "failed")
      BY <2>2, <3>1
    <3>2. CASE GoTo(h, "written")
      <4>1. /\ handler'[h].at = "written" /\ handler'[h].base = handler[h].base
            /\ handler'[h].local = handler[h].local /\ handler'[h].merged = handler[h].merged
            /\ \A q \in Handler \ {h} : handler'[q] = handler[q]
        BY <1>t, <3>2, GoToSteps DEF Step
      <4>2. handler[h].at = "merged" /\ head' = head
        BY <2>3 DEF WriteVersion, At
      <4>3. Moved(h)
        BY <4>1, <4>2 DEF Moved
      <4> QED BY <1>2, <4>1, <4>3
    <3> QED BY <2>3, <3>1, <3>2 DEF WriteVersion, FailLocked
  <2>4. CASE WriteHead(h)
    <3>1. CASE GoTo(h, "failed")
      BY <2>2, <3>1
    <3>2. CASE GoTo(h, "headed") /\ head' = handler[h].merged
      <4>1. /\ handler'[h].at = "headed" /\ handler'[h].base = handler[h].base
            /\ handler'[h].local = handler[h].local
            /\ \A q \in Handler \ {h} : handler'[q] = handler[q]
        BY <1>t, <3>2, GoToSteps DEF Step
      <4>2. handler[h].at = "written"
        BY <2>4 DEF WriteHead, At
      <4>3. Moved(h)
        BY <3>2, <4>1, <4>2 DEF Moved
      <4> QED BY <1>2, <4>1, <4>3
    <3> QED BY <2>4, <3>1, <3>2 DEF WriteHead, FailLocked
  <2>5. CASE Prune(h) \/ Erase(h) \/ RemoveAccount(h)
    BY <1>1, <2>2, <2>5 DEF Prune, Erase, RemoveAccount, FailLocked
  <2>6. CASE Drop(h)
    BY <1>i, <2>6 DEF Drop
  <2> QED BY <1>5, <2>1, <2>3, <2>4, <2>5, <2>6 DEF GetLock, GoOn
<1>6. CASE AskRemove
  <2>1. PICK h \in Handler : handler' = [handler EXCEPT ![h] = [Idle EXCEPT !.at = "remove"]]
    BY <1>6 DEF AskRemove
  <2>2. handler'[h].at = "remove" /\ \A q \in Handler \ {h} : handler'[q] = handler[q]
    BY <1>t, <2>1 DEF Goroutines, Idle
  <2>3. Moved(h)
    BY <2>2 DEF Moved
  <2> QED BY <1>2, <2>2, <2>3
<1>7. CASE Crash
  <2>1. handler'[g].at = "idle"
    BY <1>7 DEF Crash, Idle
  <2> QED BY <2>1 DEF Moved
<1>8. CASE UNCHANGED vars
  BY <1>1, <1>8 DEF vars
<1> QED BY <1>4, <1>5, <1>6, <1>7, <1>8 DEF Next

\* Who changes HEAD has the lock.
LEMMA WhoChangesHead ==
    ASSUME RInv, [Next]_vars
    PROVE  \/ head' = head
           \/ head' = NoVersion /\ \E h \in Handler : At(h, {"erasing"})
           \/ \E h \in Handler : Steps(h, "written", "headed") /\ head' = handler[h].merged
<1>t. handler \in Goroutines
  BY DEF RInv, IInv, TypeOK, Goroutines
<1>1. ASSUME NEW h \in Handler, WriteHead(h), head' # head
      PROVE  Steps(h, "written", "headed") /\ head' = handler[h].merged
  <2>1. At(h, {"written"}) /\ head' = handler[h].merged /\ GoTo(h, "headed")
    BY <1>1 DEF WriteHead
  <2>2. handler'[h].at = "headed"
    BY <1>t, <2>1, GoToSteps DEF Step
  <2> QED BY <2>1, <2>2 DEF Steps, At
<1>2. ASSUME NEW h \in Handler, Erase(h), head' # head
      PROVE  head' = NoVersion /\ At(h, {"erasing"})
  BY <1>2 DEF Erase
<1>3. head' = head \/ \E h \in Handler : WriteHead(h) \/ Erase(h)
  BY DEF Next, Edit, Send, Receive, GiveUp, Fetch, GetLock, GoOn, EnterSync, RemoveAccount,
         WriteVersion, Prune, Drop, AskRemove, Crash, vars, disk
<1> QED BY <1>1, <1>2, <1>3

\* What a device has and its base has not comes from an edit.
LEMMA WhatIsPending ==
    ASSUME RInv, [Next]_vars, NEW d \in Device, NEW x \in Pending(d)'
    PROVE  \/ x \in Pending(d)
           \/ edits' # edits /\ x \in set(file'[d]) \ set(file[d])
<1>t. TypeOK /\ handler \in Goroutines
  BY DEF RInv, IInv, TypeOK, Goroutines
<1>0. x \in set(file'[d]) \ set(Contents(base'[d]))
  BY DEF Pending
<1>1. ASSUME file'[d] = file[d], base'[d] = base[d] PROVE x \in Pending(d)
  BY <1>0, <1>1 DEF Pending
<1>2. ASSUME NEW e \in Device, Edit(e)
      PROVE  x \in Pending(d) \/ (edits' # edits /\ x \in set(file'[d]) \ set(file[d]))
  <2>1. edits' # edits /\ base' = base
    BY <1>t, <1>2 DEF Edit, TypeOK
  <2> QED BY <1>0, <2>1 DEF Pending
<1>3. ASSUME NEW e \in Device, Receive(e) PROVE x \in Pending(d)
  <2>1. \/ file'[d] = file[d] /\ base'[d] = base[d]
        \/ \E h \in Handler : file'[d] = handler[h].merged /\ base'[d] = handler[h].merged
    BY <1>t, <1>3 DEF Receive, TypeOK
  <2>2. \A h \in Handler : Contents(handler[h].merged) = handler[h].merged
    BY <1>t, StoreAssumption DEF Contents, Goroutines
  <2> QED BY <1>0, <1>1, <2>1, <2>2
<1>4. ASSUME NEW e \in Device, Fetch(e) PROVE x \in Pending(d)
  <2>1. \/ file'[d] = file[d] /\ base'[d] = base[d]
        \/ file'[d] = Contents(head) /\ base'[d] = head
    BY <1>t, <1>4 DEF Fetch, TypeOK
  <2> QED BY <1>0, <1>1, <2>1
<1>5. CASE UNCHANGED <<file, base>>
  BY <1>1, <1>5
<1> QED BY <1>2, <1>3, <1>4, <1>5
        DEF Next, Send, GiveUp, GetLock, GoOn, EnterSync, RemoveAccount, WriteVersion, WriteHead,
            Prune, Erase, Drop, AskRemove, Crash, vars, devices

\* What a request brings that its base has not, a request or a device brought before.
LEMMA WhatIsUnderway ==
    ASSUME RInv, [Next]_vars, NEW g \in Handler, NEW x \in Underway(g)'
    PROVE  x \in Unsettled
<1>1. /\ handler'[g].at \in {"sync", "merged", "written"}
      /\ x \in set(handler'[g].local) \ set(Contents(handler'[g].base))
  BY DEF Underway, At
<1>2. \/ /\ handler[g].at \in {"sync", "merged", "written"}
         /\ handler'[g].local = handler[g].local /\ handler'[g].base = handler[g].base
      \/ \E d \in Device : handler'[g].local = file[d] /\ handler'[g].base = base[d]
  BY <1>1, HowGoroutinesMove DEF Moved
<1>3. x \in Underway(g) \/ \E d \in Device : x \in Pending(d)
  BY <1>1, <1>2 DEF Underway, Pending, At
<1> QED BY <1>3 DEF Unsettled

\* What a removal adds to buried, when it reaches HEAD.
Removals == UNION {set(Contents(handler[h].base)) \ set(handler[h].local) :
                      h \in {g \in Handler : Steps(g, "written", "headed")} \ blind}

\* The requests that are merged without the base that they name, in this step.
Losers == {h \in Handler : Steps(h, "sync", "merged") /\ BaseLost(h)}

LEMMA HowBuriedChanges ==
    ASSUME Record
    PROVE  /\ buried' \subseteq buried \cup Removals
           /\ \A x \in buried', d \in Device :
                 edits' # edits /\ x \in set(file'[d]) \ set(file[d]) =>
                    x \in Removals \ Unsettled'
           /\ \A x \in buried', h \in Losers :
                 x \in set(handler[h].local) => x \in Removals \ Unsettled'
           /\ \A x \in buried' : x \in buried \/ x \in Removals \ Unsettled'
           /\ blind' = {h \in blind \cup Losers : At(h, InLock)'}
<1> DEFINE edited == {d \in Device : edits' # edits /\ file'[d] # file[d]}
           came   == UNION {set(file'[d]) \ set(file[d]) : d \in edited}
           back   == UNION {set(handler[h].local) : h \in Losers}
<1>1. /\ buried' = (buried \ (came \cup back)) \cup (Removals \ Unsettled')
      /\ blind' = {h \in blind \cup Losers : At(h, InLock)'}
  BY DEF Record, Removals, Losers
<1>2. ASSUME NEW x, NEW d \in Device, edits' # edits, x \in set(file'[d]) \ set(file[d])
      PROVE  x \in came
  <2>1. file'[d] # file[d]
    BY <1>2
  <2> QED BY <1>2, <2>1
<1>3. ASSUME NEW x, NEW h \in Losers, x \in set(handler[h].local) PROVE x \in back
  BY <1>3
<1> HIDE DEF came, back
<1> QED BY <1>1, <1>2, <1>3

LEMMA BuriedStep ==
    ASSUME RInv, BuriedInv, [HNext]_allVars
    PROVE  BuriedInv'
<1>t. handler \in Goroutines /\ TypeOK /\ LockIsHeld /\ NoLostUpdate
  BY DEF RInv, IInv, TypeOK, Goroutines
<1>n. [Next]_vars
  BY HistoryOfSteps
<1>0. /\ set(<< >>) = {} /\ Contents(NoVersion) = << >>
      /\ \A h \in Handler : Contents(handler[h].merged) = handler[h].merged
  BY <1>t, StoreAssumption DEF set, ToSet, Contents, Goroutines
<1>a. ASSUME NEW h \in Handler, At(h, InLock), NEW g \in Handler, At(g, InLock) PROVE g = h
  BY <1>a, <1>t DEF LockIsHeld
<1>b. ASSUME NEW h \in Handler, At(h, InLock) PROVE lock # Nobody
  <2>1. lock = h
    BY <1>b, <1>t DEF LockIsHeld
  <2> QED BY <2>1, StoreAssumption
<1>l. ASSUME NEW h \in Handler, At(h, {"merged", "written"}), h \notin blind
      PROVE  handler[h].merged =
                merge(Contents(handler[h].base), handler[h].local, Contents(head))
  BY <1>l DEF BuriedInv
<1>x. \A h \in Handler : /\ Contents(handler[h].base) \in Text /\ handler[h].local \in Text
                         /\ handler[h].merged \in Text
  BY <1>t DEF Goroutines, Contents, Name, Text
<1>y. Contents(head) \in Text
  BY <1>t DEF TypeOK, Contents, Name, Text
<1>1. CASE UNCHANGED allVars
  <2>1. /\ handler' = handler /\ file' = file /\ base' = base /\ head' = head
        /\ buried' = buried /\ blind' = blind
    BY <1>1 DEF allVars, vars, disk, devices, history
  <2> QED BY <2>1 DEF BuriedInv, Unsettled, Pending, Underway, At
<1>2. CASE Record
  <2>0. /\ \A x \in buried' : x \in buried \/ x \in Removals \ Unsettled'
        /\ \A x \in buried', d \in Device :
              edits' # edits /\ x \in set(file'[d]) \ set(file[d]) => x \notin Unsettled'
        /\ \A x \in buried', h \in Losers :
              x \in set(handler[h].local) => x \in Removals
        /\ blind' = {h \in blind \cup Losers : At(h, InLock)'}
    BY <1>2, HowBuriedChanges
  <2>r. ASSUME NEW x \in Removals
        PROVE  \E h \in Handler : /\ Steps(h, "written", "headed") /\ h \notin blind
                                  /\ x \in set(Contents(handler[h].base)) \ set(handler[h].local)
    BY DEF Removals
  <2>1. buried' \cap Unsettled' = {}
    <3> SUFFICES ASSUME NEW x \in buried', x \in Unsettled', x \notin Unsettled PROVE FALSE
      BY <2>0 DEF BuriedInv
    <3>1. ASSUME NEW d \in Device, x \in Pending(d)' PROVE FALSE
      <4>1. x \notin Pending(d)
        BY DEF Unsettled
      <4> QED BY <1>n, <2>0, <3>1, <4>1, WhatIsPending
    <3>2. ASSUME NEW h \in Handler, x \in Underway(h)' PROVE FALSE
      BY <1>n, <3>2, WhatIsUnderway
    <3> QED BY <3>1, <3>2 DEF Unsettled
  <2>2. buried' \cap set(Contents(head')) = {}
    <3> SUFFICES ASSUME NEW x \in buried', x \in set(Contents(head')) PROVE FALSE
      OBVIOUS
    <3>1. ASSUME NEW h \in Handler, Steps(h, "written", "headed"), head' = handler[h].merged,
                 x \in Removals
          PROVE  FALSE
      <4>1. PICK g \in Handler : /\ Steps(g, "written", "headed") /\ g \notin blind
                                 /\ x \in set(Contents(handler[g].base)) \ set(handler[g].local)
        BY <2>r, <3>1
      <4>2. g = h
        BY <1>a, <3>1, <4>1 DEF Steps, At, InLock
      <4>3. handler[h].merged = merge(Contents(handler[h].base), handler[h].local, Contents(head))
        BY <1>l, <3>1, <4>1, <4>2 DEF Steps, At
      <4>4. x \in set(handler[h].merged)
        BY <1>0, <3>1
      <4> QED BY <1>x, <1>y, <4>1, <4>2, <4>3, <4>4, ResultLines
    <3>2. ASSUME x \in Removals PROVE \E h \in Handler : Steps(h, "written", "headed") /\ head' = handler[h].merged
      <4>1. PICK h \in Handler : Steps(h, "written", "headed")
        BY <2>r, <3>2
      <4>2. head' = handler[h].merged
        BY <1>n, <4>1, HowGoroutinesMove DEF Moved, Steps, At
      <4> QED BY <4>1, <4>2
    <3>3. x \notin Removals
      BY <3>1, <3>2
    <3>4. x \in buried /\ x \notin set(Contents(head)) /\ x \notin Unsettled
      BY <2>0, <3>3 DEF BuriedInv
    <3>5. PICK h \in Handler : Steps(h, "written", "headed") /\ head' = handler[h].merged
      BY <1>0, <1>n, <3>4, WhoChangesHead
    <3>6. x \in set(handler[h].merged) /\ At(h, {"merged", "written"})
      BY <1>0, <3>5 DEF Steps, At
    <3>7. CASE h \in blind
      <4>1. x \notin set(handler[h].local)
        BY <3>4, <3>6, <3>7 DEF BuriedInv
      <4>2. PICK old \in {<< >>} \cup ({handler[h].base} \ {NoVersion}) :
               handler[h].merged = merge(old, handler[h].local, Contents(head))
        BY <1>t, <3>6 DEF NoLostUpdate
      <4>3. old \in Text
        <5>1. << >> \in Text
          BY DEF Text
        <5>2. handler[h].base \in Text \cup {NoVersion}
          BY <1>t DEF Goroutines, Name
        <5> QED BY <4>2, <5>1, <5>2
      <4> QED BY <1>x, <1>y, <3>4, <3>6, <4>1, <4>2, <4>3, ResultLines
    <3>8. CASE h \notin blind
      <4>1. x \in set(handler[h].local) \ set(Contents(handler[h].base))
        BY <1>l, <1>x, <1>y, <3>4, <3>6, <3>8, NewLines
      <4>2. x \in Underway(h)
        BY <3>6, <4>1 DEF Underway, At
      <4> QED BY <3>4, <4>2 DEF Unsettled
    <3> QED BY <3>7, <3>8
  <2>3. ASSUME NEW h \in Handler, At(h, {"merged", "written"})'
        PROVE  IF h \in blind' THEN buried' \cap set(handler'[h].local) = {}
               ELSE handler'[h].merged =
                       merge(Contents(handler'[h].base), handler'[h].local, Contents(head'))
    <3>0. At(h, InLock)' /\ handler'[h].at \in {"merged", "written"}
      BY <2>3 DEF At, InLock
    <3>1. CASE /\ At(h, {"merged", "written"})
               /\ handler'[h].local = handler[h].local /\ handler'[h].base = handler[h].base
               /\ handler'[h].merged = handler[h].merged
      <4>1. ASSUME NEW g \in Handler, At(g, {"written", "erasing"}) PROVE g = h
        BY <1>a, <3>1, <4>1 DEF At, InLock
      <4>2. \A g \in Handler : ~Steps(g, "written", "headed")
        BY <3>0, <4>1 DEF Steps, At
      <4>3. \A g \in Handler : ~At(g, {"erasing"})
        BY <3>1, <4>1 DEF At
      <4>4. head' = head
        BY <1>n, <4>2, <4>3, WhoChangesHead
      <4>5. buried' \subseteq buried
        BY <2>0, <2>r, <4>2
      <4>6. h \in blind' <=> h \in blind
        BY <2>0, <3>0, <3>1 DEF Losers, Steps, At
      <4> QED BY <3>1, <4>4, <4>5, <4>6 DEF BuriedInv
    <3>2. CASE /\ handler[h].at = "sync" /\ handler'[h].at = "merged"
               /\ lock = Nobody /\ head' = head
               /\ handler'[h].local = handler[h].local /\ handler'[h].base = handler[h].base
               /\ \E b \in {BaseText(handler[h].base), << >>} :
                     handler'[h].merged = merge(b, handler[h].local, Contents(head))
      <4>1. \A g \in Handler : ~At(g, InLock)
        BY <1>b, <3>2
      <4>2. Removals = {}
        BY <2>r, <4>1 DEF Steps, At, InLock
      <4>3. h \notin blind
        BY <4>1 DEF BuriedInv
      <4>4. CASE h \in blind'
        <5>1. h \in Losers
          BY <2>0, <4>3, <4>4
        <5>2. buried' \cap set(handler[h].local) = {}
          BY <2>0, <4>2, <5>1
        <5> QED BY <3>2, <4>4, <5>2
      <4>5. CASE h \notin blind'
        <5>1. ~BaseLost(h)
          BY <2>0, <3>0, <3>2, <4>5 DEF Losers, Steps, At
        <5>2. CASE handler[h].base # NoVersion
          BY <3>2, <4>5, <5>1, <5>2 DEF BaseLost, Contents
        <5>3. CASE handler[h].base = NoVersion
          <6>1. BaseText(handler[h].base) = << >>
            <7>1. NoVersion \notin ToSet(versions)
              BY <1>t, StoreAssumption DEF TypeOK, ToSet
            <7> QED BY <5>3, <7>1 DEF BaseText
          <6> QED BY <1>0, <3>2, <4>5, <5>3, <6>1
        <5> QED BY <5>2, <5>3
      <4> QED BY <4>4, <4>5
    <3> QED BY <1>n, <3>0, <3>1, <3>2, HowGoroutinesMove DEF Moved, At
  <2>4. \A h \in blind' : At(h, InLock)'
    BY <2>0
  <2> QED BY <2>1, <2>2, <2>3, <2>4 DEF BuriedInv
<1> QED BY <1>1, <1>2 DEF HNext

\* A removal that reached the server is not undone by another device, unless that
\* device had the line as an addition of its own, or its base is gone (store.go:385-392).
THEOREM RemovalsLast == HSpec => []DeletedStaysDeleted
<1>1. HInit => Init
  BY DEF HInit
<1>2. HInit => BuriedInv
  BY DEF HInit, Init, Idle, BuriedInv, At
<1>3. RInv /\ BuriedInv /\ [HNext]_allVars => BuriedInv'
  BY BuriedStep
<1>4. BuriedInv => DeletedStaysDeleted
  BY DEF BuriedInv, DeletedStaysDeleted
<1> QED BY <1>1, <1>2, <1>3, <1>4, HistoryOfSteps, RInvariance, PTL DEF HSpec, Spec

=============================================================================
