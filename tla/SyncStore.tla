----------------------------- MODULE SyncStore -----------------------------
(***************************************************************************)
(* How the server keeps the bookmark file of one account the same on each  *)
(* of its devices (Store.sync, Store.read, Store.remove in src/store.go,   *)
(* behind POST /api/sync in src/main.go).                                  *)
(*                                                                         *)
(* The state has three parts.  What is on disk survives a crash: the entry *)
(* of the account in accounts.json, the HEAD file and the version files.   *)
(* A version file is named by the digest of its text, so here its name IS  *)
(* its text.  The memory of the server does not survive: the account in    *)
(* s.accounts, the lock of the account, and a goroutine for each request.  *)
(* The devices are other programs: a device keeps its copy of the file and *)
(* the name of the version that it got last, and asks for a sync with      *)
(* both (main.go:689-692).                                                 *)
(*                                                                         *)
(* A goroutine is a record whose field at says how far it is:              *)
(*    sync -> merged -> written -> headed -> ok | failed | refused         *)
(*    remove -> erasing -> removed | failed                                *)
(* From merged to headed, and while erasing, it holds the lock.            *)
(***************************************************************************)
EXTENDS Merge

CONSTANTS
    Device,        \* the devices of the account
    Web,           \* those that are pages of the web site: they read, then sync
    Handler,       \* goroutines of the server, one for each request it has
    Nobody,        \* no device, or no goroutine
    NoVersion,     \* the version name "": no version yet, or none known
    MaxVersions,   \* maxVersions of store.go
    Faults,        \* the kinds of fault that may happen
    CanRemove,     \* whether the user may delete the account
    MaxEdits,      \* bound: edits of users on their devices
    MaxFaults      \* bound: faults

ASSUME StoreAssumption ==
    /\ Web \subseteq Device
    /\ Nobody \notin Device \cup Handler
    /\ NoVersion \notin Text
    /\ MaxVersions \in Nat \ {0}
    /\ Faults \subseteq {"io", "clock", "crash", "lost"}
    /\ CanRemove \in BOOLEAN
    /\ MaxEdits \in Nat
    /\ MaxFaults \in Nat

VARIABLES
    saved,      \* accounts.json has the account
    head,       \* the version that the file HEAD names
    versions,   \* the version files, the most recent modification time first
    known,      \* s.accounts has the account
    lock,       \* the goroutine that holds s.locks[id]
    handler,    \* the goroutines
    file,       \* on a device: its copy of the bookmark file
    base,       \* on a device: the version that it got last
    asks,       \* on a device: the request that it waits for
    edits,      \* edits so far
    faults      \* faults so far

disk    == <<saved, head, versions>>
devices == <<file, base, asks>>
vars    == <<disk, known, lock, handler, devices, edits, faults>>

Name == Text \cup {NoVersion}

\* The text of a version; no version gives the empty text (head, store.go:411-421).
Contents(v) == IF v = NoVersion THEN << >> ELSE v

InLock   == {"merged", "written", "headed", "erasing"}
Answered == {"ok", "failed", "refused", "removed"}
Idle     == [at |-> "idle", device |-> Nobody, base |-> NoVersion,
             local |-> << >>, merged |-> << >>]

At(h, steps) == handler[h].at \in steps

GoTo(h, step) == handler' = [handler EXCEPT ![h].at = step]

\* Something goes wrong, of a kind that may, and not more than MaxFaults times.
Fault(kind) == /\ kind \in Faults
               /\ faults < MaxFaults
               /\ faults' = faults + 1

Init ==
    /\ saved = TRUE /\ known = TRUE
    /\ head = NoVersion /\ versions = << >>
    /\ lock = Nobody
    /\ handler = [h \in Handler |-> Idle]
    /\ file = [d \in Device |-> << >>]
    /\ base = [d \in Device |-> NoVersion]
    /\ asks = [d \in Device |-> Nobody]
    /\ edits = 0 /\ faults = 0

-----------------------------------------------------------------------------
(***************************************************************************)
(* The devices.                                                            *)
(***************************************************************************)

\* A user adds a line at the end, takes one off, or changes one in its place.
\* The device waits with edits until its sync is over.
Edit(d) ==
    /\ asks[d] = Nobody
    /\ edits < MaxEdits
    /\ edits' = edits + 1
    /\ \/ \E x \in Line \ set(file[d]) : file' = [file EXCEPT ![d] = Append(@, x)]
       \/ \E x \in set(file[d]) : file' = [file EXCEPT ![d] = Keep(@, Line \ {x})]
       \/ \E i \in DOMAIN file[d], x \in Line \ set(file[d]) :
             file' = [file EXCEPT ![d][i] = x]
    /\ UNCHANGED <<disk, known, lock, handler, base, asks, faults>>

\* A device sends its file and its base.  The server knows the token of the
\* device as long as it knows the account (apiUser), and starts a goroutine.
Send(d) ==
    /\ asks[d] = Nobody
    /\ known
    /\ \E h \in Handler :
          /\ At(h, {"idle"})
          /\ handler' = [handler EXCEPT ![h] =
                [at |-> "sync", device |-> d, base |-> base[d],
                 local |-> file[d], merged |-> << >>]]
          /\ asks' = [asks EXCEPT ![d] = h]
    /\ UNCHANGED <<disk, known, lock, file, base, edits, faults>>

\* The device gets the answer: it writes the merged file and takes its name as
\* the next base.  After an error it keeps what it has, to try again.
Receive(d) ==
    LET h == asks[d]
    IN  /\ h # Nobody
        /\ At(h, Answered)
        /\ handler' = [handler EXCEPT ![h] = Idle]
        /\ asks' = [asks EXCEPT ![d] = Nobody]
        /\ IF At(h, {"ok"})
           THEN /\ file' = [file EXCEPT ![d] = handler[h].merged]
                /\ base' = [base EXCEPT ![d] = handler[h].merged]
           ELSE UNCHANGED <<file, base>>
        /\ UNCHANGED <<disk, known, lock, edits, faults>>

\* The connection of the device breaks, or it waits no longer.  The goroutine
\* does not look whether the device is still there.
GiveUp(d) ==
    /\ asks[d] # Nobody
    /\ Fault("lost")
    /\ asks' = [asks EXCEPT ![d] = Nobody]
    /\ UNCHANGED <<disk, known, lock, handler, file, base, edits>>

\* A page of the web site shows the current version and remembers its name
\* (Store.read, under the lock and without effect on the disk).
Fetch(d) ==
    /\ d \in Web
    /\ asks[d] = Nobody
    /\ known
    /\ lock = Nobody
    /\ file' = [file EXCEPT ![d] = Contents(head)]
    /\ base' = [base EXCEPT ![d] = head]
    /\ UNCHANGED <<disk, known, lock, handler, asks, edits, faults>>

-----------------------------------------------------------------------------
(***************************************************************************)
(* Store.sync.                                                             *)
(***************************************************************************)

\* The text of the base, when its file is there and can be read.
BaseText(v) == IF v \in ToSet(versions) THEN v ELSE << >>

\* The goroutine has the lock.  For an account that is gone it gives up;
\* otherwise it reads HEAD and the base and merges.  An error reading HEAD ends
\* the request; an error reading the base makes the base unknown.
Merging(h, old) ==
    /\ lock' = h
    /\ handler' = [handler EXCEPT
          ![h].at = "merged",
          ![h].merged = merge(old, handler[h].local, Contents(head))]

\* Slips that a change of Store.sync could make (see Merge): the HEAD that cannot
\* be read taken for an empty file; no lock; no look whether the account is there.
EnterSyncIgnoresHeadError(h) ==
    /\ At(h, {"sync"}) /\ lock = Nobody /\ known
    /\ \/ Merging(h, BaseText(handler[h].base)) /\ UNCHANGED faults
       \/ /\ Fault("io")
          /\ lock' = h
          /\ handler' = [handler EXCEPT ![h].at = "merged",
                                        ![h].merged = merge(<< >>, handler[h].local, << >>)]
    /\ UNCHANGED <<disk, known, devices, edits>>

EnterSyncUnlocked(h) ==
    /\ At(h, {"sync"})
    /\ IF ~known
       THEN GoTo(h, "refused") /\ UNCHANGED lock
       ELSE Merging(h, BaseText(handler[h].base))
    /\ UNCHANGED <<disk, known, devices, edits, faults>>

EnterSyncUnknown(h) ==
    /\ At(h, {"sync"})
    /\ lock = Nobody
    /\ Merging(h, BaseText(handler[h].base))
    /\ UNCHANGED <<disk, known, devices, edits, faults>>

EnterSync(h) ==
    /\ At(h, {"sync"})
    /\ lock = Nobody
    /\ IF ~known
       THEN GoTo(h, "refused") /\ UNCHANGED <<lock, faults>>
       ELSE \/ Merging(h, BaseText(handler[h].base)) /\ UNCHANGED faults
            \/ Merging(h, << >>) /\ Fault("io")
            \/ GoTo(h, "failed") /\ Fault("io") /\ UNCHANGED lock
    /\ UNCHANGED <<disk, known, devices, edits>>

\* An error of the file system: the goroutine lets the lock go and answers 500.
FailLocked(h) ==
    /\ Fault("io")
    /\ GoTo(h, "failed")
    /\ lock' = Nobody

\* The slip: a version that is there already keeps its old time.
WriteVersionKeepsTime(h) ==
    /\ At(h, {"merged"})
    /\ versions' = IF handler[h].merged \in ToSet(versions) THEN versions
                   ELSE <<handler[h].merged>> \o versions
    /\ GoTo(h, "written")
    /\ UNCHANGED <<saved, head, lock, known, devices, edits, faults>>

\* The version is written, or its time set to now when its file is there: it is
\* the most recent one, unless the clock went back.
WriteVersion(h) ==
    LET new    == handler[h].merged
        others == Keep(versions, ToSet(versions) \ {new})
    IN  /\ At(h, {"merged"})
        /\ \/ /\ versions' = <<new>> \o others
              /\ GoTo(h, "written")
              /\ UNCHANGED <<lock, faults>>
           \/ /\ \E i \in 2..(Len(others) + 1) :
                    versions' = InsertAt(others, i, new)
              /\ GoTo(h, "written")
              /\ Fault("clock")
              /\ UNCHANGED lock
           \/ FailLocked(h) /\ UNCHANGED versions
        /\ UNCHANGED <<saved, head, known, devices, edits>>

WriteHead(h) ==
    /\ At(h, {"written"})
    /\ \/ /\ head' = handler[h].merged
          /\ GoTo(h, "headed")
          /\ UNCHANGED <<lock, faults>>
       \/ FailLocked(h) /\ UNCHANGED head
    /\ UNCHANGED <<saved, versions, known, devices, edits>>

\* The slips: the current version counts like any other; one version too many is
\* left; one too few.
DoomedMayBeCurrent(keep) == SubSeq(versions, MaxVersions + 1, Len(versions))

DoomedLeavesOneMore(keep) ==
    LET others == Keep(versions, ToSet(versions) \ {keep})
    IN  SubSeq(others, MaxVersions + 1, Len(others))

DoomedLeavesOneLess(keep) ==
    LET others == Keep(versions, ToSet(versions) \ {keep})
    IN  SubSeq(others, MaxVersions - 1, Len(others))

\* The versions that prune deletes: all but the newest, and never keep.
Doomed(keep) ==
    LET others == Keep(versions, ToSet(versions) \ {keep})
    IN  SubSeq(others, MaxVersions, Len(others))

\* One file goes, or none is left to go.  An error ends the request with an
\* error, though the new version is current.
Prune(h) ==
    LET doomed == Doomed(handler[h].merged)
    IN  /\ At(h, {"headed"})
        /\ \/ /\ doomed # << >>
              /\ versions' = Keep(versions, ToSet(versions) \ {Head(doomed)})
              /\ UNCHANGED <<handler, lock, faults>>
           \/ /\ doomed = << >>
              /\ GoTo(h, "ok")
              /\ lock' = Nobody
              /\ UNCHANGED <<versions, faults>>
           \/ FailLocked(h) /\ UNCHANGED versions
        /\ UNCHANGED <<saved, head, known, devices, edits>>

-----------------------------------------------------------------------------
(***************************************************************************)
(* Store.remove.                                                           *)
(***************************************************************************)

\* The user asks to delete the account on the web site, which knows it.
AskRemove ==
    /\ CanRemove
    /\ known
    /\ \E h \in Handler :
          /\ At(h, {"idle"})
          /\ handler' = [handler EXCEPT ![h] = [Idle EXCEPT !.at = "remove"]]
    /\ UNCHANGED <<disk, known, lock, devices, edits, faults>>

\* The account leaves memory, then accounts.json.  When accounts.json cannot be
\* written, it is gone from memory all the same, and its files stay.
RemoveAccount(h) ==
    /\ At(h, {"remove"})
    /\ lock = Nobody
    /\ known' = FALSE
    /\ \/ /\ saved' = FALSE
          /\ GoTo(h, "erasing")
          /\ lock' = h
          /\ UNCHANGED faults
       \/ /\ Fault("io")
          /\ GoTo(h, "failed")
          /\ UNCHANGED <<saved, lock>>
    /\ UNCHANGED <<head, versions, devices, edits>>

\* os.RemoveAll takes the files one by one, in the order of the directory.
Erase(h) ==
    /\ At(h, {"erasing"})
    /\ \/ /\ head # NoVersion
          /\ head' = NoVersion
          /\ UNCHANGED <<versions, handler, lock, faults>>
       \/ /\ \E v \in ToSet(versions) :
                versions' = Keep(versions, ToSet(versions) \ {v})
          /\ UNCHANGED <<head, handler, lock, faults>>
       \/ /\ head = NoVersion /\ versions = << >>
          /\ GoTo(h, "removed")
          /\ lock' = Nobody
          /\ UNCHANGED <<head, versions, faults>>
       \/ FailLocked(h) /\ UNCHANGED <<head, versions>>
    /\ UNCHANGED <<saved, known, devices, edits>>

-----------------------------------------------------------------------------
\* A goroutine that nobody waits for ends.
Drop(h) ==
    /\ At(h, Answered)
    /\ \A d \in Device : asks[d] # h
    /\ handler' = [handler EXCEPT ![h] = Idle]
    /\ UNCHANGED <<disk, known, lock, devices, edits, faults>>

\* The server dies and starts again with what accounts.json holds.
Crash ==
    /\ Fault("crash")
    /\ handler' = [h \in Handler |-> Idle]
    /\ lock' = Nobody
    /\ asks' = [d \in Device |-> Nobody]
    /\ known' = saved
    /\ UNCHANGED <<disk, file, base, edits>>

GetLock(h) == EnterSync(h) \/ RemoveAccount(h)

GoOn(h) == WriteVersion(h) \/ WriteHead(h) \/ Prune(h) \/ Erase(h) \/ Drop(h)

Next == \/ \E d \in Device : Edit(d) \/ Send(d) \/ Receive(d) \/ GiveUp(d) \/ Fetch(d)
        \/ \E h \in Handler : GetLock(h) \/ GoOn(h)
        \/ AskRemove
        \/ Crash

Spec == Init /\ [][Next]_vars

\* Goroutines run, and sync.Mutex lets each of those that wait have the lock in
\* the end (its starvation mode); a device sends again and again, finds a free
\* goroutine, and takes the answer.
Fairness ==
    /\ \A h \in Handler : SF_vars(GetLock(h)) /\ WF_vars(GoOn(h))
    /\ \A d \in Device : SF_vars(Send(d)) /\ WF_vars(Receive(d))

FairSpec == Spec /\ Fairness

-----------------------------------------------------------------------------
Step == {"idle", "sync", "merged", "written", "headed", "ok", "failed",
         "refused", "remove", "erasing", "removed"}

\* The types of the variables.
TypeOK ==
    /\ saved \in BOOLEAN /\ known \in BOOLEAN
    /\ head \in Name
    /\ versions \in Seq(Text)
    /\ lock \in Handler \cup {Nobody}
    /\ handler \in [Handler -> [at : Step, device : Device \cup {Nobody},
                                base : Name, local : Text, merged : Text]]
    /\ file \in [Device -> Text]
    /\ base \in [Device -> Name]
    /\ asks \in [Device -> Handler \cup {Nobody}]
    /\ edits \in 0..MaxEdits
    /\ faults \in 0..MaxFaults

\* HEAD never names a version that is not on disk, whatever step an error or a
\* crash stops, and whatever the clock does to the order in which prune deletes:
\* otherwise every later sync of the account fails (head, store.go:409-421).
HeadExists == saved => head = NoVersion \/ head \in ToSet(versions)

\* What a goroutine merged is on disk before HEAD names it, and the account is
\* there all the time from its merge to its answer (store.go:370-406).
MergeIsSafe ==
    \A h \in Handler :
        /\ At(h, {"merged", "written", "headed"}) => known /\ saved
        /\ At(h, {"written", "headed"}) => handler[h].merged \in ToSet(versions)
        /\ At(h, {"headed"}) => head = handler[h].merged

\* What a goroutine is about to make current was merged with the file that is
\* current: no other sync is overwritten (store.go:371-373 and 381-405).
NoLostUpdate ==
    \A h \in Handler :
        At(h, {"merged", "written"}) =>
            \E old \in {<< >>} \cup ({handler[h].base} \ {NoVersion}) :
                handler[h].merged = merge(old, handler[h].local, Contents(head))

\* The lock is held by the one goroutine that works on the files, and by none
\* after an error (store.go:346-348 and 371-373).
LockIsHeld == \A h \in Handler : lock = h <=> At(h, InLock)

\* When a sync succeeds, at most MaxVersions versions are left, also when earlier
\* syncs stopped before or in their prune (store.go:440-468).
SuccessBoundsVersions ==
    [][\A h \in Handler : At(h, {"headed"}) /\ At(h, {"ok"})' =>
           Len(versions') <= MaxVersions]_vars

\* When accounts.json has the account no longer, no file of it comes back,
\* whatever syncs wait for the lock or had it before (store.go:345-365, 374-376).
NothingAfterRemoval ==
    [][~saved => /\ head' \in {head, NoVersion}
                 /\ ToSet(versions') \subseteq ToSet(versions)]_vars

\* Goroutine h goes from one step to another.
Steps(h, from, to) == At(h, {from}) /\ At(h, {to})'

\* A request whose base has no file any more, or cannot be read, brings in all of
\* its lines.
BaseLost(h) == handler[h].base # NoVersion /\ handler'[h].merged #
                  merge(handler[h].base, handler[h].local, Contents(head))

\* No device has anything to tell: each has the file of the server, or what it got from
\* it; so has each request, also one that its device waits for no longer.
NoNews ==
    /\ \A d \in Device : file[d] \in {Contents(head), Contents(base[d])}
    /\ \A h \in Handler :
          /\ At(h, {"sync"}) =>
                handler[h].local \in {Contents(head), Contents(handler[h].base)}
          /\ At(h, {"merged", "written"}) => handler[h].merged = Contents(head)

\* Once no device has anything to tell, no sync changes the file of the server, however
\* far behind its device is, however often it asks and whatever fails, and none makes a
\* device have something to tell again; but for edits, and for a device that is behind
\* and whose base is gone.  So devices do not answer each other's merges for ever, and
\* what is agreed on stays (merge.go:58-67 and 104-107, store.go:381-405).
NoNewsLasts ==
    [][NoNews /\ edits' = edits /\ known'
         /\ (\A h \in Handler : ~(Steps(h, "sync", "merged") /\ BaseLost(h)))
       => NoNews' /\ Contents(head') = Contents(head)]_vars

\* When the users stop editing, all devices end with the file of the server, and
\* stay with it, as long as the account is there (main.go:1-8).
Converges == <>[](known => \A d \in Device : file[d] = Contents(head))

=============================================================================
