---------------------------- MODULE SyncHistory ----------------------------
(***************************************************************************)
(* SyncStore with a record of what the users did, for the properties that  *)
(* relate the file of the server to the edits that once led to it.  The    *)
(* record reads the state of SyncStore and never changes it.               *)
(***************************************************************************)
EXTENDS SyncStore

VARIABLES
    put,       \* lines that a user put into a file
    taken,     \* lines that a user took off a file, or changed
    seen,      \* lines that the file of the server had
    buried,    \* lines whose removal reached the server
    blind,     \* requests that were merged without the base they name
    recent     \* the versions that the server wrote, the last one first

history == <<put, taken, seen, buried, blind, recent>>

allVars == <<vars, history>>

HInit == /\ Init
         /\ put = {} /\ taken = {} /\ seen = {} /\ buried = {} /\ blind = {}
         /\ recent = << >>

\* Lines that device d has and its base has not: the server may not know them.
Pending(d) == set(file[d]) \ set(Contents(base[d]))

\* The same for a request that has yet to take effect.
Underway(h) == IF At(h, {"sync", "merged", "written"})
               THEN set(handler[h].local) \ set(Contents(handler[h].base))
               ELSE {}

Unsettled == UNION ({Pending(d) : d \in Device} \cup {Underway(h) : h \in Handler})

Record ==
    LET edited == {d \in Device : edits' # edits /\ file'[d] # file[d]}
        came   == UNION {set(file'[d]) \ set(file[d]) : d \in edited}
        went   == UNION {set(file[d]) \ set(file'[d]) : d \in edited}
        wrote  == {h \in Handler : Steps(h, "merged", "written")}
        headed == {h \in Handler : Steps(h, "written", "headed")}
        lost   == {h \in Handler : Steps(h, "sync", "merged") /\ BaseLost(h)}
        again  == UNION {set(handler[h].local) : h \in lost}
        off    == UNION {set(Contents(handler[h].base)) \ set(handler[h].local) :
                            h \in headed \ blind}
    IN  /\ put' = put \cup came
        /\ taken' = taken \cup went
        /\ seen' = seen \cup set(Contents(head'))
        /\ buried' = (buried \ (came \cup again)) \cup (off \ Unsettled')
        /\ blind' = {h \in blind \cup lost : At(h, InLock)'}
        /\ recent' = IF wrote = {} THEN recent
                     ELSE LET new == handler[CHOOSE h \in wrote : TRUE].merged
                          IN  <<new>> \o Keep(recent, ToSet(recent) \ {new})

HNext == Next /\ Record

HSpec == HInit /\ [][HNext]_allVars

-----------------------------------------------------------------------------
\* A line that the server had is there as long as no user took it off and no user
\* put in another line for its page: neither a conflict, nor a lost answer, nor
\* a crash, nor a base that was pruned makes a bookmark disappear (store.go:367-407).
NoSilentLoss ==
    known => \A x \in seen :
                \/ x \in set(Contents(head))
                \/ x \in taken
                \/ \E y \in put \ {x} : key[y] = key[x] /\ key[y] # NoPage

\* A line whose removal reached the server stays away, unless a user puts it in
\* again, or a device still had it as an addition of its own, or a device syncs
\* from a base that the server has no longer (store.go:385-392).
DeletedStaysDeleted == buried \cap set(Contents(head)) = {}

\* The versions that were written last are there, each time one is written again
\* counts: a device that is behind by less than MaxVersions versions never has
\* its base pruned (store.go:393-402 and 440-468).
RecentVersionsKept ==
    saved => \A i \in 1..Len(recent) :
                i <= MaxVersions => recent[i] \in ToSet(versions)

=============================================================================
