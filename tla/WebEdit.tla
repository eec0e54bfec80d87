------------------------------ MODULE WebEdit ------------------------------
(***************************************************************************)
(* The bookmark pages of the web site (src/bookmarks.go:473-725), beside   *)
(* the devices of the account.                                             *)
(*                                                                         *)
(* A form names a line by the version that its page showed and the number  *)
(* of the line.  The handler reads that line, reads the file as it is now, *)
(* makes the change in that, and syncs the result with what it read for    *)
(* the base.  Each of the three takes the lock of the account for itself,  *)
(* so devices and other forms sync in between.                             *)
(*                                                                         *)
(* read and sync of the Store are one step each, as SharedFile promises.   *)
(* The name of a version is its text; no version, which the code names "", *)
(* has the empty text, which is what merge takes for it.                   *)
(***************************************************************************)
EXTENDS Merge

CONSTANTS
    Handler,      \* goroutines of the server that work on a form
    MaxVersions,  \* maxVersions of store.go
    Files,        \* what devices, and users of the whole file, make of it
    Rows          \* what users add

ASSUME WebEditAssumption == /\ MaxVersions \in Nat \ {0}
                            /\ Files \subseteq Text
                            /\ Rows \subseteq Text

VARIABLES
    versions,   \* the versions of the file, the newest first, which HEAD names
    form        \* the goroutines

vars == <<versions, form>>

\* The file as it is now.
text == IF versions = << >> THEN << >> ELSE versions[1]

\* The text of version v, or none when it was pruned or never was.
Base(v) == IF v \in ToSet(versions) THEN v ELSE << >>

Bookmark == {x \in Line : key[x] # NoPage}

\* A goroutine has the line that the page showed (old), the lines that the form
\* puts in (new), the file that it read (read) and what it made of it (out).
Idle == [at |-> "idle", old |-> NoLine, new |-> << >>, read |-> << >>, out |-> << >>]

At(h, step) == form[h].at = step

Free(h) == At(h, "idle") \/ At(h, "done")

Init == versions = << >> /\ form = [h \in Handler |-> Idle]

\* What Store.sync leaves: merged comes to the front, and what is more than
\* MaxVersions goes.
Put(merged) ==
    LET all == <<merged>> \o Keep(versions, ToSet(versions) \ {merged})
    IN  versions' = SubSeq(all, 1, IF Len(all) < MaxVersions THEN Len(all) ELSE MaxVersions)

-----------------------------------------------------------------------------
\* A device syncs its file, or a user saves the page that has the whole file
\* (saveFile): v is the version that it got.
SyncFile(v, file) ==
    /\ Put(merge(Base(v), file, text))
    /\ UNCHANGED form

\* The rows that are bookmarks, new to the file and among themselves.  A row has the
\* form of a line: what an import has behind the third field is cut off before.
mergeRows(file, rows) ==
    LET fresh(i) == /\ key[rows[i]] # NoPage
                    /\ \A y \in set(file) : key[y] # key[rows[i]]
                    /\ \A j \in 1..(i - 1) : key[rows[j]] # key[rows[i]]
    IN  Keep([i \in DOMAIN rows |-> IF fresh(i) THEN rows[i] ELSE NoLine], Line)

\* The user adds a bookmark, or the bookmarks of a file (addBookmark, importFile).
\* Those that are there are skipped, or refused when it is one.
Add(h, rows) ==
    LET add == mergeRows(text, rows)
    IN  /\ Free(h)
        /\ add # << >>
        /\ form' = [form EXCEPT ![h] =
              [at |-> "sync", old |-> NoLine, new |-> add, read |-> text, out |-> text \o add]]
        /\ UNCHANGED versions

\* The user saves line i of version v as the one line of new, or deletes it, when
\* new has none.  When the version is gone, nothing happens (lineAt).
saveBookmark(h, v, i, new) ==
    /\ Free(h)
    /\ v \in ToSet(versions) /\ i \in DOMAIN v /\ v[i] \in Bookmark
    /\ form' = [form EXCEPT ![h] = [Idle EXCEPT !.at = "look", !.old = v[i], !.new = new]]
    /\ UNCHANGED versions

\* file with new in the place of old, and without further lines like it.
Replaced(file, old, new) ==
    LET at == SelectInSeq(file, LAMBDA x : x = old)
    IN  SubSeq(file, 1, at - 1) \o new
           \o Keep(SubSeq(file, at + 1, Len(file)), Line \ {old})

\* The slip: the other bookmarks are not looked at.
NoConflict(h) == FALSE

\* Another bookmark has the page that the edit gives to this one.
Conflict(h) ==
    \E x \in set(form[h].new), y \in set(text) :
        key[x] # key[form[h].old] /\ key[y] = key[x]

\* The handler reads the file.  When another bookmark has the URL, or the line is
\* not in the file any more, nothing changes.
Look(h) ==
    /\ At(h, "look")
    /\ IF Conflict(h) \/ form[h].old \notin set(text)
       THEN form' = [form EXCEPT ![h] = Idle]
       ELSE form' = [form EXCEPT ![h].at = "sync", ![h].read = text,
                        ![h].out = Replaced(text, form[h].old, form[h].new)]
    /\ UNCHANGED versions

Done(h) == form' = [form EXCEPT ![h] = [Idle EXCEPT !.at = "done"]]

\* The slip: the sync has no base.
SyncWithoutBase(h) ==
    /\ At(h, "sync")
    /\ Put(merge(<< >>, form[h].out, text))
    /\ Done(h) \/ form' = [form EXCEPT ![h] = Idle]

\* The slip: the file is written as it was made, without a merge.
SyncOverwrites(h) ==
    /\ At(h, "sync")
    /\ Put(form[h].out)
    /\ Done(h) \/ form' = [form EXCEPT ![h] = Idle]

\* The user is told that it is done, or that it failed, when the error came after
\* HEAD was written.
Sync(h) ==
    /\ At(h, "sync")
    /\ Put(merge(Base(form[h].read), form[h].out, text))
    /\ Done(h) \/ form' = [form EXCEPT ![h] = Idle]

\* A file cannot be read or written, the account is gone, or the server dies.
Fail(h) ==
    /\ ~Free(h)
    /\ form' = [form EXCEPT ![h] = Idle]
    /\ UNCHANGED versions

Next ==
    \/ \E v \in ToSet(versions) \cup {<< >>}, file \in Files : SyncFile(v, file)
    \/ \E h \in Handler :
          \/ \E rows \in Rows : Add(h, rows)
          \/ \E v \in ToSet(versions) : \E i \in DOMAIN v :
                \E new \in {<< >>} \cup {<<x>> : x \in Bookmark} : saveBookmark(h, v, i, new)
          \/ Look(h) \/ Sync(h) \/ Fail(h)

Spec == Init /\ [][Next]_vars

-----------------------------------------------------------------------------
Form == [at   : {"idle", "look", "sync", "done"},
         old  : Line \cup {NoLine},
         new  : Text,
         read : Text,
         out  : Text]

\* The types of the variables; no file has more than MaxVersions versions
\* (store.go:24).
TypeOK ==
    /\ versions \in Seq(Text) /\ Len(versions) <= MaxVersions
    /\ form \in [Handler -> Form]

\* The user of h is told that the change is done, and what the handler read is a
\* version still: there were fewer than MaxVersions syncs since.
Saved(h) ==
    /\ At(h, "sync") /\ form'[h].at = "done"
    /\ form[h].read \in ToSet(versions) \cup {<< >>}

\* A form changes nothing but what it shows, whatever other devices synced since
\* the page was made and while the handler works: the line that the user saw goes,
\* the lines of the form come, and a line that a device put in since the handler
\* read the file goes only for a new line of the same page (bookmarks.go:532-621,
\* 473-506, 684-725; "nothing changes", line 554).
OnlyWhatTheFormSays ==
    [][\A h \in Handler : Saved(h) =>
          LET gone == set(text) \ set(text')
              come == set(text') \ set(text)
          IN  /\ come \subseteq set(form[h].new)
              /\ \A x \in gone \ {form[h].old} :
                    x \notin set(form[h].read) /\ \E y \in come : key[y] = key[x]]_vars

\* What the user is told is done is done: the line that the user saw is gone, also
\* when a device sent it again in the meantime, and the new lines are there, unless
\* they were before (bookmarks.go:616-620).
ToldIsDone ==
    [][\A h \in Handler : Saved(h) =>
          /\ form[h].old \in set(form[h].new) \/ form[h].old \notin set(text')
          /\ set(form[h].new) \ set(form[h].read) \subseteq set(text')]_vars

\* No page has two bookmarks, when devices do not make them (bm refuses that):
\* what the handlers refuse or skip, they refuse for the file that they read, and
\* the merge does it for what was synced since (bookmarks.go:473-474, 593-598).
OneBookmarkPerPage == \A v \in ToSet(versions) : OnePerPage(v)

=============================================================================
