------------------------------- MODULE Digest -------------------------------
(***************************************************************************)
(* The feed job of one account and its daily mail (feedAccount and digest  *)
(* in src/feedjob.go), beside the server, which changes feeds.txt and      *)
(* accounts.json while the job runs (src/feed.go).                         *)
(*                                                                         *)
(* The job is a process of its own.  It reads accounts.json when it starts *)
(* and feeds.txt when the account's turn comes, and works with those to    *)
(* its end.  Its files survive it: an item file for each feed; mailed, the *)
(* items that it sent or noted; known, the feeds whose items it noted; and *)
(* digest, the time of the last mail.  Each step is one change of those    *)
(* files, or the mail: a crash or an error can stop the job between any    *)
(* two.                                                                    *)
(*                                                                         *)
(* A feed has the item file of its name, or of the part of it that a file  *)
(* can have: other names can give the same.  When a feed before it in      *)
(* feeds.txt has that file, the file gets a number, too (parseFeeds).  So  *)
(* a feed can change its file, or take another's, when that one is left.   *)
(***************************************************************************)
EXTENDS Naturals, SequencesExt

CONSTANTS
    Url,         \* the addresses of feeds
    Name,        \* the names that users give to feeds
    Stem,        \* what the names give to files, without the numbers at the end
    BaseOf,      \* the base of the file name that each name gives
    Lines,       \* the lines that users put into feeds.txt
    None,        \* no key, and no feed
    FirstToo,    \* whether old has what feeds had at the first digest, too
    Faults,      \* the kinds of fault that may happen
    MaxItems,    \* bound: items that each feed ever has
    MaxChanges,  \* bound: changes of the feeds and the settings
    MaxFaults    \* bound: faults

ASSUME DigestAssumption ==
    /\ IsFiniteSet(Url)
    /\ Lines \subseteq [url : Url, name : Name]
    /\ BaseOf \in [Name -> Seq(Stem \cup Nat)]
    /\ FirstToo \in BOOLEAN
    /\ Faults \subseteq {"io", "mail", "crash"}
    /\ MaxItems \in [Url -> Nat] /\ MaxChanges \in Nat /\ MaxFaults \in Nat

VARIABLES
    feeds,      \* feeds.txt, or the default feeds while there is none
    mode,       \* accounts.json: the user wants a digest, or none, or the
                \* account is not active or not confirmed
    dir,        \* the account has a directory for its feeds
    published,  \* how many items each feed has had on the web
    items,      \* the item files
    mailed,     \* the file mailed
    known,      \* the file known
    due,        \* the file digest is a day old, or is not there
    job,        \* the job: how far it is, and what it read
    inbox,      \* how many mails with each item the user got
    today,      \* the mails since the last day began
    noted,      \* the keys that were put into mailed without a mail
    old,        \* the keys of what a feed had when a digest met it, with none of its items in its file
    changes,    \* changes so far
    faults      \* faults so far

site   == <<feeds, mode, published, changes>>
files  == <<dir, items, mailed, known, due>>
record == <<inbox, today, noted, old>>
vars   == <<site, files, job, record, faults>>

Item == UNION {{u} \X (1..MaxItems[u]) : u \in Url}

\* The letters, digits, dots, dashes and underscores of a name, or "feed".  Of such a base
\* the model has the numbers at its end: that of the name "n-2" is n and 2.
fileName(name) == BaseOf[name]

\* The i-th file that is tried for a feed: its base, then that with 2, 3 and so on.
Numbered(base, i) == IF i = 1 THEN base ELSE Append(base, i)

Tries(name) == {Numbered(fileName(name), i) : i \in 1..Cardinality(Url)}

File == UNION {Tries(name) : name \in Name}

\* What the file known has for a feed.
Feed == [url : Url, file : File]

\* The key of an item has the name of its file.
Key == [file : File, item : Item]

\* What stands for the files mailed and known where they are not there.
NoFile == {None}

ASSUME NoneAssumption == None \notin Key /\ None \notin Feed

\* The slip: the file of a name is taken without a look at those that are used.
FreeOrNot(name, used) == fileName(name)

\* The first of the files of a name that is not used.
Free(name, used) ==
    Numbered(fileName(name),
        CHOOSE i \in 1..Cardinality(Url) :
            /\ Numbered(fileName(name), i) \notin used
            /\ \A j \in 1..(i - 1) : Numbered(fileName(name), j) \in used)

FilesOf(fs) == {f.file : f \in fs}

\* The feeds of feeds.txt, each with a file that no feed before it has.
parseFeeds(list) ==
    LET parsed[i \in 0..Len(list)] ==
            IF i = 0 THEN {}
            ELSE parsed[i - 1] \cup
                 {[url |-> list[i].url, file |-> Free(list[i].name, FilesOf(parsed[i - 1]))]}
    IN  parsed[Len(list)]

\* What a feed gives to a fetch.
Published(f) == {x \in Item : x[1] = f.url /\ x[2] <= published[f.url]}

\* The keys of the items in the files of the feeds fs.
keys(fs) == UNION {{[file |-> f.file, item |-> x] : x \in items[f.file]} : f \in fs}

Idle == [at |-> "idle", mode |-> "digest", feeds |-> {}, up |-> {}]

Init ==
    /\ feeds \in {<< >>} \cup {<<l>> : l \in Lines}
    /\ mode = "digest" /\ dir = FALSE
    /\ published = [u \in Url |-> 0]
    /\ items = [f \in File |-> {}]
    /\ mailed = NoFile /\ known = NoFile /\ due = TRUE
    /\ job = Idle
    /\ inbox = [x \in Item |-> 0] /\ today = 0
    /\ noted = {} /\ old = {}
    /\ changes = 0 /\ faults = 0

-----------------------------------------------------------------------------
(***************************************************************************)
(* The user at the server, the web, and the time.                          *)
(***************************************************************************)

Changing == changes < MaxChanges /\ changes' = changes + 1

\* followFeed, followFeeds: a feed that is followed already is not added.
Follow(l) ==
    /\ Changing
    /\ \A i \in DOMAIN feeds : feeds[i].url # l.url
    /\ feeds' = Append(feeds, l) /\ dir' = TRUE
    /\ UNCHANGED <<mode, published, items, mailed, known, due, job, record, faults>>

unfollowFeed(url) ==
    /\ Changing
    /\ \/ \E i \in DOMAIN feeds : feeds[i].url = url /\ feeds' = RemoveAt(feeds, i)
       \/ (\A i \in DOMAIN feeds : feeds[i].url # url) /\ UNCHANGED feeds
    /\ dir' = TRUE
    /\ UNCHANGED <<mode, published, items, mailed, known, due, job, record, faults>>

\* saveFeedSettings; the account's status and its confirmation change elsewhere.
SetMode(m) ==
    /\ Changing
    /\ mode' = m /\ m # mode
    /\ UNCHANGED <<feeds, published, files, job, record, faults>>

Publish(url) ==
    /\ published[url] < MaxItems[url]
    /\ published' = [published EXCEPT ![url] = @ + 1]
    /\ UNCHANGED <<feeds, mode, changes, files, job, record, faults>>

\* digestEvery passes.
Day ==
    /\ due' = TRUE /\ today' = 0
    /\ UNCHANGED <<site, dir, items, mailed, known, job, inbox, noted, old, faults>>

-----------------------------------------------------------------------------
(***************************************************************************)
(* The job (feedAccount).                                                  *)
(***************************************************************************)

At(step) == job.at = step
GoTo(step) == job' = [job EXCEPT !.at = step]
End == job' = Idle

Fault(kind) == /\ kind \in Faults
               /\ faults < MaxFaults
               /\ faults' = faults + 1

\* A file or a directory cannot be read or written: the job is done with the account.
Fails == Fault("io") /\ End

\* The timer starts the job, which reads accounts.json.
Start ==
    /\ At("idle")
    /\ job' = [Idle EXCEPT !.at = "turn", !.mode = mode]
    /\ UNCHANGED <<site, files, record, faults>>

\* feeds.txt, and which hosts resolve (up).  An account without such a feed that never
\* used feeds is left alone, but for one that lets the job look for feeds (Explore).
Turn(up) ==
    /\ At("turn")
    /\ \/ /\ job' = [job EXCEPT !.at = "fetch", !.feeds = parseFeeds(feeds), !.up = up]
          /\ dir' = TRUE /\ UNCHANGED faults
       \/ up = {} /\ ~dir /\ End /\ UNCHANGED <<dir, faults>>
       \/ up = {} /\ Fails /\ UNCHANGED dir
    /\ UNCHANGED <<site, items, mailed, known, due, record>>

\* Without the file mailed, a digest runs for the first time.
First == mailed = NoFile

\* The feeds that are new to the digest.  Without the file known, none is.
Unknown == IF known = NoFile THEN {} ELSE job.feeds \ known

\* The keys that the items of a feed have.
PublishedKeys(f) == {[file |-> f.file, item |-> x] : x \in Published(f)}

\* sfeed_update adds what it can fetch to the item files.
Update(ok) ==
    /\ items' = [file \in File |->
           items[file] \cup UNION {Published(f) : f \in {f \in ok : f.file = file}}]
    /\ LET new == {f \in IF First THEN job.feeds ELSE Unknown :
                       \A x \in items[f.file] : x[1] # f.url} IN
       old' = IF job.mode # "digest" \/ (First /\ ~FirstToo) THEN old
              ELSE old \cup UNION {PublishedKeys(f) : f \in new}

\* The slip: curl asks for what is newer than the file also when that is empty.
FetchSkipsEmpty(ok) ==
    /\ At("fetch") /\ GoTo("clean")
    /\ Update({f \in ok : items[f.file] # {}})
    /\ UNCHANGED <<site, dir, mailed, known, due, inbox, today, noted, faults>>

\* Any feed can fail.
Fetch(ok) ==
    /\ At("fetch")
    /\ \/ Update(ok) /\ GoTo("clean") /\ UNCHANGED faults
       \/ ok = {} /\ job.up # {} /\ Fails /\ UNCHANGED <<items, old>>
    /\ UNCHANGED <<site, dir, mailed, known, due, inbox, today, noted>>

\* The item files of no feed, or of one whose host did not resolve.
Stale == {file \in File : items[file] # {} /\ file \notin FilesOf(job.up)}

Sweep(left) ==
    items' = [file \in File |-> IF file \in left \cup FilesOf(job.up) THEN items[file] ELSE {}]

\* From here on, it does not matter which hosts resolve.
GoOnTo(step) == job' = [job EXCEPT !.at = step, !.up = {}]

\* They go one by one, but for those in left: that a file cannot be removed is not looked
\* at, and the job goes on; or it dies before them.
Clean(left) ==
    /\ At("clean")
    /\ \/ /\ Sweep(left)
          /\ IF left = {} THEN UNCHANGED faults ELSE Fault("io")
          /\ \/ job.mode = "nomail" /\ GoOnTo("forget")
             \/ job.mode = "lapsed" /\ End
             \/ job.mode = "digest" /\ GoOnTo(IF First THEN "first" ELSE "note")
       \/ left # {} /\ Sweep(left) /\ Fault("crash") /\ End
       \/ left = {} /\ Fails /\ UNCHANGED items
    /\ UNCHANGED <<site, dir, mailed, known, due, record>>

\* The user wants no mail: mailed, digest and known go, one after the other, and again an
\* error is not looked at.  Without mailed, what the user got does not count any more: a
\* later digest starts anew.  Without known, it takes all followed feeds as known
\* (feedjob.go:347-348).
Forget ==
    /\ \/ /\ At("forget") /\ GoTo("unstamp")
          /\ \/ /\ mailed' = NoFile
                /\ inbox' = [x \in Item |-> 0] /\ noted' = {} /\ old' = {}
                /\ UNCHANGED faults
             \/ Fault("io") /\ UNCHANGED <<mailed, inbox, noted, old>>
          /\ UNCHANGED <<known, due>>
       \/ /\ At("unstamp") /\ GoTo("unknow")
          /\ \/ due' = TRUE /\ UNCHANGED faults
             \/ Fault("io") /\ UNCHANGED due
          /\ UNCHANGED <<mailed, known, inbox, noted, old>>
       \/ /\ At("unknow") /\ End
          /\ \/ known' = NoFile /\ old' = {} /\ UNCHANGED faults
             \/ Fault("io") /\ UNCHANGED <<known, old>>
          /\ UNCHANGED <<mailed, due, inbox, noted>>
    /\ UNCHANGED <<site, dir, items, today>>

-----------------------------------------------------------------------------
(***************************************************************************)
(* The digest.  It reads its files once, at its start; no other process    *)
(* writes them, so the steps below read them anew.                         *)
(***************************************************************************)

\* The first run sends nothing, notes the items it has, and knows all feeds.
FirstDigest ==
    /\ \/ /\ At("first")
          /\ \/ /\ mailed' = keys(job.feeds) /\ noted' = noted \cup keys(job.feeds)
                /\ GoTo("firstknown") /\ UNCHANGED faults
             \/ Fails /\ UNCHANGED <<mailed, noted>>
          /\ UNCHANGED known
       \/ /\ At("firstknown")
          /\ \/ known' = job.feeds /\ GoTo("stamp") /\ UNCHANGED faults
             \/ Fails /\ UNCHANGED known
          /\ UNCHANGED <<mailed, noted>>
    /\ UNCHANGED <<site, dir, items, due, inbox, today, old>>

\* The feeds that become known: those whose items are there for the first time.
Found == {f \in Unknown : items[f.file] # {}}

Note ==
    /\ At("note")
    /\ \/ /\ mailed' = mailed \cup keys(Found) /\ noted' = noted \cup keys(Found)
          /\ GoTo("know") /\ UNCHANGED faults
       \/ Fails /\ UNCHANGED <<mailed, noted>>
    /\ UNCHANGED <<site, dir, items, known, due, inbox, today, old>>

\* The slip: a feed is known when the job has met it, with items or without.
KnowMet == job.feeds

\* The feeds that are known from now on: of the followed ones, those known or found.
NowKnown == IF known = NoFile THEN job.feeds ELSE (job.feeds \cap known) \cup Found

Know ==
    /\ At("know")
    /\ \/ known' = NowKnown /\ GoTo("mail") /\ UNCHANGED faults
       \/ Fails /\ UNCHANGED known
    /\ UNCHANGED <<site, dir, items, mailed, due, record>>

newKeys == keys(job.feeds) \ mailed

\* The mail reaches the user.
Reach ==
    /\ inbox' = [x \in Item |-> inbox[x] + IF \E k \in newKeys : k.item = x THEN 1 ELSE 0]
    /\ today' = today + 1

\* The slip: the error of the mail is not looked at.
SendUnseenError ==
    /\ \/ Reach /\ UNCHANGED faults
       \/ Fault("mail") /\ UNCHANGED <<inbox, today>>
    /\ GoTo("record")

\* A mail that fails may have reached the user all the same.
Send ==
    \/ Reach /\ GoTo("record") /\ UNCHANGED faults
    \/ Fault("mail") /\ End /\ (Reach \/ UNCHANGED <<inbox, today>>)

\* Once a day, what is new.
Mail ==
    /\ At("mail")
    /\ IF due /\ newKeys # {} THEN Send ELSE End /\ UNCHANGED <<inbox, today, faults>>
    /\ UNCHANGED <<site, files, noted, old>>

\* The slips: the new keys replace the old ones; the time of the mail is not kept.
RecordReplaces ==
    /\ At("record")
    /\ \/ mailed' = newKeys /\ GoTo("stamp") /\ UNCHANGED faults
       \/ Fails /\ UNCHANGED mailed
    /\ UNCHANGED <<site, dir, items, known, due, record>>
StampNothing ==
    /\ At("stamp") /\ End
    /\ UNCHANGED <<site, files, record, faults>>

Record ==
    /\ At("record")
    /\ \/ mailed' = mailed \cup newKeys /\ GoTo("stamp") /\ UNCHANGED faults
       \/ Fails /\ UNCHANGED mailed
    /\ UNCHANGED <<site, dir, items, known, due, record>>

Stamp ==
    /\ At("stamp")
    /\ \/ due' = FALSE /\ End /\ UNCHANGED faults
       \/ Fails /\ UNCHANGED due
    /\ UNCHANGED <<site, dir, items, mailed, known, record>>

Crash ==
    /\ ~At("idle")
    /\ Fault("crash") /\ End
    /\ UNCHANGED <<site, files, record>>

-----------------------------------------------------------------------------
GoOn == \/ \E up \in SUBSET parseFeeds(feeds) : Turn(up)
        \/ \E ok \in SUBSET job.up : Fetch(ok)
        \/ \E left \in SUBSET Stale : Clean(left)
        \/ Forget \/ FirstDigest \/ Note \/ Know \/ Mail \/ Record \/ Stamp

Next == \/ \E l \in Lines : Follow(l)
        \/ \E u \in Url : unfollowFeed(u) \/ Publish(u)
        \/ \E m \in {"digest", "nomail", "lapsed"} : SetMode(m)
        \/ Day \/ Start \/ GoOn \/ Crash

Spec == Init /\ [][Next]_vars

\* The timer starts the job again and again, the job comes to its end, and days pass.
\* Now and then all feeds of the account answer in one run.
Fairness ==
    /\ WF_job(Start \/ GoOn) /\ WF_due(Day)
    /\ SF_job(Turn(parseFeeds(feeds)))
    /\ SF_job(Fetch(job.feeds))

FairSpec == Spec /\ Fairness

-----------------------------------------------------------------------------
Steps == {"idle", "turn", "fetch", "clean", "forget", "unstamp", "unknow", "first",
          "firstknown", "note", "know", "mail", "record", "stamp"}

\* Everything has its type.
TypeOK ==
    /\ feeds \in Seq(Lines) /\ mode \in {"digest", "nomail", "lapsed"}
    /\ published \in [Url -> Nat]
    /\ dir \in BOOLEAN /\ due \in BOOLEAN
    /\ items \in [File -> SUBSET Item]
    /\ mailed = NoFile \/ mailed \subseteq Key
    /\ known = NoFile \/ known \subseteq Feed
    /\ job \in [at : Steps, mode : {"digest", "nomail", "lapsed"},
                feeds : SUBSET Feed, up : SUBSET Feed]
    /\ inbox \in [Item -> Nat] /\ today \in Nat
    /\ noted \subseteq Key /\ old \subseteq Key
    /\ changes \in 0..MaxChanges /\ faults \in 0..MaxFaults

\* Followed feeds have different files, whatever names they have, in feeds.txt and in the
\* job (feed.go:164-165: "a file name that no other feed of the file has").
FilesDiffer ==
    /\ \A fs \in {parseFeeds(feeds), job.feeds} : \A f, g \in fs :
          f.url = g.url \/ f.file = g.file => f = g
    /\ Cardinality(parseFeeds(feeds)) = Len(feeds)

\* A feed whose files no other feed can get, whatever is followed beside it.  Of others the
\* file can change, when the feed that has their first one is left.
Alone(url) ==
    \A l, m \in Lines : l.url = url /\ m.url # url => Tries(l.name) \cap Tries(m.name) = {}

\* Nobody gets an item of such a feed twice, whatever the account follows, leaves and
\* follows again, but for a mail whose record a crash or an error prevented
\* (feedjob.go:428-431).
MailedOnce == \A x \in Item : Alone(x[1]) => inbox[x] <= 1 + faults

\* Nor more than one mail a day, but for the same reason (feedjob.go:385-389).
OncePerDay == today <= 1 + faults

\* What the file mailed has was sent or noted: the items of a mail that failed wait for
\* the next digest (feedjob.go:428-431).
NothingDropped ==
    mailed # NoFile => \A k \in mailed : k \in noted \/ inbox[k.item] > 0

\* No mail has what a feed had before the digest knew the feed, however often its fetch
\* fails before it gives items, and wherever a run stops (feedjob.go:303-304: "the first
\* run that finds items of the feed notes them and sends none of them").  FirstToo adds
\* the first digest of the account ("so that nobody gets the whole history").  Again this
\* is of feeds whose files no other feed can get.
OldStaysUnsent ==
    [][today' > today => \A k \in old : Alone(k.item[1]) => k \notin newKeys]_vars

\* What a followed feed has is dealt with in the end: it is sent, or noted.
CatchesUp ==
    <>[](mode = "digest" =>
           \A f \in parseFeeds(feeds), x \in Item :
               x \in Published(f) => mailed # NoFile /\ [file |-> f.file, item |-> x] \in mailed)

=============================================================================
