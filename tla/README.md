# A verification of sbm-sync

sbm-sync (`src/`, Go) keeps one bookmark file the same on all devices of a
user. The server merges, in three ways, what a device sends with what it has,
keeps the last versions of each file, and has a web site, accounts,
subscriptions, RSS feeds and a daily mail around that. This directory holds TLA+
models of it, the runs of TLC that check them, and theorems about them that
TLAPS checks.

Line numbers below are those of `src/`. `PROJECT.json` maps each definition to
the lines it models.

## 1. The system

| Component | State it keeps | Operations | Who calls it |
|---|---|---|---|
| Three-way merge (`merge.go`) | none | `merge(base, local, remote)` | `Store.sync`, the web editor |
| Version store (`store.go:334-468`) | `files/<id>/<digest>` and `HEAD`; `s.locks` | `sync`, `head`, `read`, `prune`, `remove` | `POST /api/sync`, the web editor, import, download, `remove` |
| Accounts (`store.go:38-332`) | `accounts.json`; `accounts`, `byEmail`, `byToken` | `signup`, `check`, `signIn`, `signOut`, `newCode`, `confirm`, `setCustomer`, `setStatus`, `remove`, `openStore` | the handlers of `main.go` |
| Billing (`stripe.go`, `main.go:444-647`) | `Customer`, `Status`, `StatusAt` of an account; the state at Stripe | `checkout`, `portal`, `webhook`, `deleteCustomer` | browsers, the command line client, Stripe |
| Web editor (`bookmarks.go:386-743`) | none: the form carries the base | add, edit, save, import, download | browsers |
| Feed settings (`feed.go`) | `feeds/<id>/feeds.txt`, the feed settings of an account | follow, unfollow, `changeFeeds`, share pages | browsers, the client |
| Feed job and digest (`feedjob.go`) | `items`, `known`, `mailed`, `digest` of an account | `runFeeds`, `feedAccount`, `digest`, `explore` | a timer, every 30 minutes, in a process of its own |
| Rate limiter (`main.go:851-876`) | times per key | `allow` | `signup`, `login`, `resend` and others |
| Live search (`search.js`) | the newest query, the running fetches | `update`, `later`, Enter | the user's typing |
| Search, scores, listing (`bookmarks.go:126-264, 403-435`) | none | `search`, `score`, `importRows` | pages |
| Pages and mail (`pages.html`, `mail.go`) | none | render, send | handlers |

How they interact:

- Each HTTP request is a goroutine. `s.mu` guards the maps and `accounts.json`
  for one operation of the Store, never for a whole handler. `s.locks[id]` guards
  the files of one account for a whole `sync`, `read`, `remove` or change of
  feeds.
- A handler reads the account (`user`, `view`), decides, and calls the Store
  later. The account may be changed or deleted in between.
- The devices, the browsers and Stripe are other programs. They repeat requests
  whose answers they lost.
- The feed job is another process with its own copy of `accounts.json` and no
  lock that the server knows.

What is hard in it:

- **Concurrency**: two devices of one account sync at once; the account is
  deleted while a sync waits for the lock; two deletions at once; a sign-in that
  overlaps a deletion.
- **Failure**: an error or a crash between the version file, `HEAD` and `prune`;
  a failed write of `accounts.json` after the maps were changed; a deletion that
  is half done.
- **Ordering and repetition**: a request whose answer was lost comes again; an
  old request takes effect after a newer one; the links that confirm an address
  arrive in another order; the events of Stripe come late, twice, reordered.
- **Time**: `prune` trusts modification times, which may be equal or wrong.

What makes each component right:

- Merge: no addition or removal of a user is lost; a conflict leaves one bookmark
  for a page; merging the same request again changes nothing.
- Version store: `HEAD` names a file that is there; a sync never overwrites
  another; the number of versions is bounded; a recent base is never pruned;
  nothing comes back after a deletion; all devices end with the same file.
- Accounts: the maps agree; what a user was told is on disk; a code or session
  that was replaced or ended does not count; a deletion is final; one account per
  email.
- Billing: a late event never undoes a newer one; no event that was taken is lost; a
  deleted account does not pay.
- Web editor: an edit replaces the line that the user saw or adds one, and
  never removes another.
- Feeds and digest: each feed has an item file of its own; an item is mailed at most
  once, except after a crash between the mail and its record; none is lost by a failed
  mail; a new feed's old items are not mailed; the job never resurrects a deleted
  account's data.
- Limiter: at most n requests per key and window, until the map is emptied.
- Live search: the page shows the answer to the newest query that was answered.

## 2. The modules

    Keeping ── Merge ─┬─ MergeLaws            laws of the merge
                      │    └─ MCMerge
                      └─ SyncStore            the server and its devices
                           ├─ SyncHistory     with a record of the users' edits
                           │    └─ MCSyncHistory
                           ├─ SyncRefinement  implements SharedFile
                           │    └─ MCSyncRefinement
                           └─ MCSyncStore     (for the run on convergence)
    Keeping ── Accounts ── MCAccounts         accounts, sessions, codes
    Billing ── MCBilling                      subscriptions and Stripe's events
    Digest ── MCDigest                        feeds, the feed job and its mail
    Merge ── WebEdit ─┐                       the forms of the bookmark pages
    Keeping ── Feeds ─┤                       the list of the feeds
    Keeping ─ FeedList┤                       what Feeds implements
    LiveSearch ───────┼─ Web ── MCWeb         search while one types
    Keeping ── Limiter┘                       the limit on attempts

    KeepingTheorems, MergeTheorems            lemmas about the operators
    MergeLawsProofs, SyncStoreProofs,         theorems about the specifications
    AccountsProofs, BillingProofs,            (SyncStoreProofs: those of SyncHistory and
    DigestProofs, WebProofs                   SyncRefinement, too)

`Keeping` has the one operator that all loops of the server that copy part of a
list come down to. It is a recursive function and not a RECURSIVE operator, so
that the proofs can unfold it.

**Merge** translates `merge.go`. A line is opaque and has a `key`: the
normalised URL of a bookmark, or `NoPage` for comments and lines without one.
Each operator is one part of the function: `added` and `first` (the additions
of the device), `replacement` (which addition takes the place of a line that the
server changed too), `place` (the loop over the server's lines) and `rest` (the
additions left for the end).

**SyncStore** models `Store.sync`, `read`, `prune` and `remove` on the files of
one account, with the devices that call them. One action is one change of the
disk or of the lock, so a crash or an error can come between any two: `EnterSync`
(lock, look whether the account is there, read `HEAD` and the base, merge),
`WriteVersion`, `WriteHead`, `Prune` (one file at a time), and for a deletion
`RemoveAccount` and `Erase`. A goroutine is a record whose field `at` says how
far it is. On a device, `Edit`, `Send`, `Receive`, `GiveUp` and, for a page of
the web site, `Fetch`.

| Variable | Code |
|---|---|
| `saved` | the entry of the account in `accounts.json` |
| `head`, `versions` | the file `HEAD`; the version files, by modification time |
| `known` | the entry in `s.accounts` |
| `lock` | `s.locks[id]` |
| `handler` | the goroutines, with their local variables `base`, `local`, `merged` |
| `file`, `base`, `asks` | a device: its copy, the version it got last, its open request |

**SharedFile** is the abstract specification: one file; a request takes effect at
one moment between question and answer, whole and at most once; its answer is the
file right after. `SyncRefinement` maps the server to it: the file is what `HEAD`
names, and the moment is `WriteHead`.

**SyncHistory** adds a record of what users did and no behaviour of the server.
`HSpec` conjoins the record to each step of `Next`.

**Accounts** models the maps of the Store, `accounts.json`, and the handlers that
use them. One action is one operation under `s.mu` with its write, which replaces
the file whole or fails (`writeFile`); the steps of one handler are separate
actions. `account` holds the objects, which outlive their place in the maps, as
in the code, where goroutines keep pointers. `told` records what users were told,
for the properties. The n-th secret drawn is the number n.

| Variable | Code |
|---|---|
| `account`, `accounts`, `byEmail`, `byToken` | the objects and the maps of the Store |
| `disk` | `accounts.json` |
| `handler` | the goroutines, between two operations of the Store |
| `drawn`, `owner` | the secrets drawn, and what for |
| `mailed` | the codes whose links arrived |
| `told` | what a user was told, or asked for |

**Billing** models the subscription fields of the accounts together with Stripe, which is
another program and modelled by what the code expects of it: it makes a customer and a
subscription when a page is paid (`Pay`), changes subscriptions (`Change`), and has events
of all that to send, in any order and again until they are taken (`Deliver`). The webhook
is split where it gives up `s.mu`: `Find` and `ById` look for the account, `SetCustomer`
and `SetStatus` change it and save. `remove` is split around its call to Stripe:
`AskRemove` keeps the customer that the account has then, `EndCustomer` deletes it,
`RemoveAccount` is the Store's part. A call that fails may have deleted the customer all
the same (the fault "stripe"): then its answer was lost. `Checkout` asks Stripe for a
page; the web form does so for accounts that pay already too, the API (`apiCheckout`) does
not, which is one guard more.

| Variable | Code |
|---|---|
| `account`, `accounts` | the fields `Customer`, `Status`, `StatusAt` of the objects; which are in the maps |
| `disk` | the same in `accounts.json` |
| `handler` | the goroutines: the event or the account and customer that they work on |
| `pages`, `sub`, `gone` | at Stripe: open Checkout pages, subscriptions, deleted customers |
| `events`, `pending` | what Stripe has to say, in the order of the changes; what the server has yet to take |
| `leaving`, `deleted` | what users asked for, and what they were told, with the customer that the account had when they asked |

**Digest** models the feed job of one account beside the server. They are two
processes with no common lock: the job reads `accounts.json` when it starts
(`Start`) and `feeds.txt` when the account's turn comes (`Turn`), and works with that
to its end, while `Follow`, `unfollowFeed` and `SetMode` change both. One action is
one change of the job's files, or the mail, so that an error, a mail that fails or a
crash can stop the job between any two: `Fetch` (`sfeed_update`: any of the feeds can
can fail), `Clean` (the item files of other feeds go), `Forget` (no mail is wanted: three
files go, one after the other), and for the digest `FirstDigest`, `Note`, `Know`, `Mail`,
`Record` and `Stamp`. `Clean` and `Forget` do not look at the errors of `os.Remove`, as in
the code: a file that stays is a fault, and the job goes on.

The files of feeds are modelled as `fileName` and `parseFeeds` give them. `fileName` keeps
the letters, digits, dots, dashes and underscores of ASCII, so names that differ can give
one base: "C" and "C++" give "C", and all names without any of these give "feed". A feed
has the first of its base, base-2, base-3 and so on that no feed before it has (`Free`).
A name may end in such a number itself: "n-2" is the second file of "n". So a base is a
sequence here, of a stem and the numbers at its end (`BaseOf` gives that of a name, any),
and the number that `parseFeeds` adds is one more of them (`Numbered`). The file of a feed
depends on the feeds before it: when one is left, others can get another file, or its.

| Variable | Code |
|---|---|
| `feeds`, `mode` | `feeds.txt`; the feed settings and the standing of the account in `accounts.json` |
| `dir`, `items`, `mailed`, `known` | the directory `feeds/<id>` and its files |
| `due` | whether the time in the file `digest` is `digestEvery` ago, or not there |
| `job` | how far `feedAccount` is, with what it read: `mode`, `feeds`, and `up`, the feeds whose host resolves |
| `published` | how many items each feed has had on the web |
| `inbox`, `today` | what the mails brought the user, and how many came since the day began |
| `noted`, `old` | which keys were put into `mailed` without a mail; the keys of what a feed already had when a digest met it with none of its items in its file |

**WebEdit** models the bookmark pages: `addBookmark`, `importFile`, `saveBookmark`
and `saveFile`, beside devices that sync. A form carries no file: it names a line by the
version that its page showed and the line's number. A handler takes the lock of the
account for each of its three parts and gives it up between them: it finds that
line (`saveBookmark`, with `lineAt`), reads the file as it is now and makes the change
in that (`Look`, `Add`), and syncs the result with what it read for the base (`Sync`).
The Store is what `SharedFile` promises, which SyncStore implements: a read or a sync
is one step. What `prune` does is kept (`Put`), because a base that is gone changes the
merge.

| Variable | Code |
|---|---|
| `versions` | the version files, the newest first, which `HEAD` names |
| `form` | the goroutines: the line that the page showed (`old`), the lines of the form (`new`), the file that was read (`read`) and what was made of it (`out`) |

**Feeds** models `changeFeeds` and its three callers: `Ask` is the request,
`Read` takes the lock and reads `feeds.txt`, `Write` writes the change, `Fail` refuses
or fails. `RemoveAccount` deletes the account under the same lock.

| Variable | Code |
|---|---|
| `feeds` | `feeds.txt`; without one, an account follows `defaultFeeds` |
| `holder`, `there` | who has `s.locks[id]`; whether the account is there |
| `request` | the goroutines: what they shall follow or leave, and what they read |

**FeedList** is what Feeds promises: one list, which a request changes at one moment,
whole, and as it is then (`Change`), or not at all (`Fail`). The file, the lock and the
loops of the handlers are not in it: what a change does is told by the set of the feeds and
by their order. `Web` maps Feeds to it (`List`): the list is what `feeds.txt` says, the
moment is `Write`. This is why Digest may take `Follow` and `unfollowFeed` for one step.

**LiveSearch** models `search.js`, whose functions run in the browser from one `await`
to the next. Updates overlap, and the answers come in any order or not at all (`Answer`,
`FailUpdate`). `Type` starts the timer, `Fire` is its end, `Enter` and `OpenFirst` are the
two halves of the handler of that key. What waits for an update goes on before any other
event (`Quiet`).

| Variable | Code |
|---|---|
| `box`, `clears` | the form; whether the page has no results for an empty box |
| `timer`, `updates`, `running` | the variables of these names; `newest` is the number of updates |
| `shown`, `left` | the query whose results are on the page; whether the page was left |
| `enters` | the handlers of Enter that wait |

**Limiter** models `allow`: `hits` is its map, `now` the clock, and `log` records the
attempts for the property.

**Web** puts these four beside each other. They share no state, so a behaviour in which
all of them run would show nothing that a behaviour of one does not, and TLC would only
multiply their states: `part` says which one runs.

Some modules hold a second form of an operator or an action beside the real one,
with a comment that says "the slip". A slip is what a plausible mistake in that
code would make of it: a dropped check, an error unseen, an off-by-one. No
specification uses them. `PROJECT.json` (`mutants`) pairs each checked property
with a slip that violates it, so that no property holds by the shape of the
model.

## 3. What is checked

| Run | Question | Instance |
|---|---|---|
| `merge_laws` | Do the laws of the merge hold? | all triples of files of four lines (two of one page, one of another, one comment): each file of at most two lines, repeated ones too, and each of three different lines |
| `sync_store` | Do the files of an account stay consistent? Is no sync overwritten? Does the server implement `SharedFile`? Does nothing come back after a deletion? Does a sync leave alone what all agree on? | 2 devices, 2 goroutines, 3 lines, 2 edits, 2 faults of any kind (error, crash, clock, lost answer), the deletion of the account |
| `sync_history` | Does a bookmark disappear or come back without a user who did it? Is a recent version kept? | the same with 3 edits and 1 fault, without the deletion: error, crash or lost answer. A clock that goes back is left out, since prune then does delete a recent version |
| `sync_converges` | Do all devices end with the file of the server? | a device and a web page, 2 edits of one page (a conflict), 1 fault |
| `accounts` | Do maps, disk and answers agree? Is a deletion final? Does only the newest link count? Does a session that was ended stay ended? | 2 accounts, 1 email, 2 goroutines, 2 faults, 5 secrets, 2 sessions per account, 2 deletions at once |
| `accounts_email` | Has an email one account? (violated) | 3 accounts, two deletions at once, no fault |
| `billing` | Is each event that the server took on disk, and does a late one leave a newer one alone? Does a deletion last, and end the payments of the customer that the account had, then and later? | 1 account, 2 customers, 2 subscriptions, 4 events, 2 goroutines, a deletion, 1 fault: failed write, crash, doubled event, or Stripe that does not answer, whether it did its part or not |
| `billing_settles` | Are all events taken in the end, and is the status then the newest? | 1 subscription, 3 events, 1 goroutine, a deletion, 2 faults of any kind |
| `billing_deleted` | Does a deleted account pay? (violated) | 1 subscription, 2 goroutines, no fault |
| `digest` | Do no two feeds share a file? Does nobody get an item twice, miss one, or get the old items of a new feed? Is each item dealt with in the end? | 3 feeds: one that can be followed under two names and whose files no other can get, and two whose names give one base; 1 item for the first and the second, 2 changes of feeds or settings, 1 fault (error, mail, crash) |
| `digest_first` | Does the first digest keep old items from the user? (violated) | 1 feed at most, no change, no fault but a fetch that fails |
| `web` | Do the forms, the live search and the limiter do what the user asked for, and that alone? Do the feeds implement `FeedList`? | forms: 2 goroutines and any number of syncs by devices, 3 lines (two of one page), files without a second bookmark for a page, 3 versions; feeds: 2 goroutines, 3 feeds of which 2 may be followed, and a default one that is set twice; search: 3 queries, 3 changes, 2 Enters, both kinds of page; limiter: 3 keys of which 2 are kept, 2 attempts per window of 2, 5 attempts, time to 3 |

Why the bounds are enough:

- *Merge*: `merge` compares lines only by equality and by key. A conflict needs
  two lines of one key; a conflict beside an unrelated change needs another; a
  line without a key behaves differently, so one comment. The laws that hold for
  each line one by one are proved for all files (section 4).
- *SyncStore*: two goroutines give each interleaving of two steps; a third would
  only wait for the same lock. One fault can stop a sync at each of its steps;
  the next request then finds what it left. `MaxVersions = 2` stands for 50: with
  two versions prune has both something to keep besides the current one and
  something to delete. With `MaxVersions` below the number of devices, convergence
  fails (a device's base is pruned before its next sync): the mutant
  `DoomedLeavesOneLess` shows that. So 50 must not be less than the devices of a
  user; that nobody has 50 is an assumption.
- *Accounts*: one email is enough, and more contended than two; two accounts let
  an address be used again after a deletion; two faults let a failed write be
  followed by a crash; `maxTokens = 2` stands for 20 and lets both the bound and
  one session below it be reached.
- *Billing*: a purchase is two events, so four events give two purchases, or one
  with two changes after it; any order and repetition of them is possible. The
  events that a deletion at Stripe causes come on top of `MaxEvents`. One fault at any
  step, beside a deletion, is what TLC finishes in time; `billing_settles` has two, and
  the proofs any number. Two events may
  have the same second. One account is enough for the runs, since an event concerns
  one; that it never reaches another one is proved (section 4).
- *Digest*: a feed and its items are told apart by one item each, which can be there
  before the digest meets the feed, or after. Two changes give each way for a feed to
  come, go, and come back under another name. The other two feeds show that none disturbs
  another, and what a number is for: the second of them has one as long as the first is
  there, and its file changes when the first is left. A fault stops the job at any of its
  steps, or lets a file stay that should go, and the next run finds what it left; fetches
  that fail are not faults and not bounded. Names that end in a number ("n-2") and more
  than two feeds of a base are not in the run; the proofs have any names.

- *Web*: a form works between two reads of the file, and one other goroutine and the
  devices can change it at each of these moments; a third would do so too, and not
  otherwise. `MaxVersions = 3` lets the base of a form be pruned before its sync, and
  lets it stay through two others. The import has rows that are there already, two of one
  page, and one row twice. For feeds, two requests are what a lost update takes; a page
  of two feeds passes the bound of 2 beside the default one. That the setting has the
  default one twice shows what happens to a repeat, which `defaultFeeds` does not look for:
  it stays, and goes as a whole. For the search, three
  changes give an answer that comes after two newer ones, or after the form went back to
  an earlier query; the second Enter may wait for the same update as the first or for a
  newer one. For the limiter, the window ends within the time, and a third key makes the
  map overflow.

Deadlock is not checked where the bounds stop the system: when no edit, fault,
secret or account is left, it may rightly do nothing.

Fairness is assumed in `sync_converges`, `billing_settles`, `digest` (`FairSpec`) and
`web`. In SyncStore, goroutines run and file operations end (WF of `GoOn`). A goroutine
that waits for the lock gets it in the end (SF of `GetLock`): `sync.Mutex` has a
starvation mode that hands the lock to the longest waiter. A device tries again and again
and sometimes finds the server (SF of `Send`), and takes its answers (WF of `Receive`);
this is what `main.go:689-692` asks of a client, and what a user who syncs now and then
does. No fairness is assumed of edits, faults, `GiveUp` or `Fetch`. In Billing, goroutines
run (WF of `GoOn`), and Stripe sends an event that was not taken again until a goroutine
works on it (SF of `Deliver`): main.go:642 counts on that. None is assumed of users,
crashes, or events that come twice. In Digest, the timer starts the job again and again
(WF of `Start`; `contrib/sbm-feed.service` runs the command of `main.go:123-130` every 30
minutes), the job ends (WF of `GoOn`; `feedjob.go:55` and `:113` limit its time), and days
pass (WF of `Day`). `CatchesUp` also needs that again and again all feeds of the account
resolve and answer in one run (SF of `Turn` and `Fetch` with all feeds); a feed that never
answers is not caught up with, of course. (The fairness of the formula is that of `job`
and of `due`: the steps count that change them, as all of these do when they are of use.)
In LiveSearch, the browser runs what is due (WF of `Fire` and `OpenFirst`) and each of its
requests ends, with an answer or without (WF of the two together); none is assumed of the
user. The other parts of Web have no fairness, and no property that needs any.

### What the violated runs show

- `accounts_email`: two requests delete one account. Both pass their checks; one
  ends; the email signs up again; the other takes the email of the *new* account
  out of `byEmail` (`store.go:352`). Nobody can sign in to that account, and a
  second sign-up with the email succeeds, against `store.go:28`.
- `billing_deleted`: `remove` ends the customer that the account had when the
  request began. A user without one may have a Checkout page open and pay there,
  before or after the removal. The subscription then has no account; the webhook
  answers its events as taken, without effect; nobody ends it. `main.go:565` says "a
  deleted account must not pay".
- `digest_first`: the first run of a digest writes all feeds that the account follows
  into `known`, also those whose first fetch failed (`feedjob.go:340`). When such a
  feed answers later, the digest knows it, and mails its whole history.
  `feedjob.go:301-302` says of the first run that it notes the items "so that nobody
  gets the whole history", and `feedjob.go:308-310` why a new feed without items must
  not become known. The constant `FirstToo` says whether `old` has the items of that
  run too; in the run `digest` it has not, so `OldStaysUnsent` there is about the
  feeds that the account follows later.

Behaviours that no run checks, because no document of the repository says otherwise,
or because a property against them would be false:

- `Store.remove` writes `accounts.json` first and removes the files after. A crash or
  an error between the two leaves the versions on disk for good. `SyncStore` has
  these steps (`RemoveAccount`, `Erase`, `Crash`).
- A user who asks for another link while the old one is opened may end up unconfirmed
  again, since `resend` looks at the account before `newCode` and not in it
  (`main.go:354-363`). `Accounts` has this interleaving (`AskLink`, `Confirm`,
  `NewCode`).
- Two feeds whose names give one base have the item files `n` and `n-2`. When the first
  is left, the second takes over the file `n`, with the first one's items
  (`feed.go:151-182`). When the job has run before the file was changed, it counts as
  found with these, and its own items, which get other keys, are mailed again, old ones
  too. This takes no equal names: "C" and "C++" do, any two names without a letter or digit
  of ASCII do, and so does a feed of the name "n-2". `FilesDiffer` holds for all feeds.
  `MailedOnce` and `OldStaysUnsent` are about feeds whose files no other feed can get
  (`Alone`, which compares all files that the names can have, with their numbers); of
  others they are false, without any fault.
- A job that dies in its first run between `mailed` and `known` leaves no `known`, and so
  does one that removes `known` after it could not remove `mailed` (`feedjob.go:229-231`).
  The next digest then takes all feeds as known (`feedjob.go:347-352`), also one that was
  followed in between. `old` is of feeds that the digest does not know, and forgets what
  it had when `known` goes (`Forget`).
- When Stripe deleted a customer and its answer is lost, or `accounts.json` cannot be
  written then, the user is told that the account is there still, which it is. But each
  further deletion of it fails, since Stripe has no such customer (`main.go:567-571`).
  `EndCustomer` has this.
- `defaultFeeds` takes the setting as it is (`feed.go:272-282`): a feed that is there twice
  is followed twice by each account without a `feeds.txt`, until it leaves the feed, and
  too many are not refused. `FeedsOnce` is about settings that are right; `FeedList` holds
  for any.
- `signOut` takes the token out of memory before it saves. When the write fails, the user
  is told so and tries again; the token is unknown now, which is answered as success
  without a write (`store.go:229-245`), and a restart makes the token valid again.
  `SignedOutStaysOut` leaves this out (`unsaved`), and two more: a session of an account
  whose deletion failed on `accounts.json`, and one that fell out because `maxTokens`
  newer ones came.
- `changeFeeds` does not look whether the account is there (`feed.go:302`). One that
  waits for the lock while the account is deleted makes `feeds.txt` again, which stays
  for good. `Feeds` has this interleaving; `FeedList` allows it: `Close` leaves the requests
  that are open, and they may still change what is left.
- A bookmark that a device added between a form's read and its sync is replaced, when the
  form adds the same page, although `bookmarks.go:473-474` and `:684-685` say that what is
  there is refused or skipped: the handlers look at the file that they read, and the merge
  puts an addition of the form in the place of the server's line for the same page.
  `OnlyWhatTheFormSays` allows for this.
- When `maxVersions` syncs come between a form's read and its sync, the base is gone, and
  the merge without it takes all lines of both sides: a line that the form took out stays.
  `OnlyWhatTheFormSays` and `ToldIsDone` are about forms whose base is there (`Saved`);
  with 50 versions and milliseconds between the two, it is a theoretical case.
- The live search may open a result of an older query, when the user types on while
  Enter waits: the update that Enter waits for is then not the newest, and its answer is
  not shown. `EnterOpensFresh` is about the Enters for which the newest update is theirs.
- The limiter forgets all attempts once it has more than 10000 keys (`main.go:861`).
  `LimitIsExact` says that this is the only way past the limit.
- A form that changes the URL of a bookmark puts the new line in the place of the old one
  (`bookmarks.go:599-610`), but the sync merges that with the file, where a line for a new
  page goes to the end. So the place is lost, always.

## 4. What is proved

All proofs hold for any constants that meet the assumptions of the modules.

**Merge** (`KeepingTheorems`, `MergeTheorems`, `MergeLawsProofs`). All laws that
`merge_laws` checks are proved, for all files. The lemmas say what `Keep`, `added`,
`replacement` and `merge` return as sets (`KeepSet`, `MergeProperties`) and as sequences: what is
kept is embedded in the sequence it is from (`KeepEmbeds`), so it repeats nothing that is
not repeated there (`OnceKept`), and two sequences that agree in what is kept have the
same result (`KeepSame`). `SettledStays`, that a repeated request is harmless, rests on
this: each line of the merged file passes the loop as it is (`UntouchedPagesStay`) and
nothing is left to add (`NothingToDo`). `NoSecondBookmark` compares two lines of the
result place by place (`PagesApart`): each is from the server or the device's addition
for the page, and an addition is put in once. `RemoteOrderKept` compares the loop with
the server's file line by line: where a line that is on both sides was, it is still, and
nowhere else (`CommonLinesStay`). `ChangesAddUp` says what two sides get that changed
different lines of different pages: the lines that both left, and what each added
(`MergeAddsUp`). From that it follows that two devices end with the same lines whichever
syncs first, with a third party's changes on the server, too (`OrderDoesNotMatter`, by
`TwoMergesAddUp`).

**SyncStore** (`SyncStoreProofs`). `HeadExists` is not inductive by itself. A
goroutine in `written` writes `HEAD` later, so its version must still be there;
prune by another goroutine could take it, unless only one is between `merged` and
`headed`; which is what the lock is for; and `Erase` takes any version, which is
safe since `accounts.json` lacks the account then. So

    IInv == TypeOK /\ LockIsHeld /\ AccountsAgree /\ MergeIsSafe /\ HeadExists

is inductive, with one lemma per action. The theorems give each conjunct as an
invariant, and `NothingAfterRemoval` as an action property. The order by time is
arbitrary in the proof: `HeadExists` does not depend on the clock, since prune
never deletes the version that it was told to keep (`DoomedIsNotKept`).

`SuccessBoundsVersions` needs that no version has two files (`VersionsOnce`), so that
leaving out the one to keep leaves all others but one (`KeepAllButOne`), and that a
prune that has nothing left to delete has fewer than `MaxVersions` others.

`NoNewsChangesNothing` is the safety half of `Converges`, and proved where that is only
checked. There is no news (`NoNews`) once each device, each request and each merge that is
under way has the server's file or what the device got from it. From then on no sync changes
the server's file, however stale its base is, and none makes a device have something to
tell: merging what is the base, or what is the server's, gives the server's file
(`NoNewsMerges`, from `SettledStays`). Excepted are edits, a deletion, and a request whose
base has no file or cannot be read, which is merged without one.

**Refinement** (`SyncStoreProofs`). `Spec => Shared!Spec`. A step maps to a
step of `SharedFile` or to a stutter, action by action; `WriteHead` maps to
`Merge`, for which `NoLostUpdate` is needed: what is made current was merged with
what is current until then. It is inductive with `IInv`, since `head` changes only
under the lock. This proves linearizability of `sync`, for any number of devices
and goroutines, with all faults.

**SyncHistory** (`SyncStoreProofs`). Its steps are steps of SyncStore with a record
(`HistoryOfSteps`), so the invariants above hold. `NoSilentLoss` follows from

    HistoryInv == FromUsers /\ RemovalsAreTaken /\ NoneLost

every line of the server, a device or a request was put in by a user, and what a file
lacks of its base was taken off by one. `NewLines` and `GoneLines` of `MergeTheorems` say
which lines a merge adds and removes; at `WriteHead` they turn the lines of the base into
those of the users, for which `NoLostUpdate` is needed. `DeletedStaysDeleted` needs that
neither `HEAD` nor a device or request that has yet to settle has a line that is buried,
and that a goroutine before `WriteHead` holds just the merge with the current file
(`BuriedInv`). `RecentVersionsKept` needs that the versions are in the order in which they
were written (`RecentInv`). A clock that goes back breaks this, and prune then does delete a
recent version, so this theorem alone assumes `"clock" \notin Faults`.

**Accounts** (`AccountsProofs`). For any number of accounts, goroutines, deletions and
faults. `IndexesAgree` (each map tells what the others tell) needs, to survive a crash,
that accounts on disk have different emails and that a session belongs to one account, in
memory and on disk; to survive a sign-in, that a new secret is nobody's; and to survive a
deletion, that an account that a goroutine deletes is in the map, or was there:

    IInv == TypeOK /\ SessionsOwned /\ DiskEmails /\ SameEmail /\ TwiceMade
            /\ GoroutinesServe /\ AccountsMade /\ IndexesAgree

Two requests that delete one account break the map by email (`accounts_email`). So the
emails of accounts that were deleted by a second request while the first was under way are
told apart (`Torn`), and `IndexesAgree` says of all other emails that the map has them, and
of the maps by token and by ID all that it says, with any deletions. For that an account on
disk must have the email that it has in memory (`SameEmail`), and what is in `Torn` must be
of accounts that were made (`TwiceMade`). `EmailsDiffer` says that two accounts have one
email only if it is in `Torn`: this race is the only way to it. `DeletionIsFinal` adds that
IDs are used once.

`NewestLinkCounts` (`LinkInv`): the
codes that were or will be mailed are not newer than the code that the account has, in
memory or on disk; one that could not be saved is newer still. `AnswersAreSaved` and
`SignedOutStaysOut` share `SessionInv`: a session that its user did not leave is open in
memory and stored on disk, one that is stored is open, or its end could not be saved
(`unsaved`), and one that is over is neither. Exempt are sessions of an account that its
user leaves and those that `maxTokens` newer ones displaced; that these fall out first
takes that tokens rise in each list (`AllRising`, `KeptNewest`).

**Billing** (`BillingProofs`). `StatusIsOfItsTime` (the status on disk is one that
Stripe gave this account at that time) says, with many accounts, that an event never
reaches the account of another. The webhook finds the account by the customer; so
the argument is about who has whose customer:

    IInv == TypeOK /\ SubsAgree /\ EventsOwned /\ AccountsOwn /\ PagesOwn
            /\ Serving /\ MemoryIsOfItsTime /\ DiskIsOfItsTime /\ DiskIsBehind

All subscriptions of a customer are for one account (`SubsAgree`): Stripe makes a
customer for a page without one, and a page has a customer only from the account it
is for (`PagesOwn`). So the account that has the customer of an event is the one that
the event names (`CustomerTellsAccount`). `Serving` carries that from `Find` to
`SetStatus`, between which other goroutines run. `LateEventsDoNotCount` (`NewerStays`)
rests on `DiskIsBehind`: only `SetStatus` changes the time, never back, and what is
written is what memory has.

`TakenIsSaved` is about `pending`, too: a write that fails leaves memory ahead of the
disk, and then an older event is rightly taken without a write. So (`SavedInv`) memory is
ahead only while a newer event is still to come (`AheadComes`), for each event that was
taken either the disk is as new or a newer one is to come (`TakenOf`), and a goroutine
that sets a status has set the customer before (`Ordered`). Accounts that their users
leave are exempt.

`DeletionsEndPayments` is what holds of "a deleted account must not pay", which
`billing_deleted` refutes as it stands. When the user is told that the account is deleted,
and ever after, it is not there, in memory or on disk, and no subscription is paid of the
customer that it had when the user asked:

    EndedInv == DeletedIsAway /\ GoneDoNotPay /\ RemoversEnded

a request goes on to the Store's part with a customer that Stripe has deleted, or without
one (`RemoversEnded`); nothing is paid for a deleted customer (`GoneDoNotPay`), before,
between and after; and a webhook that found the account earlier and has yet to set its
status neither puts it back into the map nor on disk (`DeletedIsAway`). What is left of the
violation is a customer that the account has not when its deletion begins: because it has
none yet, or because it has another (two Checkout pages that were opened before the first
was paid make two customers).

**Digest** (`DigestProofs`). For any feeds, names, items, changes and faults:

    IInv == TypeOK /\ UrlsDiffer /\ Accounted /\ SentBeforeRecord
            /\ NoneMailed /\ MailToCome

No address is in `feeds.txt` twice (`UrlsDiffer`), so a list has at most as many feeds as
there are addresses. The files that are tried for a feed differ (`NumbersTell`): of as
many as there are addresses, one is free at each feed's turn (`FreeIsFree`, a counting
argument), and the search ends. So the number of a file is bounded, which is what `TypeOK`
says of it, and two feeds never have one file (`FilesAreOwn`).

`OncePerDay` is not inductive: what bounds the mails
of a day is whether one more can still come (`Spent`): none can while the file
`digest` is fresh, nor from a job whose mail is behind it, nor as long as there is no
file `mailed`, since the first run sends none. `MailToCome` counts that one mail in,
and each step that gives it back is a fault: a failed `Record`, a crash before `Stamp`,
and a `mailed` that could not be removed before `digest` is. `NothingDropped` needs what
the job is about to record (`SentBeforeRecord`), and that a first run is one without a file
`mailed` (`NoneMailed`).

`MailedOnce` and `OldStaysUnsent` are about feeds whose files no other feed can get
(`Alone`), beside any others (of feeds that can share one they are false, section 3). They
rest on `OnceInv`, a second invariant. The argument is when a key is met for good (`Met`):
it is in `mailed`; or its feed is not known, and what its file has includes it, or the
file is empty, so that the key is noted when the feed becomes known. A key that is met is
not new to a mail (`NewIsNotMet`), and stays met whatever users follow, leave or rename
(`MetStays`). An item that was sent is met in each file that its feed can have
(`Settled`), or its record is the next step, or a fault came between (`Counted`); what is
old is met (`OldMet`). The files hold what the list of the job says (`FilesTell`), and none
is left of a feed that went (`Tidy`). An item file that could not be removed breaks this:
then an item can be sent that was met in another file, once, and the fault has paid for it
(`Spare`, `Spared`). When `mailed` goes, the count begins anew (`BlankAtFirst`). `OldStaysUnsent`
is proved for `FirstToo = FALSE`; with `TRUE` it is violated (`digest_first`).

**Web** (`WebProofs`). For any number of goroutines, files, versions, feeds, queries and
updates. A step of `Web` is a step of one part or leaves it alone (`EditsAreSteps`). For
the forms,

    IInv == TypeOK /\ OutIsTheEdit

where `OutIsTheEdit` says that what a goroutine is about to sync is what it read, with the
line taken out and its own put in. The two properties of forms then follow from the laws
of the merge, for the step that syncs. That no page gets a second bookmark needs the same
of what the goroutines read (`PagesOnce`), and an assumption that the theorem states: no
device sends a file with two bookmarks of a page. In `Feeds`, the inductive invariant
(`FeedInv`) is that a goroutine that has read `feeds.txt` has the lock, and that the file
is what it read still. With it each step of Feeds is a step of `FeedList` or a stutter
(`FeedsImplementList`): `Write` is `Change`, of what was read, which is the list of that
moment. The lemmas behind this say what the two loops make of a list: which feeds it has
then, that the old ones stay in their order at its front, and that what comes after them
is new and in it once. Nothing is assumed of `defaultFeeds` but that it is a list of
feeds. When it has none twice and not too many, no list ever has (`FeedsAreOnce`). In
`LiveSearch` (`SearchInv`), the newest update is for what is in the box unless the timer
runs; the results are its, if it went well; and an Enter that waits for it was hit for its
query. For `LimitIsExact` (`LimitInv`), what the map has for a key is matched one to one
with attempts of that key that were allowed (`Counts`), and with all of the window as long
as the map was never emptied (`Covers`).

Every safety and action property of the passing runs is stated by a theorem. Only
model-checked is liveness, which is out of the prover's reach: `Converges`, `Settles`,
`CatchesUp` and `SettlesOnTyped`. Nothing is proved of what recursive functions compute
beyond the lemmas about `Keep`, whose inductions are over the length of a list.

## 5. What is assumed, and what is left out

- SHA-256 has no collisions: the name of a version is its text; a digest of a
  secret is the secret. Secrets and IDs never repeat.
- A crash is the end of the process, not of the machine: what was written and
  renamed is there afterwards (`writeFile` syncs the file but not the directory).
- A clock that goes back may put a version at any place but the first in the order
  of times. Two equal times are the same as some order.
- `os.RemoveAll` takes the files one by one, in any order.
- A device does not edit its file while its request is open. The client reads the
  file, asks, and writes the answer in one go.
- The web site as a device of SyncStore reads with `Fetch` and then sends what the
  user made of it (the page with the whole file); its forms, which carry one line and
  not a file, are in WebEdit.
- WebEdit takes the Store for what `SharedFile` says: a deletion of the account, an error
  or a crash is `Fail`, and a goroutine whose sync took effect may be told that it failed.
  A line is opaque: how a form makes one (`entry.line`) and how files of other formats are
  read (`importRows`) are left out, and so are lines of the old format without a tab, to
  which `merge.key` and `parseLine` give different keys. The pages and the download
  only read.
- Feeds compares feeds by the normal form of their URL, as the handlers do; names are in
  Digest. A followed feed that is tested first (`followFeed`) or not is the same request.
- LiveSearch: which results a query has is the server's matter; a query is opaque. An
  event runs to its end or an `await`, as a browser's do.
- Limiter: time is a number that does not go back. It is one limiter; the server has several
  of them, which share nothing.
- Accounts models a server that sends email. Passwords and the rate limits change
  no state of the Store and are left out, but for the check of `remove`, which
  finds the account by email and not by session.
- Billing: Stripe makes a customer for one page and never for another account's; it
  refuses a page or a payment for a customer that it deleted; deleting one again fails. A
  subscription starts as active: `stripe.checkout` asks for no trial, so the status
  "trialing" does not occur. `verify`, the prices, the free trial and the portal change no
  state of the server. Events of other kinds are ignored by the webhook. The properties
  leave out accounts whose user asked to delete them: after a deletion that failed on
  `accounts.json`, memory lacks the account and the disk has it until a restart, and
  events that come in between are taken without effect.
- Of two events of one second, the one that arrives last counts (`store.go:327`), so
  the status may be the older of the two. `Settles` asks for the newest second only.
- Digest: a feed gives all its items at each fetch, and `sfeed_update` adds them to the
  item file; feeds that drop old items are left out. All feeds of one account are fetched
  in one step, since none of them has anything to do with another. Left out are `explore`,
  whose file only the pages read; the text of the mail; an item file that cannot be read;
  the order of the accounts in one run; and an account that is deleted while the job
  works. Every failure before the mail is sent is a failed mail. A mail that fails may
  have arrived. A digest that is turned off makes the user's mails count anew, for the
  properties.
- Not modelled: search, scores and listing (pure functions on strings that have unit
  tests and no state; all that a model could say of them is about the characters of
  words), HTML and the SMTP conversation (input and output), `demo/` and `contrib/`.

## 6. The plan

All modules that were planned are there: Merge, SyncStore, SyncHistory, the refinement of
SharedFile, Accounts, Billing, Digest, and then WebEdit, Feeds, LiveSearch and Limiter.
Two of them are implementations of an abstract specification, SyncStore of SharedFile and
Feeds of FeedList, with proofs; all safety properties are proved. Of four theorems the
statement has a condition: on `prune` a right clock, on files none with a second bookmark
for a page, on old items that those of the first digest do not count, and on feeds
(`FeedsAreOnce`) default ones without repeats. What could come next are larger instances:
two accounts in the runs on billing, three devices in those on syncs, and a feed job over
several accounts, of which one is deleted meanwhile.

## 7. How to run it

    tlc -workers 2 -config SyncStore.cfg MCSyncRefinement
    tlapm SyncStoreProofs.tla

`PROJECT.json` lists each run with its module, cfg and properties.
