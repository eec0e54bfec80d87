-------------------------------- MODULE Feeds --------------------------------
(***************************************************************************)
(* The list of the feeds that an account follows (changeFeeds and the      *)
(* handlers followFeeds, followFeed and unfollowFeed in src/feed.go).      *)
(*                                                                         *)
(* A handler reads feeds.txt, makes the change and writes the file, all    *)
(* under the lock of the account.  A feed is the normal form of its URL,   *)
(* which is all that the handlers compare; its name is left out, for which *)
(* see Digest.                                                             *)
(***************************************************************************)
EXTENDS Keeping, FiniteSets

CONSTANTS
    Url,
    Server,         \* goroutines
    None,           \* no file, no goroutine, no feed
    defaultFeeds,   \* what an account without a file follows; nothing looks for repeats
    maxFeeds,
    Pages           \* the lists of feeds that users follow at once

VARIABLES
    feeds,     \* feeds.txt, or None
    holder,    \* which goroutine has the lock of the account
    request,   \* the goroutines: what they are asked, and what they read
    there      \* the account is there

feedVars == <<feeds, holder, request, there>>

\* What the account follows.
feedsText == IF feeds = None THEN defaultFeeds ELSE feeds

Idle == [at |-> "idle", follow |-> << >>, unfollow |-> {}, read |-> << >>]

At(h, step) == request[h].at = step

Init ==
    /\ feeds = None
    /\ holder = None
    /\ request = [h \in Server |-> Idle]
    /\ there = TRUE

\* A user of the account follows the feeds of a page, or one, or leaves one.
Ask(h, follow, unfollow) ==
    /\ At(h, "idle")
    /\ there
    /\ request' = [request EXCEPT ![h] =
          [at |-> "asked", follow |-> follow, unfollow |-> unfollow, read |-> << >>]]
    /\ UNCHANGED <<feeds, holder, there>>

\* The slip: the file is read without the lock, and locked for the write alone.
ReadUnlocked(h) ==
    /\ At(h, "asked")
    /\ request' = [request EXCEPT ![h].at = "read", ![h].read = feedsText]
    /\ UNCHANGED <<feeds, holder, there>>

\* changeFeeds takes the lock and reads the file.  It does not look whether the
\* account is there.
Read(h) ==
    /\ At(h, "asked")
    /\ holder = None
    /\ holder' = h
    /\ request' = [request EXCEPT ![h].at = "read", ![h].read = feedsText]
    /\ UNCHANGED <<feeds, there>>

\* The feeds of the page that the account does not follow, each once.
Fresh(file, follow) ==
    LET first(i) == \A j \in 1..(i - 1) : follow[j] # follow[i]
    IN  Keep([i \in DOMAIN follow |-> IF first(i) THEN follow[i] ELSE None], Url \ ToSet(file))

\* The file with the change.
Changed(h) ==
    Keep(request[h].read \o Fresh(request[h].read, request[h].follow), Url \ request[h].unfollow)

\* followFeeds counts the feeds, followFeed the lines: one that follows a single feed
\* when the default feeds have another twice may be refused earlier, which Fail is.
TooMany(h) ==
    LET fresh == Fresh(request[h].read, request[h].follow)
    IN  fresh # << >> /\ Cardinality(ToSet(request[h].read)) + Len(fresh) > maxFeeds

Release(h) == /\ request' = [request EXCEPT ![h] = Idle]
              /\ holder' = IF holder = h THEN None ELSE holder

\* The user is told what was added, or that the feed is left.
Write(h) ==
    /\ At(h, "read")
    /\ ~TooMany(h)
    /\ feeds' = Changed(h)
    /\ Release(h)
    /\ UNCHANGED there

\* Too many feeds are refused, and so is one that is followed already.  A file
\* cannot be read or written, or the server dies.
Fail(h) ==
    /\ ~At(h, "idle")
    /\ Release(h)
    /\ UNCHANGED <<feeds, there>>

\* The account is deleted, under the same lock, and its files with it.  One that
\* cannot be deleted stays.
RemoveAccount ==
    /\ there
    /\ holder = None
    /\ there' = FALSE
    /\ feeds' \in {None, feeds}
    /\ UNCHANGED <<holder, request>>

Next == \/ \E h \in Server :
              \/ \E follow \in Pages : Ask(h, follow, {})
              \/ \E u \in Url : Ask(h, << >>, {u})
              \/ Read(h) \/ Write(h) \/ Fail(h)
        \/ RemoveAccount

Spec == Init /\ [][Next]_feedVars

-----------------------------------------------------------------------------
\* No feed is followed twice, and not more than maxFeeds are, whatever is twice on a
\* page that is followed and whoever follows at the same time (feed.go:41, 592-602,
\* 636-643), when that is so of the default feeds.
FeedsOnce == IsInjective(defaultFeeds) /\ Len(defaultFeeds) <= maxFeeds
                => IsInjective(feedsText) /\ Len(feedsText) <= maxFeeds

=============================================================================
