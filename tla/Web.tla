-------------------------------- MODULE Web --------------------------------
(***************************************************************************)
(* The smaller parts of the web site beside the bookmark forms: the list   *)
(* of feeds, the live search, which runs in the browser, and the limit on  *)
(* attempts.  They share no state with each other and none with the forms, *)
(* so a behaviour here is one of a single part, and its properties are     *)
(* those of that part whatever the others do.                              *)
(***************************************************************************)
EXTENDS WebEdit, FiniteSets

CONSTANTS
    Server, Url, None, defaultFeeds, maxFeeds, Pages,       \* of Feeds
    Query, Blank, MaxTyped, MaxEnters,                      \* of LiveSearch
    Key, attempts, per, MaxKeys, MaxTime, MaxAttempts       \* of Limiter

ASSUME WebAssumption ==
    /\ None \notin Url \cup Server \cup Seq(Url)
    /\ Pages \subseteq Seq(Url)
    /\ maxFeeds \in Nat
    /\ defaultFeeds \in Seq(Url)
    /\ Blank \in Query
    /\ {attempts, per, MaxKeys, MaxTime, MaxAttempts, MaxTyped, MaxEnters} \subseteq Nat

VARIABLES
    part,                                                        \* which part runs
    feeds, holder, request, there,                               \* of Feeds
    clears, box, timer, updates, shown, running, enters, left, typed,   \* of LiveSearch
    now, hits, log                                               \* of Limiter

editVars   == vars
feedVars   == <<feeds, holder, request, there>>
searchVars == <<clears, box, timer, updates, shown, running, enters, left, typed>>
limitVars  == <<now, hits, log>>

webVars == <<part, editVars, feedVars, searchVars, limitVars>>

Feed   == INSTANCE Feeds
Search == INSTANCE LiveSearch
Limit  == INSTANCE Limiter WITH n <- attempts

\* A request to change the feeds, as its user sees it.
Asked(r) == [asks |-> r.at # "idle", follow |-> ToSet(r.follow), unfollow |-> r.unfollow]

List == INSTANCE FeedList WITH
           list <- Feed!feedsText,
           open <- there,
           request <- [h \in Server |-> Asked(request[h])]

WebInit ==
    /\ part \in {"edit", "feeds", "search", "limit"}
    /\ Init /\ Feed!Init /\ Search!Init /\ Limit!Init
    /\ part # "search" => box = Blank /\ clears

EditStep   == part = "edit"   /\ Next        /\ UNCHANGED <<part, feedVars, searchVars, limitVars>>
FeedStep   == part = "feeds"  /\ Feed!Next   /\ UNCHANGED <<part, editVars, searchVars, limitVars>>
SearchStep == part = "search" /\ Search!Next /\ UNCHANGED <<part, editVars, feedVars, limitVars>>
LimitStep  == part = "limit"  /\ Limit!Next  /\ UNCHANGED <<part, editVars, feedVars, searchVars>>

WebNext == EditStep \/ FeedStep \/ SearchStep \/ LimitStep

WebSpec == WebInit /\ [][WebNext]_webVars /\ (part = "search" => Search!Fairness)

-----------------------------------------------------------------------------
(***************************************************************************)
(* The properties of the parts, by the names that their modules give them. *)
(***************************************************************************)

\* Feeds: no feed twice, and not too many, but for the default feeds (feed.go:41, 592-602,
\* 636-643).
FeedsOnce == Feed!FeedsOnce

\* Feeds implements FeedList: each request changes the list at one moment, whole and as
\* it is then, so no change is lost, and FeedsOnce stays (feed.go:302-303: "No other
\* change to the file comes between the two").
ImplementsFeedList == List!Spec

\* LiveSearch: Enter opens a result of what was typed (search.js:34, 51-63).
EnterOpensFresh == Search!EnterOpensFresh

\* LiveSearch: the results are those of the box in the end (search.js:1-4, 18-37).
SettlesOnTyped == part = "search" => Search!SettlesOnTyped

\* Limiter: n attempts in each window, no more and no less (main.go:857-876).
LimitIsExact == Limit!LimitIsExact

=============================================================================
