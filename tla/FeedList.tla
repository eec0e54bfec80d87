------------------------------ MODULE FeedList ------------------------------
(***************************************************************************)
(* What the server promises of the feeds that an account follows: there is *)
(* one list; a request changes it at one moment, whole, and what it        *)
(* changes is the list of that moment.  Digest takes following and leaving *)
(* a feed for one step each; this is why it may.                           *)
(*                                                                         *)
(* The file, the lock and the loops of the handlers are not here: a change *)
(* is told by what it does to the set of the feeds and to their order.     *)
(***************************************************************************)
EXTENDS Keeping, FiniteSets

CONSTANTS Url, Server, defaultFeeds, maxFeeds

VARIABLES
    list,      \* the feeds, in their order
    open,      \* the account is there
    request    \* what is asked: which feeds shall come, which shall go

listVars == <<list, open, request>>

NotAsked == [asks |-> FALSE, follow |-> {}, unfollow |-> {}]

Init ==
    /\ list = defaultFeeds
    /\ open = TRUE
    /\ request = [h \in Server |-> NotAsked]

Ends(h) == request' = [request EXCEPT ![h] = NotAsked]

Ask(h) ==
    /\ open /\ ~request[h].asks
    /\ request'[h].asks
    /\ request' = [request EXCEPT ![h] = request'[h]]
    /\ UNCHANGED <<list, open>>

\* The request takes effect.  Feeds that are there stay where they are; those that are
\* not come to the end, each once, unless there would be too many.  Only the default
\* feeds can have one twice, or too many.
Change(h) ==
    LET kept == Keep(list, Url \ request[h].unfollow)
        new  == SubSeq(list', Len(kept) + 1, Len(list'))
    IN  /\ request[h].asks
        /\ IsPrefix(kept, list')
        /\ IsInjective(new)
        /\ ToSet(new) = request[h].follow \ (ToSet(list) \cup request[h].unfollow)
        /\ new = << >> \/ Cardinality(ToSet(list) \cup request[h].follow) <= maxFeeds
        /\ Ends(h)
        /\ UNCHANGED open

\* It is refused, or an error comes before it took effect.
Fail(h) == request[h].asks /\ Ends(h) /\ UNCHANGED <<list, open>>

\* The account is deleted.  One that waited then may still change what is left.
Close ==
    /\ open' = FALSE
    /\ list' \in {list, defaultFeeds}
    /\ UNCHANGED request

Next == Close \/ \E h \in Server : Ask(h) \/ Change(h) \/ Fail(h)

Spec == Init /\ [][Next]_listVars

=============================================================================
