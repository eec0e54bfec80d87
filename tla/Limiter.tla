------------------------------- MODULE Limiter -------------------------------
(***************************************************************************)
(* The limit on attempts (limiter in src/main.go): at most n attempts of a *)
(* key in the last per of time, where a key stands for the sign-ins from   *)
(* an address or the emails to an account.  The server keeps the times of  *)
(* the attempts that it allowed.  When it has more than MaxKeys keys, it   *)
(* forgets them all.                                                       *)
(***************************************************************************)
EXTENDS Keeping, FiniteSets

CONSTANTS
    Key,
    n,
    per,
    MaxKeys,      \* 10000 in the code
    MaxTime,      \* bound: the clock
    MaxAttempts   \* bound: attempts

VARIABLES
    now,      \* the time
    hits,     \* for each key in the map, the times of its attempts
    log       \* the attempts since the server started, and whether they were allowed

limitVars == <<now, hits, log>>

Init == now = 0 /\ hits = << >> /\ log = << >>

Tick == /\ now < MaxTime
        /\ now' = now + 1
        /\ UNCHANGED <<hits, log>>

\* What is left of the map when an attempt comes.
Map == IF Cardinality(DOMAIN hits) > MaxKeys THEN << >> ELSE hits

Recent(times) == Keep(times, {t \in 0..now : now - t < per})

\* The slip: an attempt that is refused counts too.
allowCountsRefused(k) ==
    LET recent == Recent(IF k \in DOMAIN Map THEN Map[k] ELSE << >>)
    IN  /\ Len(log) < MaxAttempts
        /\ hits' = [x \in DOMAIN Map \cup {k} |-> IF x = k THEN Append(recent, now) ELSE Map[x]]
        /\ log' = Append(log, [key |-> k, time |-> now, allowed |-> Len(recent) < n])
        /\ UNCHANGED now

\* An attempt of key k.
allow(k) ==
    LET recent == Recent(IF k \in DOMAIN Map THEN Map[k] ELSE << >>)
        yes    == Len(recent) < n
    IN  /\ Len(log) < MaxAttempts
        /\ hits' = [x \in DOMAIN Map \cup {k} |->
              IF x # k THEN Map[x] ELSE IF yes THEN Append(recent, now) ELSE recent]
        /\ log' = Append(log, [key |-> k, time |-> now, allowed |-> yes])
        /\ UNCHANGED now

\* The server starts again.
Restart == hits' = << >> /\ log' = << >> /\ UNCHANGED now

Next == Tick \/ Restart \/ \E k \in Key : allow(k)

-----------------------------------------------------------------------------
\* While the server runs, an attempt is refused only when n others of its key were allowed within per, and
\* is allowed after so many only when there were more than MaxKeys keys: those that
\* were refused do not make anybody wait longer, and the end of the window is the
\* same for each (main.go:857-876).
LimitIsExact ==
    \A j \in DOMAIN log :
        LET before == {i \in 1..(j - 1) :
                          /\ log[i].key = log[j].key /\ log[i].allowed
                          /\ log[j].time - log[i].time < per}
            keys   == {log[i].key : i \in 1..(j - 1)}
        IN  IF log[j].allowed
            THEN Cardinality(before) >= n => Cardinality(keys) > MaxKeys
            ELSE Cardinality(before) >= n

=============================================================================
