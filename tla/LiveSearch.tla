----------------------------- MODULE LiveSearch -----------------------------
(***************************************************************************)
(* The live search of the bookmark pages (src/search.js): the results      *)
(* change while the user types, and Enter opens the first one.             *)
(*                                                                         *)
(* The script waits for a pause in the typing and then asks the server;    *)
(* updates overlap, and their answers come in any order.  A query is the   *)
(* whole form; Blank is a form whose box has no words.                     *)
(*                                                                         *)
(* An event of the browser runs to its end, or to an await, before the     *)
(* next one.  What waits for an update goes on right after that one ends,  *)
(* before another event: the guard Quiet.                                  *)
(***************************************************************************)
EXTENDS Naturals, Sequences

CONSTANTS
    Query,
    Blank,
    MaxTyped,    \* bound: events that change the form
    MaxEnters    \* bound: times that the user hits Enter

VARIABLES
    clears,     \* data-empty of the page: a blank form has no results
    box,       \* the form
    timer,     \* an update waits for a pause in the typing
    updates,   \* the updates so far, for what and how they went; newest is their number
    shown,     \* the query whose results the page shows
    running,   \* the update that Enter waits for, 0 for none
    enters,    \* the Enter keys that wait, each with its update and what was in the box
    left,      \* the page was left
    typed      \* events so far: changes and Enter keys

searchVars == <<clears, box, timer, updates, shown, running, enters, left, typed>>

newest == Len(updates)

Open(n) == n # 0 /\ updates[n].went = "open"

\* No Enter is ready to go on.
Quiet == ~left /\ \A e \in enters : Open(e.update)

Init ==
    /\ clears \in BOOLEAN
    /\ box \in Query /\ shown = box
    /\ timer = FALSE
    /\ updates = << >> /\ running = 0
    /\ enters = {}
    /\ left = FALSE
    /\ typed = [changes |-> 0, enters |-> 0]

\* The form changes: the update waits until the user stops for a moment (later).
Type(q) ==
    /\ Quiet
    /\ q # box
    /\ typed.changes < MaxTyped
    /\ typed' = [typed EXCEPT !.changes = @ + 1]
    /\ box' = q
    /\ timer' = TRUE
    /\ UNCHANGED <<clears, updates, shown, running, enters, left>>

\* An update starts: it asks the server, or clears the results.
update ==
    LET clear == clears /\ box = Blank
    IN  /\ updates' = Append(updates, [query |-> box, went |-> IF clear THEN "well" ELSE "open"])
        /\ shown' = IF clear THEN box ELSE shown

\* The user stopped typing.
Fire ==
    /\ Quiet
    /\ timer
    /\ timer' = FALSE
    /\ update /\ running' = newest + 1
    /\ UNCHANGED <<clears, box, enters, left, typed>>

\* The slip: any answer is shown.
AnswerShown(n) ==
    /\ Quiet /\ Open(n)
    /\ updates' = [updates EXCEPT ![n].went = "well"]
    /\ shown' = updates[n].query
    /\ UNCHANGED <<clears, box, timer, running, enters, left, typed>>

\* The server answers update n.  Only the newest is shown.
Answer(n) ==
    /\ Quiet
    /\ Open(n)
    /\ updates' = [updates EXCEPT ![n].went = "well"]
    /\ shown' = IF n = newest THEN updates[n].query ELSE shown
    /\ UNCHANGED <<clears, box, timer, running, enters, left, typed>>

\* There is no answer, an error, or a page without results.
FailUpdate(n) ==
    /\ Quiet
    /\ Open(n)
    /\ updates' = [updates EXCEPT ![n].went = "wrong"]
    /\ UNCHANGED <<clears, box, timer, shown, running, enters, left, typed>>

\* The slip: the timer is stopped and no update starts.
EnterStopsTimer ==
    /\ Quiet /\ typed.enters < MaxEnters
    /\ typed' = [typed EXCEPT !.enters = @ + 1]
    /\ timer' = FALSE
    /\ enters' = enters \cup {[update |-> running, query |-> box, nth |-> typed'.enters]}
    /\ UNCHANGED <<clears, box, updates, shown, running, left>>

\* The user hits Enter: an update that waits starts now, and the script waits for
\* the newest one.
Enter ==
    /\ Quiet
    /\ typed.enters < MaxEnters
    /\ typed' = [typed EXCEPT !.enters = @ + 1]
    /\ timer' = FALSE
    /\ IF timer THEN update /\ running' = newest + 1
                ELSE UNCHANGED <<updates, shown, running>>
    /\ enters' = enters \cup {[update |-> running', query |-> box, nth |-> typed'.enters]}
    /\ UNCHANGED <<clears, box, left>>

\* The update is over, and its Enter opens the first of the results that are shown,
\* here or in a new tab; when there is none, the browser asks for the page of box.
OpenFirst(e) ==
    /\ ~left
    /\ ~Open(e.update)
    /\ enters' = enters \ {e}
    /\ left' \in BOOLEAN
    /\ UNCHANGED <<clears, box, timer, updates, shown, running, typed>>

Next == \/ \E q \in Query : Type(q)
        \/ Fire \/ Enter
        \/ \E n \in DOMAIN updates : Answer(n) \/ FailUpdate(n)
        \/ \E e \in enters : OpenFirst(e)

\* The browser runs what is due, and each request of it ends in some way.
Fairness ==
    /\ WF_searchVars(Fire)
    /\ WF_searchVars(\E n \in DOMAIN updates : Answer(n) \/ FailUpdate(n))
    /\ WF_searchVars(\E e \in enters : OpenFirst(e))

-----------------------------------------------------------------------------
\* Enter opens a result of what was in the box when it was hit, when its update
\* did not fail and no newer one started while it waited: the timer that had not
\* fired is not forgotten, and the answer of an older update, which may come last,
\* is not in the way (search.js:34, 51-63).
EnterOpensFresh ==
    [][\A e \in enters \ enters' :
          e.update = newest /\ (newest = 0 \/ updates[newest].went = "well")
             => shown = e.query]_searchVars

\* In the end the page shows the results for what is in the box, unless their update
\* failed, or the page was left (search.js:1-4, 18-37).
SettlesOnTyped ==
    <>[](\/ left
         \/ ~timer /\ shown = box
         \/ ~timer /\ newest # 0 /\ updates[newest].went = "wrong")

=============================================================================
