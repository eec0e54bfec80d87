------------------------------ MODULE Billing ------------------------------
(***************************************************************************)
(* The subscriptions of the accounts: what Stripe says in its events, and  *)
(* what the server makes of them (setCustomer and setStatus in             *)
(* src/store.go, webhook, checkout and remove in src/main.go).             *)
(*                                                                         *)
(* Stripe is another program.  It keeps the customers and subscriptions,   *)
(* and sends an event for each change, late, in any order, twice, and      *)
(* again until the server answers that it took it.  An event has the       *)
(* second of the change; more changes may fall in one second.              *)
(*                                                                         *)
(* The webhook takes s.mu for each look and each change of an account, so  *)
(* it is several steps, between which other requests run.  A change is     *)
(* saved in the step that makes it, or stays in memory alone when          *)
(* accounts.json cannot be written.                                        *)
(***************************************************************************)
EXTENDS Naturals, SequencesExt

CONSTANTS
    Id,          \* accounts
    Customer,    \* customers that Stripe can make
    Sub,         \* subscriptions that Stripe can make
    Handler,     \* goroutines
    None,        \* no customer, account or subscription
    Faults,      \* the kinds of fault that may happen
    MaxRemovals, \* bound: times that a user asks to delete an account
    MaxEvents,   \* bound: events that no deletion of a customer causes
    MaxFaults    \* bound: faults

\* What Stripe says of a subscription, or "" before that.
Status == {"", "active", "past_due", "canceled"}

\* An account, and a subscription at Stripe.
Billed == [customer : Customer \cup {None}, status : Status, at : Nat]

Subscription == [customer : Customer, account : Id, status : Status]

ASSUME BillingAssumption ==
    /\ None \notin Id \cup Customer \cup Billed \cup Subscription
    /\ Faults \subseteq {"io", "crash", "again", "stripe"}
    /\ IsFiniteSet(Sub)
    /\ {MaxRemovals, MaxEvents, MaxFaults} \subseteq Nat

VARIABLES
    account,   \* the objects: the fields Customer, Status and StatusAt
    accounts,  \* s.accounts: its keys
    disk,      \* accounts.json
    handler,   \* the goroutines
    pages,     \* open Checkout pages: for whom, with which customer
    sub,       \* at Stripe: the subscriptions
    gone,      \* at Stripe: the customers that were deleted
    events,    \* the events, in the order of the changes
    pending,   \* the events that the server has yet to take
    leaving,   \* how often the user of each account asked to delete it
    deleted,   \* the accounts whose user was told that they are deleted, each with the
               \* customer that it had when the user asked
    faults     \* faults so far

store  == <<account, accounts, disk>>
stripe == <<pages, sub, gone, events>>
told   == <<leaving, deleted>>
vars   == <<store, handler, stripe, pending, told, faults>>

New  == [customer |-> None, status |-> "", at |-> 0]
Idle == [at |-> "idle", event |-> 0, id |-> None, customer |-> None]

At(h, step) == handler[h].at = step

GoTo(h, step, id) ==
    handler' = [handler EXCEPT ![h] =
       [at |-> step, event |-> handler[h].event, id |-> id, customer |-> handler[h].customer]]

Done(h) == handler' = [handler EXCEPT ![h] = Idle]

Fault(kind) == /\ kind \in Faults
               /\ faults < MaxFaults
               /\ faults' = faults + 1

\* A subscription that is paid for.
Paid(status) == status \in {"active", "past_due"}

Created(e) == events[e].created

\* The second of the last change; the next one may be in the same second.
Now == IF events = << >> THEN 1 ELSE Created(Len(events))

\* Users and Stripe may make n more events.
Room(n) == Len(events) + n <= MaxEvents

\* Stripe sends these events.
Emit(list) ==
    /\ events' = events \o list
    /\ pending' = pending \cup (Len(events) + 1)..(Len(events) + Len(list))

Event(type, s, when) ==
    [type |-> type, customer |-> s.customer, account |-> s.account,
     status |-> s.status, created |-> when]

Init ==
    /\ account = [i \in Id |-> New]
    /\ accounts = Id
    /\ disk = account
    /\ handler = [h \in Handler |-> Idle]
    /\ pages = {} /\ sub = [s \in Sub |-> None] /\ gone = {}
    /\ events = << >> /\ pending = {}
    /\ leaving = [i \in Id |-> 0] /\ deleted = {} /\ faults = 0

-----------------------------------------------------------------------------
(***************************************************************************)
(* Users and Stripe.                                                       *)
(***************************************************************************)

\* A signed-in user gets a Checkout page from Stripe, with the customer that the
\* account has now.  Stripe refuses one that it deleted.  The web page does not
\* ask whether the account has a subscription (apiCheckout does).
Checkout(i) ==
    /\ i \in accounts
    /\ account[i].customer \notin gone
    /\ pages' = pages \cup {[account |-> i, customer |-> account[i].customer]}
    /\ UNCHANGED <<store, handler, sub, gone, events, pending, told, faults>>

\* A user pays on a Checkout page.  Stripe makes a customer if the page has none.
Pay(p, c, s) ==
    LET new  == [customer |-> c, account |-> p.account, status |-> "active"]
        used == {sub[t].customer : t \in {t \in Sub : sub[t] # None}}
    IN  /\ Room(2)
        /\ p \in pages
        /\ sub[s] = None
        /\ c \notin gone
        /\ IF p.customer = None THEN c \notin used ELSE c = p.customer
        /\ pages' = pages \ {p}
        /\ sub' = [sub EXCEPT ![s] = new]
        /\ \E when \in {Now, Now + 1} :
              Emit(<<Event("completed", new, when), Event("subscription", new, when)>>)
        /\ UNCHANGED <<store, handler, gone, told, faults>>

\* A payment fails or succeeds after all, or the subscription ends.
Change(s, status) ==
    LET new == [customer |-> sub[s].customer, account |-> sub[s].account, status |-> status]
    IN  /\ Room(1)
        /\ sub[s] # None
        /\ Paid(sub[s].status) /\ status # sub[s].status
        /\ sub' = [sub EXCEPT ![s] = new]
        /\ \E when \in {Now, Now + 1} : Emit(<<Event("subscription", new, when)>>)
        /\ UNCHANGED <<store, handler, pages, gone, told, faults>>

\* Stripe sends an event that the server has yet to take, or one that it took.
Deliver(h, e) ==
    /\ At(h, "idle")
    /\ \/ e \in pending /\ UNCHANGED faults
       \/ e \in DOMAIN events \ pending /\ Fault("again")
    /\ handler' = [handler EXCEPT ![h] =
          [at |-> "find", event |-> e, id |-> None, customer |-> None]]
    /\ UNCHANGED <<store, stripe, pending, told>>

-----------------------------------------------------------------------------
(***************************************************************************)
(* The webhook.                                                            *)
(***************************************************************************)
Its(h) == events[handler[h].event]

\* The server takes the event; or it answers 500, and Stripe will send it again.
Take(h) == Done(h) /\ pending' = pending \ {handler[h].event}
Refuse(h) == Done(h) /\ UNCHANGED pending

\* accounts.json gets the accounts that memory has now.
Save == disk' = [i \in Id |-> IF i \in accounts THEN account'[i] ELSE None]

\* byCustomer for a subscription, byID for a Checkout.
Find(h) ==
    LET having == {i \in accounts : account[i].customer = Its(h).customer}
    IN  /\ At(h, "find")
        /\ CASE Its(h).type = "completed" ->
                  IF Its(h).account \in accounts
                  THEN GoTo(h, "customer", Its(h).account) /\ UNCHANGED pending
                  ELSE Take(h)
             [] OTHER ->
                  /\ IF having # {} THEN \E i \in having : GoTo(h, "status", i)
                                    ELSE GoTo(h, "byid", None)
                  /\ UNCHANGED pending
        /\ UNCHANGED <<store, stripe, told, faults>>

\* The slip: an event that is about no account is an error.
ByIdUnknownFails(h) ==
    LET i == Its(h).account
    IN  /\ At(h, "byid")
        /\ IF i \in accounts THEN GoTo(h, "customer", i) ELSE Done(h)
        /\ UNCHANGED <<store, stripe, pending, told, faults>>

\* No account has the customer: the account that the subscription names.
ById(h) ==
    LET i == Its(h).account
    IN  /\ At(h, "byid")
        /\ IF i \in accounts THEN GoTo(h, "customer", i) /\ UNCHANGED pending
                             ELSE Take(h)
        /\ UNCHANGED <<store, stripe, told, faults>>

\* The slip: the server takes the event though accounts.json was not written.
TakeUnsaved(h) == /\ Take(h)
                  /\ \/ Save /\ UNCHANGED faults
                     \/ Fault("io") /\ UNCHANGED disk

\* The account changes, and the event is taken when accounts.json was written.
TakeSaved(h) == \/ Save /\ Take(h) /\ UNCHANGED faults
                \/ Fault("io") /\ Refuse(h) /\ UNCHANGED disk

SetCustomer(h) ==
    LET i == handler[h].id
    IN  /\ At(h, "customer")
        /\ account' = [account EXCEPT ![i] =
              [customer |-> Its(h).customer, status |-> account[i].status, at |-> account[i].at]]
        /\ IF Its(h).type = "completed"
           THEN TakeSaved(h)
           ELSE /\ UNCHANGED pending
                /\ \/ Save /\ GoTo(h, "status", i) /\ UNCHANGED faults
                   \/ Fault("io") /\ Done(h) /\ UNCHANGED disk
        /\ UNCHANGED <<accounts, stripe, told>>

\* Account i gets the status of the event.
Takes(i, h) ==
    account' = [account EXCEPT ![i] =
       [customer |-> account[i].customer, status |-> Its(h).status, at |-> Its(h).created]]

\* The slips: no look at the time; the status is set before the look at the time.
SetStatusAlways(h) ==
    /\ At(h, "status") /\ Takes(handler[h].id, h) /\ TakeSaved(h)
    /\ UNCHANGED <<accounts, stripe, told>>

SetStatusKeepsTime(h) ==
    LET i == handler[h].id
    IN  /\ At(h, "status")
        /\ IF Its(h).created < account[i].at
           THEN account' = [account EXCEPT ![i].status = Its(h).status]
           ELSE Takes(i, h)
        /\ TakeSaved(h)
        /\ UNCHANGED <<accounts, stripe, told>>

\* An event that is older than the one that set the status is taken without effect.
SetStatus(h) ==
    LET i == handler[h].id
    IN  /\ At(h, "status")
        /\ IF Its(h).created < account[i].at
           THEN Take(h) /\ UNCHANGED <<account, disk, faults>>
           ELSE Takes(i, h) /\ TakeSaved(h)
        /\ UNCHANGED <<accounts, stripe, told>>

-----------------------------------------------------------------------------
(***************************************************************************)
(* The end of an account.                                                  *)
(***************************************************************************)

\* A user asks to delete the account; the handler keeps the customer that it has
\* now.
AskRemove(h, i) ==
    /\ leaving[i] < MaxRemovals
    /\ At(h, "idle")
    /\ i \in accounts
    /\ handler' = [handler EXCEPT ![h] =
          [at |-> "end", event |-> 0, id |-> i, customer |-> account[i].customer]]
    /\ leaving' = [leaving EXCEPT ![i] = @ + 1]
    /\ UNCHANGED <<store, stripe, pending, deleted, faults>>

\* Stripe deletes a customer, which ends its subscriptions.
DeleteCustomer(c) ==
    LET ending == {s \in Sub : sub[s] # None /\ sub[s].customer = c /\ Paid(sub[s].status)}
        ended  == SetToSeq(ending)
    IN  /\ gone' = gone \cup {c}
        /\ sub' = [s \in Sub |-> IF s \in ending
                                 THEN [sub[s] EXCEPT !.status = "canceled"] ELSE sub[s]]
        /\ \E when \in {Now, Now + 1} :
              Emit([n \in 1..Len(ended) |-> Event("subscription", sub'[ended[n]], when)])

Unended == UNCHANGED <<sub, gone, events, pending>>

\* The slip: the error of Stripe is not looked at.
EndCustomerUnheard(h) ==
    LET c == handler[h].customer
    IN  /\ At(h, "end") /\ GoTo(h, "remove", handler[h].id)
        /\ \/ c \in gone \cup {None} /\ Unended /\ UNCHANGED faults
           \/ c \in Customer \ gone /\ DeleteCustomer(c) /\ UNCHANGED faults
           \/ c \in Customer \ gone /\ Unended /\ Fault("stripe")
        /\ UNCHANGED <<store, pages, told>>

\* The account goes on to be removed when Stripe has deleted its customer.  When Stripe has
\* no such customer, or its answer does not come, the account stays: then Stripe has deleted
\* the customer all the same, or not.
EndCustomer(h) ==
    LET c == handler[h].customer
        GoesOn == GoTo(h, "remove", handler[h].id)
    IN  /\ At(h, "end")
        /\ \/ c = None /\ Unended /\ GoesOn /\ UNCHANGED faults
           \/ c \in gone /\ Unended /\ Done(h) /\ UNCHANGED faults
           \/ c \in Customer \ gone /\ DeleteCustomer(c) /\ GoesOn /\ UNCHANGED faults
           \/ c \in Customer \ gone /\ (DeleteCustomer(c) \/ Unended) /\ Done(h)
                 /\ Fault("stripe")
        /\ UNCHANGED <<store, pages, told>>

\* The account leaves memory, then accounts.json, or it stays there.
RemoveAccount(h) ==
    LET i == handler[h].id
    IN  /\ At(h, "remove")
        /\ Done(h)
        /\ accounts' = accounts \ {i}
        /\ \/ /\ disk' = [j \in Id |-> IF j \in accounts' THEN account[j] ELSE None]
              /\ deleted' = deleted \cup {[id |-> i, customer |-> handler[h].customer]}
              /\ UNCHANGED faults
           \/ Fault("io") /\ UNCHANGED <<disk, deleted>>
        /\ UNCHANGED <<account, stripe, pending, leaving>>

\* The server dies and starts again with what accounts.json holds.
Crash ==
    /\ Fault("crash")
    /\ accounts' = {i \in Id : disk[i] # None}
    /\ account' = [i \in Id |-> IF disk[i] # None THEN disk[i] ELSE account[i]]
    /\ handler' = [h \in Handler |-> Idle]
    /\ UNCHANGED <<disk, stripe, pending, told>>

-----------------------------------------------------------------------------
GoOn(h) == Find(h) \/ ById(h) \/ SetCustomer(h) \/ SetStatus(h)
           \/ EndCustomer(h) \/ RemoveAccount(h)

Next == \/ \E i \in Id : Checkout(i)
        \/ \E p \in pages, c \in Customer, s \in Sub : Pay(p, c, s)
        \/ \E s \in Sub, status \in {"active", "past_due", "canceled"} : Change(s, status)
        \/ \E h \in Handler :
              \/ GoOn(h)
              \/ \E e \in DOMAIN events : Deliver(h, e)
              \/ \E i \in Id : AskRemove(h, i)
        \/ Crash

Spec == Init /\ [][Next]_vars

\* Stripe sends an event again and again until the server takes it, and finds a
\* free goroutine; goroutines run.
Fairness ==
    /\ \A h \in Handler : WF_vars(GoOn(h))
    /\ \A e \in 1..(MaxEvents + Cardinality(Sub)) : SF_vars(e \in pending /\ \E h \in Handler : Deliver(h, e))

FairSpec == Spec /\ Fairness

-----------------------------------------------------------------------------
StripeEvent == [type : {"completed", "subscription"}, customer : Customer,
                account : Id, status : Status, created : Nat \ {0}]

Goroutine == [at : {"idle", "find", "byid", "customer", "status", "end", "remove"},
              event : Nat, id : Id \cup {None}, customer : Customer \cup {None}]

\* The types of the variables.
TypeOK ==
    /\ account \in [Id -> Billed]
    /\ accounts \subseteq Id
    /\ disk \in [Id -> Billed \cup {None}]
    /\ handler \in [Handler -> Goroutine]
    /\ pages \subseteq [account : Id, customer : Customer \cup {None}]
    /\ sub \in [Sub -> Subscription \cup {None}]
    /\ gone \subseteq Customer
    /\ events \in Seq(StripeEvent)
    /\ pending \subseteq DOMAIN events
    /\ leaving \in [Id -> 0..MaxRemovals]
    /\ deleted \subseteq [id : Id, customer : Customer \cup {None}]
    /\ faults \in 0..MaxFaults

\* The events of subscriptions of account i.
About(i) == {e \in DOMAIN events : events[e].account = i /\ events[e].type = "subscription"}

\* Those whose accounts must have what Stripe says.
Staying == {i \in Id : leaving[i] = 0 /\ disk[i] # None}

\* What Stripe was told that the server took is on disk: the customer, and the
\* status of the event or of a newer one; unless a newer one is still to come.  So
\* neither a crash nor a write that failed loses an event (main.go:605-641,
\* store.go:315-332).
TakenIsSaved ==
    \A i \in Staying :
        /\ \A e \in About(i) \ pending :
              \/ disk[i].customer # None /\ disk[i].at >= Created(e)
              \/ \E f \in About(i) \cap pending : Created(f) > Created(e)
        /\ (\E e \in DOMAIN events \ pending : events[e].account = i) =>
              \/ disk[i].customer # None
              \/ About(i) \cap pending # {}

\* The status on disk is the one that Stripe's event of that second gave
\* (store.go:322-332).
StatusIsOfItsTime ==
    \A i \in Staying : disk[i].at # 0 =>
        \E e \in About(i) : Created(e) = disk[i].at /\ events[e].status = disk[i].status

\* A late event never takes the place of a newer one, not in memory and not, across
\* crashes, on disk (store.go:322-323: "unless the store has a newer event already").
NewerStays ==
    [][\A i \in Id : /\ disk[i] # None /\ disk'[i] # None => disk'[i].at >= disk[i].at
                     /\ account'[i].at >= account[i].at \/ Crash]_vars

\* An account that its user was told is deleted stays away, whatever the webhook does with
\* the account that it found before; and no subscription is paid, then or later, of the
\* customer that the account had when the user asked, though pages for that customer were
\* open, or Stripe did not answer at first (main.go:565-575, store.go:315-332).  Of other
\* customers that this account had, see DeletedDoesNotPay.
DeletedIsEnded ==
    \A r \in deleted :
        /\ r.id \notin accounts /\ disk[r.id] = None
        /\ \A s \in Sub : sub[s] # None /\ sub[s].customer = r.customer
                            => ~Paid(sub[s].status)

\* When no more happens at Stripe, the server takes all events in the end, and each
\* account has the status of its newest one (main.go:641: "Stripe sends the event
\* again later").
Settles ==
    <>[](/\ pending = {}
         /\ \A i \in Staying : \A e \in About(i) : account[i].at >= Created(e))

\* A deleted account does not pay (main.go:565: "a deleted account must not pay").
DeletedDoesNotPay ==
    \A s \in Sub, r \in deleted :
        sub[s] # None /\ Paid(sub[s].status) => sub[s].account # r.id

=============================================================================
