--------------------------- MODULE BillingProofs ---------------------------
(***************************************************************************)
(* The status of an account is one that Stripe gave it at that time, and   *)
(* a late event takes no newer one's place, for any number of accounts,    *)
(* customers, goroutines, events and faults.                               *)
(*                                                                         *)
(* The webhook finds the account of an event by its customer.  That it is  *)
(* the account which the subscription is for rests on who gives whom a     *)
(* customer: Stripe makes one for a Checkout page without, the page names  *)
(* its account, and a page has a customer only from its own account.       *)
(*                                                                         *)
(* That nothing is lost which Stripe was told is taken rests on memory     *)
(* that is ahead of the disk only while a newer event is to come.          *)
(***************************************************************************)
EXTENDS Billing, FiniteSetTheorems, SequenceTheorems, TLAPS

\* Customer c was made for account i.
Owned(c, i) == \E s \in Sub : sub[s] # None /\ sub[s].customer = c /\ sub[s].account = i

\* The subscriptions of one customer are for one account.
SubsAgree ==
    \A s, t \in Sub : /\ sub[s] # None /\ sub[t] # None
                      /\ sub[s].customer = sub[t].customer
                      => sub[s].account = sub[t].account

EventsOwned == \A e \in DOMAIN events : Owned(events[e].customer, events[e].account)

AccountsOwn ==
    \A i \in Id :
        /\ account[i].customer # None => Owned(account[i].customer, i)
        /\ disk[i] # None /\ disk[i].customer # None => Owned(disk[i].customer, i)

PagesOwn == \A p \in pages : p.customer # None => Owned(p.customer, p.account)

\* A goroutine has the event that it works on, and the account that it is for.
Served(h) ==
    /\ handler[h].at \in {"find", "byid", "customer", "status"} =>
          handler[h].event \in DOMAIN events
    /\ handler[h].at \in {"customer", "status", "end", "remove"} => handler[h].id \in Id
    /\ handler[h].at \in {"customer", "status"} => Its(h).account = handler[h].id
    /\ handler[h].at \in {"byid", "status"} => Its(h).type = "subscription"

Serving == \A h \in Handler : Served(h)

\* Some event of account i gave it this status at this time.
Given(i, status, when) ==
    \E e \in About(i) : Created(e) = when /\ events[e].status = status

MemoryIsOfItsTime ==
    \A i \in Id : account[i].at # 0 => Given(i, account[i].status, account[i].at)

DiskIsOfItsTime ==
    \A i \in Id : disk[i] # None /\ disk[i].at # 0 => Given(i, disk[i].status, disk[i].at)

\* The disk is never ahead of memory.
DiskIsBehind == \A i \in Id : disk[i] # None => disk[i].at <= account[i].at

IInv == /\ TypeOK
        /\ SubsAgree /\ EventsOwned /\ AccountsOwn /\ PagesOwn
        /\ Serving
        /\ MemoryIsOfItsTime /\ DiskIsOfItsTime /\ DiskIsBehind

-----------------------------------------------------------------------------
(***************************************************************************)
(* Nothing that Stripe said is taken back.                                 *)
(***************************************************************************)

Grows ==
    /\ DOMAIN events \subseteq DOMAIN events'
    /\ \A e \in DOMAIN events : events'[e] = events[e]
    /\ \A s \in Sub : sub[s] # None =>
          /\ sub'[s] # None
          /\ sub'[s].customer = sub[s].customer /\ sub'[s].account = sub[s].account

LEMMA OwnedStays ==
    ASSUME Grows, NEW c, NEW i, Owned(c, i)
    PROVE  Owned(c, i)'
BY DEF Grows, Owned

LEMMA GivenStays ==
    ASSUME Grows, NEW i, NEW status, NEW when, Given(i, status, when)
    PROVE  Given(i, status, when)'
BY DEF Grows, Given, About, Created

LEMMA ServedStays ==
    ASSUME Grows, NEW h \in Handler, handler'[h] = handler[h], Served(h)
    PROVE  Served(h)'
BY DEF Grows, Served, Its

\* More events: the old ones stay, and the new ones are those of the list.
LEMMA EventsGrow ==
    ASSUME TypeOK, NEW list \in Seq(StripeEvent), Emit(list)
    PROVE  /\ events' \in Seq(StripeEvent)
           /\ pending' \subseteq DOMAIN events'
           /\ DOMAIN events \subseteq DOMAIN events'
           /\ \A e \in DOMAIN events : events'[e] = events[e]
           /\ \A e \in DOMAIN events' :
                 e \in DOMAIN events \/ \E n \in 1..Len(list) : events'[e] = list[n]
<1>1. events \in Seq(StripeEvent) /\ pending \subseteq DOMAIN events
  BY DEF TypeOK
<1>2. events' = events \o list /\ events' \in Seq(StripeEvent)
  BY <1>1 DEF Emit
<1>3. /\ DOMAIN events = 1..Len(events) /\ DOMAIN events' = 1..(Len(events) + Len(list))
      /\ Len(events) \in Nat /\ Len(list) \in Nat
  BY <1>1, <1>2
<1>4. pending' \subseteq DOMAIN events'
  BY <1>1, <1>3 DEF Emit
<1>5. \A e \in DOMAIN events : events'[e] = events[e]
  BY <1>1, <1>2, <1>3
<1>6. ASSUME NEW e \in DOMAIN events', e \notin DOMAIN events
      PROVE  \E n \in 1..Len(list) : events'[e] = list[n]
  <2>1. e - Len(events) \in 1..Len(list)
    BY <1>3, <1>6
  <2>2. events'[e] = list[e - Len(events)]
    <3>1. e \in 1..(Len(events) + Len(list)) /\ e > Len(events)
      BY <1>3, <1>6
    <3>2. events \in Seq(StripeEvent) /\ list \in Seq(StripeEvent)
      BY <1>1
    <3>3. \A i \in 1..(Len(events) + Len(list)) :
             (events \o list)[i] = IF i <= Len(events) THEN events[i] ELSE list[i - Len(events)]
      BY <3>2, ConcatProperties
    <3>4. ~(e <= Len(events))
      BY <1>3, <3>1
    <3> QED BY <1>2, <3>1, <3>3, <3>4, Zenon
  <2> QED BY <2>1, <2>2
<1>7. DOMAIN events \subseteq DOMAIN events'
  BY <1>3
<1>8. \A e \in DOMAIN events' :
         e \in DOMAIN events \/ \E n \in 1..Len(list) : events'[e] = list[n]
  BY <1>6, Zenon
<1> QED BY <1>2, <1>4, <1>5, <1>7, <1>8, Zenon

\* The seconds of the next events.
LEMMA NowTyped ==
    ASSUME TypeOK
    PROVE  Now \in Nat \ {0} /\ Now + 1 \in Nat \ {0}
<1>1. CASE events = << >>
  BY <1>1 DEF Now
<1>2. CASE events # << >>
  <2>1. events \in Seq(StripeEvent)
    BY DEF TypeOK
  <2>2. Len(events) \in DOMAIN events
    BY <1>2, <2>1
  <2>3. events[Len(events)] \in StripeEvent
    BY <2>1, <2>2
  <2>4. Created(Len(events)) \in Nat \ {0}
    BY <2>3 DEF Created, StripeEvent
  <2> QED BY <1>2, <2>4 DEF Now
<1> QED BY <1>1, <1>2

\* What a list of events about subscriptions adds keeps EventsOwned.
LEMMA EventsStayOwned ==
    ASSUME TypeOK, EventsOwned, Grows, NEW list \in Seq(StripeEvent), Emit(list),
           \A n \in 1..Len(list) : Owned(list[n].customer, list[n].account)'
    PROVE  EventsOwned'
<1> SUFFICES ASSUME NEW e \in DOMAIN events'
             PROVE  Owned(events[e].customer, events[e].account)'
  BY DEF EventsOwned, Owned
<1>1. CASE e \in DOMAIN events
  <2>1. Owned(events[e].customer, events[e].account) /\ events'[e] = events[e]
    BY <1>1 DEF EventsOwned, Grows
  <2> QED BY <2>1 DEF Owned, Grows
<1>2. CASE e \notin DOMAIN events
  <2>1. PICK n \in 1..Len(list) : events'[e] = list[n]
    BY <1>2, EventsGrow
  <2> QED BY <2>1 DEF Owned
<1> QED BY <1>1, <1>2

\* The accounts and what the goroutines have stay right when no account changes.
LEMMA AccountsStay ==
    ASSUME AccountsOwn, MemoryIsOfItsTime, DiskIsOfItsTime, DiskIsBehind, Grows,
           UNCHANGED <<account, disk>>
    PROVE  AccountsOwn' /\ MemoryIsOfItsTime' /\ DiskIsOfItsTime' /\ DiskIsBehind'
<1>1. AccountsOwn'
  <2> SUFFICES ASSUME NEW i \in Id
               PROVE  /\ account[i].customer # None => Owned(account[i].customer, i)'
                      /\ disk[i] # None /\ disk[i].customer # None
                            => Owned(disk[i].customer, i)'
    BY DEF AccountsOwn, Owned
  <2> QED BY OwnedStays DEF AccountsOwn
<1>2. MemoryIsOfItsTime' /\ DiskIsOfItsTime'
  <2> SUFFICES ASSUME NEW i \in Id
               PROVE  /\ account[i].at # 0 => Given(i, account[i].status, account[i].at)'
                      /\ disk[i] # None /\ disk[i].at # 0
                            => Given(i, disk[i].status, disk[i].at)'
    BY DEF MemoryIsOfItsTime, DiskIsOfItsTime, Given, About, Created
  <2> QED BY GivenStays DEF MemoryIsOfItsTime, DiskIsOfItsTime
<1>3. DiskIsBehind'
  BY DEF DiskIsBehind
<1> QED BY <1>1, <1>2, <1>3

LEMMA ServingStays ==
    ASSUME Serving, Grows, UNCHANGED handler
    PROVE  Serving'
BY ServedStays DEF Serving

\* Pages that were there stay right.
LEMMA PagesStay ==
    ASSUME PagesOwn, Grows, pages' \subseteq pages
    PROVE  PagesOwn'
<1> SUFFICES ASSUME NEW p \in pages, p.customer # None
             PROVE  Owned(p.customer, p.account)'
  BY DEF PagesOwn, Owned
<1> QED BY OwnedStays DEF PagesOwn

LEMMA StripeStays ==
    ASSUME SubsAgree, EventsOwned, UNCHANGED <<sub, events>>
    PROVE  Grows /\ SubsAgree' /\ EventsOwned'
BY DEF Grows, SubsAgree, EventsOwned, Owned

\* The goroutine goes on, and the others are where they were.
LEMMA GoesTo ==
    ASSUME TypeOK, NEW h \in Handler, NEW id \in Id \cup {None},
           NEW step \in {"idle", "find", "byid", "customer", "status", "end", "remove"},
           GoTo(h, step, id)
    PROVE  /\ handler' \in [Handler -> Goroutine]
           /\ handler'[h].at = step /\ handler'[h].id = id
           /\ handler'[h].event = handler[h].event
           /\ \A g \in Handler \ {h} : handler'[g] = handler[g]
<1>1. handler \in [Handler -> Goroutine] /\ handler[h] \in Goroutine
  BY DEF TypeOK
<1>3. handler' = [handler EXCEPT ![h] =
         [at |-> step, event |-> handler[h].event, id |-> id, customer |-> handler[h].customer]]
  BY DEF GoTo
<1>4. [at |-> step, event |-> handler[h].event, id |-> id, customer |-> handler[h].customer]
         \in Goroutine
  BY <1>1 DEF Goroutine
<1> QED BY <1>1, <1>3, <1>4

LEMMA EndsHere ==
    ASSUME TypeOK, NEW h \in Handler, Done(h)
    PROVE  /\ handler' \in [Handler -> Goroutine]
           /\ handler'[h].at = "idle"
           /\ \A g \in Handler \ {h} : handler'[g] = handler[g]
BY DEF TypeOK, Done, Idle, Goroutine

LEMMA ServingEnds ==
    ASSUME TypeOK, Serving, Grows, NEW h \in Handler, Done(h)
    PROVE  Serving'
<1>1. Served(h)'
  BY EndsHere DEF Served
<1>2. \A g \in Handler \ {h} : Served(g)'
  BY EndsHere, ServedStays DEF Serving
<1> QED BY <1>1, <1>2 DEF Serving

LEMMA ServingGoes ==
    ASSUME Serving, Grows, NEW h \in Handler, Served(h)',
           \A g \in Handler \ {h} : handler'[g] = handler[g]
    PROVE  Serving'
<1>1. \A g \in Handler \ {h} : Served(g)'
  BY ServedStays DEF Serving
<1> QED BY <1>1 DEF Serving

-----------------------------------------------------------------------------
(***************************************************************************)
(* Users and Stripe.                                                       *)
(***************************************************************************)

LEMMA CheckoutKeeps ==
    ASSUME IInv, NEW i \in Id, Checkout(i)
    PROVE  IInv'
<1> USE DEF IInv
<1>1. UNCHANGED <<account, disk, handler, sub, events>>
  BY DEF Checkout, store
<1>2. Grows /\ SubsAgree' /\ EventsOwned'
  BY <1>1, StripeStays
<1>3. TypeOK'
  BY <1>1 DEF Checkout, TypeOK, store, told, Billed
<1>4. PagesOwn'
  <2> SUFFICES ASSUME NEW p \in pages', p.customer # None
               PROVE  Owned(p.customer, p.account)'
    BY DEF PagesOwn, Owned
  <2>1. CASE p \in pages
    BY <2>1, <1>2, OwnedStays DEF PagesOwn
  <2>2. CASE p = [account |-> i, customer |-> account[i].customer]
    <3>1. Owned(account[i].customer, i)
      BY <2>2 DEF AccountsOwn
    <3> QED BY <3>1, <2>2, <1>1 DEF Owned
  <2> QED BY <2>1, <2>2 DEF Checkout
<1>5. Serving'
  BY <1>1, <1>2, ServingStays
<1> QED BY <1>1, <1>2, <1>3, <1>4, <1>5, AccountsStay

\* A page that is paid makes the customer that of its account, if Stripe makes one.
LEMMA PayKeeps ==
    ASSUME IInv, NEW p \in pages, NEW c \in Customer, NEW s \in Sub, Pay(p, c, s)
    PROVE  IInv'
<1> DEFINE new == [customer |-> c, account |-> p.account, status |-> "active"]
<1> USE DEF IInv
<1>1. /\ UNCHANGED <<account, disk, handler, accounts, gone, leaving, deleted, faults>>
      /\ sub[s] = None /\ sub' = [sub EXCEPT ![s] = new] /\ pages' = pages \ {p}
  BY DEF Pay, store, told
<1>2. new \in Subscription /\ p.account \in Id
  BY DEF Subscription, Status, TypeOK
<1>3. PICK when \in Nat \ {0} :
         Emit(<<Event("completed", new, when), Event("subscription", new, when)>>)
  BY NowTyped DEF Pay
<1> DEFINE list == <<Event("completed", new, when), Event("subscription", new, when)>>
<1>4. /\ list \in Seq(StripeEvent)
      /\ \A n \in 1..Len(list) : list[n].customer = c /\ list[n].account = p.account
  BY <1>2 DEF Event, StripeEvent, Subscription
<1>5. sub' \in [Sub -> Subscription \cup {None}] /\ sub'[s] = new
      /\ \A t \in Sub \ {s} : sub'[t] = sub[t]
  BY <1>1, <1>2 DEF TypeOK
<1>6. new # None
  BY <1>2, BillingAssumption
<1> HIDE DEF list
<1>7. Emit(list)
  BY <1>3 DEF list
<1>8. Grows
  BY <1>1, <1>4, <1>5, <1>7, EventsGrow DEF Grows
<1>9. TypeOK'
  <2>1. events' \in Seq(StripeEvent) /\ pending' \subseteq DOMAIN events'
    BY <1>4, <1>7, EventsGrow
  <2> QED BY <2>1, <1>1, <1>5 DEF TypeOK
<1>10. \A t \in Sub \ {s} : sub[t] # None /\ sub[t].customer = c => sub[t].account = p.account
  <2>1. CASE p.customer = None
    BY <2>1 DEF Pay
  <2>2. CASE p.customer # None
    <3>1. c = p.customer /\ Owned(c, p.account)
      BY <2>2 DEF Pay, PagesOwn
    <3> QED BY <3>1 DEF Owned, SubsAgree
  <2> QED BY <2>1, <2>2
<1>11. SubsAgree'
  BY <1>5, <1>10 DEF SubsAgree
<1>12. EventsOwned'
  <2>1. Owned(c, p.account)'
    BY <1>5, <1>6 DEF Owned
  <2>2. \A n \in 1..Len(list) : Owned(list[n].customer, list[n].account)'
    BY <1>4, <2>1 DEF Owned
  <2> QED BY <1>4, <1>7, <1>8, <2>2, EventsStayOwned
<1> HIDE DEF new
<1>13. PagesOwn' /\ Serving'
  BY <1>1, <1>8, PagesStay, ServingStays
<1> QED BY <1>1, <1>8, <1>9, <1>11, <1>12, <1>13, AccountsStay

LEMMA ChangeKeeps ==
    ASSUME IInv, NEW s \in Sub, NEW status \in {"active", "past_due", "canceled"},
           Change(s, status)
    PROVE  IInv'
<1> DEFINE new == [customer |-> sub[s].customer, account |-> sub[s].account,
                   status |-> status]
<1> USE DEF IInv
<1>1. /\ UNCHANGED <<account, disk, handler, accounts, pages, gone, leaving, deleted, faults>>
      /\ sub[s] # None /\ sub' = [sub EXCEPT ![s] = new]
  BY DEF Change, store, told
<1>2. sub[s] \in Subscription /\ new \in Subscription /\ new # None
  <2>1. sub[s] \in Subscription
    BY <1>1 DEF TypeOK
  <2>2. new \in Subscription
    BY <2>1 DEF Subscription, Status
  <2> QED BY <2>1, <2>2, BillingAssumption
<1>3. PICK list \in Seq(StripeEvent) :
         /\ Emit(list)
         /\ \A n \in 1..Len(list) :
               list[n].customer = sub[s].customer /\ list[n].account = sub[s].account
  <2>1. PICK when \in Nat \ {0} : Emit(<<Event("subscription", new, when)>>)
    BY NowTyped DEF Change
  <2> DEFINE l == <<Event("subscription", new, when)>>
  <2>2. /\ l \in Seq(StripeEvent)
        /\ \A n \in 1..Len(l) :
              l[n].customer = sub[s].customer /\ l[n].account = sub[s].account
    BY <1>2 DEF Event, StripeEvent, Subscription
  <2> QED BY <2>1, <2>2
<1>4. /\ sub' \in [Sub -> Subscription \cup {None}]
      /\ sub'[s] # None
      /\ sub'[s].customer = sub[s].customer /\ sub'[s].account = sub[s].account
      /\ \A t \in Sub \ {s} : sub'[t] = sub[t]
  BY <1>1, <1>2 DEF TypeOK
<1> HIDE DEF new
<1>5. Grows
  BY <1>3, <1>4, EventsGrow DEF Grows
<1>6. TypeOK'
  <2>1. events' \in Seq(StripeEvent) /\ pending' \subseteq DOMAIN events'
    BY <1>3, EventsGrow
  <2> QED BY <2>1, <1>1, <1>4 DEF TypeOK
<1>7. SubsAgree'
  BY <1>1, <1>4 DEF SubsAgree
<1>8. EventsOwned'
  <2>1. \A n \in 1..Len(list) : Owned(list[n].customer, list[n].account)'
    BY <1>3, <1>4 DEF Owned
  <2> QED BY <1>3, <1>5, <2>1, EventsStayOwned
<1>9. PagesOwn' /\ Serving'
  BY <1>1, <1>5, PagesStay, ServingStays
<1> QED BY <1>1, <1>5, <1>6, <1>7, <1>8, <1>9, AccountsStay

LEMMA DeliverKeeps ==
    ASSUME IInv, NEW h \in Handler, NEW e \in DOMAIN events, Deliver(h, e)
    PROVE  IInv'
<1> USE DEF IInv
<1>1. /\ UNCHANGED <<account, disk, accounts, pages, sub, gone, events, pending,
                     leaving, deleted>>
      /\ faults' \in {faults, faults + 1} /\ (faults' = faults \/ faults < MaxFaults)
  BY DEF Deliver, Fault, store, stripe, told
<1>2. Grows /\ SubsAgree' /\ EventsOwned'
  BY <1>1, StripeStays
<1>3. /\ handler' \in [Handler -> Goroutine]
      /\ handler'[h] = [at |-> "find", event |-> e, id |-> None, customer |-> None]
      /\ \A g \in Handler \ {h} : handler'[g] = handler[g]
  <2>1. e \in Nat
    BY DEF TypeOK
  <2> QED BY <2>1 DEF Deliver, TypeOK, Goroutine
<1>4. TypeOK'
  <2>1. faults' \in 0..MaxFaults
    BY <1>1, BillingAssumption DEF TypeOK
  <2> QED BY <1>1, <1>3, <2>1 DEF TypeOK
<1>5. Serving'
  <2>1. Served(h)'
    BY <1>1, <1>3 DEF Served
  <2> QED BY <2>1, <1>2, <1>3, ServingGoes
<1>6. PagesOwn'
  BY <1>1, <1>2, PagesStay
<1> QED BY <1>1, <1>2, <1>4, <1>5, <1>6, AccountsStay

-----------------------------------------------------------------------------
(***************************************************************************)
(* The webhook.                                                            *)
(***************************************************************************)

\* An account that has the customer of an event is the account of the event.
LEMMA CustomerTellsAccount ==
    ASSUME IInv, NEW e \in DOMAIN events, NEW i \in Id,
           account[i].customer = events[e].customer
    PROVE  events[e].account = i
<1>1. events[e].customer # None
  <2>1. events[e] \in StripeEvent
    BY DEF IInv, TypeOK
  <2> QED BY <2>1, BillingAssumption DEF StripeEvent
<1>2. Owned(events[e].customer, i) /\ Owned(events[e].customer, events[e].account)
  BY <1>1 DEF IInv, AccountsOwn, EventsOwned
<1> QED BY <1>2 DEF IInv, Owned, SubsAgree

\* What the event of a goroutine is.
LEMMA ItsTyped ==
    ASSUME IInv, NEW h \in Handler,
           handler[h].at \in {"find", "byid", "customer", "status"}
    PROVE  /\ handler[h].event \in DOMAIN events
           /\ Its(h) = events[handler[h].event] /\ Its(h) \in StripeEvent
BY DEF IInv, Serving, Served, Its, TypeOK

\* No account changes; the goroutine takes its event, or goes on.
LEMMA LookKeeps ==
    ASSUME IInv, NEW h \in Handler, Served(h)', handler' \in [Handler -> Goroutine],
           \A g \in Handler \ {h} : handler'[g] = handler[g],
           UNCHANGED <<store, stripe, told, faults>>, pending' \subseteq pending
    PROVE  IInv'
<1> USE DEF IInv
<1>1. UNCHANGED <<account, disk, accounts, pages, sub, gone, events, leaving, deleted, faults>>
  BY DEF store, stripe, told
<1>2. Grows /\ SubsAgree' /\ EventsOwned'
  BY <1>1, StripeStays
<1>3. TypeOK'
  BY <1>1 DEF TypeOK
<1>4. Serving'
  BY <1>2, ServingGoes
<1>5. PagesOwn'
  BY <1>1, <1>2, PagesStay
<1> QED BY <1>1, <1>2, <1>3, <1>4, <1>5, AccountsStay

LEMMA FindKeeps ==
    ASSUME IInv, NEW h \in Handler, Find(h)
    PROVE  IInv'
<1> DEFINE Rest == UNCHANGED <<store, stripe, told, faults>> /\ pending' \subseteq pending
<1>1. TypeOK /\ At(h, "find") /\ accounts \subseteq Id
  BY DEF IInv, TypeOK, Find
<1>2. /\ handler[h].event \in DOMAIN events
      /\ Its(h) = events[handler[h].event] /\ Its(h) \in StripeEvent
  BY <1>1, ItsTyped DEF At
<1>3. Its(h).account \in Id /\ Its(h).type \in {"completed", "subscription"}
  BY <1>2 DEF StripeEvent
<1>4. Rest /\ events' = events
  BY DEF Find, Take, stripe
<1>5. CASE Done(h)
  <2>1. Served(h)'
    BY <1>1, <1>5, EndsHere DEF Served
  <2> QED BY <1>1, <1>4, <1>5, <2>1, EndsHere, LookKeeps
<1>6. CASE GoTo(h, "customer", Its(h).account)
  <2>1. Served(h)'
    BY <1>1, <1>2, <1>3, <1>4, <1>6, GoesTo DEF Served, Its
  <2> QED BY <1>1, <1>3, <1>4, <1>6, <2>1, GoesTo, LookKeeps
<1>7. ASSUME NEW i \in Id, account[i].customer = Its(h).customer,
             Its(h).type = "subscription", GoTo(h, "status", i)
      PROVE  IInv'
  <2>1. Its(h).account = i
    BY <1>2, <1>7, CustomerTellsAccount
  <2>2. Served(h)'
    BY <1>1, <1>2, <1>4, <1>7, <2>1, GoesTo DEF Served, Its
  <2> QED BY <1>1, <1>4, <1>7, <2>2, GoesTo, LookKeeps
<1>8. CASE Its(h).type = "subscription" /\ GoTo(h, "byid", None)
  <2>1. Served(h)'
    BY <1>1, <1>2, <1>4, <1>8, GoesTo DEF Served, Its
  <2> QED BY <1>1, <1>4, <1>8, <2>1, GoesTo, LookKeeps
<1>9. CASE Its(h).type = "completed"
  BY <1>5, <1>6, <1>9 DEF Find, Take
<1>10. CASE Its(h).type = "subscription"
  BY <1>1, <1>7, <1>8, <1>10 DEF Find
<1> QED BY <1>3, <1>9, <1>10

LEMMA ByIdKeeps ==
    ASSUME IInv, NEW h \in Handler, ById(h)
    PROVE  IInv'
<1>1. /\ TypeOK /\ At(h, "byid") /\ accounts \subseteq Id
      /\ UNCHANGED <<store, stripe, told, faults>> /\ pending' \subseteq pending
      /\ events' = events
  BY DEF IInv, TypeOK, ById, Take, stripe
<1>2. /\ handler[h].event \in DOMAIN events
      /\ Its(h) = events[handler[h].event] /\ Its(h) \in StripeEvent
  BY <1>1, ItsTyped DEF At
<1>3. Its(h).account \in Id
  BY <1>2 DEF StripeEvent
<1>4. CASE Done(h)
  <2>1. Served(h)'
    BY <1>1, <1>4, EndsHere DEF Served
  <2> QED BY <1>1, <1>4, <2>1, EndsHere, LookKeeps
<1>5. CASE GoTo(h, "customer", Its(h).account)
  <2>1. Served(h)'
    BY <1>1, <1>2, <1>3, <1>5, GoesTo DEF Served, Its
  <2> QED BY <1>1, <1>3, <1>5, <2>1, GoesTo, LookKeeps
<1> QED BY <1>4, <1>5 DEF ById, Take

\* What is on disk stays right, when it is the old one or what memory has now.
LEMMA DiskFollows ==
    ASSUME IInv, Grows,
           \A i \in Id : account'[i].customer # None => Owned(account[i].customer, i)',
           \A i \in Id : account'[i].at >= account[i].at,
           MemoryIsOfItsTime',
           account' \in [Id -> Billed],
           \A i \in Id : disk'[i] \in {None, disk[i], account'[i]}
    PROVE  AccountsOwn' /\ DiskIsOfItsTime' /\ DiskIsBehind'
<1>1. AccountsOwn'
  <2> SUFFICES ASSUME NEW i \in Id, disk'[i] # None, disk'[i].customer # None
               PROVE  Owned(disk[i].customer, i)'
    BY DEF AccountsOwn, Owned
  <2>1. CASE disk'[i] = account'[i]
    BY <2>1 DEF Owned
  <2>2. CASE disk'[i] = disk[i]
    <3>1. Owned(disk[i].customer, i)
      BY <2>2 DEF IInv, AccountsOwn
    <3> QED BY <2>2, <3>1 DEF Owned, Grows
  <2> QED BY <2>1, <2>2
<1>2. DiskIsOfItsTime'
  <2> SUFFICES ASSUME NEW i \in Id, disk'[i] # None, disk'[i].at # 0
               PROVE  Given(i, disk[i].status, disk[i].at)'
    BY DEF DiskIsOfItsTime, Given, About, Created
  <2>1. CASE disk'[i] = account'[i]
    BY <2>1 DEF MemoryIsOfItsTime, Given, About, Created
  <2>2. CASE disk'[i] = disk[i]
    <3>1. Given(i, disk[i].status, disk[i].at)
      BY <2>2 DEF IInv, DiskIsOfItsTime
    <3> QED BY <2>2, <3>1 DEF Given, About, Created, Grows
  <2> QED BY <2>1, <2>2
<1>3. DiskIsBehind'
  <2> SUFFICES ASSUME NEW i \in Id, disk'[i] # None
               PROVE  disk'[i].at <= account'[i].at
    BY DEF DiskIsBehind
  <2>1. /\ account[i].at \in Nat /\ account'[i].at \in Nat
        /\ disk[i] # None => disk[i].at \in Nat /\ disk[i].at <= account[i].at
    BY DEF IInv, TypeOK, Billed, DiskIsBehind
  <2> QED BY <2>1
<1> QED BY <1>1, <1>2, <1>3

\* A goroutine changes the account that it serves, saves or fails, and goes on or ends.
LEMMA WriteKeeps ==
    ASSUME IInv, NEW h \in Handler, Served(h)', handler' \in [Handler -> Goroutine],
           \A g \in Handler \ {h} : handler'[g] = handler[g],
           \A i \in Id : account'[i].customer # None => Owned(account[i].customer, i)',
           \A i \in Id : account'[i].at >= account[i].at,
           MemoryIsOfItsTime', account' \in [Id -> Billed],
           Save \/ UNCHANGED disk,
           faults' = faults \/ (faults < MaxFaults /\ faults' = faults + 1),
           pending' \subseteq pending,
           UNCHANGED <<accounts, stripe, told>>
    PROVE  IInv'
<1> USE DEF IInv
<1>1. UNCHANGED <<pages, sub, gone, events, leaving, deleted>>
  BY DEF stripe, told
<1>2. Grows /\ SubsAgree' /\ EventsOwned'
  BY <1>1, StripeStays
<1>3. /\ disk' \in [Id -> Billed \cup {None}]
      /\ \A i \in Id : disk'[i] \in {None, disk[i], account'[i]}
  BY DEF Save, TypeOK
<1>4. faults' \in 0..MaxFaults
  BY BillingAssumption DEF TypeOK
<1>5. TypeOK'
  BY <1>1, <1>3, <1>4 DEF TypeOK
<1>6. Serving'
  BY <1>2, ServingGoes
<1>7. PagesOwn'
  BY <1>1, <1>2, PagesStay
<1>8. AccountsOwn' /\ DiskIsOfItsTime' /\ DiskIsBehind'
  BY <1>2, <1>3, DiskFollows
<1> QED BY <1>2, <1>5, <1>6, <1>7, <1>8

LEMMA SetCustomerKeeps ==
    ASSUME IInv, NEW h \in Handler, SetCustomer(h)
    PROVE  IInv'
<1> DEFINE i == handler[h].id
           new == [customer |-> Its(h).customer, status |-> account[i].status,
                   at |-> account[i].at]
<1>1. /\ handler[h].event \in DOMAIN events
      /\ Its(h) = events[handler[h].event] /\ Its(h) \in StripeEvent
      /\ i \in Id /\ Its(h).account = i
  BY ItsTyped DEF SetCustomer, At, IInv, Serving, Served
<1>2. account[i] \in Billed /\ new \in Billed
  BY <1>1 DEF IInv, TypeOK, Billed, StripeEvent
<1>3. /\ account' = [account EXCEPT ![i] = new]
      /\ UNCHANGED <<accounts, stripe, told>> /\ events' = events /\ sub' = sub
  BY DEF SetCustomer, stripe
<1>4. /\ account' \in [Id -> Billed]
      /\ \A j \in Id : account'[j].at = account[j].at /\ account'[j].status = account[j].status
      /\ account'[i].customer = Its(h).customer
      /\ \A j \in Id \ {i} : account'[j] = account[j]
  BY <1>1, <1>2, <1>3 DEF IInv, TypeOK
<1>5. \A j \in Id : account'[j].customer # None => Owned(account[j].customer, j)'
  <2>1. Owned(Its(h).customer, i)
    BY <1>1 DEF IInv, EventsOwned
  <2>2. \A j \in Id \ {i} : account[j].customer # None => Owned(account[j].customer, j)
    BY DEF IInv, AccountsOwn
  <2> QED BY <1>3, <1>4, <2>1, <2>2 DEF Owned
<1>6. MemoryIsOfItsTime'
  BY <1>3, <1>4 DEF IInv, MemoryIsOfItsTime, Given, About, Created
<1>7. \A j \in Id : account'[j].at >= account[j].at
  BY <1>4 DEF IInv, TypeOK, Billed
<1>8. /\ Save \/ UNCHANGED disk
      /\ faults' = faults \/ (faults < MaxFaults /\ faults' = faults + 1)
      /\ pending' \subseteq pending
      /\ Done(h) \/ (Its(h).type # "completed" /\ GoTo(h, "status", i))
  BY DEF SetCustomer, TakeSaved, Take, Refuse, Fault
<1> HIDE DEF new, i
<1>9. TypeOK
  BY DEF IInv
<1>10. CASE Done(h)
  <2>1. Served(h)'
    BY <1>9, <1>10, EndsHere DEF Served
  <2> QED BY <1>3, <1>4, <1>5, <1>6, <1>7, <1>8, <1>9, <1>10, <2>1, EndsHere, WriteKeeps
<1>11. CASE Its(h).type # "completed" /\ GoTo(h, "status", i)
  <2>1. Its(h).type = "subscription"
    BY <1>1, <1>11 DEF StripeEvent
  <2>2. Served(h)'
    BY <1>1, <1>3, <1>9, <1>11, <2>1, GoesTo DEF Served, Its
  <2> QED BY <1>1, <1>3, <1>4, <1>5, <1>6, <1>7, <1>8, <1>9, <1>11, <2>2, GoesTo, WriteKeeps
<1> QED BY <1>8, <1>10, <1>11

LEMMA SetStatusKeeps ==
    ASSUME IInv, NEW h \in Handler, SetStatus(h)
    PROVE  IInv'
<1> DEFINE i == handler[h].id
           e == handler[h].event
           new == [customer |-> account[i].customer, status |-> Its(h).status,
                   at |-> Its(h).created]
<1>1. /\ e \in DOMAIN events /\ Its(h) = events[e] /\ Its(h) \in StripeEvent
      /\ i \in Id /\ Its(h).account = i /\ Its(h).type = "subscription"
  BY ItsTyped DEF SetStatus, At, IInv, Serving, Served
<1>2. account[i] \in Billed /\ new \in Billed
  BY <1>1 DEF IInv, TypeOK, Billed, StripeEvent
<1>3. /\ UNCHANGED <<accounts, stripe, told>> /\ events' = events /\ sub' = sub
      /\ Done(h) /\ pending' \subseteq pending
      /\ Save \/ UNCHANGED disk
      /\ faults' = faults \/ (faults < MaxFaults /\ faults' = faults + 1)
  BY DEF SetStatus, TakeSaved, Take, Refuse, Fault, stripe
<1>4. TypeOK /\ Served(h)'
  BY <1>3, EndsHere DEF IInv, Served
<1>5. \A j \in Id : account[j].at \in Nat
  BY DEF IInv, TypeOK, Billed
<1>6. CASE account' = account
  <2>1. account' \in [Id -> Billed] /\ MemoryIsOfItsTime'
    BY <1>3, <1>6 DEF IInv, TypeOK, MemoryIsOfItsTime, Given, About, Created
  <2>2. \A j \in Id : account'[j].at >= account[j].at
    BY <1>5, <1>6
  <2>3. \A j \in Id : account'[j].customer # None => Owned(account[j].customer, j)'
    BY <1>3, <1>6 DEF IInv, AccountsOwn, Owned
  <2> QED BY <1>3, <1>4, <2>1, <2>2, <2>3, EndsHere, WriteKeeps
<1>7. CASE Its(h).created >= account[i].at /\ account' = [account EXCEPT ![i] = new]
  <2>1. /\ account' \in [Id -> Billed] /\ account'[i] = new
        /\ \A j \in Id \ {i} : account'[j] = account[j]
    BY <1>1, <1>2, <1>7 DEF IInv, TypeOK
  <2>2. \A j \in Id : account'[j].at >= account[j].at
    BY <1>1, <1>5, <1>7, <2>1
  <2>3. \A j \in Id : account'[j].customer = account[j].customer
    BY <2>1
  <2>4. \A j \in Id : account'[j].customer # None => Owned(account[j].customer, j)'
    BY <1>3, <2>3 DEF IInv, AccountsOwn, Owned
  <2>5. Given(i, new.status, new.at)
    BY <1>1 DEF Given, About, Created
  <2>6. MemoryIsOfItsTime'
    BY <1>3, <2>1, <2>5 DEF IInv, MemoryIsOfItsTime, Given, About, Created
  <2> QED BY <1>3, <1>4, <2>1, <2>2, <2>4, <2>6, EndsHere, WriteKeeps
<1>8. account' = account \/ (Its(h).created >= account[i].at
                             /\ account' = [account EXCEPT ![i] = new])
  <2>1. Its(h).created \in Nat /\ account[i].at \in Nat
    BY <1>1, <1>5 DEF StripeEvent
  <2> QED BY <2>1 DEF SetStatus, Takes
<1> QED BY <1>6, <1>7, <1>8

-----------------------------------------------------------------------------
(***************************************************************************)
(* The end of an account, and of the server.                               *)
(***************************************************************************)

LEMMA AskRemoveKeeps ==
    ASSUME IInv, NEW h \in Handler, NEW i \in Id, AskRemove(h, i)
    PROVE  IInv'
<1> USE DEF IInv
<1>1. UNCHANGED <<account, disk, accounts, pages, sub, gone, events, pending, deleted, faults>>
  BY DEF AskRemove, store, stripe
<1>2. Grows /\ SubsAgree' /\ EventsOwned'
  BY <1>1, StripeStays
<1>3. /\ handler' \in [Handler -> Goroutine]
      /\ handler'[h].at = "end" /\ handler'[h].id = i
      /\ \A g \in Handler \ {h} : handler'[g] = handler[g]
  BY DEF AskRemove, TypeOK, Goroutine, Billed
<1>4. TypeOK'
  <2>1. leaving' \in [Id -> 0..MaxRemovals]
    BY BillingAssumption DEF AskRemove, TypeOK
  <2> QED BY <1>1, <1>3, <2>1 DEF TypeOK
<1>5. Serving'
  <2>1. Served(h)'
    BY <1>3 DEF Served
  <2> QED BY <2>1, <1>2, <1>3, ServingGoes
<1>6. PagesOwn'
  BY <1>1, <1>2, PagesStay
<1> QED BY <1>1, <1>2, <1>4, <1>5, <1>6, AccountsStay

\* What SetToSeq makes of a part of Sub.
LEMMA SetToSeqTyped ==
    ASSUME NEW S \in SUBSET Sub
    PROVE  SetToSeq(S) \in Seq(S)
<1>1. IsFiniteSet(S)
  BY BillingAssumption, FS_Subset
<1>2. PICK n \in Nat : ExistsBijection(1..n, S)
  BY <1>1, FS_NatBijection
<1>3. Cardinality(S) = n
  BY <1>1, <1>2, FS_CountingElements
<1>4. PICK f : f \in Bijection(1..n, S)
  BY <1>2 DEF ExistsBijection
<1>5. f \in [1..Cardinality(S) -> S] /\ IsInjective(f)
  BY <1>3, <1>4 DEF Bijection, Injection, IsInjective
<1>6. SetToSeq(S) \in [1..Cardinality(S) -> S]
  BY <1>5 DEF SetToSeq
<1> QED BY <1>3, <1>6

LEMMA EndCustomerKeeps ==
    ASSUME IInv, NEW h \in Handler, EndCustomer(h)
    PROVE  IInv'
<1> DEFINE c == handler[h].customer
           ending == {s \in Sub : /\ sub[s] # None /\ sub[s].customer = c
                                  /\ Paid(sub[s].status)}
           ended == SetToSeq(ending)
<1> USE DEF IInv
<1>1. /\ UNCHANGED <<account, accounts, disk, pages, leaving, deleted>>
      /\ At(h, "end") /\ handler[h].id \in Id
      /\ handler[h].customer \in Customer \cup {None}
  BY DEF EndCustomer, store, told, At, Serving, Served, TypeOK, Goroutine
<1>2. Done(h) \/ GoTo(h, "remove", handler[h].id)
  BY DEF EndCustomer
<1>3. /\ handler' \in [Handler -> Goroutine]
      /\ handler'[h].at = "idle" \/ (handler'[h].at = "remove" /\ handler'[h].id \in Id)
      /\ \A g \in Handler \ {h} : handler'[g] = handler[g]
  BY <1>1, <1>2, EndsHere, GoesTo
<1>4. Served(h)'
  BY <1>3 DEF Served
<1>5. CASE UNCHANGED <<sub, gone, events, pending>>
  <2>1. Grows /\ SubsAgree' /\ EventsOwned'
    BY <1>5, StripeStays
  <2>2. faults' \in 0..MaxFaults
    BY BillingAssumption DEF EndCustomer, Fault, TypeOK
  <2>3. TypeOK'
    BY <1>1, <1>3, <1>5, <2>2 DEF TypeOK
  <2>4. Serving' /\ PagesOwn'
    BY <1>1, <1>3, <1>4, <2>1, ServingGoes, PagesStay
  <2> QED BY <1>1, <2>1, <2>3, <2>4, AccountsStay
<1>6. CASE ~UNCHANGED <<sub, gone, events, pending>>
  <2>1. /\ c \in Customer /\ gone' = gone \cup {c} /\ faults' \in 0..MaxFaults
        /\ sub' = [s \in Sub |-> IF s \in ending
                                 THEN [sub[s] EXCEPT !.status = "canceled"] ELSE sub[s]]
        /\ \E when \in {Now, Now + 1} :
              Emit([n \in 1..Len(ended) |-> Event("subscription", sub'[ended[n]], when)])
    <3>1. c \in Customer /\ DeleteCustomer(c)
      BY <1>1, <1>6 DEF EndCustomer, Unended
    <3>2. faults' \in 0..MaxFaults
      BY BillingAssumption DEF EndCustomer, Fault, TypeOK
    <3> QED BY <3>1, <3>2 DEF DeleteCustomer
  <2>2. /\ sub' \in [Sub -> Subscription \cup {None}]
        /\ \A s \in Sub : sub[s] # None =>
              /\ sub'[s] # None
              /\ sub'[s].customer = sub[s].customer /\ sub'[s].account = sub[s].account
        /\ \A s \in Sub : sub'[s] # None => sub[s] # None
    <3>1. ASSUME NEW s \in Sub, sub[s] # None
          PROVE  /\ sub'[s] \in Subscription
                 /\ sub'[s].customer = sub[s].customer /\ sub'[s].account = sub[s].account
      <4>1. sub[s] \in Subscription
        BY <3>1 DEF TypeOK
      <4> QED BY <2>1, <4>1 DEF Subscription, Status
    <3>2. ASSUME NEW s \in Sub, sub[s] = None
          PROVE  sub'[s] = None
      BY <2>1, <3>2
    <3> QED BY <2>1, <3>1, <3>2, BillingAssumption
  <2>3. ended \in Seq(ending) /\ ending \subseteq Sub
    BY SetToSeqTyped
  <2> HIDE DEF ended
  <2>4. PICK list \in Seq(StripeEvent) :
           /\ Emit(list)
           /\ \A n \in 1..Len(list) : \E s \in Sub :
                 /\ sub'[s] # None
                 /\ list[n].customer = sub'[s].customer /\ list[n].account = sub'[s].account
    <3>1. PICK when \in Nat \ {0} :
             Emit([n \in 1..Len(ended) |-> Event("subscription", sub'[ended[n]], when)])
      BY <2>1, NowTyped
    <3> DEFINE l == [n \in 1..Len(ended) |-> Event("subscription", sub'[ended[n]], when)]
    <3>2. \A n \in 1..Len(ended) :
             /\ ended[n] \in Sub /\ sub'[ended[n]] # None
             /\ sub'[ended[n]] \in Subscription
             /\ l[n] = Event("subscription", sub'[ended[n]], when)
      BY <2>2, <2>3
    <3>3. \A n \in 1..Len(ended) :
             /\ l[n] \in StripeEvent
             /\ l[n].customer = sub'[ended[n]].customer
             /\ l[n].account = sub'[ended[n]].account
      BY <3>2 DEF Event, StripeEvent, Subscription
    <3>4. l \in Seq(StripeEvent) /\ Len(l) = Len(ended)
      BY <2>3, <3>3
    <3> HIDE DEF l
    <3> QED BY <3>1, <3>2, <3>3, <3>4 DEF l
  <2>5. Grows
    BY <2>2, <2>4, EventsGrow DEF Grows
  <2>6. TypeOK'
    <3>1. events' \in Seq(StripeEvent) /\ pending' \subseteq DOMAIN events'
      BY <2>4, EventsGrow
    <3> QED BY <1>1, <1>3, <2>1, <2>2, <3>1 DEF TypeOK
  <2>7. SubsAgree'
    BY <2>2 DEF SubsAgree
  <2>8. EventsOwned'
    <3>1. \A n \in 1..Len(list) : Owned(list[n].customer, list[n].account)'
      BY <2>4 DEF Owned
    <3> QED BY <2>4, <2>5, <3>1, EventsStayOwned
  <2>9. Serving' /\ PagesOwn'
    BY <1>1, <1>3, <1>4, <2>5, ServingGoes, PagesStay
  <2> QED BY <1>1, <2>5, <2>6, <2>7, <2>8, <2>9, AccountsStay
<1> QED BY <1>5, <1>6

LEMMA RemoveAccountKeeps ==
    ASSUME IInv, NEW h \in Handler, RemoveAccount(h)
    PROVE  IInv'
<1> USE DEF IInv
<1>1. /\ UNCHANGED <<account, pages, sub, gone, events, pending, leaving>>
      /\ handler[h].id \in Id /\ accounts' = accounts \ {handler[h].id}
  BY DEF RemoveAccount, stripe, At, Serving, Served
<1>2. Grows /\ SubsAgree' /\ EventsOwned'
  BY <1>1, StripeStays
<1>3. /\ handler' \in [Handler -> Goroutine] /\ handler'[h].at = "idle"
      /\ \A g \in Handler \ {h} : handler'[g] = handler[g]
  BY EndsHere DEF RemoveAccount
<1>4. /\ disk' \in [Id -> Billed \cup {None}]
      /\ \A i \in Id : disk'[i] \in {None, disk[i], account'[i]}
  BY <1>1 DEF RemoveAccount, TypeOK
<1>5. faults' \in 0..MaxFaults
  BY BillingAssumption DEF RemoveAccount, Fault, TypeOK
<1>6. TypeOK'
  <2>1. deleted' \subseteq [id : Id, customer : Customer \cup {None}]
    <3>1. handler[h].customer \in Customer \cup {None}
      BY DEF TypeOK, Goroutine
    <3> QED BY <1>1, <3>1 DEF RemoveAccount, TypeOK
  <2> QED BY <1>1, <1>3, <1>4, <1>5, <2>1 DEF TypeOK
<1>7. Serving' /\ PagesOwn'
  <2>1. Served(h)'
    BY <1>3 DEF Served
  <2> QED BY <2>1, <1>1, <1>2, <1>3, ServingGoes, PagesStay
<1>8. MemoryIsOfItsTime'
  BY <1>1 DEF MemoryIsOfItsTime, Given, About, Created
<1>9. AccountsOwn' /\ DiskIsOfItsTime' /\ DiskIsBehind'
  <2>1. \A i \in Id : account'[i].customer # None => Owned(account[i].customer, i)'
    BY <1>1 DEF AccountsOwn, Owned
  <2>2. account' \in [Id -> Billed] /\ \A i \in Id : account'[i].at >= account[i].at
    BY <1>1 DEF TypeOK, Billed
  <2> QED BY <1>2, <1>4, <1>8, <2>1, <2>2, DiskFollows
<1> QED BY <1>2, <1>6, <1>7, <1>8, <1>9

LEMMA CrashKeeps ==
    ASSUME IInv, Crash
    PROVE  IInv'
<1> USE DEF IInv
<1>1. /\ UNCHANGED <<disk, pages, sub, gone, events, pending, leaving, deleted>>
      /\ \A h \in Handler : handler'[h] = Idle
      /\ account' = [i \in Id |-> IF disk[i] # None THEN disk[i] ELSE account[i]]
  BY DEF Crash, stripe, told
<1>2. Grows /\ SubsAgree' /\ EventsOwned'
  BY <1>1, StripeStays
<1>3. TypeOK'
  <2>1. handler' \in [Handler -> Goroutine]
    BY DEF Crash, Idle, Goroutine
  <2>2. account' \in [Id -> Billed] /\ accounts' \subseteq Id
    BY <1>1 DEF Crash, TypeOK
  <2>3. faults' \in 0..MaxFaults
    BY BillingAssumption DEF Crash, Fault, TypeOK
  <2> QED BY <1>1, <2>1, <2>2, <2>3 DEF TypeOK
<1>4. Serving'
  BY <1>1 DEF Serving, Served, Idle
<1>5. PagesOwn'
  BY <1>1, <1>2, PagesStay
<1>6. AccountsOwn' /\ MemoryIsOfItsTime' /\ DiskIsOfItsTime'
  BY <1>1 DEF AccountsOwn, MemoryIsOfItsTime, DiskIsOfItsTime, Owned, Given, About, Created
<1>7. DiskIsBehind'
  BY <1>1 DEF DiskIsBehind, TypeOK, Billed
<1> QED BY <1>2, <1>3, <1>4, <1>5, <1>6, <1>7

-----------------------------------------------------------------------------
LEMMA InitIInv == Init => IInv
<1> SUFFICES ASSUME Init PROVE IInv
  OBVIOUS
<1>1. \A i \in Id : account[i] = New /\ disk[i] = New
  BY DEF Init
<1>2. TypeOK
  <2>1. New \in Billed
    BY DEF New, Billed, Status
  <2>2. Idle \in Goroutine
    BY DEF Idle, Goroutine
  <2>3. leaving \in [Id -> 0..MaxRemovals] /\ faults \in 0..MaxFaults
    BY BillingAssumption DEF Init
  <2> QED BY <2>1, <2>2, <2>3 DEF Init, TypeOK
<1>3. \A s \in Sub : sub[s] = None
  BY DEF Init
<1>4. SubsAgree /\ EventsOwned /\ PagesOwn
  BY <1>3 DEF Init, SubsAgree, EventsOwned, PagesOwn
<1>5. Serving
  BY DEF Init, Serving, Served, Idle
<1>6. AccountsOwn /\ MemoryIsOfItsTime /\ DiskIsOfItsTime /\ DiskIsBehind
  <2>1. New.customer = None /\ New.at = 0
    BY DEF New
  <2> QED BY <1>1, <2>1 DEF AccountsOwn, MemoryIsOfItsTime, DiskIsOfItsTime, DiskIsBehind
<1> QED BY <1>2, <1>4, <1>5, <1>6 DEF IInv

LEMMA NextIInv == IInv /\ [Next]_vars => IInv'
<1> SUFFICES ASSUME IInv, [Next]_vars PROVE IInv'
  OBVIOUS
<1>1. ASSUME NEW i \in Id, Checkout(i) PROVE IInv'
  BY <1>1, CheckoutKeeps
<1>2. ASSUME NEW p \in pages, NEW c \in Customer, NEW s \in Sub, Pay(p, c, s) PROVE IInv'
  BY <1>2, PayKeeps
<1>3. ASSUME NEW s \in Sub, NEW status \in {"active", "past_due", "canceled"},
             Change(s, status)
      PROVE  IInv'
  BY <1>3, ChangeKeeps
<1>4. ASSUME NEW h \in Handler, GoOn(h) PROVE IInv'
  BY <1>4, FindKeeps, ByIdKeeps, SetCustomerKeeps, SetStatusKeeps, EndCustomerKeeps,
     RemoveAccountKeeps DEF GoOn
<1>5. ASSUME NEW h \in Handler, NEW e \in DOMAIN events, Deliver(h, e) PROVE IInv'
  BY <1>5, DeliverKeeps
<1>6. ASSUME NEW h \in Handler, NEW i \in Id, AskRemove(h, i) PROVE IInv'
  BY <1>6, AskRemoveKeeps
<1>7. CASE Crash
  BY <1>7, CrashKeeps
<1>8. CASE UNCHANGED vars
  BY <1>8 DEF vars, store, stripe, told, IInv, TypeOK, SubsAgree, EventsOwned, AccountsOwn,
     PagesOwn, Owned, Serving, Served, Its, MemoryIsOfItsTime, DiskIsOfItsTime, DiskIsBehind,
     Given, About, Created
<1> QED BY <1>1, <1>2, <1>3, <1>4, <1>5, <1>6, <1>7, <1>8 DEF Next

\* The types, for any number of accounts, customers, goroutines and events.
THEOREM BillingTyped == Spec => []TypeOK
<1>1. IInv => TypeOK
  BY DEF IInv
<1> QED BY <1>1, InitIInv, NextIInv, PTL DEF Spec

\* The status on disk is always one that Stripe gave this account at that time, also
\* when customers, accounts and events of others are about (store.go:322-332,
\* main.go:625-640).
THEOREM StatusIsStripes == Spec => []StatusIsOfItsTime
<1>1. IInv => StatusIsOfItsTime
  BY DEF IInv, DiskIsOfItsTime, StatusIsOfItsTime, Staying, Given
<1> QED BY <1>1, InitIInv, NextIInv, PTL DEF Spec

-----------------------------------------------------------------------------
\* Late events.  Only SetStatus changes the time of a status, and only forward; what
\* is written is what memory has, and memory is never behind the disk.
LEMMA StepsGoForward ==
    ASSUME IInv, IInv', [Next]_vars, NEW i \in Id
    PROVE  /\ disk[i] # None /\ disk'[i] # None => disk'[i].at >= disk[i].at
           /\ account'[i].at >= account[i].at \/ Crash
<1>1. /\ account[i].at \in Nat /\ account'[i].at \in Nat
      /\ disk[i] # None => disk[i].at \in Nat /\ disk[i].at <= account[i].at
  BY DEF IInv, TypeOK, Billed, DiskIsBehind
<1>2. CASE account'[i].at >= account[i].at /\ disk'[i] \in {None, disk[i], account'[i]}
  BY <1>1, <1>2
<1>3. CASE Crash
  BY <1>1, <1>3 DEF Crash
<1>4. CASE UNCHANGED <<account, disk>>
  BY <1>1, <1>4
<1>5. ASSUME NEW h \in Handler, SetCustomer(h)
      PROVE  account'[i].at = account[i].at /\ disk'[i] \in {None, disk[i], account'[i]}
  <2>1. account'[i].at = account[i].at
    BY <1>5 DEF SetCustomer, IInv, TypeOK
  <2>2. Save \/ UNCHANGED disk
    BY <1>5 DEF SetCustomer, TakeSaved
  <2> QED BY <2>1, <2>2 DEF Save
<1>6. ASSUME NEW h \in Handler, SetStatus(h)
      PROVE  account'[i].at >= account[i].at /\ disk'[i] \in {None, disk[i], account'[i]}
  <2>1. Its(h) \in StripeEvent
    BY <1>6, ItsTyped DEF SetStatus, At
  <2>2. account'[i].at >= account[i].at
    <3> DEFINE j == handler[h].id
               new == [customer |-> account[j].customer, status |-> Its(h).status,
                       at |-> Its(h).created]
    <3>1. Its(h).created \in Nat /\ j \in Id /\ account[j].at \in Nat
      BY <1>6, <2>1 DEF StripeEvent, SetStatus, At, IInv, Serving, Served, TypeOK, Billed
    <3>2. \/ account' = account
          \/ Its(h).created >= account[j].at /\ account' = [account EXCEPT ![j] = new]
      BY <1>6, <3>1 DEF SetStatus, Takes
    <3>3. DOMAIN account = Id
      BY DEF IInv, TypeOK
    <3>4. CASE account' = [account EXCEPT ![j] = new] /\ i = j
      BY <1>1, <3>1, <3>2, <3>3, <3>4
    <3>5. CASE account' = [account EXCEPT ![j] = new] /\ i # j
      BY <1>1, <3>3, <3>5
    <3> QED BY <1>1, <3>2, <3>4, <3>5
  <2>3. Save \/ UNCHANGED disk
    BY <1>6 DEF SetStatus, TakeSaved
  <2> QED BY <2>2, <2>3 DEF Save
<1>7. ASSUME NEW h \in Handler, RemoveAccount(h)
      PROVE  account' = account /\ disk'[i] \in {None, disk[i], account'[i]}
  BY <1>7 DEF RemoveAccount
<1>8. ASSUME NEW h \in Handler, GoOn(h)
      PROVE  \/ UNCHANGED <<account, disk>>
             \/ account'[i].at >= account[i].at /\ disk'[i] \in {None, disk[i], account'[i]}
  <2>1. CASE Find(h) \/ ById(h) \/ EndCustomer(h)
    BY <2>1 DEF Find, ById, EndCustomer, store
  <2>2. CASE SetCustomer(h) \/ SetStatus(h) \/ RemoveAccount(h)
    BY <2>2, <1>1, <1>5, <1>6, <1>7
  <2> QED BY <1>8, <2>1, <2>2 DEF GoOn
<1>9. CASE Next
  <2>1. \/ UNCHANGED <<account, disk>> \/ Crash \/ \E h \in Handler : GoOn(h)
    BY <1>9 DEF Next, Checkout, Pay, Change, Deliver, AskRemove, store
  <2> QED BY <2>1, <1>2, <1>3, <1>4, <1>8
<1>10. CASE UNCHANGED vars
  BY <1>4, <1>10 DEF vars, store
<1> QED BY <1>9, <1>10

\* A late event never takes the place of a newer one, in memory or, across crashes and
\* failed writes, on disk (store.go:322-323).
THEOREM LateEventsDoNotCount == Spec => NewerStays
<1>1. IInv /\ IInv' /\ [Next]_vars
         => [\A i \in Id : /\ disk[i] # None /\ disk'[i] # None => disk'[i].at >= disk[i].at
                           /\ account'[i].at >= account[i].at \/ Crash]_vars
  BY StepsGoForward
<1> QED BY <1>1, InitIInv, NextIInv, PTL DEF Spec, NewerStays

-----------------------------------------------------------------------------
(***************************************************************************)
(* What was taken is on disk.  A write that fails leaves memory ahead of   *)
(* the disk; its event was refused, and comes again.  Until then an older  *)
(* event may be taken without effect: the newer one is to come.            *)
(***************************************************************************)

\* An account with a status has a customer, and one on disk is not taken away.
HasCustomer(i) ==
    /\ account[i].at # 0 => account[i].customer # None
    /\ disk[i] # None =>
          /\ disk[i].customer # None => account[i].customer # None
          /\ disk[i].at # 0 => disk[i].customer # None

\* What memory has and the disk has not is still to come from Stripe.
AheadComes(i) ==
    account[i].at > disk[i].at => \E f \in About(i) \cap pending : Created(f) >= account[i].at

TakenOf(i) ==
    /\ \A e \in About(i) \ pending :
          \/ disk[i].customer # None /\ disk[i].at >= Created(e)
          \/ \E f \in About(i) \cap pending : Created(f) > Created(e)
    /\ (\E e \in DOMAIN events \ pending : events[e].account = i) =>
          \/ disk[i].customer # None
          \/ About(i) \cap pending # {}

SavedOf(i) ==
    /\ HasCustomer(i)
    /\ leaving[i] = 0 =>
          i \in accounts /\ disk[i] # None /\ AheadComes(i) /\ TakenOf(i)

\* Who ends an account was asked to, and who sets a status has set the customer.
Ordered(h) ==
    /\ handler[h].at \in {"end", "remove"} => leaving[handler[h].id] > 0
    /\ handler[h].at = "status" => account[handler[h].id].customer # None

SavedInv == /\ \A i \in Id : SavedOf(i)
            /\ \A h \in Handler : Ordered(h)

EventsStay == /\ DOMAIN events \subseteq DOMAIN events'
              /\ \A e \in DOMAIN events : events'[e] = events[e]

\* The numbers of account i.
LEMMA Times ==
    ASSUME IInv, NEW i \in Id
    PROVE  /\ account[i].at \in Nat /\ leaving[i] \in Nat
           /\ disk[i] # None => disk[i].at \in Nat /\ disk[i].at <= account[i].at
           /\ \A e \in DOMAIN events : Created(e) \in Nat \ {0}
<1>1. \A e \in DOMAIN events : Created(e) \in Nat \ {0}
  <2>1. \A e \in DOMAIN events : events[e] \in StripeEvent
    BY DEF IInv, TypeOK
  <2> QED BY <2>1 DEF StripeEvent, Created
<1>2. leaving[i] \in Nat
  BY BillingAssumption DEF IInv, TypeOK
<1> QED BY <1>1, <1>2 DEF IInv, TypeOK, Billed, DiskIsBehind

\* An account that no step wrote, of which no event was taken.
LEMMA SavedStays ==
    ASSUME IInv, EventsStay, NEW i \in Id, SavedOf(i),
           account'[i] = account[i], disk'[i] = disk[i],
           leaving'[i] >= leaving[i], i \in accounts => i \in accounts',
           leaving'[i] = 0 =>
              /\ \A e \in DOMAIN events' \ pending' :
                    events'[e].account = i => e \in DOMAIN events \ pending
              /\ \A e \in DOMAIN events \cap pending : events[e].account = i => e \in pending'
    PROVE  SavedOf(i)'
<1>1. HasCustomer(i)'
  BY DEF SavedOf, HasCustomer
<1>2. ASSUME leaving'[i] = 0
      PROVE  i \in accounts' /\ disk'[i] # None /\ AheadComes(i)' /\ TakenOf(i)'
  <2>1. leaving[i] = 0
    BY <1>2, Times
  <2>2. i \in accounts /\ disk[i] # None /\ AheadComes(i) /\ TakenOf(i)
    BY <2>1 DEF SavedOf
  <2>3. \A f \in About(i) \cap pending :
           f \in About(i)' \cap pending' /\ Created(f)' = Created(f)
    BY <1>2 DEF About, EventsStay, Created
  <2>4. AheadComes(i)'
    BY <2>2, <2>3 DEF AheadComes
  <2>5. \A e \in DOMAIN events' \ pending' : events'[e].account = i =>
           /\ e \in DOMAIN events \ pending /\ events[e].account = i
           /\ Created(e)' = Created(e)
           /\ e \in About(i)' => e \in About(i)
    BY <1>2 DEF About, EventsStay, Created
  <2>6. \A e \in About(i)' \ pending' : e \in About(i) \ pending /\ Created(e)' = Created(e)
    BY <2>5 DEF About
  <2>7. TakenOf(i)'
    BY <2>2, <2>3, <2>5, <2>6 DEF TakenOf
  <2> QED BY <2>2, <2>4, <2>7
<1> QED BY <1>1, <1>2 DEF SavedOf

\* An account that a step wrote to disk: what was taken of it by the step is on disk now.
LEMMA SavedByWrite ==
    ASSUME IInv, IInv', NEW i \in Id, SavedOf(i),
           disk'[i] = account'[i], i \in accounts', UNCHANGED events,
           leaving'[i] = leaving[i],
           account'[i].at >= account[i].at,
           account'[i].at # 0 \/ account[i].customer # None => account'[i].customer # None,
           \A e \in DOMAIN events \cap pending : e \notin pending' /\ events[e].account = i =>
              /\ account'[i].customer # None
              /\ events[e].type = "subscription" => account'[i].at >= Created(e)
    PROVE  SavedOf(i)'
<1>0. disk'[i] # None
  BY BillingAssumption DEF IInv, TypeOK
<1>1. HasCustomer(i)'
  BY DEF HasCustomer
<1>2. AheadComes(i)'
  <2>1. account'[i].at \in Nat /\ disk'[i].at = account'[i].at
    BY DEF IInv, TypeOK, Billed
  <2> QED BY <2>1 DEF AheadComes
<1>3. ASSUME leaving[i] = 0
      PROVE  TakenOf(i)'
  <2>1. disk[i] # None /\ AheadComes(i) /\ TakenOf(i) /\ HasCustomer(i)
    BY <1>3 DEF SavedOf
  <2>2. About(i)' = About(i) /\ \A e : Created(e)' = Created(e)
    BY DEF About, Created
  <2>3. /\ account[i].at \in Nat /\ disk[i].at \in Nat /\ disk[i].at <= account[i].at
        /\ account'[i].at \in Nat
        /\ \A e \in About(i) : Created(e) \in Nat \ {0}
    BY <2>1, Times DEF About, IInv, TypeOK, Billed
  <2>4. \A f \in About(i) \cap pending : f \notin pending' =>
           disk'[i].customer # None /\ disk'[i].at >= Created(f)
    BY DEF About
  <2>5. disk[i].customer # None => disk'[i].customer # None
    BY <2>1 DEF HasCustomer
  <2>6. ASSUME NEW e \in About(i), e \notin pending'
        PROVE  \/ disk'[i].customer # None /\ disk'[i].at >= Created(e)
               \/ \E f \in About(i) \cap pending' : Created(f) > Created(e)
    <3>1. CASE e \in pending
      BY <2>4, <2>6, <3>1
    <3>2. CASE disk[i].customer # None /\ disk[i].at >= Created(e)
      BY <2>3, <2>5, <3>2
    <3>3. ASSUME NEW f \in About(i) \cap pending, Created(f) > Created(e)
          PROVE  \/ disk'[i].customer # None /\ disk'[i].at >= Created(e)
                 \/ \E g \in About(i) \cap pending' : Created(g) > Created(e)
      <4>1. CASE f \in pending'
        BY <3>3, <4>1
      <4>2. CASE f \notin pending'
        <5>1. disk'[i].customer # None /\ disk'[i].at >= Created(f)
          BY <2>4, <4>2
        <5>2. disk'[i].at \in Nat /\ Created(f) \in Nat /\ Created(e) \in Nat
          BY <2>3
        <5> QED BY <3>3, <5>1, <5>2
      <4> QED BY <4>1, <4>2
    <3> QED BY <2>1, <3>1, <3>2, <3>3 DEF TakenOf
  <2>7. ASSUME NEW e \in DOMAIN events, e \notin pending', events[e].account = i
        PROVE  disk'[i].customer # None \/ About(i) \cap pending' # {}
    <3>1. CASE e \in pending
      BY <2>7, <3>1
    <3>2. CASE disk[i].customer # None
      BY <2>5, <3>2
    <3>3. ASSUME NEW f \in About(i) \cap pending
          PROVE  disk'[i].customer # None \/ About(i) \cap pending' # {}
      BY <2>4
    <3> QED BY <2>1, <2>7, <3>1, <3>2, <3>3 DEF TakenOf
  <2> QED BY <2>2, <2>6, <2>7 DEF TakenOf
<1> QED BY <1>0, <1>1, <1>2, <1>3 DEF SavedOf

\* An account that changed in memory alone: the event of the change is refused, or was
\* taken before.
LEMMA SavedInMemory ==
    ASSUME IInv, NEW i \in Id, SavedOf(i), NEW e \in DOMAIN events, events[e].account = i,
           account'[i].customer # None,
           \/ account'[i].at = account[i].at
           \/ events[e].type = "subscription" /\ account'[i].at = Created(e),
           UNCHANGED <<disk, accounts, events, pending, leaving>>
    PROVE  SavedOf(i)'
<1>1. HasCustomer(i)'
  BY DEF SavedOf, HasCustomer
<1>2. ASSUME leaving[i] = 0
      PROVE  AheadComes(i)' /\ TakenOf(i)'
  <2>1. disk[i] # None /\ AheadComes(i) /\ TakenOf(i)
    BY <1>2 DEF SavedOf
  <2>2. About(i)' = About(i) /\ \A f : Created(f)' = Created(f)
    BY DEF About, Created
  <2>3. TakenOf(i)'
    BY <2>1, <2>2 DEF TakenOf
  <2>4. CASE account'[i].at = account[i].at
    BY <2>1, <2>2, <2>3, <2>4 DEF AheadComes
  <2>5. ASSUME events[e].type = "subscription", account'[i].at = Created(e),
               account'[i].at > disk[i].at
        PROVE  \E f \in About(i) \cap pending : Created(f) >= account'[i].at
    <3>1. e \in About(i) /\ Created(e) \in Nat /\ disk[i].at \in Nat
      BY <2>1, <2>5, Times DEF About
    <3>2. CASE e \in pending
      BY <2>5, <3>1, <3>2
    <3>3. CASE e \notin pending
      <4>1. PICK f \in About(i) \cap pending : Created(f) > Created(e)
        BY <2>1, <2>5, <3>1, <3>3 DEF TakenOf
      <4>2. Created(f) \in Nat
        BY Times DEF About
      <4> QED BY <2>5, <3>1, <4>1, <4>2
    <3> QED BY <3>2, <3>3
  <2> QED BY <2>2, <2>3, <2>4, <2>5 DEF AheadComes
<1> QED BY <1>1, <1>2 DEF SavedOf

\* An event that is taken without effect: a newer one of the account is on disk, or is
\* to come.
LEMMA SavedThoughOld ==
    ASSUME IInv, NEW i \in Id, SavedOf(i), NEW e \in About(i), Created(e) < account[i].at,
           pending' = pending \ {e},
           UNCHANGED <<account, disk, accounts, events, leaving>>
    PROVE  SavedOf(i)'
<1>1. HasCustomer(i)'
  BY DEF SavedOf, HasCustomer
<1>2. ASSUME leaving[i] = 0
      PROVE  AheadComes(i)' /\ TakenOf(i)'
  <2>1. disk[i] # None /\ AheadComes(i) /\ TakenOf(i) /\ HasCustomer(i)
    BY <1>2 DEF SavedOf
  <2>2. About(i)' = About(i) /\ \A f : Created(f)' = Created(f)
    BY DEF About, Created
  <2>3. /\ account[i].at \in Nat /\ disk[i].at \in Nat
        /\ \A f \in About(i) : Created(f) \in Nat \ {0}
    BY <2>1, Times DEF About
  <2>4. \A f \in About(i) \cap pending : Created(f) >= account[i].at => f \in pending'
    BY <2>3
  <2>5. AheadComes(i)'
    BY <2>1, <2>2, <2>3, <2>4 DEF AheadComes
  <2>6. \/ disk[i].customer # None /\ disk[i].at > Created(e)
        \/ \E f \in About(i) \cap pending' : Created(f) > Created(e)
    <3>1. CASE account[i].at > disk[i].at
      <4>1. PICK f \in About(i) \cap pending : Created(f) >= account[i].at
        BY <2>1, <3>1 DEF AheadComes
      <4> QED BY <2>3, <2>4, <4>1
    <3>2. CASE ~(account[i].at > disk[i].at)
      BY <2>1, <2>3, <3>2 DEF HasCustomer
    <3> QED BY <3>1, <3>2
  <2>7. ASSUME NEW d \in About(i), d \notin pending'
        PROVE  \/ disk[i].customer # None /\ disk[i].at >= Created(d)
               \/ \E f \in About(i) \cap pending' : Created(f) > Created(d)
    <3>1. CASE d = e
      BY <2>3, <2>6, <3>1
    <3>2. CASE d # e
      <4>1. CASE disk[i].customer # None /\ disk[i].at >= Created(d)
        BY <4>1
      <4>2. ASSUME NEW f \in About(i) \cap pending, Created(f) > Created(d)
            PROVE  \/ disk[i].customer # None /\ disk[i].at >= Created(d)
                   \/ \E g \in About(i) \cap pending' : Created(g) > Created(d)
        <5>1. CASE f # e
          BY <4>2, <5>1
        <5>2. CASE f = e
          BY <2>3, <2>6, <4>2, <5>2
        <5> QED BY <5>1, <5>2
      <4> QED BY <2>1, <2>7, <3>2, <4>1, <4>2 DEF TakenOf
    <3> QED BY <3>1, <3>2
  <2>8. ASSUME NEW d \in DOMAIN events, d \notin pending', events[d].account = i
        PROVE  disk[i].customer # None \/ About(i) \cap pending' # {}
    <3>1. CASE d \in pending
      BY <2>6
    <3>2. CASE d \notin pending
      BY <2>1, <2>6, <2>8, <3>2 DEF TakenOf
    <3> QED BY <3>1, <3>2
  <2> QED BY <2>2, <2>5, <2>7, <2>8 DEF TakenOf
<1> QED BY <1>1, <1>2 DEF SavedOf

\* A goroutine that does not move.
LEMMA OrderedStays ==
    ASSUME IInv, IInv', SavedInv, NEW g \in Handler, handler'[g] = handler[g],
           \A i \in Id : leaving'[i] >= leaving[i],
           \A i \in Id : account[i].customer # None => account'[i].customer # None
    PROVE  Ordered(g)'
<1>1. Ordered(g) /\ Served(g)
  BY DEF SavedInv, IInv, Serving
<1>2. \A i \in Id : leaving[i] \in Nat /\ leaving'[i] \in Nat
  BY BillingAssumption DEF IInv, TypeOK
<1>3. CASE handler[g].at \in {"end", "remove"}
  BY <1>1, <1>2, <1>3 DEF Ordered, Served
<1>4. CASE handler[g].at = "status"
  BY <1>1, <1>4 DEF Ordered, Served
<1> QED BY <1>3, <1>4 DEF Ordered

\* No account is written and no event is taken.
LEMMA SavedQuietly ==
    ASSUME IInv, IInv', SavedInv, EventsStay, UNCHANGED <<account, disk, accounts>>,
           \A i \in Id : leaving'[i] >= leaving[i],
           \A e \in DOMAIN events' \ pending' : e \in DOMAIN events \ pending,
           pending \subseteq pending',
           \A g \in Handler : handler'[g] = handler[g] \/ Ordered(g)'
    PROVE  SavedInv'
<1>1. \A i \in Id : SavedOf(i)'
  BY SavedStays DEF SavedInv
<1>2. \A g \in Handler : Ordered(g)'
  BY OrderedStays
<1> QED BY <1>1, <1>2 DEF SavedInv

\* What Stripe sends is to be taken.
LEMMA SentIsPending ==
    ASSUME TypeOK, NEW S, NEW list \in Seq(S), Emit(list)
    PROVE  /\ EventsStay
           /\ \A e \in DOMAIN events' \ pending' : e \in DOMAIN events \ pending
           /\ pending \subseteq pending'
<1>1. events \in Seq(StripeEvent) /\ events' = events \o list
  BY DEF TypeOK, Emit
<1>2. /\ DOMAIN events = 1..Len(events) /\ DOMAIN events' = 1..(Len(events) + Len(list))
      /\ Len(events) \in Nat /\ Len(list) \in Nat
      /\ \A e \in 1..Len(events) : events'[e] = events[e]
  BY <1>1
<1>3. pending' = pending \cup (Len(events) + 1)..(Len(events) + Len(list))
  BY DEF Emit
<1> QED BY <1>2, <1>3 DEF EventsStay

LEMMA CheckoutSaves ==
    ASSUME IInv, IInv', SavedInv, NEW i \in Id, Checkout(i)
    PROVE  SavedInv'
<1>1. UNCHANGED <<account, accounts, disk, handler, events, pending, leaving>>
  BY DEF Checkout, store, told
<1>2. EventsStay /\ \A j \in Id : leaving'[j] >= leaving[j]
  BY <1>1, Times DEF EventsStay
<1> QED BY <1>1, <1>2, SavedQuietly

LEMMA PaySaves ==
    ASSUME IInv, IInv', SavedInv, NEW p \in pages, NEW c \in Customer, NEW s \in Sub,
           Pay(p, c, s)
    PROVE  SavedInv'
<1>1. UNCHANGED <<account, accounts, disk, handler, leaving>>
  BY DEF Pay, store, told
<1>2. \A j \in Id : leaving'[j] >= leaving[j]
  BY <1>1, Times
<1>3. PICK new, when :
         Emit(<<Event("completed", new, when), Event("subscription", new, when)>>)
  BY DEF Pay
<1>4. <<Event("completed", new, when), Event("subscription", new, when)>>
         \in Seq({Event("completed", new, when), Event("subscription", new, when)})
  OBVIOUS
<1>5. TypeOK
  BY DEF IInv
<1> QED BY <1>1, <1>2, <1>3, <1>4, <1>5, SentIsPending, SavedQuietly

LEMMA ChangeSaves ==
    ASSUME IInv, IInv', SavedInv, NEW s \in Sub,
           NEW status \in {"active", "past_due", "canceled"}, Change(s, status)
    PROVE  SavedInv'
<1>1. UNCHANGED <<account, accounts, disk, handler, leaving>>
  BY DEF Change, store, told
<1>2. \A j \in Id : leaving'[j] >= leaving[j]
  BY <1>1, Times
<1>3. PICK new, when : Emit(<<Event("subscription", new, when)>>)
  BY DEF Change
<1>4. <<Event("subscription", new, when)>> \in Seq({Event("subscription", new, when)})
  OBVIOUS
<1>5. TypeOK
  BY DEF IInv
<1> QED BY <1>1, <1>2, <1>3, <1>4, <1>5, SentIsPending, SavedQuietly

LEMMA DeliverSaves ==
    ASSUME IInv, IInv', SavedInv, NEW h \in Handler, NEW e \in DOMAIN events, Deliver(h, e)
    PROVE  SavedInv'
<1>1. UNCHANGED <<account, accounts, disk, events, pending, leaving>>
  BY DEF Deliver, store, stripe, told
<1>2. EventsStay /\ \A j \in Id : leaving'[j] >= leaving[j]
  BY <1>1, Times DEF EventsStay
<1>3. /\ handler'[h] = [at |-> "find", event |-> e, id |-> None, customer |-> None]
      /\ \A g \in Handler \ {h} : handler'[g] = handler[g]
  BY DEF Deliver, IInv, TypeOK
<1>4. Ordered(h)'
  BY <1>3 DEF Ordered
<1> QED BY <1>1, <1>2, <1>3, <1>4, SavedQuietly

LEMMA AskRemoveSaves ==
    ASSUME IInv, IInv', SavedInv, NEW h \in Handler, NEW i \in Id, AskRemove(h, i)
    PROVE  SavedInv'
<1>1. UNCHANGED <<account, accounts, disk, events, pending>>
  BY DEF AskRemove, store, stripe
<1>2. /\ leaving' = [leaving EXCEPT ![i] = leaving[i] + 1]
      /\ leaving \in [Id -> 0..MaxRemovals] /\ \A j \in Id : leaving[j] \in Nat
  BY Times DEF AskRemove, IInv, TypeOK
<1>3. leaving'[i] > 0 /\ \A j \in Id : leaving'[j] >= leaving[j]
  BY <1>2
<1>4. /\ handler'[h].at = "end" /\ handler'[h].id = i
      /\ \A g \in Handler \ {h} : handler'[g] = handler[g]
  BY DEF AskRemove, IInv, TypeOK
<1>5. Ordered(h)'
  BY <1>3, <1>4 DEF Ordered
<1>6. EventsStay
  BY <1>1 DEF EventsStay
<1> QED BY <1>1, <1>3, <1>4, <1>5, <1>6, SavedQuietly

LEMMA EndCustomerSaves ==
    ASSUME IInv, IInv', SavedInv, NEW h \in Handler, EndCustomer(h)
    PROVE  SavedInv'
<1>1. UNCHANGED <<account, accounts, disk, leaving>> /\ At(h, "end") /\ TypeOK
  BY DEF EndCustomer, store, told, IInv
<1>2. \A j \in Id : leaving'[j] >= leaving[j]
  BY <1>1, Times
<1>3. Ordered(h) /\ handler[h].id \in Id
  BY <1>1 DEF SavedInv, IInv, Serving, Served, At
<1>4. Done(h) \/ GoTo(h, "remove", handler[h].id)
  BY DEF EndCustomer
<1>5. /\ handler'[h].at = "idle" \/ (handler'[h].at = "remove" /\ handler'[h].id = handler[h].id)
      /\ \A g \in Handler \ {h} : handler'[g] = handler[g]
  BY <1>1, <1>3, <1>4, EndsHere, GoesTo
<1>6. Ordered(h)'
  BY <1>1, <1>3, <1>5 DEF Ordered, At
<1>7. CASE UNCHANGED <<events, pending>>
  <2>1. EventsStay
    BY <1>7 DEF EventsStay
  <2> QED BY <1>1, <1>2, <1>5, <1>6, <1>7, <2>1, SavedQuietly
<1>8. CASE ~UNCHANGED <<events, pending>>
  <2> DEFINE c == handler[h].customer
             ending == {s \in Sub : /\ sub[s] # None /\ sub[s].customer = c
                                    /\ Paid(sub[s].status)}
             ended == SetToSeq(ending)
  <2>1. PICK when : Emit([n \in 1..Len(ended) |-> Event("subscription", sub'[ended[n]], when)])
    BY <1>8 DEF EndCustomer, DeleteCustomer, Unended
  <2>2. Len(ended) \in Nat
    BY SetToSeqTyped
  <2> HIDE DEF ended
  <2> DEFINE list == [n \in 1..Len(ended) |-> Event("subscription", sub'[ended[n]], when)]
             S == {Event("subscription", sub'[ended[n]], when) : n \in 1..Len(ended)}
  <2>3. list \in Seq(S)
    BY <2>2
  <2>4. Emit(list)
    BY <2>1
  <2> HIDE DEF list, S
  <2> QED BY <1>1, <1>2, <1>5, <1>6, <2>3, <2>4, SentIsPending, SavedQuietly
<1> QED BY <1>7, <1>8

\* A look at the accounts: an event is taken only when its account is not there.
LEMMA LookSaves ==
    ASSUME IInv, IInv', SavedInv, NEW h \in Handler, Ordered(h)',
           handler[h].event \in DOMAIN events,
           UNCHANGED <<store, stripe, told, faults>>,
           \A g \in Handler \ {h} : handler'[g] = handler[g],
           \/ UNCHANGED pending
           \/ Its(h).account \notin accounts /\ pending' = pending \ {handler[h].event}
    PROVE  SavedInv'
<1>1. UNCHANGED <<account, accounts, disk, events, leaving>> /\ EventsStay
  BY DEF store, stripe, told, EventsStay
<1>2. \A j \in Id : leaving'[j] >= leaving[j]
  BY <1>1, Times
<1>3. ASSUME NEW i \in Id
      PROVE  SavedOf(i)'
  <2>1. SavedOf(i)
    BY DEF SavedInv
  <2>2. leaving'[i] = 0 =>
           /\ \A e \in DOMAIN events' \ pending' :
                 events'[e].account = i => e \in DOMAIN events \ pending
           /\ \A e \in DOMAIN events \cap pending : events[e].account = i => e \in pending'
    <3>1. leaving'[i] = 0 => i \in accounts
      BY <1>1, <2>1 DEF SavedOf
    <3>2. CASE UNCHANGED pending
      BY <1>1, <3>2
    <3>3. CASE Its(h).account \notin accounts /\ pending' = pending \ {handler[h].event}
      BY <1>1, <3>1, <3>3 DEF Its
    <3> QED BY <3>2, <3>3
  <2> QED BY <1>1, <1>2, <2>1, <2>2, SavedStays
<1>4. \A g \in Handler : Ordered(g)'
  BY <1>1, <1>2, OrderedStays
<1> QED BY <1>3, <1>4 DEF SavedInv

LEMMA FindSaves ==
    ASSUME IInv, IInv', SavedInv, NEW h \in Handler, Find(h)
    PROVE  SavedInv'
<1> DEFINE c == Its(h).customer
<1>1. /\ At(h, "find") /\ TypeOK /\ UNCHANGED <<store, stripe, told, faults>>
      /\ accounts \subseteq Id /\ UNCHANGED account
  BY DEF Find, IInv, TypeOK, store
<1>2. handler[h].event \in DOMAIN events /\ Its(h) \in StripeEvent /\ c # None
  <2>1. handler[h].event \in DOMAIN events /\ Its(h) \in StripeEvent
    BY <1>1, ItsTyped DEF At
  <2> QED BY <2>1, BillingAssumption DEF StripeEvent
<1>3. \/ Its(h).account \notin accounts /\ Done(h) /\ pending' = pending \ {handler[h].event}
      \/ /\ UNCHANGED pending
         /\ \/ Its(h).account \in accounts /\ GoTo(h, "customer", Its(h).account)
            \/ \E i \in accounts : account[i].customer = c /\ GoTo(h, "status", i)
            \/ GoTo(h, "byid", None)
  BY DEF Find, Take
<1>4. /\ Ordered(h)'
      /\ \A g \in Handler \ {h} : handler'[g] = handler[g]
  <2>1. CASE Done(h)
    BY <1>1, <2>1, EndsHere DEF Ordered
  <2>2. CASE Its(h).account \in accounts /\ GoTo(h, "customer", Its(h).account)
    BY <1>1, <2>2, GoesTo DEF Ordered
  <2>3. ASSUME NEW i \in accounts, account[i].customer = c, GoTo(h, "status", i)
        PROVE  Ordered(h)' /\ \A g \in Handler \ {h} : handler'[g] = handler[g]
    BY <1>1, <1>2, <2>3, GoesTo DEF Ordered
  <2>4. CASE GoTo(h, "byid", None)
    BY <1>1, <2>4, GoesTo DEF Ordered
  <2> QED BY <1>3, <2>1, <2>2, <2>3, <2>4
<1> QED BY <1>1, <1>2, <1>3, <1>4, LookSaves

LEMMA ByIdSaves ==
    ASSUME IInv, IInv', SavedInv, NEW h \in Handler, ById(h)
    PROVE  SavedInv'
<1>1. /\ At(h, "byid") /\ TypeOK /\ UNCHANGED <<store, stripe, told, faults>>
      /\ accounts \subseteq Id
  BY DEF ById, IInv, TypeOK
<1>2. handler[h].event \in DOMAIN events
  BY <1>1, ItsTyped DEF At
<1>3. \/ Its(h).account \notin accounts /\ Done(h) /\ pending' = pending \ {handler[h].event}
      \/ /\ UNCHANGED pending
         /\ Its(h).account \in accounts /\ GoTo(h, "customer", Its(h).account)
  BY DEF ById, Take
<1>4. /\ Ordered(h)'
      /\ \A g \in Handler \ {h} : handler'[g] = handler[g]
  BY <1>1, <1>3, EndsHere, GoesTo DEF Ordered
<1> QED BY <1>1, <1>2, <1>3, <1>4, LookSaves

\* An account of memory that is written as it is.
LEMMA SavedWithOthers ==
    ASSUME IInv, IInv', SavedInv, Save, NEW i \in Id, account'[i] = account[i],
           UNCHANGED <<accounts, events, leaving>>,
           \A e \in DOMAIN events : e \in pending /\ e \notin pending' => events[e].account # i
    PROVE  SavedOf(i)'
<1>1. SavedOf(i) /\ account[i].at \in Nat
  BY Times DEF SavedInv
<1>2. CASE i \in accounts
  <2>1. disk'[i] = account'[i]
    BY <1>2 DEF Save
  <2>2. account'[i].at # 0 \/ account[i].customer # None => account'[i].customer # None
    BY <1>1 DEF SavedOf, HasCustomer
  <2> QED BY <1>1, <1>2, <2>1, <2>2, SavedByWrite
<1>3. CASE i \notin accounts
  <2>1. disk'[i] = None /\ leaving'[i] # 0
    BY <1>1, <1>3 DEF Save, SavedOf
  <2> QED BY <1>1, <2>1 DEF SavedOf, HasCustomer
<1> QED BY <1>2, <1>3

\* A goroutine changes the account that its event is about, and saves it or fails.
LEMMA WriteSaves ==
    ASSUME IInv, IInv', SavedInv, NEW h \in Handler, NEW i \in Id, Ordered(h)',
           handler[h].event \in DOMAIN events, Its(h).account = i,
           \A g \in Handler \ {h} : handler'[g] = handler[g],
           \A j \in Id \ {i} : account'[j] = account[j],
           account'[i].customer # None, account'[i].at >= account[i].at,
           \/ Its(h).type = "completed" /\ account'[i].at = account[i].at
           \/ Its(h).type = "subscription" /\ account'[i].at = account[i].at /\ UNCHANGED pending
           \/ Its(h).type = "subscription" /\ account'[i].at = Its(h).created,
           \/ Save /\ (UNCHANGED pending \/ pending' = pending \ {handler[h].event})
           \/ UNCHANGED <<disk, pending>>,
           UNCHANGED <<accounts, stripe, told>>
    PROVE  SavedInv'
<1> DEFINE e == handler[h].event
<1>1. UNCHANGED <<events, leaving, accounts>> /\ EventsStay /\ Its(h) = events[e]
  BY DEF stripe, told, EventsStay, Its
<1>2. /\ \A j \in Id : leaving'[j] >= leaving[j]
      /\ account[i].at \in Nat /\ account'[i].at \in Nat /\ Created(e) \in Nat
  BY <1>1, Times DEF IInv, TypeOK, Billed
<1>3. \A g \in Handler : Ordered(g)'
  BY <1>2, OrderedStays
<1>4. CASE UNCHANGED <<disk, pending>>
  <2>1. SavedOf(i)'
    <3>1. SavedOf(i)
      BY DEF SavedInv
    <3> QED BY <1>1, <1>4, <3>1, SavedInMemory DEF Created
  <2>2. \A j \in Id \ {i} : SavedOf(j)'
    BY <1>1, <1>2, <1>4, SavedStays DEF SavedInv
  <2> QED BY <1>3, <2>1, <2>2 DEF SavedInv
<1>5. CASE Save /\ (UNCHANGED pending \/ pending' = pending \ {e})
  <2>1. \A d \in DOMAIN events : d \in pending /\ d \notin pending' => d = e
    BY <1>5
  <2>2. \A j \in Id \ {i} : SavedOf(j)'
    BY <1>1, <1>5, <2>1, SavedWithOthers
  <2>3. SavedOf(i)
    BY DEF SavedInv
  <2>4. CASE i \in accounts
    <3>1. disk'[i] = account'[i]
      BY <1>5, <2>4 DEF Save
    <3>2. \A d \in DOMAIN events \cap pending : d \notin pending' /\ events[d].account = i =>
              /\ account'[i].customer # None
              /\ events[d].type = "subscription" => account'[i].at >= Created(d)
      BY <1>1, <1>2, <2>1 DEF Created
    <3>3. SavedOf(i)'
      BY <1>1, <2>3, <2>4, <3>1, <3>2, SavedByWrite
    <3> QED BY <1>3, <2>2, <3>3 DEF SavedInv
  <2>5. CASE i \notin accounts
    <3>1. disk'[i] = None /\ leaving'[i] # 0
      BY <1>1, <1>5, <2>3, <2>5 DEF Save, SavedOf
    <3>2. SavedOf(i)'
      BY <3>1 DEF SavedOf, HasCustomer
    <3> QED BY <1>3, <2>2, <3>2 DEF SavedInv
  <2> QED BY <2>4, <2>5
<1> QED BY <1>4, <1>5

LEMMA SetCustomerSaves ==
    ASSUME IInv, IInv', SavedInv, NEW h \in Handler, SetCustomer(h)
    PROVE  SavedInv'
<1> DEFINE i == handler[h].id
           new == [customer |-> Its(h).customer, status |-> account[i].status,
                   at |-> account[i].at]
<1>1. /\ handler[h].event \in DOMAIN events /\ Its(h) \in StripeEvent
      /\ i \in Id /\ Its(h).account = i /\ TypeOK
  BY ItsTyped DEF SetCustomer, At, IInv, Serving, Served
<1>2. /\ account' = [account EXCEPT ![i] = new] /\ account \in [Id -> Billed]
      /\ UNCHANGED <<accounts, stripe, told>>
  BY DEF SetCustomer, IInv, TypeOK
<1>3. /\ account'[i].customer # None /\ account'[i].at = account[i].at
      /\ account'[i].at >= account[i].at
      /\ \A j \in Id \ {i} : account'[j] = account[j]
  BY <1>1, <1>2, BillingAssumption DEF StripeEvent, Billed
<1>4. /\ \/ Save /\ (UNCHANGED pending \/ pending' = pending \ {handler[h].event})
         \/ UNCHANGED <<disk, pending>>
      /\ Its(h).type = "completed" \/ (Its(h).type = "subscription" /\ UNCHANGED pending)
      /\ Done(h) \/ GoTo(h, "status", i)
  BY <1>1 DEF SetCustomer, TakeSaved, Take, Refuse, StripeEvent
<1> HIDE DEF new, i
<1>5. /\ Ordered(h)'
      /\ \A g \in Handler \ {h} : handler'[g] = handler[g]
  BY <1>1, <1>3, <1>4, EndsHere, GoesTo DEF Ordered
<1> QED BY <1>1, <1>2, <1>3, <1>4, <1>5, WriteSaves

LEMMA SetStatusSaves ==
    ASSUME IInv, IInv', SavedInv, NEW h \in Handler, SetStatus(h)
    PROVE  SavedInv'
<1>0. PICK i \in Id, e \in DOMAIN events : i = handler[h].id /\ e = handler[h].event
  BY DEF SetStatus, At, IInv, Serving, Served
<1> DEFINE new == [customer |-> account[i].customer, status |-> Its(h).status,
                       at |-> Its(h).created]
<1>1. /\ e \in DOMAIN events /\ Its(h) \in StripeEvent /\ Its(h) = events[e]
      /\ i \in Id /\ Its(h).account = i /\ Its(h).type = "subscription" /\ TypeOK
  BY <1>0, ItsTyped DEF SetStatus, At, IInv, Serving, Served
<1>2. account \in [Id -> Billed] /\ account[i].customer # None
  BY <1>0 DEF SetStatus, IInv, TypeOK, SavedInv, Ordered, At
<1>3. UNCHANGED <<accounts, stripe, told>> /\ UNCHANGED <<accounts, events, leaving>> /\ Done(h)
  BY DEF SetStatus, TakeSaved, Take, Refuse, stripe, told
<1>4. /\ Ordered(h)'
      /\ \A g \in Handler \ {h} : handler'[g] = handler[g]
  BY <1>1, <1>3, EndsHere DEF Ordered
<1>5. CASE Its(h).created < account[i].at
  <2>1. UNCHANGED <<account, disk>> /\ pending' = pending \ {e}
    BY <1>0, <1>5 DEF SetStatus, Take
  <2>2. e \in About(i) /\ Created(e) < account[i].at
    BY <1>1, <1>5 DEF About, Created
  <2>3. SavedOf(i)'
    BY <1>1, <1>3, <2>1, <2>2, SavedThoughOld DEF SavedInv
  <2>4. \A j \in Id : leaving'[j] >= leaving[j]
    BY <1>3, Times
  <2>5. \A j \in Id \ {i} : SavedOf(j)'
    BY <1>1, <1>3, <2>1, <2>4, SavedStays DEF SavedInv, EventsStay
  <2>6. \A g \in Handler : Ordered(g)'
    BY <1>4, <2>1, <2>4, OrderedStays
  <2> QED BY <2>3, <2>5, <2>6 DEF SavedInv
<1>6. CASE ~(Its(h).created < account[i].at)
  <2>1. /\ account' = [account EXCEPT ![i] = new]
        /\ \/ Save /\ pending' = pending \ {e}
           \/ UNCHANGED <<disk, pending>>
    BY <1>0, <1>6 DEF SetStatus, Takes, TakeSaved, Take, Refuse
  <2>2. /\ account'[i].customer # None /\ account'[i].at = Its(h).created
        /\ account'[i].at >= account[i].at
        /\ \A j \in Id \ {i} : account'[j] = account[j]
    BY <1>1, <1>2, <1>6, <2>1 DEF Billed, StripeEvent
  <2> QED BY <1>0, <1>1, <1>3, <1>4, <2>1, <2>2, WriteSaves
<1> QED BY <1>5, <1>6

LEMMA RemoveAccountSaves ==
    ASSUME IInv, IInv', SavedInv, NEW h \in Handler, RemoveAccount(h)
    PROVE  SavedInv'
<1>0. PICK i \in Id : i = handler[h].id
  BY DEF RemoveAccount, At, IInv, Serving, Served
<1>1. /\ UNCHANGED <<account, events, pending, leaving>> /\ EventsStay
      /\ accounts' = accounts \ {i} /\ Done(h) /\ TypeOK /\ i \in Id
      /\ disk' = disk \/ \A j \in Id : disk'[j] = IF j \in accounts' THEN account[j] ELSE None
  BY <1>0 DEF RemoveAccount, stripe, EventsStay, IInv, Serving, Served, At
<1>2. leaving[i] > 0 /\ leaving[i] \in Nat /\ \A j \in Id : leaving'[j] >= leaving[j]
  BY <1>0, <1>1, Times DEF SavedInv, Ordered, RemoveAccount, At
<1>3. \A g \in Handler : Ordered(g)'
  <2>1. Ordered(h)'
    BY <1>1, EndsHere DEF Ordered
  <2>2. \A g \in Handler \ {h} : handler'[g] = handler[g]
    BY <1>1, EndsHere
  <2> QED BY <1>1, <1>2, <2>1, <2>2, OrderedStays
<1>4. SavedOf(i)'
  <2>1. leaving'[i] # 0 /\ HasCustomer(i)
    BY <1>1, <1>2 DEF SavedInv, SavedOf
  <2>2. disk'[i] = disk[i] \/ disk'[i] = None
    BY <1>1
  <2> QED BY <1>1, <2>1, <2>2 DEF SavedOf, HasCustomer
<1>5. ASSUME NEW j \in Id \ {i}
      PROVE  SavedOf(j)'
  <2>1. SavedOf(j) /\ account[j].at \in Nat
    BY Times DEF SavedInv
  <2>2. CASE disk' = disk
    BY <1>1, <1>2, <2>1, <2>2, SavedStays
  <2>3. CASE j \in accounts' /\ disk'[j] = account[j]
    <3>1. account'[j].at # 0 \/ account[j].customer # None => account'[j].customer # None
      BY <1>1, <2>1 DEF SavedOf, HasCustomer
    <3>2. account'[j].at >= account[j].at
      BY <1>1, <2>1
    <3> QED BY <1>1, <2>1, <2>3, <3>1, <3>2, SavedByWrite
  <2>4. CASE j \notin accounts' /\ disk'[j] = None
    BY <1>1, <2>1, <2>4 DEF SavedOf, HasCustomer
  <2> QED BY <1>1, <2>2, <2>3, <2>4
<1> QED BY <1>3, <1>4, <1>5 DEF SavedInv

\* After a crash memory has what the disk has.
LEMMA CrashSaves ==
    ASSUME IInv, IInv', SavedInv, Crash
    PROVE  SavedInv'
<1>1. /\ UNCHANGED <<disk, events, pending, leaving>>
      /\ accounts' = {i \in Id : disk[i] # None}
      /\ account' = [i \in Id |-> IF disk[i] # None THEN disk[i] ELSE account[i]]
      /\ \A h \in Handler : handler'[h] = Idle
  BY DEF Crash, stripe, told
<1>2. ASSUME NEW i \in Id
      PROVE  SavedOf(i)'
  <2>1. SavedOf(i)
    BY DEF SavedInv
  <2>2. HasCustomer(i)'
    BY <1>1, <2>1 DEF SavedOf, HasCustomer
  <2>3. ASSUME leaving[i] = 0
        PROVE  i \in accounts' /\ disk'[i] # None /\ AheadComes(i)' /\ TakenOf(i)'
    <3>1. disk[i] # None /\ TakenOf(i) /\ disk[i].at \in Nat
      BY <2>1, <2>3, Times DEF SavedOf
    <3>2. TakenOf(i)'
      BY <1>1, <3>1 DEF TakenOf, About, Created
    <3>3. AheadComes(i)'
      BY <1>1, <3>1 DEF AheadComes
    <3> QED BY <1>1, <3>1, <3>2, <3>3
  <2> QED BY <1>1, <2>2, <2>3 DEF SavedOf
<1>3. \A h \in Handler : Ordered(h)'
  BY <1>1 DEF Ordered, Idle
<1> QED BY <1>2, <1>3 DEF SavedInv

LEMMA NextSaves == IInv /\ IInv' /\ SavedInv /\ [Next]_vars => SavedInv'
<1> SUFFICES ASSUME IInv, IInv', SavedInv, [Next]_vars PROVE SavedInv'
  OBVIOUS
<1>1. CASE UNCHANGED vars
  <2>1. UNCHANGED <<account, accounts, disk, handler, events, pending, leaving>>
    BY <1>1 DEF vars, store, stripe, told
  <2>2. EventsStay /\ \A j \in Id : leaving'[j] >= leaving[j]
    BY <2>1, Times DEF EventsStay
  <2> QED BY <2>1, <2>2, SavedQuietly
<1>2. ASSUME NEW h \in Handler, GoOn(h) PROVE SavedInv'
  BY <1>2, FindSaves, ByIdSaves, SetCustomerSaves, SetStatusSaves, EndCustomerSaves,
     RemoveAccountSaves DEF GoOn
<1> QED BY <1>1, <1>2, CheckoutSaves, PaySaves, ChangeSaves, DeliverSaves, AskRemoveSaves,
           CrashSaves DEF Next

LEMMA InitSaves == Init => SavedInv
<1> SUFFICES ASSUME Init PROVE SavedInv
  OBVIOUS
<1>1. ASSUME NEW i \in Id
      PROVE  SavedOf(i)
  <2>1. account[i] = New /\ disk[i] = New /\ i \in accounts /\ DOMAIN events = {}
    BY DEF Init
  <2>2. New # None /\ New.at = 0 /\ New.customer = None
    <3>1. New \in Billed
      BY DEF New, Billed, Status
    <3> QED BY <3>1, BillingAssumption DEF New
  <2> QED BY <2>1, <2>2 DEF SavedOf, HasCustomer, AheadComes, TakenOf, About
<1>2. \A h \in Handler : Ordered(h)
  BY DEF Init, Ordered, Idle
<1> QED BY <1>1, <1>2 DEF SavedInv

\* What the server took is on disk or comes again, across crashes, failed writes, late
\* and repeated events (main.go:605-641, store.go:315-332).
THEOREM NoEventIsLost == Spec => []TakenIsSaved
<1>1. SavedInv => TakenIsSaved
  BY DEF SavedInv, SavedOf, TakenOf, TakenIsSaved, Staying
<1> QED BY <1>1, InitIInv, NextIInv, InitSaves, NextSaves, PTL DEF Spec

-----------------------------------------------------------------------------
(***************************************************************************)
(* What a deletion leaves.  A goroutine goes on to remove an account only  *)
(* after Stripe deleted the customer that it saw, and a deleted customer   *)
(* has no subscription that is paid and gets no new one.  So the customer  *)
(* of each deletion that the user was told of is one that Stripe deleted.  *)
(***************************************************************************)
DeletedIsAway ==
    \A r \in deleted : /\ r.id \notin accounts /\ disk[r.id] = None
                       /\ r.customer \in gone \cup {None}

GoneDoNotPay ==
    \A s \in Sub : sub[s] # None /\ sub[s].customer \in gone => ~Paid(sub[s].status)

RemoversEnded ==
    \A h \in Handler : At(h, "remove") => handler[h].customer \in gone \cup {None}

EndedInv == DeletedIsAway /\ GoneDoNotPay /\ RemoversEnded

LEMMA RemoverStays ==
    ASSUME RemoversEnded, gone \subseteq gone', NEW h \in Handler, handler'[h].at # "remove",
           \A g \in Handler \ {h} : handler'[g] = handler[g]
    PROVE  RemoversEnded'
BY DEF RemoversEnded, At

LEMMA EndedByRequests ==
    ASSUME TypeOK, EndedInv, NEW h \in Handler,
           \/ Find(h) \/ ById(h) \/ SetCustomer(h) \/ SetStatus(h)
           \/ (\E e \in DOMAIN events : Deliver(h, e)) \/ (\E i \in Id : AskRemove(h, i))
    PROVE  EndedInv'
<1>1. UNCHANGED <<accounts, sub, gone, deleted>> /\ (Save \/ UNCHANGED disk)
  BY DEF Find, ById, SetCustomer, SetStatus, Deliver, AskRemove, TakeSaved, store, stripe, told
<1>2. handler'[h].at # "remove" /\ \A g \in Handler \ {h} : handler'[g] = handler[g]
  <2>1. CASE \E e \in DOMAIN events : Deliver(h, e)
    BY <2>1 DEF Deliver, TypeOK
  <2>2. CASE \E i \in Id : AskRemove(h, i)
    BY <2>2 DEF AskRemove, TypeOK
  <2>3. CASE Done(h)
    BY <2>3, EndsHere
  <2>4. CASE \E i : \E step \in {"byid", "customer", "status"} : GoTo(h, step, i)
    BY <2>4 DEF GoTo, TypeOK
  <2>5. \/ Done(h) \/ (\E i : \E step \in {"byid", "customer", "status"} : GoTo(h, step, i))
        \/ (\E e \in DOMAIN events : Deliver(h, e)) \/ (\E i \in Id : AskRemove(h, i))
    BY DEF Find, ById, SetCustomer, SetStatus, TakeSaved, Take, Refuse
  <2> QED BY <2>1, <2>2, <2>3, <2>4, <2>5
<1>3. DeletedIsAway'
  BY <1>1 DEF EndedInv, DeletedIsAway, Save, TypeOK
<1>4. GoneDoNotPay' /\ RemoversEnded'
  BY <1>1, <1>2, RemoverStays DEF EndedInv, GoneDoNotPay
<1> QED BY <1>3, <1>4 DEF EndedInv

\* Stripe takes no payment for a customer that it deleted.
LEMMA EndedByStripe ==
    ASSUME TypeOK, EndedInv,
           \/ \E i \in Id : Checkout(i)
           \/ \E p \in pages, c \in Customer, s \in Sub : Pay(p, c, s)
           \/ \E s \in Sub, status \in {"active", "past_due", "canceled"} : Change(s, status)
    PROVE  EndedInv'
<1>1. UNCHANGED <<accounts, disk, handler, gone, deleted>>
  BY DEF Checkout, Pay, Change, store, told
<1>2. ASSUME NEW p \in pages, NEW c \in Customer, NEW s \in Sub, Pay(p, c, s)
      PROVE  GoneDoNotPay'
  BY <1>1, <1>2 DEF Pay, EndedInv, GoneDoNotPay, TypeOK
<1>3. ASSUME NEW s \in Sub, NEW status \in {"active", "past_due", "canceled"},
             Change(s, status)
      PROVE  GoneDoNotPay'
  BY <1>1, <1>3 DEF Change, EndedInv, GoneDoNotPay, TypeOK
<1>4. ASSUME UNCHANGED sub
      PROVE  GoneDoNotPay'
  BY <1>1, <1>4 DEF EndedInv, GoneDoNotPay
<1>5. GoneDoNotPay'
  BY <1>2, <1>3, <1>4 DEF Checkout
<1> QED BY <1>1, <1>5 DEF EndedInv, DeletedIsAway, RemoversEnded, At

\* The goroutine goes on when Stripe has deleted the customer, or there is none.
LEMMA EndedByEnding ==
    ASSUME IInv, EndedInv, NEW h \in Handler, EndCustomer(h)
    PROVE  EndedInv'
<1> DEFINE c == handler[h].customer
           ending == {s \in Sub : /\ sub[s] # None /\ sub[s].customer = c
                                  /\ Paid(sub[s].status)}
<1>1. /\ UNCHANGED <<accounts, disk, deleted>> /\ TypeOK /\ handler[h].id \in Id
      /\ gone \subseteq gone' /\ c \in Customer \cup {None}
  BY DEF EndCustomer, DeleteCustomer, Unended, store, told, IInv, TypeOK, Goroutine, Serving,
         Served, At
<1>2. DeletedIsAway'
  BY <1>1 DEF EndedInv, DeletedIsAway
<1>3. ASSUME UNCHANGED <<sub, gone>>
      PROVE  GoneDoNotPay'
  BY <1>3 DEF EndedInv, GoneDoNotPay
<1>4. ASSUME DeleteCustomer(c)
      PROVE  GoneDoNotPay'
  <2>0. /\ gone' = gone \cup {c}
        /\ sub' = [s \in Sub |-> IF s \in ending
                                 THEN [sub[s] EXCEPT !.status = "canceled"] ELSE sub[s]]
    BY <1>4 DEF DeleteCustomer
  <2> SUFFICES ASSUME NEW s \in Sub, sub'[s] # None, sub'[s].customer \in gone \cup {c}
               PROVE  ~Paid(sub'[s].status)
    BY <2>0 DEF GoneDoNotPay, Paid
  <2>1. CASE s \in ending
    <3>1. sub[s] \in Subscription
      BY <1>1, <2>1, BillingAssumption DEF TypeOK
    <3> QED BY <2>0, <2>1, <3>1 DEF Paid, Subscription
  <2>2. CASE s \notin ending
    BY <2>0, <2>2 DEF EndedInv, GoneDoNotPay
  <2> QED BY <2>1, <2>2
<1>5. GoneDoNotPay'
  BY <1>3, <1>4 DEF EndCustomer, Unended
<1>6. RemoversEnded'
  <2>1. CASE Done(h)
    BY <1>1, <2>1, EndsHere, RemoverStays DEF EndedInv
  <2>2. CASE GoTo(h, "remove", handler[h].id) /\ c \in gone' \cup {None}
    <3>1. /\ handler'[h].customer = c
          /\ \A g \in Handler \ {h} : handler'[g] = handler[g]
      BY <1>1, <2>2 DEF GoTo, TypeOK
    <3> QED BY <1>1, <2>2, <3>1 DEF EndedInv, RemoversEnded, At
  <2> QED BY <2>1, <2>2 DEF EndCustomer, DeleteCustomer
<1> QED BY <1>2, <1>5, <1>6 DEF EndedInv

LEMMA EndedByRemoval ==
    ASSUME IInv, EndedInv, NEW h \in Handler, RemoveAccount(h)
    PROVE  EndedInv'
<1>1. /\ UNCHANGED <<sub, gone>> /\ Done(h) /\ TypeOK /\ handler[h].id \in Id
      /\ accounts' = accounts \ {handler[h].id}
      /\ \/ /\ disk' = [j \in Id |-> IF j \in accounts' THEN account[j] ELSE None]
            /\ deleted' = deleted \cup {[id |-> handler[h].id, customer |-> handler[h].customer]}
         \/ UNCHANGED <<disk, deleted>>
      /\ handler[h].customer \in gone \cup {None}
  BY DEF RemoveAccount, stripe, IInv, Serving, Served, At, EndedInv, RemoversEnded
<1>2. DeletedIsAway'
  BY <1>1 DEF EndedInv, DeletedIsAway, TypeOK
<1>3. RemoversEnded' /\ GoneDoNotPay'
  BY <1>1, EndsHere, RemoverStays DEF EndedInv, GoneDoNotPay
<1> QED BY <1>2, <1>3 DEF EndedInv

LEMMA EndedStep == IInv /\ EndedInv /\ [Next]_vars => EndedInv'
<1> SUFFICES ASSUME IInv, EndedInv, [Next]_vars PROVE EndedInv'
  OBVIOUS
<1>1. TypeOK
  BY DEF IInv
<1>2. ASSUME Crash PROVE EndedInv'
  BY <1>1, <1>2 DEF Crash, stripe, told, Idle, EndedInv, DeletedIsAway, GoneDoNotPay,
                    RemoversEnded, At, TypeOK
<1>3. CASE UNCHANGED vars
  BY <1>3 DEF vars, store, stripe, told, EndedInv, DeletedIsAway, GoneDoNotPay,
              RemoversEnded, At
<1> QED BY <1>1, <1>2, <1>3, EndedByRequests, EndedByStripe, EndedByEnding, EndedByRemoval
        DEF Next, GoOn

\* A deletion that the user was told of lasts, and no subscription is paid, then or later,
\* of the customer that the account had when the user asked for it, with any number of
\* accounts, customers, deletions, webhooks and faults (main.go:565-575,
\* store.go:315-332).
THEOREM DeletionsEndPayments == Spec => []DeletedIsEnded
<1>1. Init => EndedInv
  BY DEF Init, EndedInv, DeletedIsAway, GoneDoNotPay, RemoversEnded, At, Idle
<1>2. TypeOK /\ EndedInv => DeletedIsEnded
  <2> SUFFICES ASSUME TypeOK, EndedInv PROVE DeletedIsEnded
    OBVIOUS
  <2>1. \A s \in Sub : sub[s] # None => sub[s].customer \in Customer /\ None \notin Customer
    BY BillingAssumption DEF TypeOK, Subscription
  <2> QED BY <2>1 DEF EndedInv, DeletedIsAway, GoneDoNotPay, DeletedIsEnded
<1>3. IInv => TypeOK
  BY DEF IInv
<1> QED BY <1>1, <1>2, <1>3, InitIInv, NextIInv, EndedStep, PTL DEF Spec

=============================================================================
