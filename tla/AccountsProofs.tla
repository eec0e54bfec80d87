--------------------------- MODULE AccountsProofs ---------------------------
(***************************************************************************)
(* The maps of the Store agree, and a deleted account is gone for good,    *)
(* for any number of accounts, addresses, goroutines and faults, also when *)
(* several requests delete one account at once.  All that such requests    *)
(* break is the email: another account that has it since may lose it in    *)
(* the index, and then the email is given away again (the run              *)
(* AccountsEmail).                                                         *)
(*                                                                         *)
(* From the same invariant: only the newest link confirms an address, and  *)
(* what users were told of their accounts and sessions stays so.           *)
(***************************************************************************)
EXTENDS Accounts, KeepingTheorems, FiniteSetTheorems

Object == Account \cup {None}

LEMMA KeptTokens ==
    ASSUME NEW tokens \in Seq(Secret)
    PROVE  /\ Kept(tokens) \in Seq(Secret)
           /\ Len(Kept(tokens)) <= maxTokens
           /\ ToSet(Kept(tokens)) \subseteq ToSet(tokens)
<1>0. maxTokens \in Nat \ {0} /\ Len(tokens) \in Nat
  BY AccountsAssumption
<1>1. CASE Len(tokens) > maxTokens
  <2> DEFINE n == Len(tokens)
             k == SubSeq(tokens, n - maxTokens + 1, n)
  <2>1. Kept(tokens) = k
    BY <1>1 DEF Kept
  <2>2. k \in Seq(Secret) /\ Len(k) = maxTokens
    BY <1>0, <1>1
  <2>3. \A j \in 1..maxTokens : k[j] = tokens[n - maxTokens + j] /\ n - maxTokens + j \in 1..n
    BY <1>0, <1>1
  <2> HIDE DEF k
  <2>4. ToSet(k) \subseteq ToSet(tokens)
    BY <2>2, <2>3, <1>0 DEF ToSet
  <2> QED BY <2>1, <2>2, <2>4, <1>0
<1>2. CASE ~(Len(tokens) > maxTokens)
  BY <1>0, <1>2 DEF Kept
<1> QED BY <1>1, <1>2

\* A session that ends leaves the others.
LEMMA WithoutToken ==
    ASSUME NEW a \in Account, NEW t
    PROVE  /\ Keep(a.tokens, Secret \ {t}) \in Seq(Secret)
           /\ Len(Keep(a.tokens, Secret \ {t})) <= maxTokens
           /\ ToSet(Keep(a.tokens, Secret \ {t})) = ToSet(a.tokens) \ {t}
<1> DEFINE T == Secret \ {t}
           s == a.tokens
<1>0. s \in Seq(Secret) /\ Len(s) <= maxTokens
  BY DEF Account
<1>1. ToSet(s) \subseteq Secret
  BY <1>0 DEF ToSet
<1> HIDE DEF T, s
<1>2. Keep(s, T) \in Seq(T \cap Secret) /\ ToSet(Keep(s, T)) = ToSet(s) \cap T
  BY <1>0, KeepSet
<1>3. Keep(s, T) \in Seq(Secret)
  BY <1>2
<1>4. ToSet(s) \cap T = ToSet(s) \ {t}
  BY <1>1 DEF T
<1>5. Len(Keep(s, T)) <= maxTokens
  <2>1. Len(Keep(s, T)) <= Len(s)
    BY <1>0, KeepLength
  <2>2. Len(Keep(s, T)) \in Nat /\ Len(s) \in Nat /\ maxTokens \in Nat
    BY <1>0, <1>3, AccountsAssumption
  <2> QED BY <1>0, <2>1, <2>2
<1> QED BY <1>2, <1>3, <1>4, <1>5 DEF s, T

-----------------------------------------------------------------------------
(***************************************************************************)
(* The inductive invariant.  A session belongs to one account, in memory   *)
(* and on disk; accounts on disk have different emails; a goroutine works  *)
(* for an account that was made; and the one that deletes an account is    *)
(* the only one that does, so the account is there until it is done.  The  *)
(* last two, about emails and deletions, are but for the accounts that     *)
(* several requests delete at once, and the emails of these.               *)
(***************************************************************************)
Owns(i, a) == \A t \in ToSet(a.tokens) : t <= drawn /\ owner[t] = <<"token", i>>

SessionsOwned ==
    \A i \in Id : /\ account[i] # None => Owns(i, account[i])
                  /\ disk[i] # None => account[i] # None /\ Owns(i, disk[i])

DiskEmails ==
    \A i, j \in Id : disk[i] # None /\ disk[j] # None /\ disk[i].email = disk[j].email
                        => i = j \/ disk[i].email \in Torn

\* The email of an account never changes.
SameEmail == \A i \in Id : disk[i] # None => account[i] # None /\ disk[i].email = account[i].email

TwiceMade == \A i \in Told("twice") : i \in Id /\ account[i] # None

Deleting(h) == handler[h].at \in {"check", "remove"}

GoroutinesServe ==
    /\ \A h \in Handler : handler[h].at # "idle" =>
          handler[h].id \in Id /\ account[handler[h].id] # None
    /\ \A h \in Handler : handler[h].at \in {"mail", "mailagain"} =>
          handler[h].code \in Secret
    /\ \A h \in Handler : Deleting(h) => handler[h].id \in accounts \cup Told("twice")
    /\ \A g, h \in Handler :
          Deleting(g) /\ Deleting(h) /\ handler[g].id = handler[h].id =>
             g = h \/ handler[h].id \in Told("twice")

AccountsMade == \A i \in accounts : account[i] # None

\* A deleted account is none that could be made again.
DeletedMade == \A i \in Told("deleted") : i \in Id /\ account[i] # None

IInv == /\ TypeOK /\ SessionsOwned /\ DiskEmails /\ SameEmail /\ TwiceMade
        /\ GoroutinesServe /\ AccountsMade /\ IndexesAgree

RemovalAsked(i) ==
    told' = told \cup {<<"leaving", i>>} \cup {<<"twice", i>> : g \in Removing(i)}

\* What every step does: an account that was made keeps its email, and what was told
\* stays told.
Onward == /\ TypeOK' /\ SameEmail' /\ TwiceMade'
          /\ told \subseteq told'
          /\ \A i \in Id : account[i] # None =>
                account'[i] # None /\ account'[i].email = account[i].email

-----------------------------------------------------------------------------
LEMMA FaultCounts == ASSUME TypeOK, NEW kind, Fault(kind) PROVE faults' \in 0..MaxFaults
BY AccountsAssumption DEF TypeOK, Fault

LEMMA DrawTyped ==
    ASSUME TypeOK, NEW kind \in {"token", "code"}, NEW i \in Id, Draw(kind, i)
    PROVE  /\ drawn + 1 \in Secret /\ drawn' = drawn + 1 /\ drawn' \in 0..MaxSecrets
           /\ owner' \in [Secret -> ({"token", "code"} \X Id) \cup {None}]
           /\ owner'[drawn + 1] = <<kind, i>>
           /\ \A s \in Secret : s <= drawn => owner'[s] = owner[s]
BY AccountsAssumption DEF TypeOK, Draw, Secret

\* After an operation, accounts.json has what memory has, or what it had before.
LEMMA SaveTyped ==
    ASSUME TypeOK, account' \in [Id -> Object],
           Save(accounts', account') \/ SaveFails
    PROVE  disk' \in [Id -> Object] /\ faults' \in 0..MaxFaults
BY FaultCounts DEF TypeOK, Save, SaveFails, Object

LEMMA HandlerTyped ==
    ASSUME TypeOK, NEW h \in Handler, NEW code \in Secret \cup {None},
           NEW step \in {"mail", "signin", "newcode", "mailagain", "check", "remove"},
           NEW i \in Id,
           GoTo(h, step, i, code) \/ Done(h)
    PROVE  handler' \in [Handler -> Goroutine]
BY DEF TypeOK, GoTo, Done, Idle, Goroutine

LEMMA TypeStep == IInv /\ [Next]_vars => TypeOK'
<1> SUFFICES ASSUME IInv, [Next]_vars PROVE TypeOK'
  OBVIOUS
<1>t. TypeOK /\ AccountsMade /\ GoroutinesServe
  BY DEF IInv
<1> USE DEF Object
<1>1. ASSUME NEW h \in Handler, NEW e \in Email, NEW i \in Id, SignUp(h, e, i) PROVE TypeOK'
  <2>1. /\ drawn + 1 \in Secret /\ drawn' \in 0..MaxSecrets
        /\ owner' \in [Secret -> ({"token", "code"} \X Id) \cup {None}]
    BY <1>1, <1>t, DrawTyped DEF SignUp
  <2>2. [email |-> e, tokens |-> << >>, verify |-> drawn + 1] \in Account
    BY <2>1, AccountsAssumption DEF Account
  <2>3. account' \in [Id -> Object]
    BY <1>1, <1>t, <2>2 DEF SignUp, TypeOK
  <2>4. disk' \in [Id -> Object] /\ faults' \in 0..MaxFaults
    BY <1>1, <1>t, <2>3, SaveTyped DEF SignUp
  <2>5. handler' \in [Handler -> Goroutine]
    BY <1>1, <1>t, <2>1, HandlerTyped DEF SignUp, TypeOK
  <2> QED BY <1>1, <1>t, <2>1, <2>3, <2>4, <2>5 DEF SignUp, TypeOK
<1>2. ASSUME NEW h \in Handler, Mail(h) PROVE TypeOK'
  <2>1. handler[h].at # "idle" /\ handler[h].id \in Id /\ handler[h].code \in Secret
    BY <1>2, <1>t DEF Mail, At, GoroutinesServe
  <2>2. handler' \in [Handler -> Goroutine]
    BY <1>2, <1>t, <2>1, HandlerTyped DEF Mail
  <2>3. mailed' \in SUBSET Secret /\ faults' \in 0..MaxFaults
    BY <1>2, <1>t, <2>1, FaultCounts DEF Mail, TypeOK
  <2> QED BY <1>2, <1>t, <2>2, <2>3 DEF Mail, store, index, TypeOK
<1>3. ASSUME NEW h \in Handler, NEW e \in Email, Check(h, e) PROVE TypeOK'
  <2>1. handler' \in [Handler -> Goroutine]
    BY <1>3, <1>t, HandlerTyped DEF Check, TypeOK
  <2> QED BY <1>3, <1>t, <2>1 DEF Check, store, index, TypeOK
<1>4. ASSUME NEW h \in Handler, SignIn(h) PROVE TypeOK'
  <2> DEFINE i == handler[h].id
             tokens == Kept(Append(account[i].tokens, drawn + 1))
  <2>1. i \in Id /\ handler' \in [Handler -> Goroutine]
    BY <1>4, <1>t, HandlerTyped DEF SignIn, At, GoroutinesServe
  <2>2. CASE i \notin accounts
    BY <1>4, <1>t, <2>1, <2>2 DEF SignIn, store, index, TypeOK
  <2>3. CASE i \in accounts
    <3>1. /\ Draw("token", i)
          /\ account' = [account EXCEPT ![i].tokens = tokens]
          /\ byToken' = [s \in Secret |->
                IF s \in ToSet(tokens) THEN i
                ELSE IF s \in ToSet(account[i].tokens) THEN None
                ELSE byToken[s]]
          /\ Save(accounts, account') \/ SaveFails
          /\ UNCHANGED <<accounts, byEmail, mailed>>
      BY <1>4, <2>3 DEF SignIn
    <3>2. /\ drawn + 1 \in Secret /\ drawn' \in 0..MaxSecrets
          /\ owner' \in [Secret -> ({"token", "code"} \X Id) \cup {None}]
      BY <2>1, <3>1, <1>t, DrawTyped
    <3>3. account[i] \in Account /\ account[i].tokens \in Seq(Secret)
      BY <2>3, <1>t DEF AccountsMade, TypeOK, Account
    <3>4. Append(account[i].tokens, drawn + 1) \in Seq(Secret)
      BY <3>2, <3>3
    <3>5. tokens \in Seq(Secret) /\ Len(tokens) <= maxTokens
      BY <3>4, KeptTokens
    <3> HIDE DEF tokens
    <3>6. account' \in [Id -> Object]
      BY <3>1, <3>3, <3>5, <1>t, <2>1 DEF TypeOK, Account
    <3>7. disk' \in [Id -> Object] /\ faults' \in 0..MaxFaults
      BY <3>1, <3>6, <1>t, SaveTyped
    <3>8. byToken' \in [Secret -> Id \cup {None}]
      BY <3>1, <2>1, <1>t DEF TypeOK
    <3> QED BY <2>1, <3>1, <3>2, <3>6, <3>7, <3>8, <1>t DEF TypeOK
  <2> QED BY <2>2, <2>3
<1>5. ASSUME NEW t \in Secret, SignOut(t) PROVE TypeOK'
  <2> DEFINE i == byToken[t]
  <2>1. CASE i = None
    BY <1>5, <2>1, <1>t DEF SignOut, store, index, TypeOK
  <2>2. CASE i # None
    <3>1. /\ byToken' = [byToken EXCEPT ![t] = None]
          /\ account' = [account EXCEPT ![i].tokens = Keep(@, Secret \ {t})]
          /\ Save(accounts, account') \/ SaveFails
          /\ UNCHANGED <<accounts, byEmail, handler, drawn, owner, mailed>>
      BY <1>5, <2>2 DEF SignOut
    <3>2. i \in accounts /\ account[i] \in Account
      BY <2>2, <1>t DEF IInv, IndexesAgree, TypeOK, AccountsMade
    <3>3. /\ Keep(account[i].tokens, Secret \ {t}) \in Seq(Secret)
          /\ Len(Keep(account[i].tokens, Secret \ {t})) <= maxTokens
      BY <3>2, WithoutToken
    <3>4. account' \in [Id -> Object]
      BY <3>1, <3>2, <3>3, <1>t DEF TypeOK, Account
    <3>5. disk' \in [Id -> Object] /\ faults' \in 0..MaxFaults
      BY <3>1, <3>4, <1>t, SaveTyped
    <3> QED BY <3>1, <3>4, <3>5, <1>t DEF TypeOK
  <2> QED BY <2>1, <2>2
<1>6. ASSUME NEW h \in Handler, NEW i \in accounts, AskLink(h, i) \/ AskRemove(h, i)
      PROVE  TypeOK'
  <2>1. handler' \in [Handler -> Goroutine]
    BY <1>6, <1>t, HandlerTyped DEF AskLink, AskRemove, TypeOK
  <2> QED BY <1>6, <1>t, <2>1 DEF AskLink, AskRemove, store, index, TypeOK
<1>7. ASSUME NEW h \in Handler, NewCode(h) PROVE TypeOK'
  <2> DEFINE i == handler[h].id
  <2>1. i \in Id
    BY <1>7, <1>t DEF NewCode, At, GoroutinesServe
  <2>2. CASE i \notin accounts
    <3>1. handler' \in [Handler -> Goroutine]
      BY <1>7, <2>1, <2>2, <1>t, HandlerTyped DEF NewCode
    <3> QED BY <1>7, <1>t, <2>2, <3>1 DEF NewCode, index, TypeOK
  <2>3. CASE i \in accounts
    <3>1. /\ Draw("code", i)
          /\ account' = [account EXCEPT ![i].verify = drawn + 1]
          /\ GoTo(h, "mailagain", i, drawn + 1) \/ Done(h)
          /\ Save(accounts, account') \/ SaveFails
          /\ UNCHANGED <<index, mailed>>
      BY <1>7, <2>3 DEF NewCode
    <3>2. /\ drawn + 1 \in Secret /\ drawn' \in 0..MaxSecrets
          /\ owner' \in [Secret -> ({"token", "code"} \X Id) \cup {None}]
      BY <2>1, <3>1, <1>t, DrawTyped
    <3>3. account[i] \in Account
      BY <2>3, <1>t DEF AccountsMade, TypeOK
    <3>4. account' \in [Id -> Object]
      BY <3>1, <3>2, <3>3, <1>t DEF TypeOK, Account
    <3>5. disk' \in [Id -> Object] /\ faults' \in 0..MaxFaults
      BY <3>1, <3>4, <1>t, SaveTyped DEF index
    <3>6. handler' \in [Handler -> Goroutine]
      BY <3>1, <3>2, <2>1, <1>t, HandlerTyped
    <3> QED BY <3>1, <3>2, <3>4, <3>5, <3>6, <1>t DEF TypeOK, index
  <2> QED BY <2>2, <2>3
<1>8. ASSUME NEW c \in Secret, Confirm(c) PROVE TypeOK'
  <2>1. PICK i \in accounts :
           /\ account' = [account EXCEPT ![i].verify = None]
           /\ Save(accounts, account') \/ SaveFails
    BY <1>8 DEF Confirm
  <2>2. account[i] \in Account /\ i \in Id
    BY <1>t DEF AccountsMade, TypeOK
  <2>3. account' \in [Id -> Object]
    BY <2>1, <2>2, <1>t DEF TypeOK, Account
  <2>4. disk' \in [Id -> Object] /\ faults' \in 0..MaxFaults
    BY <1>8, <2>1, <2>3, <1>t, SaveTyped DEF Confirm, index
  <2> QED BY <1>8, <2>3, <2>4, <1>t DEF Confirm, index, TypeOK
<1>9. ASSUME NEW h \in Handler, CheckRemove(h) PROVE TypeOK'
  <2>1. handler[h].id \in Id
    BY <1>9, <1>t DEF CheckRemove, At, GoroutinesServe
  <2>2. handler' \in [Handler -> Goroutine]
    BY <1>9, <1>t, <2>1, HandlerTyped DEF CheckRemove
  <2> QED BY <1>9, <1>t, <2>2 DEF CheckRemove, store, index, TypeOK
<1>10. ASSUME NEW h \in Handler, RemoveAccount(h) PROVE TypeOK'
  <2> DEFINE i == handler[h].id
  <2>1. i \in Id /\ handler' \in [Handler -> Goroutine]
    BY <1>10, <1>t, HandlerTyped DEF RemoveAccount, At, GoroutinesServe
  <2>2. /\ accounts' = accounts \ {i}
        /\ byEmail' = [byEmail EXCEPT ![account[i].email] = None]
        /\ byToken' = [t \in Secret |->
              IF t \in ToSet(account[i].tokens) THEN None ELSE byToken[t]]
        /\ Save(accounts \ {i}, account) \/ SaveFails
        /\ UNCHANGED <<account, drawn, owner, mailed>>
    BY <1>10 DEF RemoveAccount
  <2>3. disk' \in [Id -> Object] /\ faults' \in 0..MaxFaults
    BY <2>2, <1>t, SaveTyped DEF TypeOK
  <2> QED BY <2>1, <2>2, <2>3, <1>t DEF TypeOK
<1>11. ASSUME Crash PROVE TypeOK'
  <2> DEFINE there == {i \in Id : disk[i] # None}
  <2>1. account' \in [Id -> Object]
    BY <1>11, <1>t DEF Crash, TypeOK
  <2>2. byToken' \in [Secret -> Id \cup {None}]
    <3> DEFINE Has(t, i) == t \in ToSet(disk[i].tokens)
    <3>1. byToken' = [t \in Secret |-> IF \E i \in there : Has(t, i)
                                       THEN CHOOSE i \in there : Has(t, i) ELSE None]
      BY <1>11 DEF Crash
    <3>2. there \subseteq Id
      OBVIOUS
    <3> HIDE DEF there, Has
    <3>3. ASSUME NEW t \in Secret, \E i \in there : Has(t, i)
          PROVE  (CHOOSE i \in there : Has(t, i)) \in Id
      BY <3>2, <3>3
    <3> QED BY <3>1, <3>3
  <2>3. byEmail' \in [Email -> Id \cup {None}]
    BY <1>11 DEF Crash
  <2>4. handler' \in [Handler -> Goroutine] /\ faults' \in 0..MaxFaults
    BY <1>11, <1>t, FaultCounts DEF Crash, Idle, Goroutine
  <2> QED BY <1>11, <1>t, <2>1, <2>2, <2>3, <2>4 DEF Crash, TypeOK
<1>12. CASE UNCHANGED vars
  BY <1>12, <1>t DEF vars, store, index, TypeOK
<1> QED BY <1>1, <1>2, <1>3, <1>4, <1>5, <1>6, <1>7, <1>8, <1>9, <1>10, <1>11, <1>12
        DEF Next

-----------------------------------------------------------------------------
LEMMA InitIInv == Init => IInv
<1> SUFFICES ASSUME Init PROVE IInv
  OBVIOUS
<1>1. TypeOK
  BY AccountsAssumption DEF Init, TypeOK, Idle, Goroutine
<1>2. SessionsOwned /\ DiskEmails /\ SameEmail /\ TwiceMade /\ AccountsMade
  BY DEF Init, SessionsOwned, DiskEmails, SameEmail, TwiceMade, Told, AccountsMade
<1>3. GoroutinesServe
  BY DEF Init, Idle, GoroutinesServe, Deleting
<1>4. IndexesAgree
  BY AccountsAssumption DEF Init, IndexesAgree
<1> QED BY <1>1, <1>2, <1>3, <1>4 DEF IInv

LEMMA EmailKept ==
    ASSUME TypeOK,
           \/ account' = account
           \/ \E i, tokens : /\ account' = [account EXCEPT ![i].tokens = tokens]
                             /\ tokens \in Seq(Secret) /\ Len(tokens) <= maxTokens
           \/ \E i : \E code \in Secret \cup {None} :
                 account' = [account EXCEPT ![i].verify = code]
    PROVE  \A j \in Id : account[j] # None =>
              account'[j] # None /\ account'[j].email = account[j].email
<1> SUFFICES ASSUME NEW j \in Id, account[j] # None
             PROVE  account'[j] # None /\ account'[j].email = account[j].email
  OBVIOUS
<1>1. account[j] \in Account
  BY DEF TypeOK
<1>2. CASE account' = account
  BY <1>2
<1>3. ASSUME NEW i, NEW x, account' = [account EXCEPT ![i].tokens = x],
             x \in Seq(Secret), Len(x) <= maxTokens
      PROVE  account'[j] # None /\ account'[j].email = account[j].email
  <2>1. account'[j] = account[j] \/ account'[j] = [account[j] EXCEPT !.tokens = x]
    BY <1>3 DEF TypeOK
  <2>2. [account[j] EXCEPT !.tokens = x].email = account[j].email
    BY <1>1 DEF Account
  <2>3. [account[j] EXCEPT !.tokens = x] \in Account
    BY <1>1, <1>3 DEF Account
  <2> QED BY <2>1, <2>2, <2>3, AccountsAssumption
<1>4. ASSUME NEW i, NEW x \in Secret \cup {None}, account' = [account EXCEPT ![i].verify = x]
      PROVE  account'[j] # None /\ account'[j].email = account[j].email
  <2>1. account'[j] = account[j] \/ account'[j] = [account[j] EXCEPT !.verify = x]
    BY <1>4 DEF TypeOK
  <2>2. [account[j] EXCEPT !.verify = x].email = account[j].email
    BY <1>1 DEF Account
  <2>3. [account[j] EXCEPT !.verify = x] \in Account
    BY <1>1, <1>4 DEF Account
  <2> QED BY <2>1, <2>2, <2>3, AccountsAssumption
<1> QED BY <1>2, <1>3, <1>4

LEMMA OnwardTells ==
    ASSUME IInv, Onward
    PROVE  /\ Told("twice") \subseteq Told("twice")'
           /\ Torn \subseteq Torn'
<1>1. Told("twice") \subseteq Told("twice")'
  BY DEF Onward, Told
<1>2. ASSUME NEW e \in Torn PROVE e \in Torn'
  <2>1. PICK i \in Told("twice") : account[i].email = e
    BY <1>2 DEF Torn
  <2>2. account'[i].email = e
    BY <2>1 DEF IInv, TwiceMade, Onward
  <2> QED BY <1>1, <2>1, <2>2 DEF Torn
<1> QED BY <1>1, <1>2

\* A step that leaves the accounts their emails.
LEMMA EmailsStay ==
    ASSUME IInv, TypeOK', told \subseteq told',
           \A i \in Told("twice")' : i \in Told("twice") \/ i \in accounts,
           \A i \in Id : account[i] # None =>
              account'[i] # None /\ account'[i].email = account[i].email,
           UNCHANGED disk \/ \E keys : Save(keys, account')
    PROVE  Onward
<1>t. TypeOK /\ SameEmail /\ TwiceMade /\ AccountsMade
  BY DEF IInv
<1>1. TwiceMade'
  <2>1. \A i \in Told("twice")' : i \in Id /\ account[i] # None
    BY <1>t DEF TwiceMade, AccountsMade, TypeOK
  <2> QED BY <2>1 DEF TwiceMade
<1>2. SameEmail'
  <2>1. CASE UNCHANGED disk
    BY <2>1, <1>t DEF SameEmail
  <2>2. CASE \E keys : Save(keys, account')
    BY <2>2 DEF SameEmail, Save
  <2> QED BY <2>1, <2>2
<1> QED BY <1>1, <1>2 DEF Onward

LEMMA OnwardStep == IInv /\ [Next]_vars => Onward
<1> SUFFICES ASSUME IInv, [Next]_vars PROVE Onward
  OBVIOUS
<1>t. TypeOK /\ TypeOK' /\ AccountsMade /\ IndexesAgree
  BY TypeStep DEF IInv
<1>1. ASSUME NEW h \in Handler, NEW e \in Email, NEW i \in Id, SignUp(h, e, i) PROVE Onward
  <2>1. told' = told \/ Tell("account", i)
    BY <1>1 DEF SignUp
  <2>2. told \subseteq told' /\ Told("twice")' = Told("twice")
    BY <2>1 DEF Tell, Told
  <2>3. \A j \in Id : account[j] # None => account'[j] = account[j]
    BY <1>1, <1>t DEF SignUp, TypeOK
  <2>4. UNCHANGED disk \/ Save(accounts \cup {i}, account')
    BY <1>1 DEF SignUp, SaveFails
  <2> QED BY <1>t, <2>2, <2>3, <2>4, EmailsStay
<1>2. ASSUME NEW h \in Handler, SignIn(h) PROVE Onward
  <2>1. told' = told \/ Tell("session", drawn + 1)
    BY <1>2 DEF SignIn
  <2>2. told \subseteq told' /\ Told("twice")' = Told("twice")
    BY <2>1 DEF Tell, Told
  <2>3. \/ account' = account
        \/ \E i, tokens : /\ account' = [account EXCEPT ![i].tokens = tokens]
                          /\ tokens \in Seq(Secret) /\ Len(tokens) <= maxTokens
    <3> DEFINE j == handler[h].id
               a == Append(account[j].tokens, drawn + 1)
    <3>1. j \in accounts => account[j].tokens \in Seq(Secret) /\ j \in Id
      BY <1>t DEF AccountsMade, TypeOK, Account
    <3>2. j \in accounts => drawn + 1 \in Secret
      BY <1>2, <1>t, <3>1, DrawTyped DEF SignIn
    <3>3. j \in accounts => a \in Seq(Secret)
      BY <3>1, <3>2
    <3> HIDE DEF a
    <3>4. j \in accounts => Kept(a) \in Seq(Secret) /\ Len(Kept(a)) <= maxTokens
      BY <3>3, KeptTokens
    <3>5. \/ j \notin accounts /\ account' = account
          \/ j \in accounts /\ account' = [account EXCEPT ![j].tokens = Kept(a)]
      BY <1>2 DEF SignIn, store, a
    <3> QED BY <3>4, <3>5
  <2>4. \A j \in Id : account[j] # None =>
           account'[j] # None /\ account'[j].email = account[j].email
    BY <2>3, <1>t, EmailKept
  <2>5. UNCHANGED disk \/ Save(accounts, account')
    BY <1>2 DEF SignIn, SaveFails, store
  <2> QED BY <1>t, <2>2, <2>4, <2>5, EmailsStay
<1>3. ASSUME NEW t \in Secret, SignOut(t) PROVE Onward
  <2>1. \E fact \in {"out", "unsaved"} : told' = told \cup {<<"left", t>>, <<fact, t>>}
    BY <1>3 DEF SignOut
  <2>2. told \subseteq told' /\ Told("twice")' = Told("twice")
    BY <2>1 DEF Told
  <2>3. \/ account' = account
        \/ \E i, tokens : /\ account' = [account EXCEPT ![i].tokens = tokens]
                          /\ tokens \in Seq(Secret) /\ Len(tokens) <= maxTokens
    <3> DEFINE j == byToken[t]
               kept == Keep(account[j].tokens, Secret \ {t})
    <3>1. j # None => account[j] \in Account
      BY <1>t DEF IndexesAgree, AccountsMade, TypeOK
    <3>2. j # None => kept \in Seq(Secret) /\ Len(kept) <= maxTokens
      BY <3>1, WithoutToken
    <3>3. j # None => account' = [account EXCEPT ![j].tokens = Keep(@, Secret \ {t})]
      BY <1>3 DEF SignOut
    <3>4. j = None => account' = account
      BY <1>3 DEF SignOut, store
    <3> QED BY <3>2, <3>3, <3>4
  <2>4. \A j \in Id : account[j] # None =>
           account'[j] # None /\ account'[j].email = account[j].email
    BY <2>3, <1>t, EmailKept
  <2>5. UNCHANGED disk \/ Save(accounts, account')
    BY <1>3 DEF SignOut, SaveFails, store
  <2> QED BY <1>t, <2>2, <2>4, <2>5, EmailsStay
<1>4. ASSUME \/ \E h \in Handler : NewCode(h)
             \/ \E c \in Secret : Confirm(c)
      PROVE  Onward
  <2>1. told' = told
    BY <1>4 DEF NewCode, Confirm
  <2>2. told \subseteq told' /\ Told("twice")' = Told("twice")
    BY <2>1 DEF Told
  <2>3. \/ account' = account
        \/ \E i : \E code \in Secret \cup {None} : account' = [account EXCEPT ![i].verify = code]
    <3>1. ASSUME NEW h \in Handler, NewCode(h)
          PROVE  \/ account' = account
                 \/ \E i : \E code \in Secret \cup {None} : account' = [account EXCEPT ![i].verify = code]
      <4>1. CASE handler[h].id \in accounts
        <5>1. Draw("code", handler[h].id) /\ handler[h].id \in Id
          BY <3>1, <4>1, <1>t DEF NewCode, TypeOK
        <5>2. drawn + 1 \in Secret
          BY <5>1, <1>t, DrawTyped
        <5> QED BY <3>1, <4>1, <5>2 DEF NewCode
      <4>2. CASE handler[h].id \notin accounts
        BY <3>1, <4>2 DEF NewCode
      <4> QED BY <4>1, <4>2
    <3> QED BY <1>4, <3>1 DEF Confirm
  <2>4. \A j \in Id : account[j] # None =>
           account'[j] # None /\ account'[j].email = account[j].email
    BY <2>3, <1>t, EmailKept
  <2>5. UNCHANGED disk \/ Save(accounts, account')
    BY <1>4 DEF NewCode, Confirm, SaveFails
  <2> QED BY <1>t, <2>2, <2>4, <2>5, EmailsStay
<1>5. ASSUME NEW h \in Handler, RemoveAccount(h) PROVE Onward
  <2>1. told' = told \/ Tell("deleted", handler[h].id)
    BY <1>5 DEF RemoveAccount
  <2>2. told \subseteq told' /\ Told("twice")' = Told("twice")
    BY <2>1 DEF Tell, Told
  <2>3. account' = account /\ (UNCHANGED disk \/ Save(accounts \ {handler[h].id}, account'))
    BY <1>5 DEF RemoveAccount, SaveFails
  <2> QED BY <1>t, <2>2, <2>3, EmailsStay
<1>6. ASSUME NEW h \in Handler, NEW i \in accounts, AskRemove(h, i) PROVE Onward
  <2>1. told' = told \cup {<<"leaving", i>>} \cup {<<"twice", i>> : g \in Removing(i)}
    BY <1>6 DEF AskRemove
  <2>2. told \subseteq told' /\ \A j \in Told("twice")' : j \in Told("twice") \/ j = i
    BY <2>1 DEF Told
  <2>3. account' = account /\ UNCHANGED disk
    BY <1>6 DEF AskRemove, store
  <2> QED BY <1>t, <2>2, <2>3, EmailsStay
<1>7. CASE \/ \E h \in Handler : \/ Mail(h) \/ CheckRemove(h)
                                 \/ \E e \in Email : Check(h, e)
                                 \/ \E i \in accounts : AskLink(h, i)
           \/ UNCHANGED vars
  <2>1. UNCHANGED <<account, disk, told>>
    BY <1>7 DEF Mail, CheckRemove, Check, AskLink, vars, store
  <2>2. told \subseteq told' /\ Told("twice")' = Told("twice")
    BY <2>1 DEF Told
  <2> QED BY <1>t, <2>1, <2>2, EmailsStay
<1>8. CASE Crash
  <2>1. /\ UNCHANGED <<disk, told>>
        /\ \A i \in Id : account'[i] = IF disk[i] # None THEN disk[i] ELSE account[i]
    BY <1>8 DEF Crash
  <2>2. told \subseteq told' /\ Told("twice")' = Told("twice")
    BY <2>1 DEF Told
  <2>3. \A i \in Id : account[i] # None =>
           account'[i] # None /\ account'[i].email = account[i].email
    BY <2>1 DEF IInv, SameEmail
  <2> QED BY <1>t, <2>1, <2>2, <2>3, EmailsStay
<1> QED BY <1>1, <1>2, <1>3, <1>4, <1>5, <1>6, <1>7, <1>8 DEF Next

-----------------------------------------------------------------------------
\* What a step has to show of the memory it leaves, for the disk to be in order.
LEMMA DiskFollowsMemory ==
    ASSUME IInv, TypeOK', Onward, AccountsMade', IndexesAgree',
           Save(accounts', account') \/ UNCHANGED disk,
           drawn <= drawn',
           \A s \in Secret : s <= drawn => owner'[s] = owner[s],
           \A i \in Id : account'[i] # None =>
              \A t \in ToSet(account'[i].tokens) : t <= drawn' /\ owner'[t] = <<"token", i>>
    PROVE  SessionsOwned' /\ DiskEmails'
<1>t. TypeOK /\ SessionsOwned /\ DiskEmails
  BY DEF IInv
<1>o. /\ \A i \in Id : account[i] # None => account'[i] # None
      /\ Torn \subseteq Torn'
  BY OnwardTells DEF Onward
<1>1. CASE Save(accounts', account')
  <2>1. \A i \in Id : disk'[i] # None => i \in accounts' /\ disk'[i] = account'[i]
    BY <1>1 DEF Save
  <2>2. SessionsOwned'
    BY <2>1 DEF SessionsOwned, Owns
  <2>3. DiskEmails'
    <3> SUFFICES ASSUME NEW i \in Id, NEW j \in Id, disk'[i] # None, disk'[j] # None,
                        disk'[i].email = disk'[j].email, disk'[i].email \notin Torn'
                 PROVE  i = j
      BY DEF DiskEmails
    <3>1. account'[i].email \notin Torn' /\ account'[j].email \notin Torn'
      BY <2>1
    <3>2. byEmail'[account'[i].email] = i /\ byEmail'[account'[j].email] = j
      BY <2>1, <3>1 DEF IndexesAgree
    <3> QED BY <2>1, <3>2
  <2> QED BY <2>2, <2>3
<1>2. CASE UNCHANGED disk
  <2>1. \A i \in Id : disk[i] # None =>
          \A t \in ToSet(disk[i].tokens) : t <= drawn' /\ owner'[t] = <<"token", i>>
    <3> SUFFICES ASSUME NEW i \in Id, disk[i] # None, NEW t \in ToSet(disk[i].tokens)
                 PROVE  t <= drawn' /\ owner'[t] = <<"token", i>>
      OBVIOUS
    <3>1. disk[i] \in Account /\ disk[i].tokens \in Seq(Secret)
      BY <1>t DEF TypeOK, Account
    <3>2. t \in Secret /\ t <= drawn /\ owner[t] = <<"token", i>>
      BY <1>t, <3>1 DEF SessionsOwned, Owns, ToSet
    <3> QED BY <3>2, <1>t DEF TypeOK, Secret
  <2>2. SessionsOwned'
    BY <1>2, <2>1, <1>t, <1>o DEF SessionsOwned, Owns
  <2>3. DiskEmails'
    BY <1>2, <1>t, <1>o DEF DiskEmails
  <2> QED BY <2>2, <2>3
<1> QED BY <1>1, <1>2

\* A step that takes no account away and asks for no deletion leaves the
\* goroutines in order.
LEMMA OthersServe ==
    ASSUME IInv, TypeOK', Onward, NEW h \in Handler,
           NEW step \in {"mail", "signin", "newcode", "mailagain"},
           NEW i \in Id, NEW code \in Secret \cup {None},
           step \in {"mail", "mailagain"} => code \in Secret,
           \/ GoTo(h, step, i, code) /\ account'[i] # None
           \/ Done(h)
           \/ UNCHANGED handler,
           accounts \subseteq accounts'
    PROVE  GoroutinesServe'
<1>t. TypeOK /\ GoroutinesServe /\ Told("twice") \subseteq Told("twice")'
  BY OnwardTells DEF IInv
<1>1. CASE GoTo(h, step, i, code) /\ account'[i] # None
  <2>1. \A g \in Handler : handler'[g] = IF g = h THEN [at |-> step, id |-> i, code |-> code]
                                                   ELSE handler[g]
    BY <1>1, <1>t DEF GoTo, TypeOK
  <2>2. step \notin {"check", "remove", "idle"}
    OBVIOUS
  <2> QED BY <1>1, <1>t, <2>1, <2>2 DEF GoroutinesServe, Deleting, Onward
<1>2. CASE Done(h)
  <2>1. \A g \in Handler : handler'[g] = IF g = h THEN Idle ELSE handler[g]
    BY <1>2, <1>t DEF Done, TypeOK
  <2>2. Idle.at = "idle"
    BY DEF Idle
  <2> QED BY <1>t, <2>1, <2>2 DEF GoroutinesServe, Deleting, Onward
<1>3. CASE UNCHANGED handler
  BY <1>3, <1>t DEF GoroutinesServe, Deleting, Onward
<1> QED BY <1>1, <1>2, <1>3

\* What the steps that do not touch the Store have to show.
LEMMA QuietStep ==
    ASSUME IInv, TypeOK', Onward, UNCHANGED <<store, drawn, owner>>, GoroutinesServe'
    PROVE  IInv'
<1>t. /\ TypeOK /\ SessionsOwned /\ DiskEmails /\ AccountsMade /\ IndexesAgree
      /\ UNCHANGED <<account, accounts, byEmail, byToken, disk, drawn, owner>>
  BY DEF IInv, store, index
<1>o. Torn \subseteq Torn'
  BY OnwardTells
<1>1. SessionsOwned'
  BY <1>t DEF SessionsOwned, Owns
<1>2. DiskEmails' /\ AccountsMade'
  BY <1>t, <1>o DEF DiskEmails, AccountsMade
<1>3. IndexesAgree'
  BY <1>t, <1>o DEF IndexesAgree
<1> QED BY <1>1, <1>2, <1>3 DEF IInv, Onward

\* A deletion begins: nobody else deletes the account.
LEMMA AskRemoveStep ==
    ASSUME IInv, TypeOK', Onward, NEW h \in Handler, NEW i \in accounts, AskRemove(h, i)
    PROVE  IInv'
<1>t. TypeOK /\ GoroutinesServe /\ AccountsMade /\ Told("twice") \subseteq Told("twice")'
  BY OnwardTells DEF IInv
<1>1. i \in Id /\ account[i] # None
  BY <1>t DEF AccountsMade, TypeOK
<1>2. \A g \in Handler : Deleting(g) /\ handler[g].id = i => i \in Told("twice")'
  <2>1. told' = told \cup {<<"leaving", i>>} \cup {<<"twice", i>> : g \in Removing(i)}
    BY DEF AskRemove
  <2>2. \A g \in Handler : Deleting(g) /\ handler[g].id = i => g \in Removing(i)
    BY DEF Deleting, Removing
  <2> QED BY <1>1, <2>1, <2>2 DEF Told
<1>3. \A g \in Handler : handler'[g] = IF g = h THEN [at |-> "check", id |-> i, code |-> None]
                                                ELSE handler[g]
  BY <1>t DEF AskRemove, GoTo, TypeOK
<1>4. handler[h].at = "idle" /\ UNCHANGED <<account, accounts>>
  BY DEF AskRemove, At, store, index
<1>5. GoroutinesServe'
  BY <1>t, <1>1, <1>2, <1>3, <1>4 DEF GoroutinesServe, Deleting
<1> QED BY <1>5, QuietStep DEF AskRemove

LEMMA CheckRemoveStep ==
    ASSUME IInv, TypeOK', Onward, NEW h \in Handler, CheckRemove(h)
    PROVE  IInv'
<1>t. TypeOK /\ GoroutinesServe /\ Told("twice") \subseteq Told("twice")'
  BY OnwardTells DEF IInv
<1>1. PICK next \in {[at |-> "remove", id |-> handler[h].id, code |-> None], Idle} :
         \A g \in Handler : handler'[g] = IF g = h THEN next ELSE handler[g]
  BY <1>t DEF CheckRemove, GoTo, Done, TypeOK
<1>2. UNCHANGED <<account, accounts>> /\ handler[h].at = "check"
  BY DEF CheckRemove, At, store, index
<1>3. next.at \in {"remove", "idle"} /\ (next.at = "remove" => next.id = handler[h].id)
  BY DEF Idle
<1>4. GoroutinesServe'
  BY <1>t, <1>1, <1>2, <1>3 DEF GoroutinesServe, Deleting
<1> QED BY <1>4, QuietStep DEF CheckRemove

LEMMA QuietSteps ==
    ASSUME IInv, TypeOK', Onward, NEW h \in Handler,
           \/ Mail(h)
           \/ \E e \in Email : Check(h, e)
           \/ \E i \in accounts : AskLink(h, i)
    PROVE  IInv'
<1>t. TypeOK /\ GoroutinesServe /\ AccountsMade
  BY DEF IInv
<1>1. UNCHANGED <<store, drawn, owner>> /\ UNCHANGED <<account, accounts>>
  BY DEF Mail, Check, AskLink, store, index
<1>2. CASE Mail(h)
  <2>1. handler[h].id \in Id /\ account[handler[h].id] # None
    BY <1>2, <1>t DEF Mail, At, GoroutinesServe
  <2>2. GoTo(h, "signin", handler[h].id, None) \/ Done(h)
    BY <1>2 DEF Mail
  <2>3. GoroutinesServe'
    BY <2>1, <2>2, <1>1, OthersServe
  <2> QED BY <2>3, <1>1, QuietStep
<1>3. CASE \E e \in Email : Check(h, e)
  <2>1. PICK e \in Email : byEmail[e] # None /\ GoTo(h, "signin", byEmail[e], None)
    BY <1>3 DEF Check
  <2>2. byEmail[e] \in accounts /\ byEmail[e] \in Id /\ account[byEmail[e]] # None
    BY <2>1, <1>t DEF IInv, IndexesAgree, AccountsMade, TypeOK
  <2>3. GoroutinesServe'
    BY <2>1, <2>2, <1>1, OthersServe
  <2> QED BY <2>3, <1>1, QuietStep
<1>4. CASE \E i \in accounts : AskLink(h, i)
  <2>1. PICK i \in accounts : GoTo(h, "newcode", i, None)
    BY <1>4 DEF AskLink
  <2>2. i \in Id /\ account[i] # None
    BY <1>t DEF AccountsMade, TypeOK
  <2>3. GoroutinesServe'
    BY <2>1, <2>2, <1>1, OthersServe
  <2> QED BY <2>3, <1>1, QuietStep
<1> QED BY <1>2, <1>3, <1>4

-----------------------------------------------------------------------------
LEMMA SignUpStep ==
    ASSUME IInv, TypeOK', Onward, NEW h \in Handler, NEW e \in Email, NEW i \in Id, SignUp(h, e, i)
    PROVE  IInv'
<1> DEFINE new == [email |-> e, tokens |-> << >>, verify |-> drawn + 1]
<1>t. TypeOK /\ SessionsOwned /\ DiskEmails /\ AccountsMade /\ IndexesAgree
  BY DEF IInv
<1>1. /\ drawn + 1 \in Secret /\ drawn' = drawn + 1
      /\ \A s \in Secret : s <= drawn => owner'[s] = owner[s]
  BY <1>t, DrawTyped DEF SignUp
<1>2. byEmail[e] = None /\ account[i] = None /\ i \notin accounts
  BY <1>t DEF SignUp, AccountsMade
<1>3. new.email = e /\ new.tokens = << >> /\ new \in Account
  BY <1>1, AccountsAssumption DEF Account
<1> HIDE DEF new
<1>4. new # None
  BY <1>3, AccountsAssumption
<1>5. \A j \in Id : account'[j] = IF j = i THEN new ELSE account[j]
  BY <1>t DEF SignUp, TypeOK, new
<1>6. \A j \in Id : account[j] # None => account'[j] # None
  BY <1>5, <1>4
<1>7. /\ byToken' = byToken
      /\ \/ accounts' = accounts \cup {i} /\ byEmail' = [byEmail EXCEPT ![e] = i]
         \/ accounts' = accounts /\ byEmail' = byEmail
  BY DEF SignUp
<1>8. AccountsMade'
  BY <1>t, <1>5, <1>7, <1>4 DEF AccountsMade, TypeOK
<1>9. ToSet(new.tokens) = {}
  BY <1>3 DEF ToSet
<1>10. IndexesAgree'
  <2>1. ASSUME NEW j \in accounts', account'[j].email \notin Torn'
        PROVE  byEmail'[account'[j].email] = j
    <3>1. CASE j = i
      BY <3>1, <1>t, <1>2, <1>3, <1>5, <1>7 DEF TypeOK
    <3>2. CASE j # i
      <4>1. j \in accounts /\ j \in Id /\ account'[j] = account[j]
        BY <3>2, <1>5, <1>7, <1>t DEF TypeOK
      <4>t. account[j].email \notin Torn
        BY <2>1, <4>1, OnwardTells
      <4>2. byEmail[account[j].email] = j /\ account[j].email \in Email
        BY <4>1, <4>t, <1>t DEF IndexesAgree, AccountsMade, TypeOK, Account
      <4>3. account[j].email # e
        BY <4>1, <4>2, <1>2, AccountsAssumption
      <4> QED BY <4>1, <4>2, <4>3, <1>7, <1>t DEF TypeOK
    <3> QED BY <3>1, <3>2
  <2>2. \A f \in Email : byEmail'[f] # None =>
           byEmail'[f] \in accounts' /\ account'[byEmail'[f]].email = f
    BY <1>t, <1>2, <1>3, <1>5, <1>7 DEF IndexesAgree, TypeOK
  <2>3. \A t \in Secret, j \in Id :
           byToken'[t] = j <=> j \in accounts' /\ t \in ToSet(account'[j].tokens)
    BY <1>t, <1>2, <1>5, <1>7, <1>9 DEF IndexesAgree
  <2> QED BY <2>1, <2>2, <2>3 DEF IndexesAgree
<1>11. \A j \in Id : account'[j] # None =>
          \A t \in ToSet(account'[j].tokens) : t <= drawn' /\ owner'[t] = <<"token", j>>
  <2> SUFFICES ASSUME NEW j \in Id, account'[j] # None, NEW t \in ToSet(account'[j].tokens)
               PROVE  t <= drawn' /\ owner'[t] = <<"token", j>>
    OBVIOUS
  <2>1. j # i /\ account'[j] = account[j]
    BY <1>5, <1>9
  <2>2. account[j] \in Account
    BY <2>1, <1>t DEF TypeOK
  <2>3. t \in Secret
    BY <2>1, <2>2 DEF Account, ToSet
  <2>4. t <= drawn /\ owner[t] = <<"token", j>>
    BY <2>1, <1>t DEF SessionsOwned, Owns
  <2> QED BY <2>3, <2>4, <1>1, <1>t DEF TypeOK, Secret
<1>12. Save(accounts', account') \/ UNCHANGED disk
  BY DEF SignUp, SaveFails
<1>13. SessionsOwned' /\ DiskEmails'
  BY <1>1, <1>8, <1>10, <1>11, <1>12, <1>t, DiskFollowsMemory DEF TypeOK
<1>14. GoroutinesServe'
  <2>1. accounts \subseteq accounts' /\ account'[i] # None
    BY <1>4, <1>5, <1>7
  <2>2. GoTo(h, "mail", i, drawn + 1) \/ UNCHANGED handler
    BY DEF SignUp
  <2> QED BY <1>1, <2>1, <2>2, OthersServe
<1> QED BY <1>8, <1>10, <1>13, <1>14 DEF IInv, Onward

\* A step that changes neither who is in the maps nor an email: it may draw a
\* secret, and give accounts other sessions that are theirs.
LEMMA ObjectStep ==
    ASSUME IInv, TypeOK', Onward, UNCHANGED <<accounts, byEmail>>,
           NEW i \in accounts, NEW new \in Account,
           new.email = account[i].email,
           account' = [account EXCEPT ![i] = new],
           \A t \in Secret, j \in Id :
              byToken'[t] = j <=> j \in accounts /\ t \in ToSet(account'[j].tokens),
           drawn <= drawn',
           \A s \in Secret : s <= drawn => owner'[s] = owner[s],
           \A t \in ToSet(new.tokens) : t <= drawn' /\ owner'[t] = <<"token", i>>,
           Save(accounts, account') \/ SaveFails,
           GoroutinesServe'
    PROVE  IInv'
<1>t. TypeOK /\ SessionsOwned /\ AccountsMade /\ IndexesAgree /\ i \in Id
  BY DEF IInv, TypeOK
<1>1. \A j \in Id : account'[j] = IF j = i THEN new ELSE account[j]
  BY <1>t DEF TypeOK
<1>2. new # None /\ account[i] # None
  BY <1>t, AccountsAssumption DEF AccountsMade
<1>3. AccountsMade'
  BY <1>1, <1>2, <1>t DEF AccountsMade, TypeOK
<1>4. IndexesAgree'
  <2>1. \A j \in accounts : account'[j].email = account[j].email
    BY <1>1, <1>t DEF TypeOK
  <2>2. \A j \in accounts' : byEmail'[account'[j].email] = j \/ account'[j].email \in Torn'
    BY <2>1, <1>t, OnwardTells DEF IndexesAgree
  <2>3. \A e \in Email : byEmail'[e] # None =>
           byEmail'[e] \in accounts' /\ account'[byEmail'[e]].email = e
    BY <2>1, <1>t DEF IndexesAgree
  <2> QED BY <2>2, <2>3 DEF IndexesAgree
<1>5. \A j \in Id : account'[j] # None =>
          \A t \in ToSet(account'[j].tokens) : t <= drawn' /\ owner'[t] = <<"token", j>>
  <2> SUFFICES ASSUME NEW j \in Id, account'[j] # None, NEW t \in ToSet(account'[j].tokens)
               PROVE  t <= drawn' /\ owner'[t] = <<"token", j>>
    OBVIOUS
  <2>1. CASE j = i
    BY <2>1, <1>1
  <2>2. CASE j # i
    <3>1. account'[j] = account[j] /\ account[j] \in Account
      BY <2>2, <1>1, <1>t DEF TypeOK
    <3>2. t \in Secret
      BY <3>1 DEF Account, ToSet
    <3>3. t <= drawn /\ owner[t] = <<"token", j>>
      BY <3>1, <1>t DEF SessionsOwned, Owns
    <3> QED BY <3>2, <3>3, <1>t DEF TypeOK, Secret
  <2> QED BY <2>1, <2>2
<1>6. Save(accounts', account') \/ UNCHANGED disk
  BY DEF SaveFails
<1>7. SessionsOwned' /\ DiskEmails'
  BY <1>3, <1>4, <1>5, <1>6, DiskFollowsMemory
<1> QED BY <1>3, <1>4, <1>7 DEF IInv, Onward

\* Sessions of different accounts differ, and the next secret is nobody's.
LEMMA TokensApart ==
    ASSUME IInv, NEW i \in Id, account[i] # None, NEW t \in ToSet(account[i].tokens)
    PROVE  /\ t \in Secret /\ t <= drawn /\ t # drawn + 1
           /\ \A j \in Id : j # i /\ account[j] # None => t \notin ToSet(account[j].tokens)
<1>t. TypeOK /\ SessionsOwned
  BY DEF IInv
<1>1. t \in Secret
  BY <1>t DEF TypeOK, Account, ToSet
<1>2. t <= drawn /\ owner[t] = <<"token", i>>
  BY <1>t DEF SessionsOwned, Owns
<1>3. t # drawn + 1
  BY <1>1, <1>2, <1>t DEF TypeOK, Secret
<1>4. \A j \in Id : account[j] # None /\ t \in ToSet(account[j].tokens) => j = i
  BY <1>2, <1>t DEF SessionsOwned, Owns
<1> QED BY <1>1, <1>2, <1>3, <1>4

LEMMA SignInStep ==
    ASSUME IInv, TypeOK', Onward, NEW h \in Handler, SignIn(h)
    PROVE  IInv'
<1> DEFINE i == handler[h].id
           old == account[i].tokens
           tokens == Kept(Append(old, drawn + 1))
<1>t. TypeOK /\ SessionsOwned /\ AccountsMade /\ IndexesAgree /\ GoroutinesServe
  BY DEF IInv
<1>0. i \in Id /\ Done(h)
  BY <1>t DEF SignIn, At, GoroutinesServe
<1>1. CASE i \notin accounts
  <2>1. UNCHANGED <<store, drawn, owner>> /\ UNCHANGED <<account, accounts>>
    BY <1>1 DEF SignIn, store, index
  <2>2. GoroutinesServe'
    BY <1>0, <2>1, OthersServe
  <2> QED BY <2>1, <2>2, QuietStep
<1>2. CASE i \in accounts
  <2>1. /\ Draw("token", i)
        /\ account' = [account EXCEPT ![i].tokens = tokens]
        /\ byToken' = [s \in Secret |->
              IF s \in ToSet(tokens) THEN i
              ELSE IF s \in ToSet(old) THEN None
              ELSE byToken[s]]
        /\ Save(accounts, account') \/ SaveFails
        /\ UNCHANGED <<accounts, byEmail>>
    BY <1>2 DEF SignIn
  <2>2. /\ drawn + 1 \in Secret /\ drawn' = drawn + 1
        /\ owner'[drawn + 1] = <<"token", i>>
        /\ \A s \in Secret : s <= drawn => owner'[s] = owner[s]
    BY <1>0, <2>1, <1>t, DrawTyped
  <2>3. account[i] \in Account /\ account[i] # None /\ old \in Seq(Secret)
    BY <1>2, <1>t DEF AccountsMade, TypeOK, Account
  <2>4. Append(old, drawn + 1) \in Seq(Secret)
    BY <2>2, <2>3
  <2>5. /\ tokens \in Seq(Secret) /\ Len(tokens) <= maxTokens
        /\ ToSet(tokens) \subseteq ToSet(Append(old, drawn + 1))
    BY <2>4, KeptTokens
  <2>6. ToSet(Append(old, drawn + 1)) = ToSet(old) \cup {drawn + 1}
    BY <2>2, <2>3, ToSetAppend
  <2> DEFINE new == [email |-> account[i].email, tokens |-> tokens, verify |-> account[i].verify]
  <2> HIDE DEF tokens, old
  <2>7. new \in Account /\ account' = [account EXCEPT ![i] = new]
    <3>1. new \in Account
      BY <2>3, <2>5 DEF Account
    <3>2. [account[i] EXCEPT !.tokens = tokens] = new
      BY <2>3 DEF Account
    <3>3. account' = [account EXCEPT ![i] = [account[i] EXCEPT !.tokens = tokens]]
      BY <2>1
    <3> QED BY <3>1, <3>2, <3>3
  <2>8. new.email = account[i].email /\ new.tokens = tokens
    OBVIOUS
  <2> HIDE DEF new
  <2>9. \A t \in ToSet(tokens) : t \in ToSet(old) \/ t = drawn + 1
    BY <2>5, <2>6
  <2>10. \A t \in ToSet(old) : /\ t \in Secret /\ t <= drawn
                               /\ \A j \in Id : j # i /\ account[j] # None =>
                                     t \notin ToSet(account[j].tokens)
    BY <1>0, <2>3, TokensApart DEF old
  <2>11. \A t \in ToSet(tokens) : t <= drawn' /\ owner'[t] = <<"token", i>>
    BY <2>2, <2>3, <2>9, <2>10, <1>0, <1>t DEF SessionsOwned, Owns, old, TypeOK, Secret
  <2>12. \A j \in Id : account'[j] = IF j = i THEN new ELSE account[j]
    BY <2>7, <1>t DEF TypeOK
  <2>13. \A j \in accounts : j \in Id /\ account[j] # None /\ drawn + 1 \notin ToSet(account[j].tokens)
    <3> SUFFICES ASSUME NEW j \in accounts
                 PROVE  j \in Id /\ account[j] # None /\ drawn + 1 \notin ToSet(account[j].tokens)
      OBVIOUS
    <3>1. j \in Id /\ account[j] # None
      BY <1>t DEF TypeOK, AccountsMade
    <3> QED BY <3>1, TokensApart
  <2>14. ASSUME NEW t \in Secret, NEW j \in Id
         PROVE  byToken'[t] = j <=> j \in accounts /\ t \in ToSet(account'[j].tokens)
    <3>1. byToken'[t] = IF t \in ToSet(tokens) THEN i
                        ELSE IF t \in ToSet(old) THEN None ELSE byToken[t]
      BY <2>1 DEF old
    <3>2. byToken[t] = j <=> j \in accounts /\ t \in ToSet(account[j].tokens)
      BY <1>t DEF IndexesAgree
    <3>3. CASE j = i
      BY <3>1, <3>2, <3>3, <2>12, <2>8, <1>2, AccountsAssumption DEF old
    <3>4. CASE j # i
      <4>1. account'[j] = account[j] /\ j # None
        BY <3>4, <2>12, AccountsAssumption
      <4>2. CASE t \in ToSet(tokens) \/ t \in ToSet(old)
        BY <4>1, <4>2, <3>1, <3>4, <2>9, <2>10, <2>13
      <4>3. CASE t \notin ToSet(tokens) /\ t \notin ToSet(old)
        BY <4>1, <4>3, <3>1, <3>2
      <4> QED BY <4>2, <4>3
    <3> QED BY <3>3, <3>4
  <2>15. GoroutinesServe'
    BY <1>0, <2>1, OthersServe
  <2>16. drawn <= drawn'
    BY <2>2, <1>t DEF TypeOK
  <2> QED BY <1>2, <2>1, <2>2, <2>7, <2>8, <2>11, <2>14, <2>15, <2>16, ObjectStep
<1> QED BY <1>1, <1>2

LEMMA SignOutStep ==
    ASSUME IInv, TypeOK', Onward, NEW t \in Secret, SignOut(t)
    PROVE  IInv'
<1> DEFINE i == byToken[t]
           tokens == Keep(account[i].tokens, Secret \ {t})
           new == [email |-> account[i].email, tokens |-> tokens, verify |-> account[i].verify]
<1>t. TypeOK /\ SessionsOwned /\ AccountsMade /\ IndexesAgree /\ GoroutinesServe
  BY DEF IInv
<1>0. UNCHANGED <<handler, drawn, owner>>
  BY DEF SignOut
<1>1. CASE i = None
  <2>1. UNCHANGED <<store, drawn, owner>> /\ UNCHANGED <<account, accounts>>
    BY <1>1 DEF SignOut, store, index
  <2>2. GoroutinesServe'
    BY <1>0, <2>1, <1>t, OnwardTells DEF GoroutinesServe, Deleting
  <2> QED BY <2>1, <2>2, QuietStep
<1>2. CASE i # None
  <2>1. /\ byToken' = [byToken EXCEPT ![t] = None]
        /\ account' = [account EXCEPT ![i].tokens = Keep(@, Secret \ {t})]
        /\ Save(accounts, account') \/ SaveFails
        /\ UNCHANGED <<accounts, byEmail>>
    BY <1>2 DEF SignOut
  <2>2. i \in accounts /\ i \in Id
    BY <1>2, <1>t DEF IndexesAgree, TypeOK
  <2>3. account[i] \in Account /\ account[i] # None /\ t \in ToSet(account[i].tokens)
    BY <2>2, <1>t DEF AccountsMade, TypeOK, IndexesAgree
  <2>4. /\ tokens \in Seq(Secret) /\ Len(tokens) <= maxTokens
        /\ ToSet(tokens) = ToSet(account[i].tokens) \ {t}
    BY <2>3, WithoutToken
  <2>5. account' = [account EXCEPT ![i] = [account[i] EXCEPT !.tokens = tokens]]
    BY <2>1
  <2> HIDE DEF tokens
  <2>6. new \in Account
    BY <2>3, <2>4 DEF Account
  <2>7. [account[i] EXCEPT !.tokens = tokens] = new
    BY <2>3 DEF Account
  <2>8. account' = [account EXCEPT ![i] = new]
    BY <2>5, <2>7
  <2>9. new.email = account[i].email /\ new.tokens = tokens
    OBVIOUS
  <2> HIDE DEF new
  <2>10. \A j \in Id : account'[j] = IF j = i THEN new ELSE account[j]
    BY <2>8, <1>t DEF TypeOK
  <2>11. ASSUME NEW s \in Secret, NEW j \in Id
         PROVE  byToken'[s] = j <=> j \in accounts /\ s \in ToSet(account'[j].tokens)
    <3>1. byToken'[s] = IF s = t THEN None ELSE byToken[s]
      BY <2>1, <1>t DEF TypeOK
    <3>2. byToken[s] = j <=> j \in accounts /\ s \in ToSet(account[j].tokens)
      BY <1>t DEF IndexesAgree
    <3>3. j # None
      BY AccountsAssumption
    <3>4. CASE j = i
      BY <3>1, <3>2, <3>3, <3>4, <2>10, <2>9, <2>4
    <3>5. CASE j # i
      BY <3>1, <3>2, <3>3, <3>5, <2>10
    <3> QED BY <3>4, <3>5
  <2>12. \A s \in ToSet(new.tokens) : s <= drawn' /\ owner'[s] = <<"token", i>>
    BY <1>0, <2>9, <2>4, <2>2, <2>3, <1>t DEF SessionsOwned, Owns
  <2>13. drawn <= drawn' /\ \A s \in Secret : s <= drawn => owner'[s] = owner[s]
    BY <1>0, <1>t DEF TypeOK
  <2>14. GoroutinesServe'
    BY <1>0, <2>1, <1>t, OnwardTells DEF GoroutinesServe, Deleting, Onward
  <2> HIDE DEF i
  <2> QED BY <2>1, <2>2, <2>6, <2>8, <2>9, <2>11, <2>12, <2>13, <2>14, ObjectStep
<1> QED BY <1>1, <1>2

\* A step that changes only the code of an account, and may draw it.
LEMMA CodeStep ==
    ASSUME IInv, TypeOK', Onward, NEW i \in accounts, NEW code \in Secret \cup {None},
           account' = [account EXCEPT ![i].verify = code],
           UNCHANGED index, Save(accounts, account') \/ SaveFails,
           drawn <= drawn',
           \A s \in Secret : s <= drawn => owner'[s] = owner[s],
           \/ UNCHANGED handler
           \/ \E h \in Handler : Done(h)
           \/ code \in Secret /\ \E h \in Handler : GoTo(h, "mailagain", i, code)
    PROVE  IInv'
<1> DEFINE new == [email |-> account[i].email, tokens |-> account[i].tokens, verify |-> code]
<1>t. /\ TypeOK /\ SessionsOwned /\ AccountsMade /\ IndexesAgree /\ GoroutinesServe
      /\ UNCHANGED <<accounts, byEmail, byToken>>
  BY DEF IInv, index
<1>1. i \in Id /\ account[i] \in Account /\ account[i] # None
  BY <1>t DEF TypeOK, AccountsMade
<1>2. new \in Account
  BY <1>1 DEF Account
<1>3. [account[i] EXCEPT !.verify = code] = new
  BY <1>1 DEF Account
<1>4. account' = [account EXCEPT ![i] = new]
  BY <1>3
<1>5. new.email = account[i].email /\ new.tokens = account[i].tokens
  OBVIOUS
<1> HIDE DEF new
<1>6. \A j \in Id : account'[j] = IF j = i THEN new ELSE account[j]
  BY <1>4, <1>t DEF TypeOK
<1>7. \A s \in Secret, j \in Id :
         byToken'[s] = j <=> j \in accounts /\ s \in ToSet(account'[j].tokens)
  BY <1>5, <1>6, <1>t DEF IndexesAgree
<1>8. \A s \in ToSet(new.tokens) : s <= drawn' /\ owner'[s] = <<"token", i>>
  <2> SUFFICES ASSUME NEW s \in ToSet(new.tokens)
               PROVE  s <= drawn' /\ owner'[s] = <<"token", i>>
    OBVIOUS
  <2>1. s \in Secret /\ s <= drawn
    BY <1>1, <1>5, TokensApart
  <2>2. owner[s] = <<"token", i>>
    BY <1>1, <1>5, <1>t DEF SessionsOwned, Owns
  <2> QED BY <2>1, <2>2, <1>t DEF TypeOK, Secret
<1>9. account'[i] # None
  BY <1>1 DEF Onward
<1>10. GoroutinesServe'
  <2>1. CASE UNCHANGED handler
    BY <2>1, <1>t, OnwardTells DEF GoroutinesServe, Deleting, Onward
  <2>2. CASE \E h \in Handler : Done(h)
    <3>1. PICK h \in Handler : Done(h)
      BY <2>2
    <3> QED BY <3>1, <1>1, <1>9, <1>t, OthersServe
  <2>3. CASE code \in Secret /\ \E h \in Handler : GoTo(h, "mailagain", i, code)
    <3>1. PICK h \in Handler : GoTo(h, "mailagain", i, code)
      BY <2>3
    <3> QED BY <3>1, <2>3, <1>1, <1>9, <1>t, OthersServe
  <2> QED BY <2>1, <2>2, <2>3
<1> QED BY <1>t, <1>2, <1>4, <1>5, <1>7, <1>8, <1>10, ObjectStep

LEMMA NewCodeStep ==
    ASSUME IInv, TypeOK', Onward, NEW h \in Handler, NewCode(h)
    PROVE  IInv'
<1> DEFINE i == handler[h].id
<1>t. TypeOK /\ GoroutinesServe
  BY DEF IInv
<1>0. i \in Id
  BY <1>t DEF NewCode, At, GoroutinesServe
<1>1. CASE i \notin accounts
  <2>1. UNCHANGED <<store, drawn, owner>> /\ UNCHANGED <<account, accounts>> /\ Done(h)
    BY <1>1 DEF NewCode, store, index
  <2>2. GoroutinesServe'
    BY <1>0, <2>1, OthersServe
  <2> QED BY <2>1, <2>2, QuietStep
<1>2. CASE i \in accounts
  <2>1. /\ Draw("code", i)
        /\ account' = [account EXCEPT ![i].verify = drawn + 1]
        /\ GoTo(h, "mailagain", i, drawn + 1) \/ Done(h)
        /\ Save(accounts, account') \/ SaveFails
        /\ UNCHANGED index
    BY <1>2 DEF NewCode
  <2>2. /\ drawn + 1 \in Secret /\ drawn' = drawn + 1
        /\ \A s \in Secret : s <= drawn => owner'[s] = owner[s]
    BY <1>0, <2>1, <1>t, DrawTyped
  <2>3. drawn <= drawn'
    BY <2>2, <1>t DEF TypeOK
  <2> HIDE DEF i
  <2> QED BY <1>2, <2>1, <2>2, <2>3, CodeStep
<1> QED BY <1>1, <1>2

LEMMA ConfirmStep ==
    ASSUME IInv, TypeOK', Onward, NEW c \in Secret, Confirm(c)
    PROVE  IInv'
<1>1. PICK i \in accounts :
         /\ account' = [account EXCEPT ![i].verify = None]
         /\ Save(accounts, account') \/ SaveFails
  BY DEF Confirm
<1>2. UNCHANGED <<index, handler, drawn, owner>>
  BY DEF Confirm
<1>3. drawn <= drawn' /\ \A s \in Secret : s <= drawn => owner'[s] = owner[s]
  BY <1>2 DEF IInv, TypeOK
<1> QED BY <1>1, <1>2, <1>3, CodeStep

LEMMA RemoveAccountStep ==
    ASSUME IInv, TypeOK', Onward, NEW h \in Handler, RemoveAccount(h)
    PROVE  IInv'
<1> DEFINE i == handler[h].id
           a == account[i]
<1>t. TypeOK /\ SessionsOwned /\ AccountsMade /\ IndexesAgree /\ GoroutinesServe
  BY DEF IInv
<1>1. /\ accounts' = accounts \ {i}
      /\ byEmail' = [byEmail EXCEPT ![a.email] = None]
      /\ byToken' = [t \in Secret |-> IF t \in ToSet(a.tokens) THEN None ELSE byToken[t]]
      /\ Save(accounts \ {i}, account) \/ SaveFails
      /\ UNCHANGED <<account, drawn, owner>>
      /\ Done(h) /\ handler[h].at = "remove"
  BY DEF RemoveAccount, At
<1>2. /\ Deleting(h) /\ i \in Id /\ account[i] # None
      /\ i \in accounts \/ i \in Told("twice")
  BY <1>1, <1>t DEF Deleting, GoroutinesServe, TypeOK
<1>3. a \in Account /\ (byEmail[a.email] = i \/ a.email \in Torn)
  BY <1>2, <1>t DEF TypeOK, IndexesAgree, Torn
<1>4. \A e \in Email : byEmail'[e] = IF e = a.email THEN None ELSE byEmail[e]
  BY <1>1, <1>t DEF TypeOK
<1>5. AccountsMade'
  BY <1>1, <1>t DEF AccountsMade
<1> HIDE DEF i, a
<1>6. IndexesAgree'
  <2>1. ASSUME NEW j \in accounts', account'[j].email \notin Torn'
        PROVE  byEmail'[account'[j].email] = j
    <3>1. j \in accounts /\ j # i /\ account'[j] = account[j] /\ account[j] \in Account
      BY <1>1, <1>t DEF TypeOK, AccountsMade
    <3>2. account[j].email \notin Torn
      BY <2>1, <3>1, OnwardTells
    <3>3. byEmail[account[j].email] = j /\ account[j].email \in Email
      BY <3>1, <3>2, <1>t DEF IndexesAgree, Account
    <3> QED BY <3>1, <3>2, <3>3, <1>3, <1>4
  <2>2. ASSUME NEW e \in Email, byEmail'[e] # None
        PROVE  byEmail'[e] \in accounts' /\ account'[byEmail'[e]].email = e
    <3>1. e # a.email /\ byEmail'[e] = byEmail[e]
      BY <1>4, <2>2
    <3>2. byEmail[e] \in accounts /\ account[byEmail[e]].email = e
      BY <3>1, <2>2, <1>t DEF IndexesAgree
    <3>3. byEmail[e] # i
      BY <3>1, <3>2 DEF a
    <3> QED BY <3>1, <3>2, <3>3, <1>1
  <2>3. ASSUME NEW t \in Secret, NEW j \in Id
        PROVE  byToken'[t] = j <=> j \in accounts' /\ t \in ToSet(account'[j].tokens)
    <3>1. byToken'[t] = IF t \in ToSet(a.tokens) THEN None ELSE byToken[t]
      BY <1>1
    <3>2. byToken[t] = j <=> j \in accounts /\ t \in ToSet(account[j].tokens)
      BY <1>t DEF IndexesAgree
    <3>3. j # i /\ j \in accounts /\ t \in ToSet(account[j].tokens) => t \notin ToSet(a.tokens)
      BY <1>2, <1>t, TokensApart DEF AccountsMade, a
    <3>4. CASE j = i
      BY <3>1, <3>2, <3>4, <1>1, AccountsAssumption DEF a
    <3>5. CASE j # i
      BY <3>1, <3>2, <3>3, <3>5, <1>1, AccountsAssumption
    <3> QED BY <3>4, <3>5
  <2> QED BY <2>1, <2>2, <2>3 DEF IndexesAgree
<1>7. \A j \in Id : account'[j] # None =>
          \A t \in ToSet(account'[j].tokens) : t <= drawn' /\ owner'[t] = <<"token", j>>
  BY <1>1, <1>t DEF SessionsOwned, Owns
<1>8. SessionsOwned' /\ DiskEmails'
  <2>1. drawn <= drawn' /\ \A s \in Secret : s <= drawn => owner'[s] = owner[s]
    BY <1>1, <1>t DEF TypeOK
  <2>2. Save(accounts', account') \/ UNCHANGED disk
    BY <1>1 DEF SaveFails
  <2> QED BY <1>5, <1>6, <1>7, <2>1, <2>2, DiskFollowsMemory
<1>9. GoroutinesServe'
  <2>1. \A g \in Handler : handler'[g] = IF g = h THEN Idle ELSE handler[g]
    BY <1>1, <1>t DEF Done, TypeOK
  <2>2. Idle.at = "idle"
    BY DEF Idle
  <2>3. \A g \in Handler : g # h /\ Deleting(g) /\ handler[g].id = i => i \in Told("twice")
    BY <1>2, <1>t DEF GoroutinesServe, i
  <2>4. Told("twice") \subseteq Told("twice")'
    BY OnwardTells
  <2> QED BY <2>1, <2>2, <2>3, <2>4, <1>1, <1>t DEF GoroutinesServe, Deleting
<1> QED BY <1>5, <1>6, <1>8, <1>9 DEF IInv, Onward

LEMMA CrashStep == ASSUME IInv, TypeOK', Onward, Crash PROVE IInv'
<1> DEFINE there == {i \in Id : disk[i] # None}
           Has(t, i) == t \in ToSet(disk[i].tokens)
<1>t. TypeOK /\ SessionsOwned /\ DiskEmails /\ AccountsMade /\ IndexesAgree /\ GoroutinesServe
  BY DEF IInv
<1>1. /\ accounts' = there
      /\ account' = [i \in Id |-> IF i \in there THEN disk[i] ELSE account[i]]
      /\ handler' = [h \in Handler |-> Idle]
      /\ UNCHANGED <<disk, drawn, owner>>
  BY DEF Crash
<1>2. \A i \in Id : account'[i] = IF i \in there THEN disk[i] ELSE account[i]
  BY <1>1
<1>3. byToken' = [t \in Secret |-> IF \E i \in there : Has(t, i)
                                   THEN CHOOSE i \in there : Has(t, i) ELSE None]
  BY DEF Crash
<1>4. \A e \in Email : IF {i \in there : disk[i].email = e} = {} THEN byEmail'[e] = None
                       ELSE byEmail'[e] \in {i \in there : disk[i].email = e}
  BY DEF Crash
<1>5. \A i \in there : i \in Id /\ disk[i] # None /\ disk[i] \in Account
  BY <1>t DEF TypeOK
<1>6. \A i \in Id : i \in there <=> disk[i] # None
  OBVIOUS
<1> HIDE DEF there
<1>7. SessionsOwned'
  BY <1>1, <1>2, <1>5, <1>6, <1>t DEF SessionsOwned, Owns
<1>o. Torn \subseteq Torn'
  BY OnwardTells
<1>8. DiskEmails' /\ AccountsMade'
  BY <1>1, <1>2, <1>5, <1>o, <1>t DEF DiskEmails, AccountsMade
<1>9. GoroutinesServe'
  BY <1>1 DEF GoroutinesServe, Deleting, Idle
<1>10. IndexesAgree'
  <2>1. \A i \in accounts' : byEmail'[account'[i].email] = i \/ account'[i].email \in Torn'
    <3> SUFFICES ASSUME NEW i \in there, disk[i].email \notin Torn
                 PROVE  byEmail'[disk[i].email] = i
      BY <1>1, <1>2, <1>5, <1>o
    <3>1. disk[i].email \in Email
      BY <1>5 DEF Account
    <3>2. byEmail'[disk[i].email] \in {j \in there : disk[j].email = disk[i].email}
      BY <3>1, <1>4
    <3> QED BY <3>2, <1>5, <1>t DEF DiskEmails
  <2>2. \A e \in Email : byEmail'[e] # None =>
           byEmail'[e] \in accounts' /\ account'[byEmail'[e]].email = e
    BY <1>1, <1>2, <1>4, <1>5
  <2>3. ASSUME NEW t \in Secret, NEW i \in Id
        PROVE  byToken'[t] = i <=> i \in accounts' /\ t \in ToSet(account'[i].tokens)
    <3>1. i \in accounts' /\ t \in ToSet(account'[i].tokens) <=> i \in there /\ Has(t, i)
      BY <1>1, <1>2, <1>5
    <3>2. \A j, k \in there : Has(t, j) /\ Has(t, k) => j = k
      BY <1>5, <1>t DEF SessionsOwned, Owns
    <3> HIDE DEF Has
    <3>3. byToken'[t] = IF \E j \in there : Has(t, j)
                        THEN CHOOSE j \in there : Has(t, j) ELSE None
      BY <1>3
    <3>4. i # None
      BY AccountsAssumption
    <3>5. CASE \E j \in there : Has(t, j)
      <4>1. byToken'[t] \in there /\ Has(t, byToken'[t])
        BY <3>3, <3>5
      <4> QED BY <4>1, <3>1, <3>2
    <3>6. CASE ~ \E j \in there : Has(t, j)
      BY <3>1, <3>3, <3>4, <3>6
    <3> QED BY <3>5, <3>6
  <2> QED BY <2>1, <2>2, <2>3 DEF IndexesAgree
<1> QED BY <1>7, <1>8, <1>9, <1>10 DEF IInv, Onward

LEMMA NextKeepsIInv == IInv /\ [Next]_vars => IInv'
<1> SUFFICES ASSUME IInv, [Next]_vars PROVE IInv'
  OBVIOUS
<1>t. TypeOK' /\ Onward
  BY TypeStep, OnwardStep
<1>1. CASE \E h \in Handler : Mail(h) \/ (\E e \in Email : Check(h, e))
                                \/ (\E i \in accounts : AskLink(h, i))
  BY <1>1, <1>t, QuietSteps
<1>2. CASE \E h \in Handler, e \in Email, i \in Id : SignUp(h, e, i)
  BY <1>2, <1>t, SignUpStep
<1>3. CASE \E h \in Handler : SignIn(h)
  BY <1>3, <1>t, SignInStep
<1>4. CASE \E t \in Secret : SignOut(t)
  BY <1>4, <1>t, SignOutStep
<1>5. CASE \E h \in Handler : NewCode(h)
  BY <1>5, <1>t, NewCodeStep
<1>6. CASE \E c \in Secret : Confirm(c)
  BY <1>6, <1>t, ConfirmStep
<1>7. CASE \E h \in Handler : \E i \in accounts : AskRemove(h, i)
  BY <1>7, <1>t, AskRemoveStep
<1>8. CASE \E h \in Handler : CheckRemove(h)
  BY <1>8, <1>t, CheckRemoveStep
<1>9. CASE \E h \in Handler : RemoveAccount(h)
  BY <1>9, <1>t, RemoveAccountStep
<1>10. CASE Crash
  BY <1>10, <1>t, CrashStep
<1>11. CASE UNCHANGED vars
  <2>1. UNCHANGED <<store, drawn, owner>> /\ UNCHANGED <<handler, account, accounts>>
    BY <1>11 DEF vars, store, index
  <2>2. GoroutinesServe'
    BY <1>t, <2>1, OnwardTells DEF IInv, GoroutinesServe, Deleting
  <2> QED BY <1>t, <2>1, <2>2, QuietStep
<1> QED BY <1>1, <1>2, <1>3, <1>4, <1>5, <1>6, <1>7, <1>8, <1>9, <1>10, <1>11 DEF Next

-----------------------------------------------------------------------------
LEMMA Invariance == Spec => []IInv
BY InitIInv, NextKeepsIInv, PTL DEF Spec

\* The types, and the bound on the sessions of an account (store.go:23).
THEOREM AccountsTyped == Spec => []TypeOK
<1>1. IInv => TypeOK
  BY DEF IInv
<1> QED BY <1>1, Invariance, PTL

\* The maps by email, by token and by ID tell the same after every step, with
\* any failures and crashes (store.go:94-100, 161-245, 345-360).
THEOREM MapsAgree == Spec => []IndexesAgree
<1>1. IInv => IndexesAgree
  BY DEF IInv
<1> QED BY <1>1, Invariance, PTL

\* An email has one account (store.go:28, 180-182), unless an account that had it was
\* deleted by two requests at once.
THEOREM EmailsDiffer ==
    Spec => [](\A i, j \in accounts :
                  account[i].email = account[j].email => i = j \/ account[i].email \in Torn)
<1>1. IInv => \A i, j \in accounts :
                 account[i].email = account[j].email => i = j \/ account[i].email \in Torn
  BY DEF IInv, IndexesAgree
<1> QED BY <1>1, Invariance, PTL

-----------------------------------------------------------------------------
(***************************************************************************)
(* The end of an account is final.  An ID is used once, so a deleted       *)
(* account comes back by no sign-up; and what memory lacks, the disk lacks *)
(* after every write.                                                      *)
(***************************************************************************)
DInv == DeletedMade /\ DeletedForGood

LEMMA DeletedStep ==
    ASSUME DInv, Save(accounts', account') \/ UNCHANGED disk,
           \A i \in Told("deleted")' : /\ i \in Id /\ account'[i] # None /\ i \notin accounts'
                                       /\ i \in Told("deleted") \/ Save(accounts', account')
    PROVE  DInv'
<1>1. DeletedMade'
  BY DEF DeletedMade
<1>2. \A i \in Told("deleted")' : disk'[i] = None
  BY DEF DInv, DeletedForGood, Save
<1> QED BY <1>1, <1>2 DEF DInv, DeletedForGood

\* A step that brings no account into the maps, and only changes accounts that are
\* there.
LEMMA KeepsDeleted ==
    ASSUME IInv, IInv', DInv, Told("deleted")' = Told("deleted"),
           UNCHANGED accounts,
           \A i \in Id : account'[i] = account[i] \/ i \in accounts,
           Save(accounts, account') \/ UNCHANGED disk
    PROVE  DInv'
<1>1. \A i \in Told("deleted") : i \in Id /\ account[i] # None /\ i \notin accounts
  BY DEF DInv, DeletedMade, DeletedForGood
<1>2. \A i \in Told("deleted") : account'[i] # None
  BY <1>1
<1> QED BY <1>1, <1>2, DeletedStep

LEMMA NextKeepsDeleted == IInv /\ IInv' /\ DInv /\ [Next]_vars => DInv'
<1> SUFFICES ASSUME IInv, IInv', DInv, [Next]_vars PROVE DInv'
  OBVIOUS
<1>t. TypeOK /\ AccountsMade /\ GoroutinesServe /\ IndexesAgree
  BY DEF IInv
<1>d. \A i \in Told("deleted") : i \in Id /\ account[i] # None /\ i \notin accounts
  BY DEF DInv, DeletedMade, DeletedForGood
<1>1. ASSUME NEW h \in Handler,
             \/ Mail(h) \/ CheckRemove(h)
             \/ \E e \in Email : Check(h, e)
             \/ \E i \in accounts : AskLink(h, i) \/ AskRemove(h, i)
      PROVE  DInv'
  <2>1. UNCHANGED <<account, accounts, disk>>
    BY <1>1 DEF Mail, CheckRemove, Check, AskLink, AskRemove, store, index
  <2>2. \/ UNCHANGED told
        \/ \E i \in accounts : RemovalAsked(i)
    BY <1>1 DEF Mail, CheckRemove, Check, AskLink, AskRemove, RemovalAsked
  <2>3. Told("deleted")' = Told("deleted")
    BY <2>2 DEF Told, RemovalAsked
  <2> QED BY <2>1, <2>3, KeepsDeleted
<1>2. ASSUME NEW h \in Handler, NEW e \in Email, NEW i \in Id, SignUp(h, e, i) PROVE DInv'
  <2>1. Told("deleted")' = Told("deleted")
    BY <1>2 DEF SignUp, Tell, Told
  <2>2. account[i] = None /\ (accounts' = accounts \cup {i} \/ accounts' = accounts)
    BY <1>2 DEF SignUp
  <2>3. \A j \in Id : j # i => account'[j] = account[j]
    BY <1>2, <1>t DEF SignUp, TypeOK
  <2>4. Save(accounts', account') \/ UNCHANGED disk
    BY <1>2 DEF SignUp, SaveFails
  <2>5. \A j \in Told("deleted")' : j \in Id /\ account'[j] # None /\ j \notin accounts'
    BY <1>d, <2>1, <2>2, <2>3
  <2> QED BY <2>1, <2>4, <2>5, DeletedStep
<1>3. ASSUME NEW h \in Handler, SignIn(h) PROVE DInv'
  <2>1. UNCHANGED accounts /\ (Save(accounts, account') \/ UNCHANGED disk)
    BY <1>3 DEF SignIn, SaveFails, store, index
  <2>2. UNCHANGED told \/ Tell("session", drawn + 1)
    BY <1>3 DEF SignIn
  <2>3. Told("deleted")' = Told("deleted")
    BY <2>2 DEF Tell, Told
  <2>4. \A j \in Id : account'[j] = account[j] \/ j \in accounts
    BY <1>3, <1>t DEF SignIn, store, index, TypeOK
  <2> QED BY <2>1, <2>3, <2>4, KeepsDeleted
<1>4. ASSUME NEW t \in Secret, SignOut(t) PROVE DInv'
  <2>1. UNCHANGED accounts /\ (Save(accounts, account') \/ UNCHANGED disk)
    BY <1>4 DEF SignOut, SaveFails, store, index
  <2>2. \E fact \in {"out", "unsaved"} : told' = told \cup {<<"left", t>>, <<fact, t>>}
    BY <1>4 DEF SignOut
  <2>3. Told("deleted")' = Told("deleted")
    BY <2>2 DEF Tell, Told
  <2>4. \A j \in Id : account'[j] = account[j] \/ j \in accounts
    BY <1>4, <1>t DEF SignOut, store, index, TypeOK, IndexesAgree
  <2> QED BY <2>1, <2>3, <2>4, KeepsDeleted
<1>5. ASSUME NEW h \in Handler, NewCode(h) PROVE DInv'
  <2>1. UNCHANGED <<accounts, told>> /\ (Save(accounts, account') \/ UNCHANGED disk)
    BY <1>5 DEF NewCode, SaveFails, index
  <2>2. Told("deleted")' = Told("deleted")
    BY <2>1 DEF Told
  <2>3. \A j \in Id : account'[j] = account[j] \/ j \in accounts
    BY <1>5, <1>t DEF NewCode, TypeOK
  <2> QED BY <2>1, <2>2, <2>3, KeepsDeleted
<1>6. ASSUME NEW c \in Secret, Confirm(c) PROVE DInv'
  <2>1. UNCHANGED <<accounts, told>> /\ (Save(accounts, account') \/ UNCHANGED disk)
    BY <1>6 DEF Confirm, SaveFails, index
  <2>2. Told("deleted")' = Told("deleted")
    BY <2>1 DEF Told
  <2>3. \A j \in Id : account'[j] = account[j] \/ j \in accounts
    BY <1>6, <1>t DEF Confirm, TypeOK
  <2> QED BY <2>1, <2>2, <2>3, KeepsDeleted
<1>7. ASSUME NEW h \in Handler, RemoveAccount(h) PROVE DInv'
  <2> DEFINE i == handler[h].id
  <2>1. /\ accounts' = accounts \ {i} /\ UNCHANGED account
        /\ \/ Save(accounts \ {i}, account) /\ Tell("deleted", i)
           \/ UNCHANGED disk /\ UNCHANGED told
    BY <1>7 DEF RemoveAccount, SaveFails
  <2>2. i \in Id /\ account[i] # None
    BY <1>7, <1>t DEF RemoveAccount, At, GoroutinesServe
  <2>3. \A j \in Told("deleted")' :
           \/ j \in Told("deleted")
           \/ j = i /\ Save(accounts', account')
    BY <2>1 DEF Tell, Told
  <2>4. \A j \in Told("deleted")' : j \in Id /\ account'[j] # None /\ j \notin accounts'
    BY <1>d, <2>1, <2>2, <2>3
  <2> QED BY <2>1, <2>3, <2>4, DeletedStep
<1>8. ASSUME Crash PROVE DInv'
  <2>1. /\ accounts' = {i \in Id : disk[i] # None}
        /\ \A j \in Id : account'[j] = IF disk[j] # None THEN disk[j] ELSE account[j]
        /\ UNCHANGED <<disk, told>>
    BY <1>8 DEF Crash
  <2>2. Told("deleted")' = Told("deleted")
    BY <2>1 DEF Told
  <2>3. \A j \in Told("deleted") : disk[j] = None
    BY DEF DInv, DeletedForGood
  <2> QED BY <1>d, <2>1, <2>2, <2>3, DeletedStep
<1>9. CASE UNCHANGED vars
  <2>1. UNCHANGED <<account, accounts, disk, told>>
    BY <1>9 DEF vars, store, index
  <2>2. Told("deleted")' = Told("deleted")
    BY <2>1 DEF Told
  <2> QED BY <2>1, <2>2, KeepsDeleted
<1> QED BY <1>1, <1>2, <1>3, <1>4, <1>5, <1>6, <1>7, <1>8, <1>9 DEF Next

\* An account whose user was told that it is deleted never comes back, by no request
\* that was under way, no sign-up and no restart (store.go:345-360, 217, 291).
THEOREM DeletionIsFinal == Spec => []DeletedForGood
<1>1. Init => DInv
  BY DEF Init, DInv, DeletedMade, DeletedForGood, Told
<1>2. DInv => DeletedForGood
  BY DEF DInv
<1> QED BY <1>1, <1>2, Invariance, NextKeepsDeleted, PTL DEF Spec

-----------------------------------------------------------------------------
(***************************************************************************)
(* Only the newest link counts.  The codes that arrived or are about to be *)
(* mailed are of links that were saved, so the code that an account has,   *)
(* in memory or on disk, is none older: a code that could not be saved     *)
(* stays in memory, is newer, and goes with a crash.                       *)
(***************************************************************************)
Sent == mailed \cup {handler[h].code : h \in {g \in Handler : handler[g].at \in {"mail", "mailagain"}}}

NoneNewer(i, a) ==
    a # None /\ a.verify # None => \A c \in Sent : owner[c] = <<"code", i>> => c <= a.verify

LinkInv == /\ \A c \in Sent : c \in Secret /\ c <= drawn
           /\ \A i \in Id : NoneNewer(i, account[i]) /\ NoneNewer(i, disk[i])

\* The code of a is none, or the one just drawn, or one that account i had.
CodeOf(a, i) ==
    \/ a = None
    \/ a.verify \in {None, drawn + 1}
    \/ account[i] # None /\ a.verify = account[i].verify
    \/ disk[i] # None /\ a.verify = disk[i].verify

\* What is sent anew is the code just drawn, and its account has it on disk too.
LEMMA LinkStep ==
    ASSUME TypeOK, LinkInv, drawn' \in Nat, drawn <= drawn',
           \A s \in Secret : s <= drawn => owner'[s] = owner[s],
           \A c \in Sent' :
              \/ c \in Sent
              \/ /\ c = drawn + 1 /\ c \in Secret /\ c <= drawn'
                 /\ \E i \in Id : /\ owner'[c] = <<"code", i>> /\ account'[i].verify = c
                                  /\ disk'[i] = account'[i],
           \A i \in Id : CodeOf(account'[i], i) /\ CodeOf(disk'[i], i)
    PROVE  LinkInv'
<1>0. drawn \in Nat /\ None \notin Nat
  BY AccountsAssumption DEF TypeOK
<1>1. \A c \in Sent' : c \in Secret /\ c <= drawn'
  BY <1>0, AccountsAssumption DEF LinkInv, Secret
<1>2. ASSUME NEW i \in Id, NEW a, a = account'[i] \/ a = disk'[i],
             a # None, a.verify # None,
             NEW c \in Sent', owner'[c] = <<"code", i>>
      PROVE  c <= a.verify
  <2>1. CASE c \in Sent
    <3>1. c \in Nat /\ c <= drawn /\ owner[c] = <<"code", i>>
      BY <1>2, <2>1 DEF LinkInv, Secret
    <3>2. \/ a.verify = drawn + 1
          \/ account[i] # None /\ a.verify = account[i].verify
          \/ disk[i] # None /\ a.verify = disk[i].verify
      BY <1>2 DEF CodeOf
    <3>3. CASE a.verify = drawn + 1
      BY <1>0, <3>1, <3>3
    <3>4. CASE account[i] # None /\ a.verify = account[i].verify
      BY <1>2, <2>1, <3>1, <3>4 DEF LinkInv, NoneNewer
    <3>5. CASE disk[i] # None /\ a.verify = disk[i].verify
      BY <1>2, <2>1, <3>1, <3>5 DEF LinkInv, NoneNewer
    <3> QED BY <3>2, <3>3, <3>4, <3>5
  <2>2. CASE c \notin Sent
    <3>1. /\ c = drawn + 1
          /\ \E j \in Id : /\ owner'[c] = <<"code", j>> /\ account'[j].verify = c
                           /\ disk'[j] = account'[j]
      BY <1>2, <2>2
    <3>2. a.verify = c
      BY <1>2, <3>1
    <3> QED BY <1>0, <3>1, <3>2
  <2> QED BY <2>1, <2>2
<1>3. \A i \in Id : NoneNewer(i, account[i])' /\ NoneNewer(i, disk[i])'
  BY <1>2 DEF NoneNewer
<1> QED BY <1>1, <1>3 DEF LinkInv

\* A step that draws no code, or one that is not sent.
LEMMA NothingSent ==
    ASSUME TypeOK, TypeOK', LinkInv, Sent' \subseteq Sent,
           \/ UNCHANGED <<drawn, owner>>
           \/ \E kind \in {"token", "code"}, i \in Id : Draw(kind, i),
           \A i \in Id : CodeOf(account'[i], i),
           \/ UNCHANGED disk
           \/ \E keys : Save(keys, account')
    PROVE  LinkInv'
<1>1. drawn \in Nat /\ drawn' \in Nat /\ drawn <= drawn'
  BY AccountsAssumption DEF TypeOK, Draw
<1>2. \A s \in Secret : s <= drawn => owner'[s] = owner[s]
  BY DrawTyped
<1>3. \A i \in Id : CodeOf(disk'[i], i)
  BY DEF CodeOf, Save
<1> QED BY <1>1, <1>2, <1>3, LinkStep

LEMMA NextKeepsLinks == IInv /\ IInv' /\ LinkInv /\ [Next]_vars => LinkInv'
<1> SUFFICES ASSUME IInv, IInv', LinkInv, [Next]_vars PROVE LinkInv'
  OBVIOUS
<1>t. TypeOK /\ TypeOK' /\ AccountsMade /\ GoroutinesServe
  BY DEF IInv
<1>o. \A i \in Id : CodeOf(account[i], i)
  BY DEF CodeOf
<1>1. ASSUME NEW h \in Handler, Mail(h) PROVE LinkInv'
  <2>1. UNCHANGED <<account, disk, drawn, owner>>
    BY <1>1 DEF Mail, store
  <2>2. /\ handler[h].at \in {"mail", "mailagain"} /\ handler'[h].at \notin {"mail", "mailagain"}
        /\ \A g \in Handler : g # h => handler'[g] = handler[g]
        /\ mailed' \subseteq mailed \cup {handler[h].code}
    BY <1>1, <1>t DEF Mail, At, GoTo, Done, Idle, TypeOK
  <2>3. Sent' \subseteq Sent
    BY <2>2 DEF Sent
  <2> QED BY <1>o, <1>t, <2>1, <2>3, NothingSent
<1>2. ASSUME NEW h \in Handler,
             \/ CheckRemove(h) \/ RemoveAccount(h)
             \/ \E e \in Email : Check(h, e)
             \/ \E i \in accounts : AskLink(h, i) \/ AskRemove(h, i)
      PROVE  LinkInv'
  <2>1. UNCHANGED <<account, mailed, drawn, owner>>
    BY <1>2 DEF CheckRemove, RemoveAccount, Check, AskLink, AskRemove, store
  <2>2. UNCHANGED disk \/ \E keys : Save(keys, account')
    BY <1>2, <2>1 DEF CheckRemove, RemoveAccount, Check, AskLink, AskRemove, store, SaveFails
  <2>3. /\ handler'[h].at \notin {"mail", "mailagain"}
        /\ \A g \in Handler : g # h => handler'[g] = handler[g]
    BY <1>2, <1>t DEF CheckRemove, RemoveAccount, Check, AskLink, AskRemove, GoTo, Done, Idle, TypeOK
  <2>4. Sent' \subseteq Sent
    BY <2>1, <2>3 DEF Sent
  <2> QED BY <1>o, <1>t, <2>1, <2>2, <2>4, NothingSent
<1>3. ASSUME NEW h \in Handler, NEW e \in Email, NEW i \in Id, SignUp(h, e, i) PROVE LinkInv'
  <2>1. /\ Draw("code", i) /\ UNCHANGED mailed
        /\ account'[i].verify = drawn + 1
        /\ \A j \in Id : j # i => account'[j] = account[j]
    BY <1>3, <1>t DEF SignUp, TypeOK
  <2>2. \A j \in Id : CodeOf(account'[j], j)
    BY <1>o, <2>1 DEF CodeOf
  <2>3. CASE SaveFails /\ UNCHANGED handler
    <3>1. Sent' \subseteq Sent
      BY <2>1, <2>3 DEF Sent
    <3> QED BY <1>t, <2>1, <2>2, <2>3, <3>1, NothingSent DEF SaveFails
  <2>4. CASE Save(accounts \cup {i}, account') /\ GoTo(h, "mail", i, drawn + 1)
    <3>1. \A g \in Handler : g # h => handler'[g] = handler[g]
      BY <1>t, <2>4 DEF GoTo, TypeOK
    <3>2. handler'[h].code = drawn + 1
      BY <1>t, <2>4 DEF GoTo, TypeOK
    <3>3. \A c \in Sent' : c \in Sent \/ c = drawn + 1
      BY <2>1, <3>1, <3>2 DEF Sent
    <3>4. /\ drawn + 1 \in Secret /\ drawn' = drawn + 1 /\ owner'[drawn + 1] = <<"code", i>>
          /\ \A s \in Secret : s <= drawn => owner'[s] = owner[s]
      BY <1>t, <2>1, DrawTyped
    <3>5. disk'[i] = account'[i] /\ \A j \in Id : CodeOf(disk'[j], j)
      BY <2>2, <2>4 DEF Save, CodeOf
    <3>6. drawn \in Nat
      BY <1>t, AccountsAssumption DEF TypeOK
    <3> QED BY <1>t, <2>1, <2>2, <3>3, <3>4, <3>5, <3>6, LinkStep
  <2> QED BY <1>3, <2>3, <2>4 DEF SignUp
<1>4. ASSUME NEW h \in Handler, SignIn(h) PROVE LinkInv'
  <2> DEFINE i == handler[h].id
  <2>1. /\ UNCHANGED mailed /\ Done(h)
        /\ UNCHANGED disk \/ Save(accounts, account')
        /\ UNCHANGED <<drawn, owner>> \/ Draw("token", i)
    BY <1>4 DEF SignIn, store, index, SaveFails
  <2>2. i \in Id
    BY <1>4, <1>t DEF SignIn, At, GoroutinesServe
  <2>3. ASSUME account' = account PROVE \A j \in Id : CodeOf(account'[j], j)
    BY <1>o, <2>3
  <2>4. ASSUME i \in accounts PROVE \A j \in Id : CodeOf(account'[j], j)
    <3>1. account[i] \in Account /\ \A j \in Id : j # i => account'[j] = account[j]
      BY <1>4, <1>t, <2>2, <2>4 DEF SignIn, store, index, TypeOK, AccountsMade
    <3>2. \E q : account' = [account EXCEPT ![i].tokens = q]
      BY <1>4, <2>4 DEF SignIn
    <3>3. account'[i].verify = account[i].verify
      BY <1>t, <2>2, <3>1, <3>2 DEF TypeOK, Account
    <3>4. \A j \in Id : CodeOf(account'[j], j)
      BY <1>o, <1>t, <2>4, <3>1, <3>3 DEF CodeOf, AccountsMade
    <3> QED BY <3>4
  <2>5. Sent' \subseteq Sent
    BY <1>t, <2>1 DEF Done, Idle, Sent, TypeOK
  <2>6. \A j \in Id : CodeOf(account'[j], j)
    BY <1>4, <2>3, <2>4 DEF SignIn, store
  <2> QED BY <1>t, <2>1, <2>2, <2>5, <2>6, NothingSent
<1>5. ASSUME NEW t \in Secret, SignOut(t) PROVE LinkInv'
  <2>1. UNCHANGED <<handler, mailed, drawn, owner>> /\ (UNCHANGED disk \/ Save(accounts, account'))
    BY <1>5 DEF SignOut, store, index, SaveFails
  <2>2. Sent' \subseteq Sent
    BY <2>1 DEF Sent
  <2> DEFINE i == byToken[t]
  <2>3. ASSUME account' = account PROVE \A j \in Id : CodeOf(account'[j], j)
    BY <1>o, <2>3
  <2>4. ASSUME i # None PROVE \A j \in Id : CodeOf(account'[j], j)
    <3>1. i \in Id /\ i \in accounts /\ account[i] \in Account
      BY <1>t, <2>4 DEF TypeOK, AccountsMade, IInv, IndexesAgree
    <3>2. \E q : account' = [account EXCEPT ![i].tokens = q]
      BY <1>5, <2>4 DEF SignOut
    <3>3. /\ account'[i].verify = account[i].verify
          /\ \A j \in Id : j # i => account'[j] = account[j]
      BY <1>t, <3>1, <3>2 DEF TypeOK, Account
    <3>4. \A j \in Id : CodeOf(account'[j], j)
      BY <1>o, <1>t, <3>1, <3>3 DEF CodeOf, AccountsMade
    <3> QED BY <3>4
  <2>5. \A j \in Id : CodeOf(account'[j], j)
    BY <1>5, <2>3, <2>4 DEF SignOut, store
  <2> QED BY <1>t, <2>1, <2>2, <2>5, NothingSent
<1>6. ASSUME NEW h \in Handler, NewCode(h) PROVE LinkInv'
  <2> DEFINE i == handler[h].id
  <2>1. i \in Id /\ UNCHANGED mailed
    BY <1>6, <1>t DEF NewCode, At, GoroutinesServe
  <2>2. CASE UNCHANGED <<account, disk, drawn, owner>> /\ Done(h)
    <3>1. Sent' \subseteq Sent
      BY <1>t, <2>1, <2>2 DEF Done, Idle, Sent, TypeOK
    <3> QED BY <1>o, <1>t, <2>2, <3>1, NothingSent
  <2>3. CASE /\ i \in accounts /\ Draw("code", i)
             /\ account' = [account EXCEPT ![i].verify = drawn + 1]
             /\ \/ Save(accounts, account') /\ GoTo(h, "mailagain", i, drawn + 1)
                \/ SaveFails /\ Done(h)
    <3>1. /\ account'[i].verify = drawn + 1
          /\ \A j \in Id : j # i => account'[j] = account[j]
      BY <1>t, <2>1, <2>3 DEF TypeOK, AccountsMade, Account
    <3>2. \A j \in Id : CodeOf(account'[j], j)
      BY <1>o, <3>1 DEF CodeOf
    <3>3. CASE SaveFails /\ Done(h)
      <4>1. Sent' \subseteq Sent
        BY <1>t, <2>1, <3>3 DEF Done, Idle, Sent, TypeOK
      <4> QED BY <1>t, <2>1, <2>3, <3>2, <3>3, <4>1, NothingSent DEF SaveFails
    <3>4. CASE Save(accounts, account') /\ GoTo(h, "mailagain", i, drawn + 1)
      <4>1. /\ handler'[h].code = drawn + 1
            /\ \A g \in Handler : g # h => handler'[g] = handler[g]
        BY <1>t, <3>4 DEF GoTo, TypeOK
      <4>2. \A c \in Sent' : c \in Sent \/ c = drawn + 1
        BY <2>1, <4>1 DEF Sent
      <4>3. /\ drawn + 1 \in Secret /\ drawn' = drawn + 1 /\ owner'[drawn + 1] = <<"code", i>>
            /\ \A s \in Secret : s <= drawn => owner'[s] = owner[s]
        BY <1>t, <2>1, <2>3, DrawTyped
      <4>4. disk'[i] = account'[i] /\ \A j \in Id : CodeOf(disk'[j], j)
        BY <2>1, <2>3, <3>2, <3>4 DEF Save, CodeOf
      <4>5. drawn \in Nat
        BY <1>t, AccountsAssumption DEF TypeOK
      <4> QED BY <1>t, <2>1, <3>1, <3>2, <4>2, <4>3, <4>4, <4>5, LinkStep
    <3> QED BY <2>3, <3>3, <3>4
  <2> QED BY <1>6, <2>2, <2>3 DEF NewCode
<1>7. ASSUME NEW c \in Secret, Confirm(c) PROVE LinkInv'
  <2>1. UNCHANGED <<handler, mailed, drawn, owner>> /\ (UNCHANGED disk \/ Save(accounts, account'))
    BY <1>7 DEF Confirm, SaveFails
  <2>2. Sent' \subseteq Sent
    BY <2>1 DEF Sent
  <2>3. \A j \in Id : account'[j] = account[j] \/ account'[j].verify = None
    BY <1>7, <1>t DEF Confirm, TypeOK, AccountsMade, Account
  <2>4. \A j \in Id : CodeOf(account'[j], j)
    BY <1>o, <2>3 DEF CodeOf
  <2> QED BY <1>t, <2>1, <2>2, <2>4, NothingSent
<1>8. ASSUME Crash PROVE LinkInv'
  <2>1. /\ \A j \in Id : account'[j] = disk[j] \/ account'[j] = account[j]
        /\ UNCHANGED <<disk, drawn, owner, mailed>>
        /\ handler' = [h \in Handler |-> Idle]
    BY <1>8 DEF Crash
  <2>2. Sent' \subseteq Sent
    BY <2>1 DEF Sent, Idle
  <2>3. \A j \in Id : CodeOf(account'[j], j)
    BY <2>1 DEF CodeOf
  <2> QED BY <1>t, <2>1, <2>2, <2>3, NothingSent
<1>9. CASE UNCHANGED vars
  <2>1. UNCHANGED <<account, disk, drawn, owner, handler, mailed>>
    BY <1>9 DEF vars, store
  <2>2. Sent' \subseteq Sent
    BY <2>1 DEF Sent
  <2> QED BY <1>o, <1>t, <2>1, <2>2, NothingSent
<1> QED BY <1>1, <1>2, <1>3, <1>4, <1>5, <1>6, <1>7, <1>8, <1>9 DEF Next

\* A link that a newer one replaced does not confirm the address, whatever writes failed,
\* and after any restart (main.go:379, store.go:285-313).
THEOREM OnlyTheNewestConfirms == Spec => []NewestLinkCounts
<1>1. Init => LinkInv
  BY DEF Init, LinkInv, NoneNewer, Sent, Idle
<1>2. IInv /\ LinkInv => NewestLinkCounts
  <2> SUFFICES ASSUME IInv, LinkInv, NEW i \in accounts, account[i].verify \in mailed,
                      NEW c \in mailed, owner[c] = <<"code", i>>
               PROVE  c <= account[i].verify
    BY DEF NewestLinkCounts
  <2>1. i \in Id /\ account[i] # None /\ mailed \subseteq Secret
    BY DEF IInv, TypeOK, AccountsMade
  <2>2. account[i].verify # None
    <3>1. account[i].verify \in Secret
      BY <2>1
    <3>2. None \notin Nat
      BY AccountsAssumption
    <3>3. \A s \in Secret : s \in Nat
      BY DEF Secret
    <3> QED BY <3>1, <3>2, <3>3
  <2> QED BY <2>1, <2>2 DEF LinkInv, NoneNewer, Sent
<1> QED BY <1>1, <1>2, Invariance, NextKeepsLinks, PTL DEF Spec

-----------------------------------------------------------------------------
(***************************************************************************)
(* What users were told of their sessions.  A session is open when memory  *)
(* has its token, and stored when the disk has.  The two come apart when a *)
(* write fails: after a sign-out or a deletion that could not be saved the *)
(* session is stored alone, and so is one that newer ones displaced.       *)
(***************************************************************************)
Open(t) == byToken[t] # None

Stored(t) == \E i \in Id : disk[i] # None /\ t \in ToSet(disk[i].tokens)

Exempt(t) ==
    LET i == owner[t][2]
    IN  i \in Told("leaving") \/ Cardinality(After(t, i)) >= maxTokens

TokenKept(t) ==
    \/ Exempt(t)
    \/ /\ t \notin Told("left") => Open(t) /\ Stored(t)
       /\ Stored(t) => Open(t) \/ t \in Told("unsaved")
       /\ t \in Told("out") => t \in Told("unsaved") \/ ~(Open(t) \/ Stored(t))

\* A session is a token that was drawn for its account.
SecretsTold ==
    /\ \A s \in Secret : s > drawn => owner[s] = None
    /\ \A t \in Told("session") : t \in Secret /\ t <= drawn /\ \E i \in Id : owner[t] = <<"token", i>>
    /\ Told("left") \cup Told("out") \subseteq Told("session")

\* An account goes only when its user asked for it.
LeavingTold ==
    /\ \A h \in Handler : Deleting(h) => handler[h].id \in Told("leaving")
    /\ \A i \in Told("account") \ Told("leaving") : i \in accounts /\ disk[i] # None

\* Tokens are in the order in which they were drawn.
Rising(q) == \A m, n \in DOMAIN q : m < n => q[m] < q[n]

AllRising ==
    \A i \in Id : /\ account[i] # None => Rising(account[i].tokens)
                  /\ disk[i] # None => Rising(disk[i].tokens)

SessionInv == SecretsTold /\ LeavingTold /\ AllRising /\ \A t \in Told("session") : TokenKept(t)

-----------------------------------------------------------------------------
\* What falls out for a new token has maxTokens newer ones.
LEMMA KeptNewest ==
    ASSUME NEW q \in Seq(Secret), Len(q) <= maxTokens, Rising(q),
           NEW new \in Secret, \A m \in DOMAIN q : q[m] < new
    PROVE  LET k == Kept(Append(q, new))
           IN  /\ k \in Seq(Secret)
               /\ Rising(k)
               /\ new \in ToSet(k) /\ ToSet(k) \subseteq ToSet(q) \cup {new}
               /\ \A t \in ToSet(q) \ ToSet(k) : \A F \in SUBSET Secret :
                     (\A s \in ToSet(q) \cup {new} : s > t => s \in F) => Cardinality(F) >= maxTokens
<1> DEFINE a == Append(q, new)
           k == Kept(a)
<1>0. maxTokens \in Nat \ {0} /\ Len(q) \in Nat /\ Len(q) <= maxTokens
  BY AccountsAssumption
<1>n. \A s \in Secret : s \in Nat
  BY DEF Secret
<1>1. /\ a \in Seq(Secret) /\ Len(a) = Len(q) + 1 /\ DOMAIN a = 1..Len(a)
      /\ a[Len(a)] = new /\ DOMAIN q = 1..Len(q)
      /\ \A m \in 1..Len(q) : a[m] = q[m]
  BY <1>0
<1>2. ToSet(a) = ToSet(q) \cup {new}
  BY ToSetAppend
<1> HIDE DEF a
<1>3. \A m, n \in 1..Len(a) : m < n => a[m] < a[n]
  <2>1. \A m, n \in 1..Len(q) : m < n => a[m] < a[n]
    BY <1>1 DEF Rising
  <2>2. \A m \in 1..Len(q) : a[m] < a[Len(a)]
    BY <1>1
  <2>3. ASSUME NEW m \in 1..Len(a), NEW n \in 1..Len(a), m < n PROVE a[m] < a[n]
    <3>1. m \in 1..Len(q) /\ (n \in 1..Len(q) \/ n = Len(a))
      BY <1>0, <1>1, <2>3
    <3> QED BY <2>1, <2>2, <2>3, <3>1
  <2> QED BY <2>3
<1>4. CASE Len(a) <= maxTokens
  <2>1. k = a
    BY <1>0, <1>1, <1>4 DEF Kept
  <2>2. new \in ToSet(a) /\ ToSet(q) \subseteq ToSet(a)
    BY <1>2
  <2> HIDE DEF k
  <2>3. Rising(k)
    BY <1>1, <1>3, <2>1 DEF Rising
  <2> QED BY <1>1, <1>2, <2>1, <2>2, <2>3 DEF k, a
<1>5. CASE Len(a) > maxTokens
  <2>1. Len(q) = maxTokens /\ Len(a) = maxTokens + 1
    <3>1. Len(a) = Len(q) + 1
      BY <1>1
    <3> QED BY <1>0, <1>5, <3>1
  <2>2. k = SubSeq(a, 2, Len(a))
    BY <1>0, <1>1, <1>5, <2>1 DEF Kept
  <2> HIDE DEF k
  <2>3. /\ k \in Seq(Secret) /\ Len(k) = maxTokens /\ DOMAIN k = 1..maxTokens
        /\ \A m \in 1..maxTokens : k[m] = a[m + 1]
    BY <1>0, <1>1, <2>1, <2>2
  <2>4. Rising(k)
    BY <1>0, <1>1, <1>3, <2>1, <2>3 DEF Rising
  <2>5. new \in ToSet(k)
    BY <1>0, <1>1, <2>1, <2>3 DEF ToSet
  <2>6. \A s \in ToSet(k) : s \in ToSet(a)
    <3>1. \A m \in 1..maxTokens : m + 1 \in DOMAIN a
      BY <1>0, <1>1, <2>1
    <3> QED BY <2>3, <3>1 DEF ToSet
  <2>7. ASSUME NEW t \in ToSet(q) \ ToSet(k), NEW F \in SUBSET Secret,
               \A s \in ToSet(q) \cup {new} : s > t => s \in F
        PROVE  Cardinality(F) >= maxTokens
    <3>1. t = a[1]
      <4>1. PICK m \in 1..Len(q) : t = q[m]
        BY <1>1 DEF ToSet
      <4>2. ASSUME m # 1 PROVE FALSE
        <5>1. m - 1 \in 1..maxTokens /\ k[m - 1] = t
          BY <1>0, <1>1, <2>1, <2>3, <4>1, <4>2
        <5> QED BY <2>3, <2>7, <5>1 DEF ToSet
      <4> QED BY <1>0, <1>1, <2>1, <4>1, <4>2
    <3>2. \A m \in 1..maxTokens : k[m] \in F
      <4>1. ASSUME NEW m \in 1..maxTokens PROVE k[m] > t /\ k[m] \in ToSet(k)
        <5>1. 1 \in 1..Len(a) /\ m + 1 \in 1..Len(a) /\ 1 < m + 1
          BY <1>0, <2>1
        <5>2. a[1] < a[m + 1] /\ a[1] \in Nat /\ a[m + 1] \in Nat
          BY <1>1, <1>3, <1>n, <5>1
        <5> QED BY <2>3, <3>1, <5>2 DEF ToSet
      <4> QED BY <1>2, <2>6, <2>7, <4>1
    <3> DEFINE f == [m \in 1..maxTokens |-> k[m]]
    <3>3. f \in Injection(1..maxTokens, F)
      <4>1. \A m, n \in 1..maxTokens : k[m] = k[n] => m = n
        <5>1. \A m \in 1..maxTokens : k[m] \in Nat
          BY <1>n, <2>3
        <5>2. \A m, n \in 1..maxTokens : m < n => k[m] < k[n]
          BY <2>3, <2>4 DEF Rising
        <5> QED BY <1>0, <5>1, <5>2
      <4> QED BY <3>2, <4>1 DEF Injection, IsInjective
    <3>4. IsFiniteSet(F)
      <4>1. IsFiniteSet(Secret)
        BY AccountsAssumption, FS_Interval DEF Secret
      <4> QED BY <4>1, FS_Subset
    <3>5. Cardinality(1..maxTokens) = maxTokens
      <4>1. Cardinality(1..maxTokens) = IF 1 > maxTokens THEN 0 ELSE maxTokens - 1 + 1
        BY <1>0, FS_Interval
      <4> QED BY <1>0, <4>1
    <3> HIDE DEF f
    <3>6. Cardinality(1..maxTokens) <= Cardinality(F)
      BY <3>3, <3>4, FS_Injection
    <3> QED BY <1>0, <3>4, <3>5, <3>6, FS_CardinalityType
  <2> QED BY <1>2, <2>3, <2>4, <2>5, <2>6, <2>7 DEF k, a
<1> QED BY <1>0, <1>1, <1>4, <1>5

\* A session that ends leaves the order of the others.
LEMMA KeepRises ==
    ASSUME NEW q \in Seq(Secret), NEW T, Rising(q)
    PROVE  Rising(Keep(q, T))
<1> DEFINE k == Keep(q, T)
<1>1. k \in Seq(T \cap Secret)
  BY KeepSet
<1>2. PICK e \in [1..Len(k) -> 1..Len(q)] :
         /\ \A n \in 1..Len(k) : k[n] = q[e[n]]
         /\ \A m, n \in 1..Len(k) : m < n => e[m] < e[n]
  BY KeepEmbeds
<1> HIDE DEF k
<1>3. DOMAIN k = 1..Len(k) /\ DOMAIN q = 1..Len(q)
  BY <1>1
<1>4. Rising(k)
  BY <1>2, <1>3 DEF Rising
<1> QED BY <1>4 DEF k

-----------------------------------------------------------------------------
\* What a step tells users, and the secrets that it draws.
Telling ==
    \/ UNCHANGED told
    \/ \E fact \in {"account", "deleted"}, i \in Id : Tell(fact, i)
    \/ \E i \in Id : RemovalAsked(i)
    \/ \E i \in Id : Draw("token", i) /\ Tell("session", drawn + 1)
    \/ \E t \in Told("session"), fact \in {"out", "unsaved"} :
          told' = told \cup {<<"left", t>>, <<fact, t>>}

Drawing == UNCHANGED <<drawn, owner>> \/ \E kind \in {"token", "code"}, i \in Id : Draw(kind, i)

LEMMA StepsTell ==
    ASSUME IInv, [Next]_vars
    PROVE  Telling /\ Drawing
<1>t. TypeOK /\ GoroutinesServe
  BY DEF IInv
<1>1. ASSUME NEW h \in Handler, NEW e \in Email, NEW i \in Id, SignUp(h, e, i)
      PROVE  Telling /\ Drawing
  BY <1>1 DEF SignUp, Telling, Drawing
<1>2. ASSUME NEW h \in Handler, SignIn(h) PROVE Telling /\ Drawing
  <2>1. handler[h].id \in Id
    BY <1>2, <1>t DEF SignIn, At, GoroutinesServe
  <2> QED BY <1>2, <2>1 DEF SignIn, Telling, Drawing
<1>3. ASSUME NEW h \in Handler, NewCode(h) PROVE Telling /\ Drawing
  <2>1. handler[h].id \in Id
    BY <1>3, <1>t DEF NewCode, At, GoroutinesServe
  <2> QED BY <1>3, <2>1 DEF NewCode, Telling, Drawing
<1>4. ASSUME NEW h \in Handler, RemoveAccount(h) PROVE Telling /\ Drawing
  <2>1. handler[h].id \in Id
    BY <1>4, <1>t DEF RemoveAccount, At, GoroutinesServe
  <2> QED BY <1>4, <2>1 DEF RemoveAccount, Telling, Drawing
<1>5. ASSUME NEW t \in Secret, SignOut(t) PROVE Telling /\ Drawing
  BY <1>5 DEF SignOut, Telling, Drawing
<1>6. ASSUME NEW h \in Handler, NEW i \in accounts, AskRemove(h, i) PROVE Telling /\ Drawing
  BY <1>6, <1>t DEF AskRemove, Telling, Drawing, RemovalAsked, TypeOK
<1>7. CASE \/ \E h \in Handler : \/ Mail(h) \/ CheckRemove(h)
                                 \/ \E e \in Email : Check(h, e)
                                 \/ \E i \in accounts : AskLink(h, i)
           \/ \E c \in Secret : Confirm(c)
           \/ Crash \/ UNCHANGED vars
  BY <1>7 DEF Mail, CheckRemove, Check, AskLink, Confirm, Crash, vars, Telling, Drawing
<1> QED BY <1>1, <1>2, <1>3, <1>4, <1>5, <1>6, <1>7 DEF Next

LEMMA Owned ==
    ASSUME TypeOK, TypeOK', Drawing
    PROVE  /\ drawn \in Nat /\ drawn' \in Nat /\ drawn <= drawn'
           /\ \A s \in Secret : s <= drawn => owner'[s] = owner[s]
           /\ \A s \in Secret : s > drawn' => owner'[s] = owner[s]
<1>1. drawn \in Nat /\ drawn' \in Nat /\ \A s \in Secret : s \in Nat
  BY AccountsAssumption DEF TypeOK, Secret
<1>2. CASE UNCHANGED <<drawn, owner>>
  BY <1>1, <1>2
<1>3. ASSUME NEW kind \in {"token", "code"}, NEW i \in Id, Draw(kind, i)
      PROVE  /\ drawn <= drawn'
             /\ \A s \in Secret : s <= drawn => owner'[s] = owner[s]
             /\ \A s \in Secret : s > drawn' => owner'[s] = owner[s]
  BY <1>1, <1>3 DEF Draw, TypeOK
<1> QED BY <1>1, <1>2, <1>3 DEF Drawing

LEMMA SecretsStep ==
    ASSUME IInv, IInv', SessionInv, [Next]_vars
    PROVE  SecretsTold'
<1>t. TypeOK /\ TypeOK' /\ SecretsTold
  BY DEF IInv, SessionInv
<1>1. Telling /\ Drawing
  BY StepsTell
<1>2. /\ drawn \in Nat /\ drawn' \in Nat /\ drawn <= drawn'
      /\ \A s \in Secret : s <= drawn => owner'[s] = owner[s]
      /\ \A s \in Secret : s > drawn' => owner'[s] = owner[s]
      /\ \A s \in Secret : s \in Nat
  BY <1>t, <1>1, Owned DEF Secret
<1>3. \A s \in Secret : s > drawn' => owner'[s] = None
  BY <1>t, <1>2 DEF SecretsTold
<1>4. \A t \in Told("session") : t \in Secret /\ t <= drawn' /\ \E i \in Id : owner'[t] = <<"token", i>>
  BY <1>t, <1>2 DEF SecretsTold
<1>5. CASE UNCHANGED told
  BY <1>t, <1>3, <1>4, <1>5 DEF SecretsTold, Told
<1>6. ASSUME NEW i \in Id, RemovalAsked(i) \/ \E fact \in {"account", "deleted"} : Tell(fact, i)
      PROVE  SecretsTold'
  <2>1. /\ Told("session")' = Told("session") /\ Told("left")' = Told("left")
        /\ Told("out")' = Told("out")
    BY <1>6 DEF Tell, Told, RemovalAsked
  <2> QED BY <1>t, <1>3, <1>4, <2>1 DEF SecretsTold
<1>7. ASSUME NEW i \in Id, Draw("token", i), Tell("session", drawn + 1)
      PROVE  SecretsTold'
  <2>1. /\ Told("session")' \subseteq Told("session") \cup {drawn + 1}
        /\ Told("session") \subseteq Told("session")'
        /\ Told("left")' = Told("left") /\ Told("out")' = Told("out")
    BY <1>7 DEF Tell, Told
  <2>2. drawn + 1 \in Secret /\ drawn + 1 <= drawn' /\ owner'[drawn + 1] = <<"token", i>>
    BY <1>t, <1>2, <1>7, DrawTyped
  <2> QED BY <1>t, <1>3, <1>4, <2>1, <2>2 DEF SecretsTold
<1>8. ASSUME NEW t \in Told("session"), NEW fact \in {"out", "unsaved"},
             told' = told \cup {<<"left", t>>, <<fact, t>>}
      PROVE  SecretsTold'
  <2>1. /\ Told("session")' = Told("session")
        /\ Told("left")' \subseteq Told("left") \cup {t}
        /\ Told("out")' \subseteq Told("out") \cup {t}
    BY <1>8 DEF Told
  <2> QED BY <1>t, <1>3, <1>4, <2>1 DEF SecretsTold
<1> QED BY <1>1, <1>5, <1>6, <1>7, <1>8 DEF Telling

\* A session that was displaced, or whose account goes, stays so.
LEMMA ExemptStays ==
    ASSUME IInv, IInv', SecretsTold, [Next]_vars, NEW t \in Told("session"), Exempt(t)
    PROVE  Exempt(t)'
<1>t. TypeOK /\ TypeOK'
  BY DEF IInv
<1>1. Telling /\ Drawing
  BY StepsTell
<1>2. Told("leaving") \subseteq Told("leaving")'
  BY <1>1 DEF Telling, Tell, Told, RemovalAsked
<1>3. /\ drawn \in Nat /\ \A s \in Secret : s \in Nat
      /\ \A s \in Secret : s <= drawn => owner'[s] = owner[s]
  BY <1>t, <1>1, Owned DEF Secret
<1>4. owner'[t] = owner[t]
  BY <1>3 DEF SecretsTold
<1> DEFINE i == owner[t][2]
           F == After(t, i)
           G == {s \in Secret : s > t /\ owner'[s] = <<"token", i>>}
<1>5. CASE i \in Told("leaving")
  BY <1>2, <1>4, <1>5 DEF Exempt
<1>6. CASE Cardinality(F) >= maxTokens
  <2>0. PICK j \in Id : owner[t] = <<"token", j>>
    BY DEF SecretsTold
  <2>1. i = j /\ <<"token", i>> # None
    BY <2>0, AccountsAssumption
  <2>2. \A s \in F : s <= drawn
    BY <1>3, <2>1 DEF SecretsTold, After
  <2>3. F \in SUBSET G
    BY <1>3, <2>2 DEF After
  <2>4. IsFiniteSet(G)
    <3>1. IsFiniteSet(Secret)
      BY AccountsAssumption, FS_Interval DEF Secret
    <3>2. G \in SUBSET Secret
      OBVIOUS
    <3> HIDE DEF G
    <3> QED BY <3>1, <3>2, FS_Subset
  <2>5. After(t, i)' = G
    BY <1>4 DEF After
  <2> HIDE DEF F, G
  <2>6. Cardinality(F) <= Cardinality(G) /\ IsFiniteSet(F)
    BY <2>3, <2>4, FS_Subset
  <2>7. Cardinality(G) >= maxTokens
    BY <1>6, <2>4, <2>6, FS_CardinalityType, AccountsAssumption
  <2> QED BY <1>4, <2>5, <2>7 DEF Exempt
<1> QED BY <1>5, <1>6 DEF Exempt, F

\* A step on the code leaves the tokens.
LEMMA SameTokens ==
    ASSUME IInv, (\E h \in Handler : NewCode(h)) \/ (\E c \in Secret : Confirm(c))
    PROVE  /\ \A j \in Id : account'[j] # None => account[j] # None
           /\ \A j \in Id : account[j] # None => account'[j].tokens = account[j].tokens
<1>t. TypeOK /\ GoroutinesServe /\ AccountsMade
  BY DEF IInv
<1>1. ASSUME NEW i \in accounts, NEW c, account' = [account EXCEPT ![i].verify = c]
      PROVE  /\ \A j \in Id : account'[j] # None => account[j] # None
             /\ \A j \in Id : account[j] # None => account'[j].tokens = account[j].tokens
  <2>1. i \in Id /\ account[i] \in Account /\ account[i] # None
    BY <1>t DEF TypeOK, AccountsMade
  <2>2. /\ \A j \in Id : j # i => account'[j] = account[j]
        /\ account'[i] = [email |-> account[i].email, tokens |-> account[i].tokens, verify |-> c]
    BY <1>1, <1>t, <2>1 DEF TypeOK, Account
  <2> QED BY <2>1, <2>2
<1>2. ASSUME UNCHANGED account
      PROVE  /\ \A j \in Id : account'[j] # None => account[j] # None
             /\ \A j \in Id : account[j] # None => account'[j].tokens = account[j].tokens
  BY <1>2
<1> QED BY <1>1, <1>2 DEF NewCode, Confirm

LEMMA RisingStep ==
    ASSUME IInv, IInv', SessionInv, [Next]_vars
    PROVE  AllRising'
<1>t. TypeOK /\ TypeOK' /\ GoroutinesServe /\ AccountsMade /\ SessionsOwned /\ AllRising
  BY DEF IInv, SessionInv
\* What the disk has is what it had, or what memory has.
<1>d. ASSUME UNCHANGED disk \/ \E keys : Save(keys, account'),
             \A j \in Id : account'[j] # None => Rising(account'[j].tokens)
      PROVE  AllRising'
  BY <1>d, <1>t DEF AllRising, Save
<1>1. CASE \/ \E h \in Handler : \/ Mail(h) \/ CheckRemove(h) \/ RemoveAccount(h)
                                 \/ \E e \in Email : Check(h, e)
                                 \/ \E i \in accounts : AskLink(h, i) \/ AskRemove(h, i)
           \/ UNCHANGED vars
  <2>1. UNCHANGED account /\ (UNCHANGED disk \/ \E keys : Save(keys, account'))
    BY <1>1 DEF Mail, CheckRemove, RemoveAccount, Check, AskLink, AskRemove, vars, store, SaveFails
  <2> QED BY <1>d, <1>t, <2>1 DEF AllRising
<1>2. ASSUME NEW h \in Handler, NEW e \in Email, NEW i \in Id, SignUp(h, e, i) PROVE AllRising'
  <2>1. /\ account'[i].tokens = << >>
        /\ \A j \in Id : j # i => account'[j] = account[j]
    BY <1>2, <1>t DEF SignUp, TypeOK
  <2>2. Rising(<< >>)
    BY DEF Rising
  <2> QED BY <1>2, <1>d, <1>t, <2>1, <2>2 DEF SignUp, SaveFails, AllRising
<1>3. ASSUME NEW h \in Handler, SignIn(h) PROVE AllRising'
  <2> DEFINE i == handler[h].id
             q == account[i].tokens
  <2>1. i \in Id
    BY <1>3, <1>t DEF SignIn, At, GoroutinesServe
  <2>2. CASE i \in accounts
    <3>1. account[i] \in Account /\ account[i] # None
      BY <1>t, <2>1, <2>2 DEF TypeOK, AccountsMade
    <3>2. /\ q \in Seq(Secret) /\ Len(q) <= maxTokens /\ Rising(q)
      BY <1>t, <2>1, <3>1 DEF Account, AllRising
    <3>3. drawn + 1 \in Secret /\ drawn \in Nat
      BY <1>3, <1>t, <2>1, <2>2, DrawTyped, AccountsAssumption DEF SignIn, TypeOK
    <3>4. \A m \in DOMAIN q : q[m] < drawn + 1
      <4>1. \A s \in ToSet(q) : s <= drawn
        BY <1>t, <2>1, <3>1 DEF SessionsOwned, Owns
      <4>2. \A m \in DOMAIN q : q[m] \in ToSet(q) /\ q[m] \in Secret
        BY <3>2 DEF ToSet
      <4>3. \A s \in Secret : s \in Nat
        BY DEF Secret
      <4> QED BY <3>3, <4>1, <4>2, <4>3
    <3>5. Rising(Kept(Append(q, drawn + 1)))
      BY <3>2, <3>3, <3>4, KeptNewest
    <3>6. /\ account'[i].tokens = Kept(Append(q, drawn + 1))
          /\ \A j \in Id : j # i => account'[j] = account[j]
      BY <1>3, <1>t, <2>1, <2>2, <3>1 DEF SignIn, TypeOK, Account
    <3>7. UNCHANGED disk \/ Save(accounts, account')
      BY <1>3, <2>2 DEF SignIn, SaveFails
    <3> QED BY <1>d, <1>t, <3>5, <3>6, <3>7 DEF AllRising
  <2>3. CASE i \notin accounts
    BY <1>3, <1>d, <1>t, <2>3 DEF SignIn, store, AllRising
  <2> QED BY <2>2, <2>3
<1>4. ASSUME NEW t \in Secret, SignOut(t) PROVE AllRising'
  <2> DEFINE i == byToken[t]
  <2>1. CASE i = None
    BY <1>4, <1>d, <1>t, <2>1 DEF SignOut, store, AllRising
  <2>2. CASE i # None
    <3>1. i \in Id /\ account[i] \in Account /\ account[i] # None
      BY <1>t, <2>2 DEF TypeOK, AccountsMade, IInv, IndexesAgree
    <3>2. account[i].tokens \in Seq(Secret) /\ Rising(account[i].tokens)
      BY <1>t, <3>1 DEF Account, AllRising
    <3>3. Rising(Keep(account[i].tokens, Secret \ {t}))
      BY <3>2, KeepRises
    <3>4. /\ account'[i].tokens = Keep(account[i].tokens, Secret \ {t})
          /\ \A j \in Id : j # i => account'[j] = account[j]
      BY <1>4, <1>t, <2>2, <3>1 DEF SignOut, TypeOK, Account
    <3>5. UNCHANGED disk \/ Save(accounts, account')
      BY <1>4, <2>2 DEF SignOut, SaveFails
    <3> QED BY <1>d, <1>t, <3>3, <3>4, <3>5 DEF AllRising
  <2> QED BY <2>1, <2>2
<1>5. ASSUME NEW h \in Handler, NewCode(h) PROVE AllRising'
  <2>1. UNCHANGED disk \/ Save(accounts, account')
    BY <1>5 DEF NewCode, SaveFails
  <2>2. \A j \in Id : account'[j] # None => account[j] # None /\ account'[j].tokens = account[j].tokens
    BY <1>5, <1>t, SameTokens
  <2> QED BY <1>d, <1>t, <2>1, <2>2 DEF AllRising
<1>6. ASSUME NEW c \in Secret, Confirm(c) PROVE AllRising'
  <2>1. UNCHANGED disk \/ Save(accounts, account')
    BY <1>6 DEF Confirm, SaveFails
  <2>2. \A j \in Id : account'[j] # None => account[j] # None /\ account'[j].tokens = account[j].tokens
    BY <1>6, <1>t, SameTokens
  <2> QED BY <1>d, <1>t, <2>1, <2>2 DEF AllRising
<1>7. ASSUME Crash PROVE AllRising'
  BY <1>7, <1>t DEF Crash, AllRising
<1> QED BY <1>1, <1>2, <1>3, <1>4, <1>5, <1>6, <1>7 DEF Next

\* An account that was told goes only by a deletion that its user asked for.
LEMMA LeavingStep ==
    ASSUME IInv, IInv', SessionInv, [Next]_vars
    PROVE  LeavingTold'
<1>t. TypeOK /\ TypeOK' /\ GoroutinesServe /\ AccountsMade /\ AccountsMade' /\ LeavingTold
  BY DEF IInv, SessionInv
<1>1. Telling
  BY StepsTell
<1>2. Told("leaving") \subseteq Told("leaving")'
  BY <1>1 DEF Telling, Tell, Told, RemovalAsked
<1>3. ASSUME NEW g \in Handler, handler'[g].at \in {"check", "remove"}
      PROVE  handler'[g].id \in Told("leaving")'
  <2>1. CASE handler'[g] = handler[g]
    BY <1>2, <1>3, <1>t, <2>1 DEF LeavingTold, Deleting
  <2>2. ASSUME NEW h \in Handler, CheckRemove(h) PROVE handler'[g].id \in Told("leaving")'
    <3>1. g # h => handler'[g] = handler[g]
      BY <1>t, <2>2 DEF CheckRemove, GoTo, Done, TypeOK
    <3>2. CASE g = h
      <4>1. handler'[g].id = handler[g].id /\ Deleting(g)
        BY <1>3, <1>t, <2>2, <3>2 DEF CheckRemove, GoTo, Done, Idle, TypeOK, At, Deleting
      <4> QED BY <1>2, <1>t, <4>1 DEF LeavingTold
    <3> QED BY <2>1, <3>1, <3>2
  <2>3. ASSUME NEW h \in Handler, NEW i \in accounts, AskRemove(h, i)
        PROVE  handler'[g].id \in Told("leaving")'
    <3>1. g # h => handler'[g] = handler[g]
      BY <1>t, <2>3 DEF AskRemove, GoTo, TypeOK
    <3>2. CASE g = h
      <4>1. handler'[g].id = i
        BY <1>t, <2>3, <3>2 DEF AskRemove, GoTo, TypeOK
      <4>2. i \in Told("leaving")'
        BY <1>t, <2>3 DEF AskRemove, Tell, Told, TypeOK
      <4> QED BY <4>1, <4>2
    <3> QED BY <2>1, <3>1, <3>2
  <2>4. CASE \/ \E h \in Handler : \/ Mail(h) \/ SignIn(h) \/ NewCode(h) \/ RemoveAccount(h)
                                   \/ \E e \in Email : Check(h, e) \/ \E i \in Id : SignUp(h, e, i)
                                   \/ \E i \in accounts : AskLink(h, i)
             \/ \E s \in Secret : SignOut(s) \/ Confirm(s)
             \/ UNCHANGED vars
    <3> DEFINE Steps == {"idle", "mail", "signin", "newcode", "mailagain"}
    <3>0. ASSUME NEW h \in Handler, NEW step \in Steps, NEW i, NEW c, GoTo(h, step, i, c)
          PROVE  handler'[g] = handler[g] \/ \E at \in Steps : handler'[g].at = at
      BY <1>t, <3>0 DEF GoTo, TypeOK
    <3>d. ASSUME NEW h \in Handler, Done(h)
          PROVE  handler'[g] = handler[g] \/ \E at \in Steps : handler'[g].at = at
      BY <1>t, <3>d DEF Done, Idle, TypeOK
    <3>s. \/ UNCHANGED handler
          \/ \E h \in Handler : Done(h) \/ \E step \in Steps : \E i, c : GoTo(h, step, i, c)
      BY <2>4 DEF Mail, SignIn, NewCode, RemoveAccount, Check, SignUp, AskLink, SignOut, Confirm, vars
    <3>1. handler'[g] = handler[g] \/ \E at \in Steps : handler'[g].at = at
      BY <3>0, <3>d, <3>s
    <3> QED BY <1>3, <2>1, <3>1
  <2>5. CASE Crash
    BY <1>3, <2>5 DEF Crash, Idle
  <2> QED BY <2>2, <2>3, <2>4, <2>5 DEF Next
<1>4. ASSUME NEW i \in Told("account")', i \notin Told("leaving")'
      PROVE  i \in accounts' /\ disk'[i] # None
  <2>1. i \in Told("account") => i \in accounts /\ disk[i] # None
    BY <1>2, <1>4, <1>t DEF LeavingTold
  <2>2. ASSUME i \in accounts', UNCHANGED disk \/ Save(accounts', account'), disk[i] # None \/ Save(accounts', account')
        PROVE  i \in accounts' /\ disk'[i] # None
    BY <1>t, <2>2 DEF Save, AccountsMade, TypeOK
  <2>3. ASSUME NEW h \in Handler, NEW e \in Email, NEW j \in Id, SignUp(h, e, j)
        PROVE  i \in accounts' /\ disk'[i] # None
    <3>1. CASE i \in Told("account")
      BY <2>1, <2>2, <2>3, <3>1 DEF SignUp, SaveFails
    <3>2. CASE i \notin Told("account")
      <4>1. told' # told
        BY <1>4, <3>2 DEF Told
      <4>2. /\ accounts' = accounts \cup {j} /\ Save(accounts \cup {j}, account')
            /\ Tell("account", j)
        BY <2>3, <4>1 DEF SignUp
      <4>3. i = j
        BY <1>4, <3>2, <4>2 DEF Tell, Told
      <4>4. i \in accounts' /\ Save(accounts', account')
        BY <4>2, <4>3
      <4> QED BY <2>2, <4>4
    <3> QED BY <3>1, <3>2
  <2>4. CASE ~\E h \in Handler, e \in Email, j \in Id : SignUp(h, e, j)
    <3>1. i \in Told("account")
      <4>1. \/ UNCHANGED told
            \/ \E x : \E fact \in {"session", "deleted"} : Tell(fact, x)
            \/ \E x \in accounts : RemovalAsked(x)
            \/ \E t : \E fact \in {"out", "unsaved"} : told' = told \cup {<<"left", t>>, <<fact, t>>}
        BY <2>4 DEF Next, Mail, SignIn, NewCode, CheckRemove, RemoveAccount, Check, AskLink,
                    AskRemove, SignOut, Confirm, Crash, vars, RemovalAsked
      <4> QED BY <1>4, <4>1 DEF Tell, Told, RemovalAsked
    <3>2. ASSUME NEW h \in Handler, RemoveAccount(h) PROVE i \in accounts' /\ disk'[i] # None
      <4>1. handler[h].id \in Told("leaving")'
        BY <1>2, <1>t, <3>2 DEF RemoveAccount, At, LeavingTold, Deleting
      <4>2. i # handler[h].id
        BY <1>4, <4>1
      <4> QED BY <2>1, <2>2, <3>1, <3>2, <4>2 DEF RemoveAccount, SaveFails
    <3>3. CASE \/ \E h \in Handler : \/ Mail(h) \/ SignIn(h) \/ NewCode(h) \/ CheckRemove(h)
                                     \/ \E e \in Email : Check(h, e)
                                     \/ \E j \in accounts : AskLink(h, j) \/ AskRemove(h, j)
               \/ \E s \in Secret : SignOut(s) \/ Confirm(s)
               \/ UNCHANGED vars
      <4>1. accounts' = accounts /\ (UNCHANGED disk \/ Save(accounts', account'))
        BY <3>3 DEF Mail, SignIn, NewCode, CheckRemove, Check, AskLink, AskRemove, SignOut,
                    Confirm, vars, store, index, SaveFails
      <4> QED BY <2>1, <2>2, <3>1, <4>1
    <3>4. CASE Crash
      BY <1>t, <2>1, <3>1, <3>4 DEF Crash, TypeOK
    <3> QED BY <2>4, <3>2, <3>3, <3>4 DEF Next
  <2> QED BY <2>3, <2>4
<1> QED BY <1>3, <1>4 DEF LeavingTold, Deleting

-----------------------------------------------------------------------------
\* A session that nobody touches stays as it was, or memory and the disk get to
\* agree: by a write, or by a restart.
Untouched(t) == \A fact \in {"left", "out", "unsaved"} : t \in Told(fact)' <=> t \in Told(fact)

LEMMA TokenCarries ==
    ASSUME NEW t, TokenKept(t), Exempt(t) => Exempt(t)', Untouched(t),
           \/ /\ Open(t)' <=> Open(t)
              /\ (Stored(t)' <=> Stored(t)) \/ (Stored(t)' <=> Open(t)')
           \/ (Open(t)' <=> Stored(t)) /\ (Stored(t)' <=> Stored(t))
    PROVE  TokenKept(t)'
<1>1. TokenKept(t)' <=> \/ Exempt(t)'
                        \/ /\ t \notin Told("left")' => Open(t)' /\ Stored(t)'
                           /\ Stored(t)' => Open(t)' \/ t \in Told("unsaved")'
                           /\ t \in Told("out")' => t \in Told("unsaved")' \/ ~(Open(t)' \/ Stored(t)')
  BY DEF TokenKept
<1>2. /\ t \in Told("left")' <=> t \in Told("left")
      /\ t \in Told("out")' <=> t \in Told("out")
      /\ t \in Told("unsaved")' <=> t \in Told("unsaved")
  BY DEF Untouched
<1> HIDE DEF Open, Stored, Exempt, Told
<1> QED BY <1>1, <1>2 DEF TokenKept

LEMMA SavedIsOpen ==
    ASSUME IInv', Save(accounts', account'), NEW t \in Secret
    PROVE  Stored(t)' <=> Open(t)'
<1>1. TypeOK' /\ AccountsMade' /\ IndexesAgree'
  BY DEF IInv
<1>2. \A i \in Id : (disk'[i] # None /\ t \in ToSet(disk'[i].tokens)) <=> byToken'[t] = i
  <2>1. \A i \in Id : disk'[i] = IF i \in accounts' THEN account'[i] ELSE None
    BY DEF Save
  <2>2. \A i \in Id : byToken'[t] = i <=> i \in accounts' /\ t \in ToSet(account'[i].tokens)
    BY <1>1 DEF IndexesAgree
  <2>3. \A i \in accounts' : account'[i] # None
    BY <1>1 DEF AccountsMade
  <2> QED BY <2>1, <2>2, <2>3
<1>3. byToken'[t] \in Id \cup {None} /\ None \notin Id
  BY <1>1, AccountsAssumption DEF TypeOK
<1> QED BY <1>2, <1>3 DEF Stored, Open

\* A step that leaves the session in memory, or takes it out, and writes or not.
LEMMA MemoryCarries ==
    ASSUME IInv', NEW t \in Secret, TokenKept(t), Exempt(t) => Exempt(t)', Untouched(t),
           byToken'[t] = byToken[t],
           UNCHANGED disk \/ Save(accounts', account')
    PROVE  TokenKept(t)'
<1>1. Open(t)' <=> Open(t)
  BY DEF Open
<1>2. CASE UNCHANGED disk
  <2>1. Stored(t)' <=> Stored(t)
    BY <1>2 DEF Stored
  <2> QED BY <1>1, <2>1, TokenCarries
<1>3. CASE Save(accounts', account')
  BY <1>1, <1>3, SavedIsOpen, TokenCarries
<1> QED BY <1>2, <1>3

\* The step of a sign-in: a token that falls out was displaced.
LEMMA SignInTokens ==
    ASSUME IInv, IInv', SessionInv, [Next]_vars, NEW h \in Handler, SignIn(h)
    PROVE  \A t \in Told("session")' : TokenKept(t)'
<1> DEFINE i == handler[h].id
           q == account[i].tokens
           new == drawn + 1
           k == Kept(Append(q, new))
<1>t. TypeOK /\ TypeOK' /\ GoroutinesServe /\ AccountsMade /\ SessionsOwned /\ IndexesAgree
      /\ SecretsTold /\ AllRising /\ None \notin Id /\ drawn \in Nat
  BY AccountsAssumption DEF IInv, SessionInv, TypeOK
<1>0. i \in Id
  BY <1>t DEF SignIn, At, GoroutinesServe
<1>n. \A s \in Secret : s \in Nat
  BY DEF Secret
<1>e. \A t \in Told("session") : /\ t \in Secret /\ t <= drawn /\ TokenKept(t)
                                 /\ Exempt(t) => Exempt(t)'
  BY <1>t, ExemptStays DEF SecretsTold, SessionInv
<1>1. CASE i \notin accounts
  <2>1. UNCHANGED <<byToken, disk, told>>
    BY <1>1 DEF SignIn, store, index
  <2>2. \A t : Untouched(t)
    BY <2>1 DEF Untouched, Told
  <2>3. Told("session")' = Told("session")
    BY <2>1 DEF Told
  <2> QED BY <1>e, <2>1, <2>2, <2>3, MemoryCarries
<1>2. CASE i \in accounts
  <2>1. account[i] \in Account /\ account[i] # None
    BY <1>t, <1>0, <1>2 DEF TypeOK, AccountsMade
  <2>2. q \in Seq(Secret) /\ Len(q) <= maxTokens /\ Rising(q)
    BY <1>t, <1>0, <2>1 DEF Account, AllRising
  <2>3. /\ Draw("token", i)
        /\ byToken' = [s \in Secret |-> IF s \in ToSet(k) THEN i
                                        ELSE IF s \in ToSet(q) THEN None ELSE byToken[s]]
        /\ Save(accounts', account') \/ UNCHANGED disk
        /\ (Save(accounts', account') /\ Tell("session", new)) \/ UNCHANGED told
    BY <1>2 DEF SignIn, SaveFails
  <2>4. /\ new \in Secret /\ owner'[new] = <<"token", i>>
        /\ \A s \in Secret : s <= drawn => owner'[s] = owner[s]
    BY <1>t, <1>0, <2>3, DrawTyped
  <2>5. \A s \in ToSet(q) : s \in Secret /\ s <= drawn /\ owner[s] = <<"token", i>>
    BY <1>t, <1>0, <2>1, <2>2 DEF SessionsOwned, Owns, ToSet
  <2>6. \A m \in DOMAIN q : q[m] < new
    <3>1. \A m \in DOMAIN q : q[m] \in ToSet(q)
      BY <2>2 DEF ToSet
    <3> QED BY <1>t, <1>n, <2>5, <3>1
  <2>7. /\ new \in ToSet(k) /\ ToSet(k) \subseteq ToSet(q) \cup {new}
        /\ \A t \in ToSet(q) \ ToSet(k) : \A F \in SUBSET Secret :
              (\A s \in ToSet(q) \cup {new} : s > t => s \in F) => Cardinality(F) >= maxTokens
    BY <2>2, <2>4, <2>6, KeptNewest
  <2>8. /\ \A fact \in {"left", "out", "unsaved"} : Told(fact)' = Told(fact)
        /\ Told("session")' \subseteq Told("session") \cup {new}
        /\ new \in Told("session")' \ Told("session") => Save(accounts', account')
    BY <2>3 DEF Tell, Told
  <2>9. \A t : Untouched(t)
    BY <2>8 DEF Untouched
  <2> HIDE DEF k, q, new, i
  <2>10. ASSUME NEW t \in Told("session"), t \in ToSet(q) \ ToSet(k)
         PROVE  TokenKept(t)'
    <3>1. owner'[t] = <<"token", i>> /\ t \in Secret
      BY <2>4, <2>5, <2>10
    <3> DEFINE F == {s \in Secret : s > t /\ owner'[s] = <<"token", i>>}
    <3>2. \A s \in ToSet(q) \cup {new} : s > t => s \in F
      BY <2>4, <2>5
    <3>3. F \in SUBSET Secret
      OBVIOUS
    <3>4. owner'[t][2] = i
      BY <3>1
    <3>5. Exempt(t)' <=> \/ owner'[t][2] \in Told("leaving")'
                         \/ Cardinality({s \in Secret : s > t /\ owner'[s] = <<"token", owner'[t][2]>>})
                              >= maxTokens
      BY DEF Exempt, After
    <3>6. Exempt(t)'
      <4>1. {s \in Secret : s > t /\ owner'[s] = <<"token", owner'[t][2]>>} = F
        BY <3>4
      <4> HIDE DEF F
      <4>2. Cardinality(F) >= maxTokens
        BY <2>7, <2>10, <3>2, <3>3
      <4> QED BY <3>5, <4>1, <4>2
    <3> QED BY <3>6 DEF TokenKept
  <2>11. ASSUME NEW t \in Told("session"), t \notin ToSet(q) \ ToSet(k)
         PROVE  TokenKept(t)'
    <3>1. t \in Secret /\ t # new
      BY <1>e, <1>t, <1>n DEF new
    <3>2. byToken'[t] = byToken[t]
      <4>1. t \in ToSet(q) => byToken[t] = i
        BY <1>t, <1>0, <1>2, <3>1 DEF IndexesAgree, i, q
      <4>2. t \in ToSet(k) => t \in ToSet(q)
        BY <2>7, <3>1
      <4> QED BY <2>3, <2>11, <3>1, <4>1, <4>2
    <3> QED BY <1>e, <2>3, <2>9, <3>1, <3>2, MemoryCarries
  <2>12. ASSUME NEW t \in Told("session")', t = new, t \notin Told("session")
         PROVE  TokenKept(t)'
    <3>1. byToken'[t] = i /\ t \in Secret
      BY <2>3, <2>4, <2>7, <2>12
    <3>2. Open(t)'
      BY <1>0, <1>t, <3>1 DEF Open
    <3>3. Stored(t)'
      BY <2>8, <2>12, <3>1, <3>2, SavedIsOpen
    <3>4. t \notin Told("out")'
      BY <1>t, <2>8, <2>12 DEF SecretsTold
    <3> QED BY <3>2, <3>3, <3>4 DEF TokenKept
  <2> QED BY <2>8, <2>10, <2>11, <2>12
<1> QED BY <1>1, <1>2

\* The step of a sign-out: what it tells of its own session, whatever is left of it.
LEMMA SignOutTokens ==
    ASSUME IInv, IInv', SessionInv, [Next]_vars, NEW t0 \in Secret, SignOut(t0)
    PROVE  \A t \in Told("session")' : TokenKept(t)'
<1>t. TypeOK /\ SecretsTold /\ t0 \in Told("session")
  BY DEF IInv, SessionInv, SignOut
<1>e. \A t \in Told("session") : t \in Secret /\ TokenKept(t) /\ (Exempt(t) => Exempt(t)')
  BY <1>t, ExemptStays DEF SecretsTold, SessionInv
<1>1. Told("session")' = Told("session")
  BY DEF SignOut, Told
<1>2. UNCHANGED disk \/ Save(accounts', account')
  BY DEF SignOut, SaveFails, store
<1>3. ASSUME NEW t \in Told("session"), t # t0 PROVE TokenKept(t)'
  <2>1. Untouched(t)
    BY <1>3 DEF SignOut, Untouched, Told
  <2>2. byToken'[t] = byToken[t]
    BY <1>3, <1>t, <1>e DEF SignOut, store, index, TypeOK
  <2> QED BY <1>2, <1>e, <2>1, <2>2, MemoryCarries
<1>4. TokenKept(t0)'
  <2>0. t0 \in Told("left")'
    BY DEF SignOut, Told
  <2>1. Told("unsaved") \subseteq Told("unsaved")' /\ TokenKept(t0) /\ (Exempt(t0) => Exempt(t0)')
    BY <1>e, <1>t DEF SignOut, Told
  <2>2. ~Open(t0)'
    BY <1>t DEF SignOut, Open, store, index, TypeOK
  <2>3. CASE Save(accounts', account')
    <3>1. ~Stored(t0)'
      BY <2>2, <2>3, SavedIsOpen
    <3> QED BY <2>0, <2>2, <3>1 DEF TokenKept
  <2>4. CASE t0 \in Told("unsaved")'
    BY <2>0, <2>4 DEF TokenKept
  <2>5. CASE byToken[t0] = None /\ UNCHANGED disk
    <3>1. ~Open(t0)
      BY <2>5 DEF Open
    <3>2. Stored(t0)' <=> Stored(t0)
      BY <2>5 DEF Stored
    <3> QED BY <2>0, <2>1, <2>2, <3>1, <3>2 DEF TokenKept
  <2> QED BY <2>3, <2>4, <2>5 DEF SignOut, Told, store
<1> QED BY <1>1, <1>3, <1>4

\* Whatever the step is, users keep what they were told.
LEMMA TokensStep ==
    ASSUME IInv, IInv', SessionInv, [Next]_vars
    PROVE  \A t \in Told("session")' : TokenKept(t)'
<1>t. TypeOK /\ SessionsOwned /\ GoroutinesServe /\ AccountsMade /\ IndexesAgree /\ SecretsTold
      /\ LeavingTold
  BY DEF IInv, SessionInv
<1>e. \A t \in Told("session") : t \in Secret /\ TokenKept(t) /\ (Exempt(t) => Exempt(t)')
  BY <1>t, ExemptStays DEF SecretsTold, SessionInv
<1>q. ASSUME \/ UNCHANGED told
             \/ \E x : RemovalAsked(x) \/ \E fact \in {"account", "deleted"} : Tell(fact, x)
      PROVE  Told("session")' = Told("session") /\ \A t : Untouched(t)
  BY <1>q DEF Tell, Told, Untouched, RemovalAsked
<1>1. CASE \/ \E h \in Handler : \/ Mail(h) \/ CheckRemove(h) \/ NewCode(h)
                                 \/ \E e \in Email : Check(h, e) \/ \E i \in Id : SignUp(h, e, i)
                                 \/ \E i \in accounts : AskLink(h, i) \/ AskRemove(h, i)
           \/ \E c \in Secret : Confirm(c)
           \/ UNCHANGED vars
  <2>1. \/ UNCHANGED told
        \/ \E x : RemovalAsked(x) \/ \E fact \in {"account", "deleted"} : Tell(fact, x)
    BY <1>1 DEF Mail, CheckRemove, NewCode, Check, SignUp, AskLink, AskRemove, Confirm, vars,
                RemovalAsked
  <2>2. UNCHANGED byToken
    BY <1>1 DEF Mail, CheckRemove, NewCode, Check, SignUp, AskLink, AskRemove, Confirm, vars,
                store, index
  <2>3. UNCHANGED disk \/ Save(accounts', account')
    BY <1>1 DEF Mail, CheckRemove, NewCode, Check, SignUp, AskLink, AskRemove, Confirm, vars,
                store, index, SaveFails
  <2> QED BY <1>e, <1>q, <2>1, <2>2, <2>3, MemoryCarries
<1>2. ASSUME NEW h \in Handler, RemoveAccount(h)
      PROVE  \A t \in Told("session")' : TokenKept(t)'
  <2> DEFINE i == handler[h].id
  <2>1. i \in Id /\ account[i] # None /\ i \in Told("leaving")
    BY <1>2, <1>t DEF RemoveAccount, At, GoroutinesServe, LeavingTold, Deleting
  <2>2. Told("session")' = Told("session") /\ \A t : Untouched(t)
    BY <1>2, <1>q DEF RemoveAccount
  <2>3. UNCHANGED disk \/ Save(accounts', account')
    BY <1>2 DEF RemoveAccount, SaveFails
  <2>4. ASSUME NEW t \in Told("session"), t \in ToSet(account[i].tokens) PROVE Exempt(t)
    <3>1. owner[t] = <<"token", i>>
      BY <1>t, <2>1, <2>4 DEF SessionsOwned, Owns, AccountsMade
    <3> QED BY <2>1, <3>1 DEF Exempt
  <2>5. ASSUME NEW t \in Told("session"), t \notin ToSet(account[i].tokens)
        PROVE  byToken'[t] = byToken[t]
    BY <1>2, <1>e, <2>5 DEF RemoveAccount
  <2>6. \A t \in Told("session") : Exempt(t) => TokenKept(t)'
    BY <1>e DEF TokenKept
  <2> QED BY <1>e, <2>2, <2>3, <2>4, <2>5, <2>6, MemoryCarries
<1>3. CASE Crash
  <2>1. Told("session")' = Told("session") /\ \A t : Untouched(t)
    BY <1>3, <1>q DEF Crash
  <2>2. ASSUME NEW t \in Secret PROVE (Open(t)' <=> Stored(t)) /\ (Stored(t)' <=> Stored(t))
    <3> DEFINE there == {i \in Id : disk[i] # None}
    <3>1. byToken'[t] = IF \E i \in there : t \in ToSet(disk[i].tokens)
                        THEN CHOOSE i \in there : t \in ToSet(disk[i].tokens) ELSE None
      BY <1>3 DEF Crash
    <3>2. (\E i \in there : t \in ToSet(disk[i].tokens)) => byToken'[t] \in there
      BY <3>1
    <3>3. None \notin there
      BY AccountsAssumption
    <3>4. Open(t)' <=> Stored(t)
      BY <3>1, <3>2, <3>3 DEF Open, Stored
    <3>5. Stored(t)' <=> Stored(t)
      BY <1>3 DEF Crash, Stored
    <3> QED BY <3>4, <3>5
  <2> QED BY <1>e, <2>1, <2>2, TokenCarries
<1> QED BY <1>1, <1>2, <1>3, SignInTokens, SignOutTokens DEF Next

-----------------------------------------------------------------------------
LEMMA NextKeepsSessions == IInv /\ IInv' /\ SessionInv /\ [Next]_vars => SessionInv'
BY SecretsStep, LeavingStep, RisingStep, TokensStep DEF SessionInv

LEMMA NobodyTold == Init => SessionInv
<1> SUFFICES ASSUME Init PROVE SessionInv
  OBVIOUS
<1>1. \A fact : Told(fact) = {}
  BY DEF Init, Told
<1>2. SecretsTold
  BY <1>1 DEF Init, SecretsTold
<1>3. LeavingTold
  BY <1>1 DEF Init, LeavingTold, Deleting, Idle
<1>4. AllRising
  BY DEF Init, AllRising
<1> QED BY <1>1, <1>2, <1>3, <1>4 DEF SessionInv

\* What users were told, of their account and of their sessions, is on disk, whatever
\* fails and whenever the server dies (store.go:102-112, 186-190, 219-226).
THEOREM AnswersAreOnDisk == Spec => []AnswersAreSaved
<1>1. IInv /\ SessionInv => AnswersAreSaved
  <2> SUFFICES ASSUME IInv, SessionInv PROVE AnswersAreSaved
    OBVIOUS
  <2>t. SessionsOwned /\ SecretsTold /\ LeavingTold
    BY DEF IInv, SessionInv
  <2>1. \A i \in Told("account") \ Told("leaving") : disk[i] # None
    BY <2>t DEF LeavingTold
  <2>2. ASSUME NEW t \in Told("session"), t \notin Told("left"), ~Exempt(t)
        PROVE  t \in ToSet(disk[owner[t][2]].tokens)
    <3>1. Stored(t)
      BY <2>2 DEF SessionInv, TokenKept
    <3>2. PICK j \in Id : disk[j] # None /\ t \in ToSet(disk[j].tokens)
      BY <3>1 DEF Stored
    <3>3. owner[t] = <<"token", j>>
      BY <2>t, <3>2 DEF SessionsOwned, Owns
    <3> QED BY <3>2, <3>3
  <2> QED BY <2>1, <2>2 DEF AnswersAreSaved, Exempt
<1> QED BY <1>1, NobodyTold, Invariance, NextKeepsSessions, PTL DEF Spec

\* A session whose user was told that it is over does not come back, except as the
\* property says (store.go:238-244, server_test.go:252-255).
THEOREM SignedOutIsFinal == Spec => []SignedOutStaysOut
<1>1. IInv /\ SessionInv => SignedOutStaysOut
  <2> SUFFICES ASSUME IInv, SessionInv, NEW t \in Told("out"), ~Exempt(t), t \notin Told("unsaved")
               PROVE  byToken[t] = None
    BY DEF SignedOutStaysOut, Exempt
  <2>1. t \in Told("session")
    BY DEF SessionInv, SecretsTold
  <2>2. ~Open(t)
    BY <2>1 DEF SessionInv, TokenKept
  <2> QED BY <2>2 DEF Open
<1> QED BY <1>1, NobodyTold, Invariance, NextKeepsSessions, PTL DEF Spec

=============================================================================
