------------------------------ MODULE Accounts ------------------------------
(***************************************************************************)
(* The accounts of the server: sign-up, sign-in, sign-out, the link that   *)
(* confirms an email address, and the end of an account (Store in          *)
(* src/store.go, behind the handlers of src/main.go).                      *)
(*                                                                         *)
(* An account is an object in memory, which the maps of the Store and the  *)
(* goroutines refer to; its name here is its ID.  An operation of the      *)
(* Store runs under s.mu and is one step, with its write of accounts.json, *)
(* which replaces the file as a whole or fails and leaves it.  A handler   *)
(* is several such steps, and others run in between.  A crash takes the    *)
(* memory; openStore builds it again from accounts.json.                   *)
(*                                                                         *)
(* Tokens and codes are random: the n-th one drawn is the number n.  The   *)
(* server keeps their digests, which stand for them here.  A wrong         *)
(* password or a limit of requests changes nothing, and is left out.       *)
(***************************************************************************)
EXTENDS Keeping, FiniteSets

CONSTANTS
    Id,            \* accounts that can be made
    Email,
    Handler,       \* goroutines
    None,          \* no account, no code
    maxTokens,     \* sessions of an account, of store.go
    Faults,        \* the kinds of fault that may happen
    MaxFaults,     \* bound: faults
    MaxSecrets,    \* bound: tokens and codes drawn
    MaxRemovals    \* bound: requests that delete the same account at once

Secret == 1..MaxSecrets

Account == [email  : Email,
            tokens : {s \in Seq(Secret) : Len(s) <= maxTokens},
            verify : Secret \cup {None}]

ASSUME AccountsAssumption ==
    /\ None \notin Id \cup Nat \cup Account \cup ({"token", "code"} \X Id)
    /\ maxTokens \in Nat \ {0}
    /\ Faults \subseteq {"io", "mail", "crash"}
    /\ MaxFaults \in Nat /\ MaxSecrets \in Nat /\ MaxRemovals \in Nat

VARIABLES
    account,    \* the objects, None for one that was never made
    accounts,   \* s.accounts: its keys
    byEmail,    \* s.byEmail
    byToken,    \* s.byToken
    disk,       \* accounts.json
    handler,    \* the goroutines
    drawn,      \* how many secrets were drawn
    owner,      \* what a secret was drawn for, and for which account
    mailed,     \* the codes of the links that arrived
    told,       \* what users were told, or asked for
    faults      \* faults so far

index == <<accounts, byEmail, byToken>>
store == <<account, index, disk>>
vars  == <<store, handler, drawn, owner, mailed, told, faults>>

Idle   == [at |-> "idle", id |-> None, code |-> None]

At(h, step) == handler[h].at = step

GoTo(h, step, id, code) ==
    handler' = [handler EXCEPT ![h] = [at |-> step, id |-> id, code |-> code]]

Done(h) == handler' = [handler EXCEPT ![h] = Idle]

Fault(kind) == /\ kind \in Faults
               /\ faults < MaxFaults
               /\ faults' = faults + 1

\* A new secret, a token or a code of account i.
Draw(kind, i) == /\ drawn < MaxSecrets
                 /\ drawn' = drawn + 1
                 /\ owner' = [owner EXCEPT ![drawn + 1] = <<kind, i>>]

Tell(fact, x) == told' = told \cup {<<fact, x>>}

Told(fact) == {x \in Id \cup Secret : <<fact, x>> \in told}

\* The server refers to account i by the token of a session.
Session(i) == \E t \in Told("session") : byToken[t] = i

\* accounts.json gets the accounts that memory has now.
Save(keys, objects) ==
    /\ disk' = [i \in Id |-> IF i \in keys THEN objects[i] ELSE None]
    /\ UNCHANGED faults

SaveFails == Fault("io") /\ UNCHANGED disk

Init ==
    /\ account = [i \in Id |-> None]
    /\ accounts = {}
    /\ byEmail = [e \in Email |-> None]
    /\ byToken = [t \in Secret |-> None]
    /\ disk = [i \in Id |-> None]
    /\ handler = [h \in Handler |-> Idle]
    /\ drawn = 0 /\ owner = [s \in Secret |-> None]
    /\ mailed = {} /\ told = {} /\ faults = 0

-----------------------------------------------------------------------------
(***************************************************************************)
(* Sign-up and sign-in.                                                    *)
(***************************************************************************)

\* The slip: the index by email keeps the account that could not be saved.
SignUpHalfUndone(h, e, i) ==
    /\ At(h, "idle") /\ byEmail[e] = None /\ account[i] = None
    /\ Draw("code", i)
    /\ account' = [account EXCEPT ![i] =
          [email |-> e, tokens |-> << >>, verify |-> drawn + 1]]
    /\ byEmail' = [byEmail EXCEPT ![e] = i]
    /\ \/ accounts' = accounts \cup {i} /\ Save(accounts \cup {i}, account') /\ GoTo(h, "mail", i, drawn + 1)
       \/ SaveFails /\ UNCHANGED <<accounts, handler>>
    /\ UNCHANGED <<byToken, mailed, told>>

\* A user makes an account.  An email address that has one is refused.  When
\* accounts.json cannot be written, the account is taken out again.
SignUp(h, e, i) ==
    /\ At(h, "idle")
    /\ byEmail[e] = None
    /\ account[i] = None
    /\ Draw("code", i)
    /\ account' = [account EXCEPT ![i] =
          [email |-> e, tokens |-> << >>, verify |-> drawn + 1]]
    /\ \/ /\ accounts' = accounts \cup {i}
          /\ byEmail' = [byEmail EXCEPT ![e] = i]
          /\ Save(accounts \cup {i}, account')
          /\ GoTo(h, "mail", i, drawn + 1)
          /\ Tell("account", i)
       \/ /\ SaveFails
          /\ UNCHANGED <<accounts, byEmail, handler, told>>
    /\ UNCHANGED <<byToken, mailed>>

\* The link goes out.  When it does not, sign-up goes on all the same, and a
\* request for another link ends.
Mail(h) ==
    /\ \/ At(h, "mail") /\ GoTo(h, "signin", handler[h].id, None)
       \/ At(h, "mailagain") /\ Done(h)
    /\ \/ mailed' = mailed \cup {handler[h].code} /\ UNCHANGED faults
       \/ Fault("mail") /\ UNCHANGED mailed
    /\ UNCHANGED <<store, drawn, owner, told>>

\* The password is right, for the account that has the email now.
Check(h, e) ==
    /\ At(h, "idle")
    /\ byEmail[e] # None
    /\ GoTo(h, "signin", byEmail[e], None)
    /\ UNCHANGED <<store, drawn, owner, mailed, told, faults>>

\* The slip: the newest session goes when there are too many.
NewestTokenGoes(tokens) ==
    IF Len(tokens) > maxTokens THEN SubSeq(tokens, 1, maxTokens) ELSE tokens

\* The slip: none goes.
NoTokenGoes(tokens) == tokens

\* The sessions that stay: the oldest goes first.
Kept(tokens) ==
    LET n == Len(tokens)
    IN  IF n > maxTokens THEN SubSeq(tokens, n - maxTokens + 1, n) ELSE tokens

\* The account gets a new token, if it is there still.  The user gets the token
\* when accounts.json was written.
SignIn(h) ==
    LET i      == handler[h].id
        t      == drawn + 1
        tokens == Kept(Append(account[i].tokens, t))
    IN  /\ At(h, "signin")
        /\ Done(h)
        /\ \/ /\ i \notin accounts
              /\ UNCHANGED <<store, drawn, owner, told, faults>>
           \/ /\ i \in accounts
              /\ Draw("token", i)
              /\ account' = [account EXCEPT ![i].tokens = tokens]
              /\ byToken' = [s \in Secret |->
                    IF s \in ToSet(tokens) THEN i
                    ELSE IF s \in ToSet(account[i].tokens) THEN None
                    ELSE byToken[s]]
              /\ \/ Save(accounts, account') /\ Tell("session", t)
                 \/ SaveFails /\ UNCHANGED told
              /\ UNCHANGED <<accounts, byEmail>>
        /\ UNCHANGED mailed

\* The slip: the token leaves memory alone.
SignOutUnsaved(t) ==
    LET i == byToken[t]
    IN  /\ t \in Told("session") /\ i # None
        /\ byToken' = [byToken EXCEPT ![t] = None]
        /\ account' = [account EXCEPT ![i].tokens = Keep(@, Secret \ {t})]
        /\ told' = told \cup {<<"left", t>>, <<"out", t>>}
        /\ UNCHANGED <<accounts, byEmail, disk, faults, handler, drawn, owner, mailed>>

\* A user signs out.  A token that the server does not know is no error.
SignOut(t) ==
    LET i == byToken[t]
    IN  /\ t \in Told("session")
        /\ \/ /\ i = None
              /\ told' = told \cup {<<"left", t>>, <<"out", t>>}
              /\ UNCHANGED <<store, faults>>
           \/ /\ i # None
              /\ byToken' = [byToken EXCEPT ![t] = None]
              /\ account' = [account EXCEPT
                    ![i].tokens = Keep(@, Secret \ {t})]
              /\ \/ Save(accounts, account') /\ told' = told \cup {<<"left", t>>, <<"out", t>>}
                 \/ SaveFails /\ told' = told \cup {<<"left", t>>, <<"unsaved", t>>}
              /\ UNCHANGED <<accounts, byEmail>>
        /\ UNCHANGED <<handler, drawn, owner, mailed>>

-----------------------------------------------------------------------------
(***************************************************************************)
(* The link that confirms the email address.                               *)
(***************************************************************************)

\* A user whose address is not confirmed asks for another link.
AskLink(h, i) ==
    /\ At(h, "idle")
    /\ Session(i)
    /\ account[i].verify # None
    /\ GoTo(h, "newcode", i, None)
    /\ UNCHANGED <<store, drawn, owner, mailed, told, faults>>

\* The slip: the link goes out whether its code is saved or not.
NewCodeUnsaved(h) ==
    LET i == handler[h].id
    IN  /\ At(h, "newcode") /\ i \in accounts
        /\ Draw("code", i)
        /\ account' = [account EXCEPT ![i].verify = drawn + 1]
        /\ GoTo(h, "mailagain", i, drawn + 1)
        /\ Save(accounts, account') \/ SaveFails
        /\ UNCHANGED <<index, mailed, told>>

\* The new code replaces the old one, whatever the account became since.
NewCode(h) ==
    LET i == handler[h].id
    IN  /\ At(h, "newcode")
        /\ \/ /\ i \notin accounts
              /\ Done(h)
              /\ UNCHANGED <<account, disk, drawn, owner, faults>>
           \/ /\ i \in accounts
              /\ Draw("code", i)
              /\ account' = [account EXCEPT ![i].verify = drawn + 1]
              /\ \/ Save(accounts, account') /\ GoTo(h, "mailagain", i, drawn + 1)
                 \/ SaveFails /\ Done(h)
        /\ UNCHANGED <<index, mailed, told>>

\* Someone opens a link that arrived.
Confirm(c) ==
    /\ c \in mailed
    /\ \E i \in accounts :
          /\ account[i].verify = c
          /\ account' = [account EXCEPT ![i].verify = None]
          /\ Save(accounts, account') \/ SaveFails
    /\ UNCHANGED <<index, handler, drawn, owner, mailed, told>>

-----------------------------------------------------------------------------
(***************************************************************************)
(* The end of an account.                                                  *)
(***************************************************************************)
Removing(i) == {h \in Handler : handler[h].at \in {"check", "remove"} /\ handler[h].id = i}

\* A signed-in user asks to delete the account, perhaps while another request to
\* delete it is under way.
AskRemove(h, i) ==
    /\ At(h, "idle")
    /\ Session(i)
    /\ Cardinality(Removing(i)) < MaxRemovals
    /\ GoTo(h, "check", i, None)
    /\ told' = told \cup {<<"leaving", i>>} \cup {<<"twice", i>> : g \in Removing(i)}
    /\ UNCHANGED <<store, drawn, owner, mailed, faults>>

\* The password is checked with the account that has the email now.
CheckRemove(h) ==
    /\ At(h, "check")
    /\ IF byEmail[account[handler[h].id].email] # None
       THEN GoTo(h, "remove", handler[h].id, None)
       ELSE Done(h)
    /\ UNCHANGED <<store, drawn, owner, mailed, told, faults>>

\* The slip: an error of accounts.json goes unseen.
RemoveUnseenError(h) ==
    LET i == handler[h].id
    IN  /\ At(h, "remove") /\ Done(h)
        /\ accounts' = accounts \ {i}
        /\ byEmail' = [byEmail EXCEPT ![account[i].email] = None]
        /\ byToken' = [t \in Secret |->
              IF t \in ToSet(account[i].tokens) THEN None ELSE byToken[t]]
        /\ Save(accounts \ {i}, account) \/ SaveFails
        /\ Tell("deleted", i)
        /\ UNCHANGED <<account, drawn, owner, mailed>>

\* The account leaves the maps, with its email and its tokens.
RemoveAccount(h) ==
    LET i == handler[h].id
    IN  /\ At(h, "remove")
        /\ Done(h)
        /\ accounts' = accounts \ {i}
        /\ byEmail' = [byEmail EXCEPT ![account[i].email] = None]
        /\ byToken' = [t \in Secret |->
              IF t \in ToSet(account[i].tokens) THEN None ELSE byToken[t]]
        /\ \/ Save(accounts \ {i}, account) /\ Tell("deleted", i)
           \/ SaveFails /\ UNCHANGED told
        /\ UNCHANGED <<account, drawn, owner, mailed>>

-----------------------------------------------------------------------------
\* The server dies and starts again with what accounts.json holds.  When two
\* accounts there have one email, the one made last has it then.
Crash ==
    LET there == {i \in Id : disk[i] # None}
        having(e) == {i \in there : disk[i].email = e}
    IN  /\ Fault("crash")
        /\ accounts' = there
        /\ account' = [i \in Id |-> IF i \in there THEN disk[i] ELSE account[i]]
        /\ \E last \in [Email -> Id \cup {None}] :
              /\ \A e \in Email : IF having(e) = {} THEN last[e] = None
                                                    ELSE last[e] \in having(e)
              /\ byEmail' = last
        /\ byToken' = [t \in Secret |->
              IF \E i \in there : t \in ToSet(disk[i].tokens)
              THEN CHOOSE i \in there : t \in ToSet(disk[i].tokens) ELSE None]
        /\ handler' = [h \in Handler |-> Idle]
        /\ UNCHANGED <<disk, drawn, owner, mailed, told>>

Next == \/ \E h \in Handler :
              \/ Mail(h) \/ SignIn(h) \/ NewCode(h) \/ CheckRemove(h) \/ RemoveAccount(h)
              \/ \E e \in Email : Check(h, e) \/ \E i \in Id : SignUp(h, e, i)
              \/ \E i \in accounts : AskLink(h, i) \/ AskRemove(h, i)
        \/ \E s \in Secret : SignOut(s) \/ Confirm(s)
        \/ Crash

Spec == Init /\ [][Next]_vars

-----------------------------------------------------------------------------
Goroutine ==
    [at   : {"idle", "mail", "signin", "newcode", "mailagain", "check", "remove"},
     id   : Id \cup {None},
     code : Secret \cup {None}]

\* The types of the variables; no account has more than maxTokens sessions
\* (store.go:23).
TypeOK ==
    /\ account \in [Id -> Account \cup {None}]
    /\ disk \in [Id -> Account \cup {None}]
    /\ accounts \in SUBSET Id
    /\ byEmail \in [Email -> Id \cup {None}]
    /\ byToken \in [Secret -> Id \cup {None}]
    /\ handler \in [Handler -> Goroutine]
    /\ drawn \in 0..MaxSecrets
    /\ owner \in [Secret -> ({"token", "code"} \X Id) \cup {None}]
    /\ mailed \in SUBSET Secret
    /\ faults \in 0..MaxFaults

\* The emails of accounts that two requests deleted at once.
Torn == {account[i].email : i \in Told("twice")}

\* The three maps tell the same: an account is found by its email and by each of
\* its tokens, and by nothing else, whatever failed or raced before
\* (store.go:94-100, 186-189, 219-225, 234-243, 349-354).  Alone the second of two
\* requests that delete an account at once may take its email from the account that
\* has it since; nobody else's.
IndexesAgree ==
    /\ \A i \in accounts : byEmail[account[i].email] = i \/ account[i].email \in Torn
    /\ \A e \in Email : byEmail[e] # None =>
          byEmail[e] \in accounts /\ account[byEmail[e]].email = e
    /\ \A t \in Secret, i \in Id :
          byToken[t] = i <=> i \in accounts /\ t \in ToSet(account[i].tokens)

\* Tokens of account i that were given after token t.
After(t, i) == {s \in Secret : s > t /\ owner[s] = <<"token", i>>}

\* What a user was told is on disk: the account until somebody asks to delete it,
\* and the session until it is signed out or maxTokens newer ones took its place
\* (store.go:102-112, 186-190, 219-226).
AnswersAreSaved ==
    /\ \A i \in Told("account") \ Told("leaving") : disk[i] # None
    /\ \A t \in Told("session") \ Told("left") :
          LET i == owner[t][2]
          IN  \/ i \in Told("leaving")
              \/ Cardinality(After(t, i)) >= maxTokens
              \/ t \in ToSet(disk[i].tokens)

\* A link that a newer one replaced does not confirm the address, also after a
\* restart (main.go:379: "it is wrong, or a newer email replaced it").
NewestLinkCounts ==
    \A i \in accounts :
        account[i].verify \in mailed =>
            \A c \in mailed : owner[c] = <<"code", i>> => c <= account[i].verify

\* An account whose user was told that it is deleted is gone for good, also after
\* a restart and for the requests that were under way (store.go:349-358, 217, 291).
DeletedForGood ==
    \A i \in Told("deleted") : i \notin accounts /\ disk[i] = None

\* Two accounts never have one email (store.go:28: "an account with this email
\* exists already"; store.go:180-182).
OneAccountPerEmail ==
    \A i, j \in accounts : account[i].email = account[j].email => i = j

\* A session whose user was told that it is over stays over, also after a restart
\* (server_test.go:252-255: "still signed in after sign out"), unless memory had lost
\* it before in a write that failed, and the sign-out found nothing to do: that of an
\* earlier try (store.go:238-244), of the deletion of the account, or of a sign-in that
\* took its place.
SignedOutStaysOut ==
    \A t \in Told("out") :
        LET i == owner[t][2]
        IN  \/ byToken[t] = None
            \/ t \in Told("unsaved")
            \/ i \in Told("leaving")
            \/ Cardinality(After(t, i)) >= maxTokens

=============================================================================
