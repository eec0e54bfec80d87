----------------------------- MODULE SharedFile -----------------------------
(***************************************************************************)
(* What the server promises to the devices of an account: there is one     *)
(* file; a request takes effect on it at one moment between its question   *)
(* and its answer, whole and at most once; the effect is a merge with what *)
(* the file is at that moment; the answer is the file right after it.  An  *)
(* error tells nothing: the request may have had its effect.  When the     *)
(* account goes, the file goes, and no request brings it back.             *)
(*                                                                         *)
(* The locks, the version files and HEAD of the server are not here: this  *)
(* is the specification that SyncStore implements.                         *)
(***************************************************************************)
CONSTANTS
    Handler,        \* names of requests
    NoVersion,      \* the base of a device that has none
    merge(_, _, _)  \* the merge of base, device and file

VARIABLES current,     \* the file
          open,        \* the account exists
          request      \* the requests

vars == <<current, open, request>>

None == [st |-> "none", base |-> NoVersion, local |-> << >>, answer |-> << >>]

Init == /\ current = << >>
        /\ open = TRUE
        /\ request = [h \in Handler |-> None]

\* The server may have lost the text of a base.
BaseTexts(v) == {<< >>} \cup ({v} \ {NoVersion})

\* A device asks, with any file and any base.
Ask(h) ==
    /\ request[h] = None
    /\ request' = [request EXCEPT ![h] = request'[h]]
    /\ request'[h].st = "asked"
    /\ request'[h].answer = << >>
    /\ UNCHANGED <<current, open>>

\* The request goes on, its question staying what it is.
Becomes(h, st, answer) ==
    request' = [request EXCEPT ![h] = [st |-> st, base |-> request[h].base,
                                       local |-> request[h].local, answer |-> answer]]

\* The request takes effect.
Merge(h) ==
    /\ request[h].st = "asked"
    /\ open
    /\ \E old \in BaseTexts(request[h].base) :
          current' = merge(old, request[h].local, current)
    /\ Becomes(h, "merged", current')
    /\ UNCHANGED open

Answer(h) ==
    /\ request[h].st = "merged"
    /\ Becomes(h, "ok", request[h].answer)
    /\ UNCHANGED <<current, open>>

Fail(h) ==
    /\ request[h].st \in {"asked", "merged"}
    /\ Becomes(h, "failed", << >>)
    /\ UNCHANGED <<current, open>>

\* Requests end: their answer arrived, or the server stopped.
End == /\ \E H \in SUBSET Handler :
             request' = [h \in Handler |-> IF h \in H THEN None ELSE request[h]]
       /\ UNCHANGED <<current, open>>

\* The user deletes the account.
Close == /\ open' = FALSE
         /\ current' = << >>
         /\ UNCHANGED request

Next == \/ \E h \in Handler : Ask(h) \/ Merge(h) \/ Answer(h) \/ Fail(h)
        \/ End
        \/ Close

Spec == Init /\ [][Next]_vars

=============================================================================
