--------------------------- MODULE SyncRefinement ---------------------------
(***************************************************************************)
(* SyncStore implements SharedFile: the file is what HEAD names, and a     *)
(* request takes effect when HEAD is written.                              *)
(***************************************************************************)
EXTENDS SyncStore

\* How far goroutine g is, as the devices see it.
Stage(g) ==
    CASE g.at \in {"sync", "merged", "written"} -> "asked"
      [] g.at = "headed"                       -> "merged"
      [] g.at = "ok"                           -> "ok"
      [] g.at \in {"failed", "refused"} /\ g.device # Nobody -> "failed"
      [] OTHER                                 -> "none"

\* The answer is fixed once the request took effect.
RequestOf(g) ==
    [st     |-> Stage(g),
     base   |-> IF Stage(g) = "none" THEN NoVersion ELSE g.base,
     local  |-> IF Stage(g) = "none" THEN << >> ELSE g.local,
     answer |-> IF Stage(g) \in {"merged", "ok"} THEN g.merged ELSE << >>]

\* The file of an account that accounts.json does not have is nobody's.
CurrentFile == IF saved THEN Contents(head) ELSE << >>

Shared == INSTANCE SharedFile WITH
             current <- CurrentFile,
             open <- saved,
             request <- [h \in Handler |-> RequestOf(handler[h])]

\* Each request takes effect at one moment, whole and at most once, on the file
\* as it is at that moment, and its answer is the file right after, whatever the
\* other requests, the crashes and the errors do (the lock and the order of the
\* writes in store.go:370-406).
ImplementsSharedFile == Shared!Spec

=============================================================================
