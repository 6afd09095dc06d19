-------------------------- MODULE PinnedResolution --------------------------
(***************************************************************************)
(* What resolveGitDependency promises its caller (pkg/src/gitdep.hpp), for *)
(* one dependency: "pinnedCommit, if non-empty, is checked out directly    *)
(* [...] if pinnedCommit is empty, dep.branch/tag/rev is checked out       *)
(* instead".  The commit of the ref is looked up at one moment of the      *)
(* resolution, whatever the remote does before and after; if there is no   *)
(* such ref then, nothing is delivered.                                    *)
(***************************************************************************)
CONSTANTS Commits, NoCommit

VARIABLES
    head,       \* where the wanted ref is on the remote, NoCommit if nowhere
    phase,      \* "idle", "busy" resolving, or "have" a result
    pinned,     \* the pin of this resolution, NoCommit if none
    snap,       \* where the ref was when it was looked up
    got         \* the result

vars == <<head, phase, pinned, snap, got>>

Init ==
    /\ head \in Commits \cup {NoCommit}
    /\ phase = "idle"
    /\ pinned = NoCommit /\ snap = NoCommit /\ got = NoCommit

\* The remote moves, at any time.
Move == head' \in Commits \cup {NoCommit} /\ UNCHANGED <<phase, pinned, snap, got>>

Begin ==
    /\ phase = "idle"
    /\ phase' = "busy"
    /\ pinned' \in Commits \cup {NoCommit}
    /\ UNCHANGED <<head, snap, got>>

LookUp ==
    /\ phase = "busy" /\ snap = NoCommit
    /\ snap' = head
    /\ UNCHANGED <<head, phase, pinned, got>>

Deliver ==
    /\ phase = "busy" /\ snap # NoCommit
    /\ phase' = "have"
    /\ got' = IF pinned # NoCommit THEN pinned ELSE snap
    /\ snap' = NoCommit
    /\ UNCHANGED <<head, pinned>>

\* The caller is done with the result, or the resolution failed.
Finish ==
    /\ phase # "idle"
    /\ phase' = "idle"
    /\ pinned' = NoCommit /\ snap' = NoCommit /\ got' = NoCommit
    /\ UNCHANGED head

Next == Move \/ Begin \/ LookUp \/ Deliver \/ Finish

Spec == Init /\ [][Next]_vars
=============================================================================
