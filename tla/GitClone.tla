------------------------------ MODULE GitClone ------------------------------
(***************************************************************************)
(* What ebpm relies on git for: a clone of one remote repository, and the  *)
(* commands pkg/src/gitdep.cpp runs in it.  Git itself is not part of the  *)
(* repository; every operator below is one command line of                 *)
(* cloneOrFetch/resolveGitDependency, reduced to what it does to HEAD, to  *)
(* the local branches and to the remote-tracking refs.                     *)
(*                                                                         *)
(* Histories only grow (nothing is force-pushed or deleted), so a commit   *)
(* that was ever fetched stays available and is found by its id.           *)
(***************************************************************************)
CONSTANTS
    Commits,        \* commit ids, of every repository
    Names,          \* names a ref can have: branches and tags
    DefaultBranch,  \* the branch origin/HEAD points to
    NoCommit,       \* "this ref does not exist"
    Detached        \* HEAD is not on a branch

ASSUME GitAssumption ==
    /\ DefaultBranch \in Names
    /\ NoCommit \notin Commits
    /\ Detached \notin Names
    /\ Names \cap Commits = {}

MaybeCommit == Commits \cup {NoCommit}

\* A remote: where its branches and its tags point.
Remotes == [heads : [Names -> MaybeCommit], tags : [Names -> MaybeCommit]]

\* A clone: HEAD is on branch `head`, or detached at commit `at`.
Clones == [head   : Names \cup {Detached},
           at     : MaybeCommit,
           local  : [Names -> MaybeCommit],
           origin : [Names -> MaybeCommit],
           tags   : [Names -> MaybeCommit]]

\* git rev-parse HEAD
HeadOf(c) == IF c.head = Detached THEN c.at ELSE c.local[c.head]

\* git clone <url> <dir>: only the default branch gets a local branch.
CloneOf(r) ==
    [head   |-> DefaultBranch,
     at     |-> NoCommit,
     local  |-> [n \in Names |-> IF n = DefaultBranch THEN r.heads[n]
                                                       ELSE NoCommit],
     origin |-> r.heads,
     tags   |-> r.tags]

\* git fetch: remote-tracking refs follow the remote; a tag that is already
\* here is not moved.
Fetch(c, r) ==
    [c EXCEPT !.origin = r.heads,
              !.tags = [n \in Names |-> IF c.tags[n] = NoCommit THEN r.tags[n]
                                                                ELSE c.tags[n]]]

\* git reset -q --hard origin/HEAD: moves the branch HEAD is on, or HEAD
\* itself when it is detached.
ResetToOriginHead(c) ==
    IF c.head = Detached
    THEN [c EXCEPT !.at = c.origin[DefaultBranch]]
    ELSE [c EXCEPT !.local[c.head] = c.origin[DefaultBranch]]

DetachAt(c, x) == [c EXCEPT !.head = Detached, !.at = x]

\* git checkout origin/<branch>
CanCheckoutOrigin(c, b) == c.origin[b] # NoCommit
CheckoutOrigin(c, b) == DetachAt(c, c.origin[b])

\* git checkout <ref>, ref a commit id or a bare name.  A bare name is a
\* local branch if there is one, else a tag, else (git's "DWIM") a new local
\* branch tracking origin's branch of that name.
CanCheckout(c, ref) ==
    \/ ref \in Commits
    \/ ref \in Names /\ \/ c.local[ref] # NoCommit
                        \/ c.tags[ref] # NoCommit
                        \/ c.origin[ref] # NoCommit

Checkout(c, ref) ==
    IF ref \in Commits THEN DetachAt(c, ref)
    ELSE IF c.local[ref] # NoCommit THEN [c EXCEPT !.head = ref]
    ELSE IF c.tags[ref] # NoCommit THEN DetachAt(c, c.tags[ref])
    ELSE [c EXCEPT !.head = ref, !.local[ref] = c.origin[ref]]
=============================================================================
