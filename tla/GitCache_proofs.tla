--------------------------- MODULE GitCache_proofs ---------------------------
(***************************************************************************)
(* The git cache, for every remote repository, every number of processes   *)
(* and every fault: what holds of the directory whoever uses it, and what  *)
(* holds for the one process that has it to itself.                        *)
(***************************************************************************)
EXTENDS GitCache, FiniteSetTheorems, TLAPS

USE GitAssumption, CacheAssumption

TypeOK ==
    /\ world \in Worlds
    /\ remote \in Remotes
    /\ disk \in {"absent", "partial", "ready"}
    /\ clone \in Clones
    /\ pc \in [Users -> Steps]
    /\ kind \in [Users -> world.kinds]
    /\ pinned \in [Users -> MaybeCommit]
    /\ got \in [Users -> MaybeCommit]
    /\ compiled \in [Users -> MaybeCommit]
    /\ pin \in [Users -> MaybeCommit]
    /\ seen \in [Users -> SUBSET MaybeCommit]

\* The bare checkout is the second try of a branch.
BareIsBranch == \A p \in Users : pc[p] = "bare" => kind[p] = "branch"

\* One process at most is in a clone, and the directory shows it.
OneClones ==
    \A p \in Users : pc[p] = "cloning" =>
        /\ disk = "partial"
        /\ \A q \in Users : pc[q] = "cloning" => q = p

\* Who made a partial directory is still there, if nobody dies.
PartialHasOwner ==
    disk = "partial" /\ "crash" \notin world.faults
        => \E p \in Users : pc[p] = "cloning"

\* From the result on, the working tree is the result's: nobody else moves it.
TreeIsResult ==
    Solo =>
        /\ pc[Alone] \in {"compile", "lock"} => got[Alone] = HeadOf(clone)
        /\ pc[Alone] = "lock" => compiled[Alone] = got[Alone]

Inv == TypeOK /\ BareIsBranch /\ OneClones /\ PartialHasOwner /\ TreeIsResult

\* A bare ref (a tag, a rev, the ref of an index entry) is no branch's name:
\* git prefers a local branch, which nobody moves (GitCacheRef).
NoBareBranch ==
    \A w \in Worlds :
        "bare" \in w.kinds => Remote0.heads[w.selector] = NoCommit

\* Refs neither come nor go, and tags do not move.
RefsStay ==
    /\ remote.tags = Remote0.tags
    /\ clone.tags = Remote0.tags
    /\ \A n \in Names :
          /\ remote.heads[n] = NoCommit <=> Remote0.heads[n] = NoCommit
          /\ clone.origin[n] = NoCommit <=> Remote0.heads[n] = NoCommit
          /\ clone.local[n] # NoCommit => Remote0.heads[n] # NoCommit

\* The only branch a process is ever on is the one git clone made, and the
\* second try is for what is no branch.
OnDefault ==
    /\ clone.head \in {DefaultBranch, Detached}
    /\ \A p \in Users : pc[p] = "bare" =>
          pinned[p] = NoCommit /\ Remote0.heads[Selector] = NoCommit

\* Where the wanted ref was when the clone last heard of it.
Known(p) == WantedOn([heads |-> clone.origin, tags |-> clone.tags], kind[p])

\* The steps of one process that has the directory to itself.
Resolving ==
    Solo =>
        LET p == Alone IN
        /\ pc[p] \in {"checkout", "bare", "rev-parse"} => disk = "ready"
        /\ pc[p] = "checkout" => HeadOf(clone) = clone.origin[DefaultBranch]
        /\ pc[p] = "rev-parse" =>
              HeadOf(clone) = IF pinned[p] # NoCommit THEN pinned[p]
                                                      ELSE Known(p)

\* What was resolved once exists: so does the ref of every pin.
PinnedExists ==
    Solo =>
        LET p == Alone IN
        \/ pc[p] \in {"rev-parse", "compile", "lock"}
        \/ pin[p] # NoCommit
        \/ pc[p] # "idle" /\ pinned[p] # NoCommit
        => WantedOn(Remote0, kind[p]) # NoCommit

\* What a build has seen of the ref, and what it got.
Promises ==
    Solo =>
        LET p == Alone IN
        /\ pc[p] # "idle" => WantedOn(remote, kind[p]) \in seen[p]
        /\ Fetched(p) /\ disk = "ready" => Known(p) \in seen[p]
        /\ Have(p) => IF pinned[p] # NoCommit THEN got[p] = pinned[p]
                                              ELSE got[p] \in seen[p]

SoloInv == RefsStay /\ OnDefault /\ Resolving /\ PinnedExists /\ Promises
-----------------------------------------------------------------------------
(* What the git commands do to a clone.                                      *)

LEMMA HeadOfType ==
    ASSUME NEW c \in Clones
    PROVE  HeadOf(c) \in MaybeCommit
BY DEF HeadOf, Clones

LEMMA CloneOfType ==
    ASSUME NEW r \in Remotes
    PROVE  /\ CloneOf(r) \in Clones
           /\ CloneOf(r).origin = r.heads
           /\ CloneOf(r).tags = r.tags
           /\ CloneOf(r).head = DefaultBranch
           /\ HeadOf(CloneOf(r)) = r.heads[DefaultBranch]
           /\ \A n \in Names : CloneOf(r).local[n] \in {r.heads[n], NoCommit}
<1>1. DefaultBranch # Detached
  OBVIOUS
<1> QED BY <1>1 DEF CloneOf, Clones, Remotes, MaybeCommit, HeadOf

LEMMA FetchType ==
    ASSUME NEW c \in Clones, NEW r \in Remotes
    PROVE  /\ Fetch(c, r) \in Clones
           /\ Fetch(c, r).origin = r.heads
           /\ Fetch(c, r).local = c.local
           /\ Fetch(c, r).head = c.head
           /\ Fetch(c, r).tags \in [Names -> MaybeCommit]
           /\ \A n \in Names :
                 Fetch(c, r).tags[n] =
                     IF c.tags[n] = NoCommit THEN r.tags[n] ELSE c.tags[n]
BY DEF Fetch, Clones, Remotes

LEMMA DetachType ==
    ASSUME NEW c \in Clones, NEW x \in MaybeCommit
    PROVE  /\ DetachAt(c, x) \in Clones
           /\ DetachAt(c, x).origin = c.origin
           /\ DetachAt(c, x).tags = c.tags
           /\ DetachAt(c, x).local = c.local
           /\ DetachAt(c, x).head = Detached
           /\ HeadOf(DetachAt(c, x)) = x
BY DEF DetachAt, Clones, HeadOf

LEMMA Detaches ==
    ASSUME NEW c \in Clones, NEW x \in MaybeCommit, NEW d, d = DetachAt(c, x)
    PROVE  /\ HeadOf(d) = x /\ d.origin = c.origin /\ d.tags = c.tags
           /\ d.local = c.local /\ d.head = Detached
BY DetachType

LEMMA ResetType ==
    ASSUME NEW c \in Clones
    PROVE  LET d == ResetToOriginHead(c) IN
           /\ d \in Clones
           /\ d.origin = c.origin
           /\ d.tags = c.tags
           /\ d.head = c.head
           /\ HeadOf(d) = c.origin[DefaultBranch]
           /\ \A n \in Names :
                 d.local[n] = IF n = c.head THEN c.origin[DefaultBranch]
                                            ELSE c.local[n]
<1>1. c.origin[DefaultBranch] \in MaybeCommit
  BY DEF Clones
<1>2. CASE c.head = Detached
  <2>1. ResetToOriginHead(c) = [c EXCEPT !.at = c.origin[DefaultBranch]]
    BY <1>2 DEF ResetToOriginHead
  <2> QED BY <1>1, <1>2, <2>1 DEF Clones, HeadOf
<1>3. CASE c.head # Detached
  <2>1. ResetToOriginHead(c) =
            [c EXCEPT !.local[c.head] = c.origin[DefaultBranch]]
    BY <1>3 DEF ResetToOriginHead
  <2>2. c.head \in Names
    BY <1>3 DEF Clones
  <2> QED BY <1>1, <1>3, <2>1, <2>2 DEF Clones, HeadOf
<1> QED BY <1>2, <1>3

LEMMA CheckoutType ==
    ASSUME NEW c \in Clones, NEW ref \in Commits \cup Names,
           CanCheckout(c, ref)
    PROVE  LET d == Checkout(c, ref) IN
           /\ d \in Clones
           /\ d.origin = c.origin
           /\ d.tags = c.tags
<1>1. CASE ref \in Commits
  <2>1. Checkout(c, ref) = DetachAt(c, ref)
    BY <1>1 DEF Checkout
  <2> QED BY <1>1, <2>1, DetachType DEF MaybeCommit
<1>2. CASE ref \in Names /\ c.local[ref] # NoCommit
  <2>1. Checkout(c, ref) = [c EXCEPT !.head = ref]
    BY <1>2 DEF Checkout
  <2> QED BY <1>2, <2>1 DEF Clones
<1>3. CASE ref \in Names /\ c.local[ref] = NoCommit /\ c.tags[ref] # NoCommit
  <2>1. Checkout(c, ref) = DetachAt(c, c.tags[ref])
    BY <1>3 DEF Checkout
  <2>2. c.tags[ref] \in MaybeCommit
    BY <1>3 DEF Clones
  <2> QED BY <2>1, <2>2, DetachType
<1>4. CASE ref \in Names /\ c.local[ref] = NoCommit /\ c.tags[ref] = NoCommit
  <2>1. Checkout(c, ref) = [c EXCEPT !.head = ref, !.local[ref] = c.origin[ref]]
    BY <1>4 DEF Checkout
  <2>2. [c.local EXCEPT ![ref] = c.origin[ref]] \in [Names -> MaybeCommit]
    BY <1>4 DEF Clones
  <2>3. Checkout(c, ref) =
            [head |-> ref, at |-> c.at,
             local |-> [c.local EXCEPT ![ref] = c.origin[ref]],
             origin |-> c.origin, tags |-> c.tags]
    BY <2>1 DEF Clones
  <2> QED BY <1>4, <2>2, <2>3 DEF Clones
<1> QED BY <1>1, <1>2, <1>3, <1>4
-----------------------------------------------------------------------------
(* The invariant of the directory.                                           *)

LEMMA UserWorld ==
    ASSUME TypeOK
    PROVE  /\ Users \subseteq Procs
           /\ Selector \in Names \cup {NoSelector}
           /\ \A p \in Users :
                 /\ kind[p] \in {"default", "branch", "bare"}
                 /\ kind[p] \in world.kinds
                 /\ kind[p] # "default" => Selector \in Names
                 /\ kind[p] = "default" => Selector = NoSelector
           /\ world.commits \subseteq Commits
           /\ Alone \in Users
BY DEF TypeOK, Users, Selector, Alone

LEMMA WantedType ==
    ASSUME TypeOK, NEW p \in Users, NEW r,
           r.heads \in [Names -> MaybeCommit], r.tags \in [Names -> MaybeCommit]
    PROVE  WantedOn(r, kind[p]) \in MaybeCommit
BY UserWorld DEF WantedOn, Either

LEMMA TypeInit == Init => TypeOK
<1> SUFFICES ASSUME Init PROVE TypeOK
  OBVIOUS
<1>1. NoCommit \in MaybeCommit /\ clone \in Clones /\ remote \in Remotes
  BY CloneOfType DEF Init, MaybeCommit
<1> QED BY <1>1 DEF Init, TypeOK, Steps, Users

\* The clone after a checkout is a clone.
LEMMA TypeCheckout ==
    ASSUME TypeOK, BareIsBranch, NEW p \in Users,
           CheckoutPin(p) \/ CheckoutBranch(p) \/ CheckoutBare(p)
    PROVE  clone' \in Clones
<1>1. CASE CheckoutPin(p)
  <2>1. pinned[p] \in Commits /\ CanCheckout(clone, pinned[p])
    BY <1>1 DEF TypeOK, CheckoutPin, MaybeCommit, CanCheckout
  <2> QED BY <1>1, <2>1, CheckoutType DEF CheckoutPin, TypeOK
<1>2. CASE CheckoutBranch(p)
  <2>1. clone \in Clones /\ Selector \in Names
    BY <1>2, UserWorld DEF TypeOK, CheckoutBranch
  <2>2. clone.origin[Selector] \in MaybeCommit
    BY <2>1 DEF Clones
  <2>3. clone' \in {clone, DetachAt(clone, clone.origin[Selector])}
    BY <1>2 DEF CheckoutBranch, CheckoutOrigin
  <2> QED BY <2>1, <2>2, <2>3, DetachType
<1>3. CASE CheckoutBare(p)
  <2>1. clone \in Clones /\ Selector \in Names
    BY <1>3, UserWorld DEF TypeOK, CheckoutBare, BareIsBranch
  <2> QED BY <1>3, <2>1, CheckoutType DEF CheckoutBare
<1> QED BY <1>1, <1>2, <1>3

LEMMA TypeNext ==
    ASSUME TypeOK, BareIsBranch, [Next]_vars
    PROVE  TypeOK'
<1> USE DEF TypeOK
<1>1. NoCommit \in MaybeCommit /\ HeadOf(clone) \in MaybeCommit
  BY HeadOfType DEF MaybeCommit
<1>2. ASSUME NEW p \in Users, NEW s \in Steps, Goto(p, s)
      PROVE  pc' \in [Users -> Steps]
  BY <1>2 DEF Goto
<1>3. ASSUME NEW b \in Names, NEW x \in Commits, Push(b, x)
      PROVE  TypeOK'
  <2>1. remote' \in Remotes
    BY <1>3 DEF Push, Remotes, MaybeCommit
  <2>2. remote'.heads \in [Names -> MaybeCommit] /\ remote'.tags \in [Names -> MaybeCommit]
    BY <2>1 DEF Remotes
  <2>3. \A p \in Users : WantedOn(remote', kind[p]) \in MaybeCommit
    BY <2>2, WantedType
  <2>4. seen' \in [Users -> SUBSET MaybeCommit]
    BY <1>3, <2>3 DEF Push
  <2> QED BY <1>3, <2>1, <2>4 DEF Push, local, Users
<1>4. ASSUME NEW p \in Users, Start(p)
      PROVE  TypeOK'
  <2>1. WantedOn(remote, kind[p]) \in MaybeCommit
    BY WantedType DEF Remotes
  <2>2. pc' \in [Users -> Steps]
    BY <1>4, <1>2 DEF Start, Steps
  <2> QED BY <1>1, <1>4, <2>1, <2>2 DEF Start, Users
<1>5. ASSUME NEW p \in Users, Unpin(p)
      PROVE  TypeOK'
  BY <1>1, <1>5 DEF Unpin, Users
<1>6. ASSUME NEW p \in Users, Exists(p) \/ CloneBegin(p)
      PROVE  TypeOK'
  <2>1. pc' \in [Users -> Steps]
    BY <1>6, <1>2 DEF Exists, CloneBegin, Steps
  <2> QED BY <1>6, <2>1 DEF Exists, CloneBegin, local, Users
<1>7. ASSUME NEW p \in Users, CloneEnd(p) \/ FetchRefs(p) \/ Reset(p)
      PROVE  TypeOK'
  <2>1. pc' \in [Users -> Steps]
    BY <1>7, <1>2 DEF CloneEnd, FetchRefs, Reset, Steps
  <2>2. clone' \in Clones
    <3>1. CASE CloneEnd(p)
      BY <3>1, CloneOfType DEF CloneEnd
    <3>2. CASE FetchRefs(p)
      <4>1. Fetch(clone, remote) \in Clones
        BY FetchType
      <4> QED BY <3>2, <4>1 DEF FetchRefs
    <3>3. CASE Reset(p)
      <4>1. ResetToOriginHead(clone) \in Clones
        BY ResetType
      <4> QED BY <3>3, <4>1 DEF Reset
    <3> QED BY <1>7, <3>1, <3>2, <3>3
  <2> QED BY <1>7, <2>1, <2>2 DEF CloneEnd, FetchRefs, Reset, local, Users
<1>8. ASSUME NEW p \in Users,
             CheckoutPin(p) \/ CheckoutBranch(p) \/ CheckoutBare(p)
      PROVE  TypeOK'
  <2>1. pc' \in [Users -> Steps]
    BY <1>8, <1>2 DEF CheckoutPin, CheckoutBranch, CheckoutBare, Steps
  <2> QED BY <1>8, <2>1, TypeCheckout
          DEF CheckoutPin, CheckoutBranch, CheckoutBare, local, Users
<1>9. ASSUME NEW p \in Users, CheckoutNothing(p) \/ RevParse(p) \/ Compile(p)
                                 \/ WriteLock(p)
      PROVE  TypeOK'
  <2>1. pc' \in [Users -> Steps]
    BY <1>9, <1>2 DEF CheckoutNothing, RevParse, Compile, WriteLock, Steps
  <2> QED BY <1>1, <1>9, <2>1
          DEF CheckoutNothing, RevParse, Compile, WriteLock, local, Users
<1>10. ASSUME NEW p \in Users, GitFails(p) \/ CompileFails(p) \/ Crash(p)
       PROVE  TypeOK'
  <2>1. pc' \in [Users -> Steps]
    BY <1>10, <1>2 DEF GitFails, CompileFails, Crash, Steps
  <2> QED BY <1>10, <2>1 DEF GitFails, CompileFails, Crash, local, Users
<1>11. CASE UNCHANGED vars
  BY <1>11 DEF vars, Users
<1> QED BY <1>3, <1>4, <1>5, <1>6, <1>7, <1>8, <1>9, <1>10, <1>11
        DEF Next, Step

LEMMA InvInit == Init => Inv
BY TypeInit DEF Init, Inv, BareIsBranch, OneClones, PartialHasOwner,
                TreeIsResult, Alone, Solo, Users, TypeOK

LEMMA BareIsBranchNext ==
    ASSUME TypeOK, BareIsBranch, [Next]_vars
    PROVE  BareIsBranch'
<1> USE DEF BareIsBranch, TypeOK
<1>1. ASSUME NEW p \in Users, NEW s \in Steps \ {"bare"}, Goto(p, s),
             UNCHANGED <<world, kind>>
      PROVE  BareIsBranch'
  BY <1>1 DEF Goto, Users
<1>2. ASSUME NEW p \in Users, CheckoutBranch(p)
      PROVE  BareIsBranch'
  BY <1>2 DEF CheckoutBranch, Goto, Users, local
<1>3. ASSUME NEW p \in Users, Step(p)
      PROVE  BareIsBranch'
  BY <1>1, <1>2, <1>3
     DEF Step, Exists, CloneBegin, CloneEnd, FetchRefs, Reset, CheckoutPin,
         CheckoutBare, CheckoutNothing, RevParse, Compile, WriteLock, local,
         Steps
<1>4. ASSUME NEW p \in Users, Start(p) \/ GitFails(p) \/ CompileFails(p) \/ Crash(p)
      PROVE  BareIsBranch'
  BY <1>1, <1>4 DEF Start, GitFails, CompileFails, Crash, local, Steps
<1>5. ASSUME NEW p \in Users, Unpin(p)
      PROVE  BareIsBranch'
  BY <1>5 DEF Unpin, Users
<1>6. ASSUME NEW b \in Names, NEW x \in Commits, Push(b, x)
      PROVE  BareIsBranch'
  BY <1>6 DEF Push, Users, local
<1>7. CASE UNCHANGED vars
  BY <1>7 DEF vars, Users
<1> QED BY <1>3, <1>4, <1>5, <1>6, <1>7 DEF Next

\* A step of a process that is not in a clone, and does not begin one, leaves
\* the directory's existence alone.
LEMMA QuietStep ==
    ASSUME TypeOK, OneClones, PartialHasOwner,
           NEW p \in Users, pc[p] # "cloning",
           NEW s \in Steps \ {"cloning"}, Goto(p, s), UNCHANGED <<world, disk>>
    PROVE  OneClones' /\ PartialHasOwner'
BY DEF TypeOK, OneClones, PartialHasOwner, Goto, Users

LEMMA DirectoryNext ==
    ASSUME TypeOK, OneClones, PartialHasOwner, [Next]_vars
    PROVE  OneClones' /\ PartialHasOwner'
<1> USE DEF TypeOK, OneClones, PartialHasOwner
<1>1. ASSUME NEW p \in Users, CloneBegin(p)
      PROVE  OneClones' /\ PartialHasOwner'
  BY <1>1 DEF CloneBegin, Goto, Users
<1>2. ASSUME NEW p \in Users, CloneEnd(p)
      PROVE  OneClones' /\ PartialHasOwner'
  BY <1>2 DEF CloneEnd, Goto, Users
<1>3. ASSUME NEW p \in Users,
             \/ Exists(p) \/ FetchRefs(p) \/ Reset(p) \/ CheckoutPin(p)
             \/ CheckoutBranch(p) \/ CheckoutBare(p) \/ CheckoutNothing(p)
             \/ RevParse(p) \/ Compile(p) \/ WriteLock(p)
             \/ Start(p) \/ CompileFails(p)
      PROVE  OneClones' /\ PartialHasOwner'
  BY <1>3, QuietStep
     DEF Exists, FetchRefs, Reset, CheckoutPin, CheckoutBranch, CheckoutBare,
         CheckoutNothing, RevParse, Compile, WriteLock, Start, CompileFails,
         Steps
<1>4. ASSUME NEW p \in Users, GitFails(p)
      PROVE  OneClones' /\ PartialHasOwner'
  <2>1. CASE pc[p] = "cloning"
    BY <1>4, <2>1 DEF GitFails, Goto, Users
  <2>2. CASE pc[p] # "cloning"
    BY <1>4, <2>2, QuietStep DEF GitFails, Steps
  <2> QED BY <2>1, <2>2
<1>5. ASSUME NEW p \in Users, Crash(p)
      PROVE  OneClones' /\ PartialHasOwner'
  BY <1>5 DEF Crash, Goto, Users
<1>6. CASE \/ \E p \in Users : Unpin(p)
           \/ \E b \in Names, x \in Commits : Push(b, x)
           \/ UNCHANGED vars
  BY <1>6 DEF Unpin, Push, vars, Users
<1> QED BY <1>1, <1>2, <1>3, <1>4, <1>5, <1>6 DEF Next, Step

LEMMA TreeIsResultNext ==
    ASSUME TypeOK, TreeIsResult, [Next]_vars
    PROVE  TreeIsResult'
<1>1. CASE ~Solo
  <2>1. world' = world
    BY DEF Next, Step, Exists, CloneBegin, CloneEnd, FetchRefs, Reset,
           CheckoutPin, CheckoutBranch, CheckoutBare, CheckoutNothing,
           RevParse, Compile, WriteLock, Start, Unpin, GitFails, CompileFails,
           Crash, Push, vars
  <2> QED BY <1>1, <2>1 DEF TreeIsResult, Solo, Alone, Users
<1>2. ASSUME Solo, NEW p \in Users, p = Alone
      PROVE  Step(p) \/ Start(p) \/ Unpin(p) \/ GitFails(p) \/ CompileFails(p)
                     \/ Crash(p) => TreeIsResult'
  <2> USE <1>2 DEF TypeOK, TreeIsResult, Solo, Alone, Users, Goto
  <2>1. ASSUME pc'[p] \notin {"compile", "lock"}, world' = world
        PROVE  TreeIsResult'
    BY <2>1
  <2>2. ASSUME \/ Exists(p) \/ CloneBegin(p) \/ CloneEnd(p) \/ FetchRefs(p)
               \/ Reset(p) \/ CheckoutPin(p) \/ CheckoutBranch(p)
               \/ CheckoutBare(p) \/ CheckoutNothing(p) \/ WriteLock(p)
               \/ Start(p) \/ GitFails(p) \/ CompileFails(p) \/ Crash(p)
        PROVE  TreeIsResult'
    BY <2>1, <2>2
       DEF Exists, CloneBegin, CloneEnd, FetchRefs, Reset, CheckoutPin,
           CheckoutBranch, CheckoutBare, CheckoutNothing, WriteLock, Start,
           GitFails, CompileFails, Crash
  <2>3. CASE RevParse(p)
    BY <2>3 DEF RevParse
  <2>4. CASE Compile(p)
    BY <2>4 DEF Compile
  <2>5. CASE Unpin(p)
    BY <2>5 DEF Unpin
  <2> QED BY <2>2, <2>3, <2>4, <2>5 DEF Step
<1>3. ASSUME NEW b \in Names, NEW x \in Commits, Push(b, x)
      PROVE  TreeIsResult'
  BY <1>3 DEF Push, local, TreeIsResult, Solo, Alone, Users
<1>4. CASE UNCHANGED vars
  BY <1>4 DEF vars, TreeIsResult, Solo, Alone, Users
<1> QED BY <1>1, <1>2, <1>3, <1>4 DEF Next, Solo

LEMMA InvNext == Inv /\ [Next]_vars => Inv'
BY TypeNext, BareIsBranchNext, DirectoryNext, TreeIsResultNext DEF Inv

THEOREM Invariance == Spec => []Inv
BY InvInit, InvNext, PTL DEF Spec

\* For every number of processes and every fault but the death of one: a
\* directory that holds an unfinished clone is being cloned into by exactly
\* one of them, so no fetch ever meets a clone nobody will finish.
THEOREM PartialIsBeingClonedSafe == Spec => []PartialIsBeingCloned
<1>1. Inv => PartialIsBeingCloned
  <2> SUFFICES ASSUME Inv, disk = "partial", "crash" \notin world.faults
               PROVE  Cardinality({p \in Users : pc[p] = "cloning"}) = 1
    BY DEF PartialIsBeingCloned
  <2>1. PICK p \in Users : pc[p] = "cloning"
    BY DEF Inv, PartialHasOwner
  <2>2. {q \in Users : pc[q] = "cloning"} = {p}
    BY <2>1 DEF Inv, OneClones
  <2> QED BY <2>2, FS_Singleton
<1> QED BY <1>1, Invariance, PTL

\* Whatever fails, and whatever is pushed meanwhile: one process compiles the
\* sources of the commit that it writes into ebasic.lock.
THEOREM CompilesWhatItLocksSafe == Spec => []CompilesWhatItLocks
<1>1. Inv => CompilesWhatItLocks
  BY DEF Inv, TreeIsResult, CompilesWhatItLocks
<1> QED BY <1>1, Invariance, PTL

-----------------------------------------------------------------------------
(* One process, and refs that are what they are named as.                    *)

LEMMA WorldStays ==
    ASSUME [Next]_vars
    PROVE  /\ world' = world /\ kind' = kind
           /\ Users' = Users /\ Selector' = Selector
           /\ Alone' = Alone /\ Solo' = Solo
<1>1. world' = world /\ kind' = kind
  BY DEF Next, Step, Exists, CloneBegin, CloneEnd, FetchRefs, Reset,
         CheckoutPin, CheckoutBranch, CheckoutBare, CheckoutNothing,
         RevParse, Compile, WriteLock, Start, Unpin, GitFails, CompileFails,
         Crash, Push, vars, local
<1> QED BY <1>1 DEF Users, Selector, Alone, Solo

\* The bare checkout finds a tag, or nothing.
LEMMA BareFindsTag ==
    ASSUME NoBareBranch, Inv, RefsStay, OnDefault,
           NEW p \in Users, CheckoutBare(p)
    PROVE  /\ Selector \in Names
           /\ Remote0.heads[Selector] = NoCommit
           /\ pinned[p] = NoCommit
           /\ kind[p] # "default"
           /\ \/ /\ clone.tags[Selector] # NoCommit
                 /\ clone' = DetachAt(clone, clone.tags[Selector])
                 /\ Goto(p, "rev-parse")
              \/ clone' = clone /\ Goto(p, "idle")
<1>1. kind[p] # "default" /\ pinned[p] = NoCommit
  BY DEF Inv, BareIsBranch, CheckoutBare, OnDefault
<1>2. Selector \in Names
  BY <1>1, UserWorld DEF Inv
<1>3. Remote0.heads[Selector] = NoCommit
  <2>1. CASE pc[p] = "bare"
    BY <2>1 DEF OnDefault
  <2>2. CASE pc[p] # "bare"
    <3>1. "bare" \in world.kinds /\ world \in Worlds
      BY <2>2, UserWorld DEF CheckoutBare, Inv, TypeOK
    <3> QED BY <3>1 DEF NoBareBranch, Selector
  <2> QED BY <2>1, <2>2
<1>4. clone.local[Selector] = NoCommit /\ clone.origin[Selector] = NoCommit
  BY <1>2, <1>3 DEF RefsStay
<1>5. Selector \notin Commits
  BY <1>2
<1> QED BY <1>1, <1>2, <1>3, <1>4, <1>5 DEF CheckoutBare, CanCheckout, Checkout

\* What each command leaves of the clone's refs.
LEMMA CloneNext ==
    ASSUME NoBareBranch, Inv, RefsStay, OnDefault,
           NEW p \in Users, Step(p)
    PROVE  /\ clone'.tags = Remote0.tags
           /\ clone'.head \in {DefaultBranch, Detached}
           /\ clone'.origin \in {clone.origin, remote.heads}
           /\ \A n \in Names : clone'.local[n] # NoCommit
                                  => Remote0.heads[n] # NoCommit
<1> USE DEF Inv, TypeOK, RefsStay, OnDefault
<1>1. CASE CloneEnd(p)
  BY <1>1, CloneOfType DEF CloneEnd
<1>2. CASE FetchRefs(p)
  <2>1. CASE disk = "ready"
    <3> DEFINE c == Fetch(clone, remote)
    <3>1. clone' = c
      BY <1>2, <2>1 DEF FetchRefs
    <3>2. c.tags = Remote0.tags
      BY FetchType DEF Remotes
    <3>3. c.origin = remote.heads /\ c.local = clone.local /\ c.head = clone.head
      BY FetchType
    <3> HIDE DEF c
    <3> QED BY <3>1, <3>2, <3>3
  <2>2. CASE disk # "ready"
    BY <1>2, <2>2 DEF FetchRefs
  <2> QED BY <2>1, <2>2
<1>3. CASE Reset(p)
  <2>1. Remote0.heads[DefaultBranch] # NoCommit
    OBVIOUS
  <2> QED BY <1>3, <2>1, ResetType DEF Reset
<1>4. CASE CheckoutPin(p)
  <2>1. pinned[p] \in Commits
    BY <1>4 DEF CheckoutPin, MaybeCommit
  <2>2. clone' = DetachAt(clone, pinned[p])
    BY <1>4, <2>1 DEF CheckoutPin, Checkout
  <2> QED BY <2>1, <2>2, DetachType DEF MaybeCommit
<1>5. CASE CheckoutBranch(p)
  <2>1. Selector \in Names
    BY <1>5, UserWorld DEF CheckoutBranch
  <2>2. clone.origin[Selector] \in MaybeCommit
    BY <2>1 DEF Clones
  <2>3. CASE clone' = DetachAt(clone, clone.origin[Selector])
    <3>1. /\ clone'.tags = clone.tags /\ clone'.head = Detached
          /\ clone'.origin = clone.origin /\ clone'.local = clone.local
      BY <2>2, <2>3, Detaches
    <3> QED BY <3>1
  <2>4. CASE clone' = clone
    BY <2>4
  <2> QED BY <1>5, <2>3, <2>4 DEF CheckoutBranch, CheckoutOrigin
<1>6. CASE CheckoutBare(p)
  <2>1. Selector \in Names
    BY <1>6, BareFindsTag
  <2>2. clone.tags[Selector] \in MaybeCommit
    BY <2>1 DEF Clones
  <2>3. CASE clone' = DetachAt(clone, clone.tags[Selector])
    <3>1. /\ clone'.tags = clone.tags /\ clone'.head = Detached
          /\ clone'.origin = clone.origin /\ clone'.local = clone.local
      BY <2>2, <2>3, Detaches
    <3> QED BY <3>1
  <2>4. CASE clone' = clone
    BY <2>4
  <2> QED BY <1>6, <2>3, <2>4, BareFindsTag
<1>7. CASE \/ Exists(p) \/ CloneBegin(p) \/ CheckoutNothing(p) \/ RevParse(p)
           \/ Compile(p) \/ WriteLock(p)
  BY <1>7 DEF Exists, CloneBegin, CheckoutNothing, RevParse, Compile, WriteLock
<1> QED BY <1>1, <1>2, <1>3, <1>4, <1>5, <1>6, <1>7 DEF Step

LEMMA RefsNext ==
    ASSUME NoBareBranch, Inv, RefsStay, OnDefault, [Next]_vars
    PROVE  RefsStay' /\ OnDefault'
<1>1. ASSUME UNCHANGED <<remote, clone>>
      PROVE  RefsStay' /\ clone'.head \in {DefaultBranch, Detached}
  BY <1>1 DEF RefsStay, OnDefault
<1>2. ASSUME NEW p \in Users, Step(p)
      PROVE  RefsStay' /\ clone'.head \in {DefaultBranch, Detached}
  <2>1. remote' = remote
    BY <1>2 DEF Step, Exists, CloneBegin, CloneEnd, FetchRefs, Reset,
         CheckoutPin, CheckoutBranch, CheckoutBare, CheckoutNothing,
         RevParse, Compile, WriteLock
  <2> QED BY <1>2, <2>1, CloneNext DEF RefsStay
<1>3. ASSUME NEW b \in Names, NEW x \in Commits, Push(b, x)
      PROVE  RefsStay' /\ clone'.head \in {DefaultBranch, Detached}
  <2>1. x # NoCommit /\ remote.heads \in [Names -> MaybeCommit]
    BY DEF Inv, TypeOK, Remotes
  <2> QED BY <1>3, <2>1 DEF Push, RefsStay, OnDefault, Inv, TypeOK, Remotes
<1>4. RefsStay' /\ clone'.head \in {DefaultBranch, Detached}
  BY <1>1, <1>2, <1>3
     DEF Next, Start, Unpin, GitFails, CompileFails, Crash, vars
<1>5. ASSUME NEW q \in Users, pc'[q] = "bare"
      PROVE  pinned'[q] = NoCommit /\ Remote0.heads[Selector] = NoCommit
  <2> USE DEF Inv, TypeOK, OnDefault, Goto
  <2>1. ASSUME NEW p \in Users, CheckoutBranch(p)
        PROVE  pinned'[q] = NoCommit /\ Remote0.heads[Selector] = NoCommit
    <3>1. Selector \in Names
      BY <2>1, UserWorld DEF CheckoutBranch
    <3> QED BY <1>5, <2>1, <3>1
            DEF CheckoutBranch, CanCheckoutOrigin, RefsStay, local
  <2>2. ASSUME NEW p \in Users,
               Step(p) \/ GitFails(p) \/ CompileFails(p) \/ Crash(p)
        PROVE  pinned'[q] = NoCommit /\ Remote0.heads[Selector] = NoCommit
    BY <1>5, <2>1, <2>2
       DEF Step, Exists, CloneBegin, CloneEnd, FetchRefs, Reset,
           CheckoutPin, CheckoutBare, CheckoutNothing, RevParse, Compile,
           WriteLock, local, GitFails, CompileFails, Crash
  <2>3. ASSUME NEW p \in Users, Start(p) \/ Unpin(p)
        PROVE  pinned'[q] = NoCommit /\ Remote0.heads[Selector] = NoCommit
    BY <1>5, <2>3 DEF Start, Unpin
  <2>4. CASE \/ \E b \in Names, x \in Commits : Push(b, x)
             \/ UNCHANGED vars
    BY <1>5, <2>4 DEF Push, vars, local
  <2> QED BY <2>2, <2>3, <2>4 DEF Next
<1> QED BY <1>4, <1>5, WorldStays DEF OnDefault

LEMMA ResolvingNext ==
    ASSUME NoBareBranch, Inv, RefsStay, OnDefault, Resolving, [Next]_vars
    PROVE  Resolving'
<1> DEFINE p == Alone
<1> USE DEF Inv, TypeOK
<1>1. p \in Users /\ (Solo => Users = {p})
  BY UserWorld DEF Solo
<1>2. ASSUME Solo, Step(p)
      PROVE  Resolving'
  <2> USE <1>1, <1>2, WorldStays DEF Resolving, Solo, Goto
  <2>1. CASE pc'[p] \notin {"checkout", "bare", "rev-parse"}
    BY <2>1
  <2>2. CASE CloneEnd(p)
    BY <2>2, CloneOfType DEF CloneEnd, Remotes
  <2>3. CASE Reset(p) /\ disk = "ready"
    BY <2>3, ResetType DEF Reset
  <2>4. CASE CheckoutPin(p)
    <3>1. pinned[p] \in Commits
      BY <2>4 DEF CheckoutPin, MaybeCommit
    <3>2. clone' = DetachAt(clone, pinned[p])
      BY <2>4, <3>1 DEF CheckoutPin, Checkout
    <3>3. HeadOf(clone') = pinned[p]
      BY <3>1, <3>2, DetachType DEF MaybeCommit
    <3> QED BY <2>4, <3>1, <3>3 DEF CheckoutPin, local
  <2>5. CASE CheckoutBranch(p)
    <3>1. Selector \in Names
      BY <2>5, UserWorld DEF CheckoutBranch
    <3>2. clone.origin[Selector] \in MaybeCommit
      BY <3>1 DEF Clones
    <3>3. CASE CanCheckoutOrigin(clone, Selector)
      <4>1. clone' = DetachAt(clone, clone.origin[Selector])
        BY <2>5, <3>3 DEF CheckoutBranch, CheckoutOrigin
      <4>2. /\ HeadOf(clone') = clone.origin[Selector]
            /\ clone'.origin = clone.origin /\ clone'.tags = clone.tags
        <5>1. clone.origin[Selector] \in MaybeCommit /\ clone \in Clones
          BY <3>2
        <5> HIDE <1>1, <1>2, WorldStays
        <5> QED BY <4>1, <5>1, Detaches
      <4>3. Known(p)' = clone.origin[Selector]
        BY <2>5, <3>3, <4>2
           DEF Known, WantedOn, Either, CheckoutBranch, CanCheckoutOrigin, local
      <4> QED BY <2>5, <3>3, <4>2, <4>3 DEF CheckoutBranch, local
    <3>4. CASE ~CanCheckoutOrigin(clone, Selector)
      BY <2>5, <3>4 DEF CheckoutBranch, local
    <3> QED BY <3>3, <3>4
  <2>6. CASE CheckoutBare(p) /\ pc'[p] = "rev-parse"
    <3>1. /\ Selector \in Names /\ kind[p] # "default" /\ pinned[p] = NoCommit
          /\ Remote0.heads[Selector] = NoCommit
          /\ clone.tags[Selector] # NoCommit
          /\ clone' = DetachAt(clone, clone.tags[Selector])
      BY <2>6, BareFindsTag
    <3>2. clone.tags[Selector] \in MaybeCommit
      BY <3>1 DEF Clones
    <3>3. /\ HeadOf(clone') = clone.tags[Selector]
          /\ clone'.origin = clone.origin /\ clone'.tags = clone.tags
      <4>1. clone' = DetachAt(clone, clone.tags[Selector])
        BY <3>1
      <4>2. clone.tags[Selector] \in MaybeCommit /\ clone \in Clones
        BY <3>2
      <4> HIDE <1>1, <1>2, WorldStays
      <4> QED BY <4>1, <4>2, Detaches
    <3>4. kind'[p] \in {"branch", "bare"} /\ clone.origin[Selector] = NoCommit
      BY <3>1, UserWorld DEF RefsStay
    <3>5. Known(p)' = clone.tags[Selector]
      BY <3>1, <3>3, <3>4 DEF Known, WantedOn, Either
    <3> QED BY <2>6, <3>1, <3>3, <3>5 DEF CheckoutBare, local
  <2>7. CASE CheckoutNothing(p)
    <3>1. Known(p)' = clone.origin[DefaultBranch]
      BY <2>7 DEF CheckoutNothing, Known, WantedOn, local
    <3> QED BY <2>7, <3>1 DEF CheckoutNothing, local
  <2>8. \/ pc'[p] \notin {"checkout", "bare", "rev-parse"}
        \/ CloneEnd(p) \/ (Reset(p) /\ disk = "ready") \/ CheckoutPin(p)
        \/ CheckoutBranch(p) \/ (CheckoutBare(p) /\ pc'[p] = "rev-parse")
        \/ CheckoutNothing(p)
    BY DEF Step, Exists, CloneBegin, FetchRefs, Reset, CheckoutBare, RevParse,
           Compile, WriteLock
  <2> QED BY <2>1, <2>2, <2>3, <2>4, <2>5, <2>6, <2>7, <2>8
<1>3. ASSUME Solo, Start(p) \/ GitFails(p) \/ CompileFails(p) \/ Crash(p)
      PROVE  Resolving'
  BY <1>1, <1>3, WorldStays
     DEF Resolving, Start, GitFails, CompileFails, Crash, Goto
<1>4. ASSUME Solo, \/ Unpin(p) \/ UNCHANGED vars
                   \/ \E b \in Names, x \in Commits : Push(b, x)
      PROVE  Resolving'
  <2>1. UNCHANGED <<disk, clone, pc, kind, pinned>>
    BY <1>4 DEF Unpin, Push, vars, local
  <2> QED BY <2>1, WorldStays DEF Resolving, Known, WantedOn
<1> QED BY <1>1, <1>2, <1>3, <1>4, WorldStays DEF Next, Resolving

\* Only git clone and git fetch change what is known of the remote.
LEMMA KnownNext ==
    ASSUME NoBareBranch, Inv, RefsStay, OnDefault,
           NEW p \in Users, Step(p)
    PROVE  \/ /\ CloneEnd(p) \/ (FetchRefs(p) /\ disk = "ready")
              /\ Known(p)' = WantedOn(remote, kind[p])
           \/ /\ ~CloneEnd(p) /\ ~(FetchRefs(p) /\ disk = "ready")
              /\ Known(p)' = Known(p)
<1> USE DEF Inv, TypeOK
<1>1. kind' = kind /\ Selector' = Selector
  BY WorldStays DEF Next
<1>2. CASE CloneEnd(p) \/ (FetchRefs(p) /\ disk = "ready")
  <2>1. clone'.origin = remote.heads
    <3>1. CASE CloneEnd(p)
      BY <3>1, CloneOfType DEF CloneEnd
    <3>2. CASE FetchRefs(p) /\ disk = "ready"
      <4>1. Fetch(clone, remote).origin = remote.heads
        BY FetchType
      <4> QED BY <3>2, <4>1 DEF FetchRefs
    <3> QED BY <1>2, <3>1, <3>2
  <2>2. clone'.tags = remote.tags
    BY CloneNext DEF RefsStay
  <2> QED BY <1>1, <1>2, <2>1, <2>2 DEF Known, WantedOn
<1>3. CASE ~CloneEnd(p) /\ ~(FetchRefs(p) /\ disk = "ready")
  <2>1. CASE Reset(p)
    BY <1>1, <1>3, <2>1, ResetType DEF Reset, Known, WantedOn
  <2>2. CASE CheckoutPin(p)
    <3>1. pinned[p] \in Commits
      BY <2>2 DEF CheckoutPin, MaybeCommit
    <3>2. clone' = DetachAt(clone, pinned[p])
      BY <2>2, <3>1 DEF CheckoutPin, Checkout
    <3>3. clone'.origin = clone.origin /\ clone'.tags = clone.tags
      BY <3>1, <3>2, DetachType DEF MaybeCommit
    <3> QED BY <1>1, <1>3, <3>3 DEF Known, WantedOn
  <2>3. CASE CheckoutBranch(p)
    <3>1. Selector \in Names
      BY <2>3, UserWorld DEF CheckoutBranch
    <3>2. clone.origin[Selector] \in MaybeCommit
      BY <3>1 DEF Clones
    <3>3. LET d == DetachAt(clone, clone.origin[Selector])
          IN  d.origin = clone.origin /\ d.tags = clone.tags
      BY <3>2, DetachType
    <3>4. clone'.origin = clone.origin /\ clone'.tags = clone.tags
      BY <2>3, <3>3, Zenon DEF CheckoutBranch, CheckoutOrigin
    <3> QED BY <1>1, <1>3, <3>4 DEF Known, WantedOn
  <2>4. CASE CheckoutBare(p)
    <3>1. Selector \in Names
      BY <2>4, BareFindsTag
    <3>2. clone.tags[Selector] \in MaybeCommit
      BY <3>1 DEF Clones
    <3>3. LET d == DetachAt(clone, clone.tags[Selector])
          IN  d.origin = clone.origin /\ d.tags = clone.tags
      BY <3>2, DetachType
    <3>4. clone' = clone \/ clone' = DetachAt(clone, clone.tags[Selector])
      BY <2>4, BareFindsTag
    <3>5. clone'.origin = clone.origin /\ clone'.tags = clone.tags
      BY <3>3, <3>4, Zenon
    <3> QED BY <1>1, <1>3, <3>5 DEF Known, WantedOn
  <2>5. CASE \/ Exists(p) \/ CloneBegin(p) \/ CheckoutNothing(p) \/ RevParse(p)
             \/ Compile(p) \/ WriteLock(p) \/ (FetchRefs(p) /\ disk # "ready")
    BY <1>1, <1>3, <2>5
       DEF Exists, CloneBegin, FetchRefs, CheckoutNothing, RevParse, Compile,
           WriteLock, Known, WantedOn
  <2> QED BY <1>3, <2>1, <2>2, <2>3, <2>4, <2>5 DEF Step
<1> QED BY <1>2, <1>3

LEMMA PinnedExistsNext ==
    ASSUME NoBareBranch, Inv, RefsStay, OnDefault, PinnedExists, [Next]_vars
    PROVE  PinnedExists'
<1> DEFINE p == Alone
           Wanted == WantedOn(Remote0, kind[p])
<1>1. p \in Users /\ (Solo => Users = {p})
  BY UserWorld DEF Solo, Inv
<1>2. Wanted' = Wanted /\ p' = p /\ Solo' = Solo
  BY WorldStays DEF WantedOn
<1> SUFFICES ASSUME Solo,
                    \/ pc'[p] \in {"rev-parse", "compile", "lock"}
                    \/ pin'[p] # NoCommit
                    \/ pc'[p] # "idle" /\ pinned'[p] # NoCommit
             PROVE  Wanted # NoCommit
  BY <1>2 DEF PinnedExists
<1>3. CASE CheckoutBranch(p) /\ CanCheckoutOrigin(clone, Selector)
  <2>1. Selector \in Names /\ kind[p] = "branch"
    BY <1>1, <1>3, UserWorld DEF CheckoutBranch, Inv
  <2> QED BY <1>3, <2>1 DEF CanCheckoutOrigin, RefsStay, WantedOn, Either
<1>4. CASE CheckoutBare(p) /\ clone.tags[Selector] # NoCommit
  <2>1. Selector \in Names /\ kind[p] \in {"branch", "bare"}
        /\ Remote0.heads[Selector] = NoCommit
    BY <1>1, <1>4, BareFindsTag, UserWorld DEF Inv
  <2> QED BY <1>4, <2>1 DEF RefsStay, WantedOn, Either
<1>5. CASE CheckoutNothing(p)
  BY <1>5 DEF CheckoutNothing, WantedOn
<1>6. CASE \/ pc[p] \in {"rev-parse", "compile", "lock"}
           \/ pin[p] # NoCommit
           \/ pc[p] # "idle" /\ pinned[p] # NoCommit
  BY <1>6 DEF PinnedExists
<1>7. ASSUME pc[p] \notin {"rev-parse", "compile", "lock"},
             pin[p] = NoCommit, pc[p] = "idle" \/ pinned[p] = NoCommit
      PROVE  Wanted # NoCommit
  <2> HIDE DEF Wanted, p
  <2>1. pc \in [Users -> Steps] /\ pinned \in [Users -> MaybeCommit]
    BY DEF Inv, TypeOK
  <2>2. CASE CheckoutBranch(p) /\ ~CanCheckoutOrigin(clone, Selector)
    BY <1>1, <1>7, <2>1, <2>2 DEF CheckoutBranch, local, Goto
  <2>3. CASE CheckoutBare(p) /\ clone' = clone /\ Goto(p, "idle")
    BY <1>1, <1>7, <2>1, <2>3 DEF CheckoutBare, local, Goto
  <2>4. CASE Exists(p) \/ CloneBegin(p) \/ CloneEnd(p) \/ FetchRefs(p)
             \/ Reset(p)
    BY <1>1, <1>7, <2>1, <2>4
       DEF Exists, CloneBegin, CloneEnd, FetchRefs, Reset, local, Goto
  <2>5. CASE CheckoutPin(p) \/ RevParse(p) \/ Compile(p) \/ WriteLock(p)
    BY <1>1, <1>7, <2>1, <2>5 DEF CheckoutPin, RevParse, Compile, WriteLock
  <2>6. CASE Start(p) \/ Unpin(p)
    BY <1>1, <1>7, <2>1, <2>6 DEF Start, Unpin, Goto, Inv, TypeOK
  <2>7. CASE GitFails(p) \/ CompileFails(p) \/ Crash(p)
    BY <1>1, <1>7, <2>1, <2>7 DEF GitFails, CompileFails, Crash, local, Goto
  <2>8. CASE \/ \E b \in Names, x \in Commits : Push(b, x)
             \/ UNCHANGED vars
    BY <1>7, <2>8 DEF Push, vars, local
  <2>9. CheckoutBare(p) =>
            \/ clone.tags[Selector] # NoCommit
            \/ clone' = clone /\ Goto(p, "idle")
    BY <1>1, BareFindsTag
  <2> QED BY <1>1, <1>3, <1>4, <1>5, <2>2, <2>3, <2>4, <2>5, <2>6, <2>7, <2>8,
             <2>9 DEF Next, Step
<1> QED BY <1>6, <1>7

LEMMA PromisesNext ==
    ASSUME NoBareBranch, Inv, RefsStay, OnDefault, Resolving, Promises,
           [Next]_vars
    PROVE  Promises'
<1> DEFINE p == Alone
<1> USE DEF Inv, TypeOK, Goto
<1>1. p \in Users /\ (Solo => Users = {p})
  BY UserWorld DEF Solo
<1>2. CASE Solo /\ Step(p)
  <2> USE <1>1, <1>2, WorldStays DEF Promises, Fetched, Have
  <2>1. remote' = remote /\ seen' = seen /\ pinned' = pinned
    BY DEF Step, Exists, CloneBegin, CloneEnd, FetchRefs, Reset, CheckoutPin,
           CheckoutBranch, CheckoutBare, CheckoutNothing, RevParse, Compile,
           WriteLock, local
  <2>2. pc[p] # "idle"
    BY DEF Step, Exists, CloneBegin, CloneEnd, FetchRefs, Reset, CheckoutPin,
           CheckoutBranch, CheckoutBare, CheckoutNothing, RevParse, Compile,
           WriteLock
  <2>3. WantedOn(remote, kind[p])' \in seen'[p]
    BY <2>1, <2>2 DEF WantedOn
  <2>4. (Fetched(p) /\ disk = "ready" => Known(p) \in seen[p])'
    <3>1. CASE CloneEnd(p) \/ (FetchRefs(p) /\ disk = "ready")
      BY <2>1, <2>2, <3>1, KnownNext
    <3>2. CASE ~CloneEnd(p) /\ ~(FetchRefs(p) /\ disk = "ready")
      <4>1. Known(p)' = Known(p)
        BY <3>2, KnownNext
      <4>2. Fetched(p)' /\ disk' = "ready" => Fetched(p) /\ disk = "ready"
        BY <3>2 DEF Step, Exists, CloneBegin, FetchRefs, Reset, CheckoutPin,
           CheckoutBranch, CheckoutBare, CheckoutNothing, RevParse, Compile,
           WriteLock
      <4> QED BY <2>1, <4>1, <4>2
    <3> QED BY <3>1, <3>2
  <2>5. (Have(p) => IF pinned[p] # NoCommit THEN got[p] = pinned[p]
                                             ELSE got[p] \in seen[p])'
    <3>1. CASE RevParse(p)
      BY <2>1, <3>1 DEF RevParse, Resolving
    <3>2. CASE ~RevParse(p)
      <4>1. got' = got
        BY <3>2
           DEF Step, Exists, CloneBegin, CloneEnd, FetchRefs, Reset,
               CheckoutPin, CheckoutBranch, CheckoutBare, CheckoutNothing,
               Compile, WriteLock, local
      <4>2. Compile(p) \/ pc'[p] \notin {"compile", "lock"}
        BY <3>2
           DEF Step, Exists, CloneBegin, CloneEnd, FetchRefs, Reset,
               CheckoutPin, CheckoutBranch, CheckoutBare, CheckoutNothing,
               WriteLock
      <4>3. Have(p)' => Have(p)
        BY <4>2 DEF Compile
      <4> QED BY <2>1, <4>1, <4>3
    <3> QED BY <3>1, <3>2
  <2> QED BY <2>3, <2>4, <2>5
<1>3. CASE Solo /\ (Start(p) \/ GitFails(p) \/ CompileFails(p) \/ Crash(p))
  BY <1>1, <1>3, WorldStays
     DEF Promises, Fetched, Have, Start, GitFails, CompileFails, Crash, WantedOn
<1>4. CASE Solo /\ (Unpin(p) \/ UNCHANGED vars)
  <2>1. UNCHANGED <<remote, disk, clone, pc, kind, pinned, got, seen>>
    BY <1>4 DEF Unpin, vars
  <2> QED BY <2>1, WorldStays DEF Promises, Fetched, Have, Known, WantedOn
<1>5. ASSUME Solo, NEW b \in Names, NEW x \in Commits, Push(b, x)
      PROVE  Promises'
  <2>1. UNCHANGED <<disk, clone, pc, kind, pinned, got>>
    BY <1>5 DEF Push, local
  <2>2. Known(p)' = Known(p)
    BY <2>1, WorldStays DEF Known, WantedOn
  <2>3. /\ seen[p] \subseteq seen'[p]
        /\ pc[p] # "idle" => WantedOn(remote', kind[p]) \in seen'[p]
    BY <1>1, <1>5 DEF Push
  <2>4. WantedOn(remote, kind[p])' = WantedOn(remote', kind[p])
    BY <2>1, WorldStays DEF WantedOn
  <2> QED BY <1>5, <2>1, <2>2, <2>3, <2>4, WorldStays DEF Promises, Fetched, Have
<1> QED BY <1>1, <1>2, <1>3, <1>4, <1>5, WorldStays DEF Next, Promises

LEMMA SoloInit == Init => SoloInv
<1> SUFFICES ASSUME Init PROVE SoloInv
  OBVIOUS
<1>1. TypeOK
  BY TypeInit
<1>2. RefsStay /\ OnDefault
  BY <1>1, CloneOfType DEF Init, RefsStay, OnDefault, Users, Remotes
<1>3. Alone \in Users
  BY <1>1, UserWorld
<1> QED BY <1>1, <1>2, <1>3
        DEF Init, SoloInv, Resolving, PinnedExists, Promises, Fetched, Have,
            Users

LEMMA SoloNext ==
    ASSUME NoBareBranch, Inv, SoloInv, [Next]_vars
    PROVE  SoloInv'
BY RefsNext, ResolvingNext, PinnedExistsNext, PromisesNext DEF SoloInv

\* If no bare ref names a branch: what holds of one process, always.
THEOREM SoloInvariance ==
    ASSUME NoBareBranch
    PROVE  Spec => [](Inv /\ SoloInv)
<1>1. Inv /\ SoloInv /\ [Next]_vars => (Inv /\ SoloInv)'
  BY InvNext, SoloNext
<1> QED BY <1>1, InvInit, SoloInit, PTL DEF Spec

\* With a pin the sources of the pinned commit are compiled, however far the
\* branch has moved: for one process at a time (GitCacheRace shows two).
THEOREM PinnedBuildUsesPinAlone ==
    ASSUME NoBareBranch
    PROVE  Spec => [](Solo => PinnedBuildUsesPin)
<1>1. Inv /\ SoloInv => (Solo => PinnedBuildUsesPin)
  <2> SUFFICES ASSUME Inv, SoloInv, Solo PROVE PinnedBuildUsesPin
    OBVIOUS
  <2> QED BY DEF Inv, SoloInv, TreeIsResult, Promises, Have, Solo,
                 PinnedBuildUsesPin
<1> QED BY <1>1, SoloInvariance, PTL

\* Without one, the commit is one the wanted ref had since the build began:
\* for one process, and a ref that is not a branch's name given bare
\* (GitCacheRef shows one that is).
THEOREM UnpinnedBuildIsFreshAlone ==
    ASSUME NoBareBranch
    PROVE  Spec => []UnpinnedBuildIsFresh
<1>1. Inv /\ SoloInv => UnpinnedBuildIsFresh
  BY DEF SoloInv, Promises, UnpinnedBuildIsFresh
<1> QED BY <1>1, SoloInvariance, PTL
-----------------------------------------------------------------------------
(* Resolving is one step (PinnedResolution): what the abstract variables are *)
(* when one process runs, and what they are when it may not be alone.        *)

AbstractPhase ==
    CASE ~Solo \/ pc[Alone] = "idle" -> "idle"
      [] Solo /\ Have(Alone) -> "have"
      [] OTHER -> "busy"
AbstractPin == IF ~Solo \/ pc[Alone] = "idle" THEN NoCommit ELSE pinned[Alone]
AbstractSnap ==
    IF Solo /\ Fetched(Alone) /\ disk = "ready" THEN Known(Alone) ELSE NoCommit
AbstractGot == IF Solo /\ Have(Alone) THEN got[Alone] ELSE NoCommit
AbstractHead == WantedOn(remote, kind[Alone])

LEMMA PhaseIs ==
    /\ ~Solo \/ pc[Alone] = "idle" => AbstractPhase = "idle"
    /\ Solo /\ Have(Alone) => AbstractPhase = "have"
    /\ Solo /\ pc[Alone] # "idle" /\ ~Have(Alone) => AbstractPhase = "busy"
BY DEF AbstractPhase, Have

LEMMA HeadType ==
    ASSUME Inv PROVE AbstractHead \in MaybeCommit
BY WantedType, UserWorld DEF Inv, TypeOK, AbstractHead, Remotes

LEMMA ResolutionInit == Init => Resolution!Init
<1> SUFFICES ASSUME Init PROVE Resolution!Init
  OBVIOUS
<1>1. Inv
  BY InvInit
<1>2. pc[Alone] = "idle"
  BY <1>1, UserWorld DEF Init, Inv
<1>3. /\ AbstractHead \in MaybeCommit /\ AbstractPhase = "idle"
      /\ AbstractPin = NoCommit /\ AbstractSnap = NoCommit
      /\ AbstractGot = NoCommit
  BY <1>1, <1>2, HeadType, PhaseIs
     DEF AbstractPin, AbstractSnap, AbstractGot, Fetched, Have
<1> QED BY <1>3
        DEF Resolution!Init, AbstractHead, AbstractPhase, AbstractPin,
            AbstractSnap, AbstractGot, MaybeCommit, Known

LEMMA PrimedPhase ==
    ASSUME [Next]_vars
    PROVE  /\ ~Solo \/ pc'[Alone] = "idle" => AbstractPhase' = "idle"
           /\ Solo /\ pc'[Alone] \in {"compile", "lock"}
                 => AbstractPhase' = "have"
           /\ Solo /\ pc'[Alone] \notin {"idle", "compile", "lock"}
                 => AbstractPhase' = "busy"
BY WorldStays DEF AbstractPhase, Have

\* What is pushed is all that moves the ref.
LEMMA HeadNext ==
    ASSUME Inv, [Next]_vars, remote' = remote
    PROVE  AbstractHead' = AbstractHead
BY WorldStays DEF AbstractHead, WantedOn

\* The ref is known wherever it exists.
LEMMA KnownExists ==
    ASSUME Inv, RefsStay, NEW p \in Users,
           WantedOn(Remote0, kind[p]) # NoCommit
    PROVE  Known(p) # NoCommit
BY UserWorld DEF Inv, RefsStay, Known, WantedOn, Either

\* Steps that leave the four abstract variables as they are.
LEMMA SilentStep ==
    ASSUME Inv, Inv', [Next]_vars, AbstractPhase' = AbstractPhase,
           UNCHANGED <<AbstractPin, AbstractSnap, AbstractGot>>
    PROVE  Resolution!Next
<1>1. AbstractHead' \in MaybeCommit
  <2>1. /\ kind' = kind /\ Alone' = Alone /\ Selector' = Selector
        /\ Alone \in Users
    BY WorldStays, UserWorld DEF Inv
  <2>2. /\ remote'.heads \in [Names -> MaybeCommit]
        /\ remote'.tags \in [Names -> MaybeCommit]
    BY DEF Inv, TypeOK, Remotes
  <2>3. WantedOn(remote', kind[Alone]) \in MaybeCommit
    BY <2>1, <2>2, WantedType DEF Inv
  <2> QED BY <2>1, <2>3 DEF AbstractHead, WantedOn
<1> QED BY <1>1
        DEF Resolution!Next, Resolution!Move, AbstractHead, AbstractPhase,
            AbstractPin, AbstractSnap, AbstractGot, MaybeCommit, Known

\* A build that ends, with or without a result.
LEMMA FinishStep ==
    ASSUME Inv, [Next]_vars, Solo, remote' = remote,
           pc[Alone] # "idle", pc'[Alone] = "idle"
    PROVE  Resolution!Next
<1>1. AbstractHead' = AbstractHead
  BY HeadNext
<1>2. /\ AbstractPhase # "idle" /\ AbstractPhase' = "idle"
      /\ AbstractPin' = NoCommit /\ AbstractSnap' = NoCommit
      /\ AbstractGot' = NoCommit
  BY PhaseIs, PrimedPhase, WorldStays
     DEF AbstractPin, AbstractSnap, AbstractGot, Fetched, Have
<1> QED BY <1>1, <1>2
        DEF Resolution!Next, Resolution!Finish, AbstractHead, AbstractPhase,
            AbstractPin, AbstractSnap, AbstractGot, Known

LEMMA ResolutionNext ==
    ASSUME NoBareBranch, Inv, Inv', SoloInv, [Next]_vars
    PROVE  Resolution!Next
<1> DEFINE p == Alone
<1>1. p \in Users /\ (Solo => Users = {p})
  BY UserWorld DEF Inv, Solo
<1>2. pc \in [Users -> Steps] /\ pinned \in [Users -> MaybeCommit]
      /\ got \in [Users -> MaybeCommit]
  BY DEF Inv, TypeOK
<1>3. CASE ~Solo
  BY <1>3, PhaseIs, PrimedPhase, WorldStays, SilentStep
     DEF AbstractPin, AbstractSnap, AbstractGot
<1>4. CASE /\ Solo
           /\ \/ Unpin(p) \/ UNCHANGED vars
              \/ \E b \in Names, x \in Commits : Push(b, x)
  <2>1. UNCHANGED <<disk, clone, pc, kind, pinned, got>>
    BY <1>4 DEF Unpin, Push, vars, local
  <2>2. AbstractPhase' = AbstractPhase
    BY <2>1, WorldStays DEF AbstractPhase, Have
  <2>3. UNCHANGED <<AbstractPin, AbstractGot>>
    BY <2>1, WorldStays DEF AbstractPin, AbstractGot, Have
  <2>4. Known(p)' = Known(p) /\ Fetched(p)' = Fetched(p)
    BY <2>1, WorldStays DEF Known, WantedOn, Fetched
  <2>5. AbstractSnap' = AbstractSnap
    BY <2>1, <2>4, WorldStays DEF AbstractSnap
  <2> QED BY <2>2, <2>3, <2>5, SilentStep
<1>5. CASE Solo /\ Start(p)
  <2>1. pc[p] = "idle" /\ pc'[p] = "exists" /\ pinned' = [pinned EXCEPT ![p] = pin[p]]
    BY <1>1, <1>2, <1>5 DEF Start, Goto
  <2>2. pinned'[p] \in MaybeCommit
    BY <1>1, <1>2, <2>1 DEF Inv, TypeOK
  <2>3. AbstractHead' = AbstractHead
    BY <1>5, HeadNext DEF Start
  <2>4. /\ AbstractPhase = "idle" /\ AbstractPhase' = "busy"
        /\ AbstractPin' \in MaybeCommit
        /\ UNCHANGED <<AbstractSnap, AbstractGot>>
    BY <1>5, <2>1, <2>2, PhaseIs, PrimedPhase, WorldStays
       DEF AbstractPin, AbstractSnap, AbstractGot, Fetched, Have
  <2> QED BY <2>3, <2>4
          DEF Resolution!Next, Resolution!Begin, AbstractHead, AbstractPhase,
              AbstractPin, AbstractSnap, AbstractGot, MaybeCommit, Known
<1>6. CASE Solo /\ Step(p) /\ pc'[p] = "idle"
  BY <1>6, FinishStep
     DEF Step, Exists, CloneBegin, CloneEnd, FetchRefs, Reset, CheckoutPin,
         CheckoutBranch, CheckoutBare, CheckoutNothing, RevParse, Compile,
         WriteLock
<1>7. CASE Solo /\ (GitFails(p) \/ CompileFails(p) \/ Crash(p))
  BY <1>1, <1>2, <1>7, FinishStep DEF GitFails, CompileFails, Crash, Goto
<1>8. CASE Solo /\ (CloneEnd(p) \/ (FetchRefs(p) /\ disk = "ready"))
  <2>1. /\ pc[p] \in {"cloning", "fetch"} /\ pc'[p] \in {"reset", "checkout"}
        /\ disk' = "ready" /\ UNCHANGED <<remote, pinned, got>>
    BY <1>1, <1>2, <1>8 DEF CloneEnd, FetchRefs, Goto, local
  <2>2. Known(p)' = WantedOn(remote, kind[p])
    BY <1>1, <1>8, KnownNext, WorldStays DEF SoloInv, Step
  <2>3. AbstractHead' = AbstractHead
    BY <2>1, HeadNext
  <2>4. /\ AbstractPhase = "busy" /\ AbstractPhase' = "busy"
        /\ AbstractSnap = NoCommit /\ AbstractSnap' = AbstractHead
        /\ UNCHANGED <<AbstractPin, AbstractGot>>
    BY <1>8, <2>1, <2>2, PhaseIs, PrimedPhase, WorldStays
       DEF AbstractPin, AbstractSnap, AbstractGot, AbstractHead, Fetched, Have
  <2> QED BY <2>3, <2>4
          DEF Resolution!Next, Resolution!LookUp, AbstractHead, AbstractPhase,
              AbstractPin, AbstractSnap, AbstractGot, Known
<1>9. CASE Solo /\ RevParse(p)
  <2>1. /\ pc[p] = "rev-parse" /\ pc'[p] = "compile"
        /\ got'[p] = HeadOf(clone) /\ UNCHANGED <<remote, pinned>>
    BY <1>1, <1>2, <1>9 DEF RevParse, Goto
  <2>2. Known(p) # NoCommit
    BY <1>1, <1>9, <2>1, KnownExists DEF SoloInv, PinnedExists
  <2>3. AbstractSnap = Known(p) /\ AbstractPin = pinned[p]
    BY <1>9, <2>1 DEF SoloInv, Resolving, AbstractSnap, AbstractPin, Fetched
  <2>4. got'[p] = IF pinned[p] # NoCommit THEN pinned[p] ELSE Known(p)
    BY <1>9, <2>1 DEF SoloInv, Resolving
  <2>5. AbstractHead' = AbstractHead
    BY <2>1, HeadNext
  <2>6. /\ AbstractPhase = "busy" /\ AbstractPhase' = "have"
        /\ AbstractSnap # NoCommit /\ AbstractSnap' = NoCommit
        /\ AbstractGot' = (IF AbstractPin # NoCommit THEN AbstractPin
                                                     ELSE AbstractSnap)
        /\ AbstractPin' = AbstractPin
    BY <1>9, <2>1, <2>2, <2>3, <2>4, PhaseIs, PrimedPhase, WorldStays
       DEF AbstractPin, AbstractSnap, AbstractGot, Fetched, Have
  <2> QED BY <2>5, <2>6
          DEF Resolution!Next, Resolution!Deliver, AbstractHead, AbstractPhase,
              AbstractPin, AbstractSnap, AbstractGot, Known
<1>10. CASE Solo /\ Compile(p)
  <2>1. /\ pc[p] = "compile" /\ pc'[p] = "lock" /\ UNCHANGED <<pinned, got>>
    BY <1>1, <1>2, <1>10 DEF Compile, Goto
  <2> QED BY <1>10, <2>1, PhaseIs, PrimedPhase, WorldStays, SilentStep
          DEF AbstractPin, AbstractSnap, AbstractGot, Fetched, Have
<1>11. CASE /\ Solo /\ Step(p) /\ pc'[p] # "idle"
            /\ ~CloneEnd(p) /\ ~(FetchRefs(p) /\ disk = "ready")
            /\ ~RevParse(p) /\ ~Compile(p)
  <2>1. Known(p)' = Known(p)
    BY <1>1, <1>11, KnownNext, WorldStays DEF SoloInv
  <2>2. /\ pc[p] \notin {"idle", "compile", "lock"}
        /\ pc'[p] \notin {"idle", "compile", "lock"}
        /\ UNCHANGED <<pinned, got>>
    BY <1>1, <1>2, <1>11
       DEF Step, Exists, CloneBegin, FetchRefs, Reset, CheckoutPin,
           CheckoutBranch, CheckoutBare, CheckoutNothing, WriteLock, Goto,
           local, Steps
  <2>3. ASSUME Exists(p) \/ CloneBegin(p) \/ FetchRefs(p)
        PROVE  AbstractSnap' = AbstractSnap
    <3>1. /\ pc[p] \in {"exists", "clone", "fetch"}
          /\ \/ pc'[p] \in {"clone", "cloning", "fetch"}
             \/ disk' # "ready"
      BY <1>1, <1>2, <1>11, <2>3 DEF Exists, CloneBegin, FetchRefs, Goto
    <3> QED BY <3>1, WorldStays DEF AbstractSnap, Fetched
  <2>4. ASSUME \/ Reset(p) \/ CheckoutPin(p) \/ CheckoutBranch(p)
               \/ CheckoutBare(p) \/ CheckoutNothing(p)
        PROVE  AbstractSnap' = AbstractSnap
    <3>1. /\ pc[p] \in {"reset", "checkout", "bare"}
          /\ pc'[p] \in {"checkout", "bare", "rev-parse"}
          /\ disk' = disk
      BY <1>1, <1>2, <1>11, <2>4
         DEF Reset, CheckoutPin, CheckoutBranch, CheckoutBare,
             CheckoutNothing, Goto
    <3> QED BY <2>1, <3>1, WorldStays DEF AbstractSnap, Fetched
  <2>5. AbstractSnap' = AbstractSnap
    BY <1>1, <1>2, <1>11, <2>3, <2>4 DEF Step, WriteLock, Goto
  <2> QED BY <1>11, <2>2, <2>5, PhaseIs, PrimedPhase, WorldStays, SilentStep
          DEF AbstractPin, AbstractGot, Have
<1> QED BY <1>1, <1>3, <1>4, <1>5, <1>6, <1>7, <1>8, <1>9, <1>10, <1>11
        DEF Next

\* The cache implements PinnedResolution: with one process, every command's
\* step is the step of an atomic resolution or changes nothing of it.
THEOREM ResolvesAtomicallyAlone ==
    ASSUME NoBareBranch
    PROVE  Spec => ResolvesAtomically
<1>1. Inv /\ SoloInv /\ Inv' /\ [Next]_vars => [Resolution!Next]_Resolution!vars
  BY ResolutionNext
<1> QED BY <1>1, ResolutionInit, SoloInvariance, PTL
        DEF Spec, ResolvesAtomically, Resolution!Spec
=============================================================================
