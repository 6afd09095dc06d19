------------------------------ MODULE GitCache ------------------------------
(***************************************************************************)
(* One directory of ebpm's global git cache (~/.ebpm/cache/git/<url@ref>), *)
(* and the ebpm processes of the machine that resolve a git dependency in  *)
(* it: cloneOrFetch and resolveGitDependency of pkg/src/gitdep.cpp, one    *)
(* action per git command, then the compilation that reads the working     *)
(* tree (buildPackageWithDeps, pkg/src/build.cpp) and the lock entry.      *)
(* Nothing serialises the processes: the cache has no lock.                *)
(***************************************************************************)
EXTENDS GitClone, FiniteSets

CONSTANTS
    Procs,      \* ebpm processes, each building a project of its own
    NoSelector, \* the dependency names no branch, tag or rev
    Remote0,    \* the remote repository at the beginning
    Worlds      \* the situations to look at:
                \*   users     the processes that use the directory
                \*   selector  the branch/tag/rev in its name, or NoSelector
                \*   kinds     how dependencies say it: "branch", "bare" (tag
                \*             or rev; the ref of a registry entry too) or,
                \*             without one, "default"
                \*   commits   bound: the commits there will ever be
                \*   faults    what may go wrong: "git" a git command fails,
                \*             "crash" a process dies, "compile" a build fails

ASSUME CacheAssumption ==
    /\ NoSelector \notin Names
    /\ Remote0 \in Remotes
    /\ Remote0.heads[DefaultBranch] # NoCommit
    /\ Worlds \subseteq [users : SUBSET Procs, selector : Names \cup {NoSelector},
                         kinds : SUBSET {"default", "branch", "bare"},
                         commits : SUBSET Commits,
                         faults : SUBSET {"git", "crash", "compile"}]
    /\ \A w \in Worlds :
          /\ w.users # {}
          /\ w.kinds \subseteq IF w.selector = NoSelector THEN {"default"}
                                                        ELSE {"branch", "bare"}

VARIABLES
    world,      \* which of Worlds this is
    remote,     \* the remote repository
    disk,       \* the directory: "absent", "partial" (a clone that has not
                \* ended, or died), "ready"
    clone,      \* the clone in it, when ready
    pc,         \* what each process does next
    kind,       \* the dependency it resolves
    pinned,     \* the commit its lockfile pins, NoCommit if none
    got,        \* the commit resolveGitDependency reported
    compiled,   \* the commit whose sources were compiled
    pin,        \* the commit in each project's ebasic.lock
    seen        \* history: where the wanted ref has been since the start

local == <<kind, pinned, got, compiled, pin>>
Users == world.users
Selector == world.selector
vars == <<world, remote, disk, clone, pc, kind, pinned, got, compiled, pin, seen>>

Steps == {"idle", "exists", "clone", "cloning", "fetch", "reset", "checkout",
          "bare", "rev-parse", "compile", "lock"}

Born == {remote.heads[n] : n \in Names} \cup {remote.tags[n] : n \in Names}
           \cup {clone.local[n] : n \in Names} \cup {clone.at}
           \cup {pin[p] : p \in Users} \cup UNION {seen[p] : p \in Users}

\* The commit the wanted ref names on the remote: the default branch's, or
\* the named ref's, where `branch` looks for a branch before a tag and a bare
\* name is a tag before it is a branch.
Either(a, b) == IF a # NoCommit THEN a ELSE b

WantedOn(r, k) ==
    CASE k = "default" -> r.heads[DefaultBranch]
      [] k = "branch"  -> Either(r.heads[Selector], r.tags[Selector])
      [] k = "bare"    -> Either(r.tags[Selector], r.heads[Selector])

Init ==
    /\ world \in Worlds
    /\ remote = Remote0
    /\ disk = "absent"
    /\ clone = CloneOf(Remote0)
    /\ pc = [p \in Users |-> "idle"]
    /\ kind \in [Users -> world.kinds]
    /\ pinned = [p \in Users |-> NoCommit]
    /\ got = [p \in Users |-> NoCommit]
    /\ compiled = [p \in Users |-> NoCommit]
    /\ pin = [p \in Users |-> NoCommit]
    /\ seen = [p \in Users |-> {}]

Goto(p, s) == pc' = [pc EXCEPT ![p] = s]

\* Someone pushes to a branch that exists.
Push(b, x) ==
    /\ remote.heads[b] # NoCommit
    /\ x \in world.commits \ Born
    /\ remote' = [remote EXCEPT !.heads[b] = x]
    /\ seen' = [p \in Users |-> IF pc[p] = "idle" THEN seen[p]
                                ELSE seen[p] \cup {WantedOn(remote', kind[p])}]
    /\ UNCHANGED <<world, disk, clone, pc, local>>

\* A build reads its pins and reaches the dependency.
Start(p) ==
    /\ pc[p] = "idle"
    /\ pinned' = [pinned EXCEPT ![p] = pin[p]]
    /\ got' = [got EXCEPT ![p] = NoCommit]
    /\ compiled' = [compiled EXCEPT ![p] = NoCommit]
    /\ seen' = [seen EXCEPT ![p] = {WantedOn(remote, kind[p])}]
    /\ Goto(p, "exists")
    /\ UNCHANGED <<world, remote, disk, clone, kind, pin>>

\* The project's pin goes away: `ebpm update` of a registry dependency, or
\* a checkout without its lockfile.
Unpin(p) ==
    /\ pc[p] = "idle"
    /\ pin[p] # NoCommit
    /\ pin' = [pin EXCEPT ![p] = NoCommit]
    /\ UNCHANGED <<world, remote, disk, clone, pc, kind, pinned, got, compiled, seen>>

\* fs::exists(cacheDir / ".git")
Exists(p) ==
    /\ pc[p] = "exists"
    /\ Goto(p, IF disk = "absent" THEN "clone" ELSE "fetch")
    /\ UNCHANGED <<world, remote, disk, clone, local, seen>>

\* git clone makes the directory, fills it, and is done; into a directory
\* that exists by now it refuses.
CloneBegin(p) ==
    /\ pc[p] = "clone"
    /\ IF disk = "absent"
       THEN disk' = "partial" /\ Goto(p, "cloning")
       ELSE disk' = disk /\ Goto(p, "idle")
    /\ UNCHANGED <<world, remote, clone, local, seen>>

CloneEnd(p) ==
    /\ pc[p] = "cloning"
    /\ disk' = "ready"
    /\ clone' = CloneOf(remote)
    /\ Goto(p, "checkout")
    /\ UNCHANGED <<world, remote, local, seen>>

\* git fetch; in a partial clone it gets the refs but no origin/HEAD (git
\* before 2.48, which does not make that ref on a fetch).
FetchRefs(p) ==
    /\ pc[p] = "fetch"
    /\ clone' = IF disk = "ready" THEN Fetch(clone, remote) ELSE clone
    /\ Goto(p, "reset")
    /\ UNCHANGED <<world, remote, disk, local, seen>>

\* Mutant: a reset that fails starts over.
ResetRetries(p) ==
    /\ pc[p] = "reset"
    /\ IF disk = "ready"
       THEN clone' = ResetToOriginHead(clone) /\ Goto(p, "checkout")
       ELSE clone' = clone /\ Goto(p, "exists")
    /\ UNCHANGED <<world, remote, disk, local, seen>>

\* git reset -q --hard origin/HEAD, which a partial clone has not.
Reset(p) ==
    /\ pc[p] = "reset"
    /\ IF disk = "ready"
       THEN clone' = ResetToOriginHead(clone) /\ Goto(p, "checkout")
       ELSE clone' = clone /\ Goto(p, "idle")
    /\ UNCHANGED <<world, remote, disk, local, seen>>

\* Mutant: the branch of the manifest goes before the pin.
CheckoutBranchFirst(p) ==
    /\ pc[p] = "checkout" /\ kind[p] = "branch"
    /\ IF CanCheckoutOrigin(clone, Selector)
       THEN clone' = CheckoutOrigin(clone, Selector) /\ Goto(p, "rev-parse")
       ELSE clone' = clone /\ Goto(p, "bare")
    /\ UNCHANGED <<world, remote, disk, local, seen>>

\* The explicit checkout: the pin if there is one, origin/<branch> for a
\* branch, the bare ref else, nothing without a ref.
CheckoutPin(p) ==
    /\ pc[p] = "checkout" /\ pinned[p] # NoCommit
    /\ clone' = Checkout(clone, pinned[p])
    /\ Goto(p, "rev-parse")
    /\ UNCHANGED <<world, remote, disk, local, seen>>

CheckoutBranch(p) ==
    /\ pc[p] = "checkout" /\ pinned[p] = NoCommit /\ kind[p] = "branch"
    /\ IF CanCheckoutOrigin(clone, Selector)
       THEN clone' = CheckoutOrigin(clone, Selector) /\ Goto(p, "rev-parse")
       ELSE clone' = clone /\ Goto(p, "bare")
    /\ UNCHANGED <<world, remote, disk, local, seen>>

CheckoutBare(p) ==
    /\ \/ pc[p] = "checkout" /\ pinned[p] = NoCommit /\ kind[p] = "bare"
       \/ pc[p] = "bare"
    /\ IF CanCheckout(clone, Selector)
       THEN clone' = Checkout(clone, Selector) /\ Goto(p, "rev-parse")
       ELSE clone' = clone /\ Goto(p, "idle")
    /\ UNCHANGED <<world, remote, disk, local, seen>>

CheckoutNothing(p) ==
    /\ pc[p] = "checkout" /\ pinned[p] = NoCommit /\ kind[p] = "default"
    /\ Goto(p, "rev-parse")
    /\ UNCHANGED <<world, remote, disk, clone, local, seen>>

\* Mutant: git rev-parse of origin/HEAD.
RevParseOrigin(p) ==
    /\ pc[p] = "rev-parse"
    /\ got' = [got EXCEPT ![p] = clone.origin[DefaultBranch]]
    /\ Goto(p, "compile")
    /\ UNCHANGED <<world, remote, disk, clone, kind, pinned, compiled, pin, seen>>

\* git rev-parse HEAD
RevParse(p) ==
    /\ pc[p] = "rev-parse"
    /\ got' = [got EXCEPT ![p] = HeadOf(clone)]
    /\ Goto(p, "compile")
    /\ UNCHANGED <<world, remote, disk, clone, kind, pinned, compiled, pin, seen>>

\* ebc reads whatever the working tree holds by then.
Compile(p) ==
    /\ pc[p] = "compile"
    /\ compiled' = [compiled EXCEPT ![p] = HeadOf(clone)]
    /\ Goto(p, "lock")
    /\ UNCHANGED <<world, remote, disk, clone, kind, pinned, got, pin, seen>>

WriteLock(p) ==
    /\ pc[p] = "lock"
    /\ pin' = [pin EXCEPT ![p] = got[p]]
    /\ Goto(p, "idle")
    /\ UNCHANGED <<world, remote, disk, clone, kind, pinned, got, compiled, seen>>

\* Mutant: a clone that fails leaves its directory.
GitFailsLeaves(p) ==
    /\ "git" \in world.faults
    /\ pc[p] \in {"cloning", "fetch", "reset", "checkout", "bare", "rev-parse"}
    /\ Goto(p, "idle")
    /\ UNCHANGED <<world, remote, disk, clone, local, seen>>

\* A git command reports an error and the build ends; a failed clone takes
\* its directory away again.
GitFails(p) ==
    /\ "git" \in world.faults
    /\ pc[p] \in {"cloning", "fetch", "reset", "checkout", "bare", "rev-parse"}
    /\ disk' = IF pc[p] = "cloning" THEN "absent" ELSE disk
    /\ Goto(p, "idle")
    /\ UNCHANGED <<world, remote, clone, local, seen>>

CompileFails(p) ==
    /\ "compile" \in world.faults
    /\ pc[p] = "compile"
    /\ Goto(p, "idle")
    /\ UNCHANGED <<world, remote, disk, clone, local, seen>>

\* The process dies between two steps and leaves the disk as it is.
Crash(p) ==
    /\ "crash" \in world.faults
    /\ pc[p] # "idle"
    /\ Goto(p, "idle")
    /\ UNCHANGED <<world, remote, disk, clone, local, seen>>

\* A process goes on with its build by itself.
Step(p) ==
    \/ Exists(p) \/ CloneBegin(p) \/ CloneEnd(p) \/ FetchRefs(p) \/ Reset(p)
    \/ CheckoutPin(p) \/ CheckoutBranch(p) \/ CheckoutBare(p)
    \/ CheckoutNothing(p) \/ RevParse(p) \/ Compile(p) \/ WriteLock(p)

Next ==
    \/ \E p \in Users : \/ Step(p) \/ Start(p) \/ Unpin(p)
                        \/ GitFails(p) \/ CompileFails(p) \/ Crash(p)
    \/ \E b \in Names, x \in Commits : Push(b, x)

Spec == Init /\ [][Next]_vars

\* An ebpm process that has begun keeps running: nothing it does waits for
\* anyone else.
FairSpec == Spec /\ \A p \in Procs : WF_vars(p \in Users /\ Step(p))
-----------------------------------------------------------------------------
Have(p) == pc[p] \in {"compile", "lock"}

\* With the cache to itself, a process keeps two promises.  "records [...]
\* for a git dependency, the exact commit it resolved to"
\* (docs/guide/ebpm.md): the sources that were compiled are those of the
\* commit that goes into the lockfile.
Alone == CHOOSE p \in Users : TRUE
Solo == Users = {Alone}

CompilesWhatItLocks ==
    Solo /\ pc[Alone] = "lock" => compiled[Alone] = got[Alone]

\* "A git dependency's pinned commit is checked out again on a repeat build,
\* even if the remote branch has since moved" (docs/guide/ebpm.md).
PinnedBuildUsesPin ==
    \A p \in Users :
        pc[p] = "lock" /\ pinned[p] # NoCommit => compiled[p] = pinned[p]

\* Without a pin, the build gets a commit the wanted ref had on the remote
\* at some time since the build began - never an older one, never another
\* ref's.
UnpinnedBuildIsFresh ==
    Solo /\ Have(Alone) /\ pinned[Alone] = NoCommit
        => got[Alone] \in seen[Alone]

\* A directory nobody is cloning into is either not there or a whole clone,
\* unless a process died: cloneOrFetch takes any directory with a .git for a
\* clone it may fetch in.
PartialIsBeingCloned ==
    disk = "partial" /\ "crash" \notin world.faults
        => Cardinality({p \in Users : pc[p] = "cloning"}) = 1

\* What one process alone promises: resolving is one step that delivers the
\* pin, or the commit the ref had when it was fetched (PinnedResolution).
\* With a second process the promise is off (GitCacheRace).
Fetched(p) == pc[p] \in {"reset", "checkout", "bare", "rev-parse"}

Resolution ==
    INSTANCE PinnedResolution WITH
        head  <- WantedOn(remote, kind[Alone]),
        phase <- CASE ~Solo \/ pc[Alone] = "idle" -> "idle"
                   [] Solo /\ Have(Alone) -> "have"
                   [] OTHER -> "busy",
        pinned <- IF ~Solo \/ pc[Alone] = "idle" THEN NoCommit
                                               ELSE pinned[Alone],
        snap  <- IF Solo /\ Fetched(Alone) /\ disk = "ready"
                 THEN WantedOn([heads |-> clone.origin, tags |-> clone.tags],
                               kind[Alone])
                 ELSE NoCommit,
        got   <- IF Solo /\ Have(Alone) THEN got[Alone] ELSE NoCommit

ResolvesAtomically == Resolution!Spec

\* Every build that begins ends, with or without a result.
Building(p) == p \in Users /\ pc[p] # "idle"

BuildsEnd == \A p \in Procs : Building(p) ~> ~Building(p)
=============================================================================
