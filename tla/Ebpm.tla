-------------------------------- MODULE Ebpm --------------------------------
(***************************************************************************)
(* ebpm on one project: `ebpm build`, `list` and `update` resolve the      *)
(* project's dependency graph (pkg/src/resolve.cpp) through the pins of    *)
(* ebasic.lock, the package index and the git cache, compile it and write  *)
(* the lockfile (build.cpp, lockfile.cpp, main.cpp), while remotes move,   *)
(* versions are published and the manifest is edited.                      *)
(*                                                                         *)
(* One dependency entry is resolved per step.  The git commands of one     *)
(* entry are one step: what other processes do to the same cache directory *)
(* in between is the subject of GitCache.                                  *)
(***************************************************************************)
EXTENDS GitClone, SemVer, Sequences, FiniteSets

CONSTANTS
    Urls,           \* git repositories of packages
    PkgNames,       \* package names and dependency keys
    MaxDeps,        \* bound: dependency entries in one manifest
    RootDir,        \* the project's directory
    CacheDirs,      \* directories of the git cache
    DirOf,          \* [url, ref] -> cache directory (sanitizeForDirName)
    NoRef,          \* no branch, tag or rev is named
    NoUrl, NoVersion, NoPick, NoClone, NoManifest,
    Remotes0,       \* the repositories at first
    Projects,       \* the projects to look at, each with
    RootManifests,  \*   what its manifest may say
    PathManifest,   \*   its path dependencies, [directory -> manifest]
    GitManifest,    \*   what is in the repositories, [url, commit -> manifest]
    Releases,       \*   the index, [PkgNames -> Seq(entry)] as published
    Published0,     \*   how many of them the index has at first
    Moving,         \*   the branches that get pushed, as <<url, branch>>
    Commands,       \*   what the user runs: "build", "list", "update"
    Faults          \*   "index", "offline", "compile", "crash"

Refs == Names \cup Commits \cup {NoRef}

PathDirs == UNION {DOMAIN PathManifest[j] : j \in Projects}
Dirs == {RootDir} \cup PathDirs \cup CacheDirs

\* The entries a manifest can have: a directory; a repository, and which of
\* its refs; or a version requirement.
PathDeps == [name : PkgNames, kind : {"path"}, dir : {RootDir} \cup PathDirs]
GitDeps ==
    {e \in [name : PkgNames, kind : {"git"}, url : Urls,
            by : {"branch", "bare", "default"}, ref : Refs] :
        /\ e.by = "default" <=> e.ref = NoRef
        /\ e.by = "branch" => e.ref \in Names}
RegistryDeps == [name : PkgNames, kind : {"registry"}, req : Requirement]

Manifest == [name : PkgNames, lib : BOOLEAN,
             deps : Seq(PathDeps \cup GitDeps \cup RegistryDeps)]

\* An entry of a package's index file.
Release == [version : Version, url : Urls, ref : Refs]

\* Directories are told apart, manifests are read without an error, and what
\* the first remotes have is in GitManifest.
ASSUME EbpmAssumption ==
    /\ NoRef \notin Names \cup Commits
    /\ NoUrl \notin Urls /\ NoVersion \notin Version
    /\ DirOf \in [Urls \X Refs -> CacheDirs]
    /\ RootDir \notin PathDirs \cup CacheDirs /\ PathDirs \cap CacheDirs = {}
    /\ MaxDeps \in Nat
    /\ \A j \in Projects :
          /\ RootManifests[j] \subseteq Manifest
          /\ PathManifest[j] \in [DOMAIN PathManifest[j] -> Manifest]
          /\ GitManifest[j] \in [DOMAIN GitManifest[j] -> Manifest]
          /\ \A m \in RootManifests[j]
                   \cup {PathManifest[j][d] : d \in DOMAIN PathManifest[j]}
                   \cup {GitManifest[j][k] : k \in DOMAIN GitManifest[j]} :
                Len(m.deps) <= MaxDeps
          /\ Releases[j] \in [PkgNames -> Seq(Release)]
          /\ Published0[j] \in [PkgNames -> Nat]
          /\ \A n \in PkgNames : Published0[j][n] <= Len(Releases[j][n])
          /\ \A u \in Urls :
                /\ Remotes0[u].heads[DefaultBranch] # NoCommit
                /\ \A b \in Names :
                      \A x \in {Remotes0[u].heads[b], Remotes0[u].tags[b]} :
                         x # NoCommit => <<u, x>> \in DOMAIN GitManifest[j]
    /\ Remotes0 \in [Urls -> Remotes]
    /\ NoPick \notin [version : Version, dir : CacheDirs, commit : Commits,
                     url : Urls, ref : Refs, req : Requirement]
    /\ NoClone \notin [url : Urls, git : Clones]

VARIABLES
    project,        \* which of Projects this is
    remote,         \* the repositories
    published,      \* how many releases of each package the index has
    rootManifest,   \* the project's ebasic.toml
    lockfile,       \* the project's ebasic.lock: a sequence of pins
    cache,          \* the git cache: what is cloned in each directory
    cmd,            \* the running command
    targets,        \* the dependencies `update` re-resolves
    phase,          \* "idle", "visit", "compile", "write"
    stack,          \* `visiting`, with the manifest and the next entry
    order,          \* `order`/`resolvedByDir`
    picks,          \* `resolvedRegistryVersions`
    basis,          \* history: the manifest `lockfile` was written for
    offered         \* history: `published` when the command began

outside == <<project, remote, published, rootManifest>>
vars == <<project, remote, published, rootManifest, lockfile, cache, cmd,
          targets, phase, stack, order, picks, basis, offered>>

\* The index file of a package.
Index(n) == SubSeq(Releases[project][n], 1, published[n])
-----------------------------------------------------------------------------
(* ebasic.lock                                                               *)

NoPin == [name |-> "", commit |-> NoCommit, version |-> NoVersion,
          url |-> NoUrl, ref |-> NoRef]

\* Mutant: only the pins of registry dependencies are read back.
PinOfRelease(n) ==
    LET mine == {k \in DOMAIN lockfile :
                   lockfile[k].name = n /\ lockfile[k].url # NoUrl}
    IN  IF mine = {} THEN NoPin
        ELSE lockfile[CHOOSE k \in mine : \A j \in mine : j <= k]

\* readLockfilePins: entries with a commit or a url, the last of a name wins.
PinOf(n) ==
    LET mine == {k \in DOMAIN lockfile :
                   /\ lockfile[k].name = n
                   /\ lockfile[k].commit # NoCommit \/ lockfile[k].url # NoUrl}
    IN  IF mine = {} THEN NoPin
        ELSE lockfile[CHOOSE k \in mine : \A j \in mine : j <= k]

\* writeLockfile: everything but the root, under its [package].name; only a
\* registry dependency has version, url and ref.
Pins == [k \in 1..(Len(order) - 1) |->
            [name |-> order[k].manifest.name, commit |-> order[k].commit,
             version |-> order[k].origin.version, url |-> order[k].origin.url,
             ref |-> order[k].origin.ref]]

\* Mutant: the pins stay.
StillPinned(names) == lockfile

\* removeLockfilePinBlocks
Unpinned(names) ==
    LET kept[k \in 0..Len(lockfile)] ==
            IF k = 0 THEN <<>>
            ELSE IF lockfile[k].name \in names THEN kept[k - 1]
            ELSE Append(kept[k - 1], lockfile[k])
    IN  kept[Len(lockfile)]
-----------------------------------------------------------------------------
(* resolveGitDependency                                                      *)

\* cloneOrFetch
Opened(url, dir) ==
    IF cache[dir] = NoClone
    THEN [url |-> url, git |-> CloneOf(remote[url])]
    ELSE [cache[dir] EXCEPT
             !.git = ResetToOriginHead(Fetch(@, remote[cache[dir].url]))]

\* The checkout of a pin, of origin/<branch>, of a bare ref; whether it works.
\* A commit can only be checked out in a repository that has it.
CanResolve(open, by, ref, pinned) ==
    LET has(x) == <<open.url, x>> \in DOMAIN GitManifest[project]
    IN  IF pinned # NoCommit THEN has(pinned)
        ELSE \/ by = "default"
             \/ by = "branch" /\ CanCheckoutOrigin(open.git, ref)
             \/ CanCheckout(open.git, ref) /\ (ref \in Commits => has(ref))

CheckedOut(g, by, ref, pinned) ==
    CASE pinned # NoCommit -> Checkout(g, pinned)
      [] pinned = NoCommit /\ by = "default" -> g
      [] pinned = NoCommit /\ by = "branch" /\ CanCheckoutOrigin(g, ref)
            -> CheckoutOrigin(g, ref)
      [] OTHER -> Checkout(g, ref)

\* The working tree a package is read from.
TreeIn(c, dir) == HeadOf(c[dir].git)

ManifestIn(c, dir) ==
    IF dir = RootDir THEN rootManifest
    ELSE IF dir \in PathDirs THEN PathManifest[project][dir]
    ELSE GitManifest[project][<<c[dir].url, TreeIn(c, dir)>>]
-----------------------------------------------------------------------------
(* visit                                                                     *)

Top == stack[Len(stack)]
AtEntry == phase = "visit" /\ Top.next <= Len(Top.manifest.deps)
Entry == Top.manifest.deps[Top.next]

OnStack(d) == \E k \in DOMAIN stack : stack[k].dir = d
Loaded(d) == \E k \in DOMAIN order : order[k].dir = d
Lib(d) == \E k \in DOMAIN order : order[k].dir = d /\ order[k].manifest.lib

PathOrigin == [version |-> NoVersion, url |-> NoUrl, ref |-> NoRef]

NewFrame(d, m, commit, origin) ==
    [dir |-> d, manifest |-> m, commit |-> commit, origin |-> origin,
     next |-> 1, deps |-> {}]

Advance(f, d) == [f EXCEPT !.next = @ + 1, !.deps = @ \cup {d}]

\* The command ends; its locals go with it.
Return ==
    /\ phase' = "idle" /\ cmd' = "none" /\ targets' = {}
    /\ stack' = <<>> /\ order' = <<>>
    /\ picks' = [n \in PkgNames |-> NoPick]
    /\ offered' = Published0[project]

Fail == Return /\ UNCHANGED <<lockfile, basis>>

\* Mutant: no look at `visiting`.
GoAround(dir, commit, origin, c, pk) ==
    IF Loaded(dir)
    THEN /\ stack' = [stack EXCEPT ![Len(stack)] = Advance(@, dir)]
         /\ picks' = pk
         /\ UNCHANGED <<lockfile, cmd, targets, phase, order, basis, offered>>
    ELSE /\ stack' = Append(stack,
                            NewFrame(dir, ManifestIn(c, dir), commit, origin))
         /\ picks' = pk
         /\ UNCHANGED <<lockfile, cmd, targets, phase, order, basis, offered>>

\* The entry leads to `dir`, with the cache as c: loaded before, on the
\* stack, or to be loaded and visited now.
Go(dir, commit, origin, c, pk) ==
    IF Loaded(dir) /\ Lib(dir)
    THEN /\ stack' = [stack EXCEPT ![Len(stack)] = Advance(@, dir)]
         /\ picks' = pk
         /\ UNCHANGED <<lockfile, cmd, targets, phase, order, basis, offered>>
    ELSE IF Loaded(dir) THEN Fail
    ELSE IF OnStack(dir) THEN Fail
    ELSE /\ stack' = Append(stack,
                            NewFrame(dir, ManifestIn(c, dir), commit, origin))
         /\ picks' = pk
         /\ UNCHANGED <<lockfile, cmd, targets, phase, order, basis, offered>>

PathEntry ==
    /\ AtEntry /\ Entry.kind = "path"
    /\ IF Entry.dir \in {RootDir} \cup DOMAIN PathManifest[project]
       THEN Go(Entry.dir, NoCommit, PathOrigin, cache, picks)
       ELSE Fail
    /\ UNCHANGED <<outside, cache>>

\* Mutant: git rev-parse runs before the checkout.
GitEntryParsedEarly ==
    /\ AtEntry /\ Entry.kind = "git"
    /\ LET dir == DirOf[Entry.url, Entry.ref]
           pinned == PinOf(Entry.name).commit
           open == Opened(Entry.url, dir)
           c == [cache EXCEPT ![dir] =
                    [open EXCEPT !.git = CheckedOut(@, Entry.by, Entry.ref,
                                                    pinned)]]
       IN  IF CanResolve(open, Entry.by, Entry.ref, pinned)
           THEN /\ cache' = c
                /\ Go(dir, HeadOf(open.git), PathOrigin, c, picks)
           ELSE cache' = [cache EXCEPT ![dir] = open] /\ Fail
    /\ UNCHANGED outside

\* A git entry takes the commit pinned under its own key, whatever else the
\* pin says.
GitEntry ==
    /\ AtEntry /\ Entry.kind = "git"
    /\ LET dir == DirOf[Entry.url, Entry.ref]
           pinned == PinOf(Entry.name).commit
           open == Opened(Entry.url, dir)
           c == [cache EXCEPT ![dir] =
                    [open EXCEPT !.git = CheckedOut(@, Entry.by, Entry.ref,
                                                    pinned)]]
       IN  IF CanResolve(open, Entry.by, Entry.ref, pinned)
           THEN /\ cache' = c
                /\ Go(dir, TreeIn(c, dir), PathOrigin, c, picks)
           ELSE cache' = [cache EXCEPT ![dir] = open] /\ Fail
    /\ UNCHANGED outside

\* Mutant: the first pick serves every requirement.
RegistryFirstPick ==
    /\ AtEntry /\ Entry.kind = "registry"
    /\ picks[Entry.name] # NoPick
    /\ LET pick == picks[Entry.name]
       IN  Go(pick.dir, pick.commit,
              [version |-> pick.version, url |-> pick.url, ref |-> pick.ref],
              cache, picks)
    /\ UNCHANGED <<outside, cache>>

\* A registry entry whose name has been picked already.
RegistryAgain ==
    /\ AtEntry /\ Entry.kind = "registry"
    /\ picks[Entry.name] # NoPick
    /\ LET pick == picks[Entry.name]
       IN  IF Matches(Entry.req, pick.version)
           THEN Go(pick.dir, pick.commit,
                   [version |-> pick.version, url |-> pick.url,
                    ref |-> pick.ref], cache, picks)
           ELSE Fail
    /\ UNCHANGED <<outside, cache>>

\* The synthetic git dependency of a registry entry: the ref of the release
\* is given as a tag, whatever it was in the index.
Take(version, url, ref, pinned) ==
    LET dir == DirOf[url, ref]
        by == IF ref = NoRef THEN "default" ELSE "bare"
        open == Opened(url, dir)
        c == [cache EXCEPT ![dir] =
                 [open EXCEPT !.git = CheckedOut(@, by, ref, pinned)]]
        pick == [version |-> version, dir |-> dir, commit |-> TreeIn(c, dir),
                 url |-> url, ref |-> ref, req |-> Entry.req]
    IN  IF CanResolve(open, by, ref, pinned)
        THEN /\ cache' = c
             /\ Go(dir, TreeIn(c, dir),
                   [version |-> version, url |-> url, ref |-> ref], c,
                   [picks EXCEPT ![Entry.name] = pick])
        ELSE cache' = [cache EXCEPT ![dir] = open] /\ Fail

AtFirstRegistryEntry ==
    AtEntry /\ Entry.kind = "registry" /\ picks[Entry.name] = NoPick

\* Mutant: the index is always asked.
PinUnread(n, req) == FALSE

PinUsable(n, req) ==
    LET pin == PinOf(n)
    IN  pin.url # NoUrl /\ pin.version # NoVersion /\ Matches(req, pin.version)

\* A pin whose version satisfies the requirement: no index is needed.
RegistryPinned ==
    /\ AtFirstRegistryEntry /\ PinUsable(Entry.name, Entry.req)
    /\ LET pin == PinOf(Entry.name)
       IN  Take(pin.version, pin.url, pin.ref, pin.commit)
    /\ UNCHANGED outside

\* The highest release of the index that satisfies the requirement
\* (pickBestSatisfying: VersionPick), the first of its version.
Candidates(n, req) ==
    {k \in DOMAIN Index(n) : Matches(req, Index(n)[k].version)}

Best(n, req) ==
    CHOOSE k \in Candidates(n, req) : \A j \in Candidates(n, req) :
        \/ Less(Index(n)[j].version, Index(n)[k].version)
        \/ Index(n)[j].version = Index(n)[k].version /\ k <= j

RegistryFresh ==
    /\ AtFirstRegistryEntry /\ ~PinUsable(Entry.name, Entry.req)
    /\ IF Candidates(Entry.name, Entry.req) = {}
       THEN Fail /\ UNCHANGED cache
       ELSE LET e == Index(Entry.name)[Best(Entry.name, Entry.req)]
            IN  Take(e.version, e.url, e.ref, NoCommit)
    /\ UNCHANGED outside

\* cloneOrFetch runs for each of these entries, also with the pinned commit in
\* the cache.
Offline ==
    /\ "offline" \in Faults[project]
    /\ AtEntry /\ (Entry.kind = "git" \/ AtFirstRegistryEntry)

\* Mutant: the index is fetched before the pin is looked at.
IndexFetchFails ==
    /\ AtEntry
    /\ \/ Offline
       \/ "index" \in Faults[project] /\ AtFirstRegistryEntry
    /\ Fail
    /\ UNCHANGED <<outside, cache>>

\* The network: a fetch or clone for this entry fails, or that of the index.
FetchFails ==
    /\ AtEntry
    /\ \/ Offline
       \/ /\ "index" \in Faults[project] /\ AtFirstRegistryEntry
          /\ ~PinUsable(Entry.name, Entry.req)
    /\ Fail
    /\ UNCHANGED <<outside, cache>>

\* After the last entry of a package.
Resolved == [dir |-> Top.dir, manifest |-> Top.manifest, commit |-> Top.commit,
             origin |-> Top.origin, deps |-> Top.deps]

Finish ==
    /\ phase = "visit" /\ Top.next > Len(Top.manifest.deps) /\ Len(stack) > 1
    /\ IF Top.manifest.lib
       THEN LET up == Len(stack) - 1
            IN  /\ order' = Append(order, Resolved)
                /\ stack' = [SubSeq(stack, 1, up) EXCEPT
                                 ![up] = Advance(@, Top.dir)]
                /\ UNCHANGED <<lockfile, cmd, targets, phase, picks, basis,
                               offered>>
       ELSE Fail
    /\ UNCHANGED <<outside, cache>>

FinishRoot ==
    /\ phase = "visit" /\ Top.next > Len(Top.manifest.deps) /\ Len(stack) = 1
    /\ order' = Append(order, Resolved)
    /\ stack' = <<>>
    /\ phase' = "compile"
    /\ UNCHANGED <<outside, lockfile, cache, cmd, targets, picks, basis,
                   offered>>
-----------------------------------------------------------------------------
(* buildPackageWithDeps                                                      *)

\* byName: the packages of `order` by [package].name, the last of a name wins.
ByName(n) ==
    LET mine == {k \in DOMAIN order : order[k].manifest.name = n}
    IN  IF mine = {} THEN {}
        ELSE {order[CHOOSE k \in mine : \A j \in mine : j <= k].dir}

KeysOf(d) == UNION {{order[k].manifest.deps[j].name :
                       j \in DOMAIN order[k].manifest.deps} :
                      k \in {k \in DOMAIN order : order[k].dir = d}}

OrderDirs == {order[k].dir : k \in DOMAIN order}

ReachableBy(steps, d) ==
    LET ends == {s[2] : s \in steps}
    IN  {t \in ends : \A closed \in SUBSET ends :
            (\A s \in steps : s[1] \in closed \cup {d} => s[2] \in closed)
                => t \in closed}

\* collectTransitiveDeps: the packages a package is compiled against, found
\* through the keys of its manifest and of theirs.
LinkSteps == {s \in OrderDirs \X OrderDirs :
                \E n \in KeysOf(s[1]) : s[2] \in ByName(n)}

\* Mutant: the direct dependencies only.
LinkedDirectly(d) == {t \in OrderDirs : <<d, t>> \in LinkSteps}

LinkedWith(d) == ReachableBy(LinkSteps, d)
-----------------------------------------------------------------------------
(* The commands                                                              *)

Init ==
    /\ project \in Projects
    /\ remote = Remotes0
    /\ published = Published0[project]
    /\ rootManifest \in RootManifests[project]
    /\ lockfile = <<>>
    /\ cache = [d \in CacheDirs |-> NoClone]
    /\ cmd = "none" /\ targets = {}
    /\ phase = "idle" /\ stack = <<>> /\ order = <<>>
    /\ picks = [n \in PkgNames |-> NoPick]
    /\ basis = NoManifest
    /\ offered = Published0[project]

Resolve(c) ==
    /\ phase' = "visit" /\ cmd' = c
    /\ stack' = <<NewFrame(RootDir, rootManifest, NoCommit, PathOrigin)>>
    /\ order' = <<>>
    /\ offered' = published
    /\ UNCHANGED <<outside, cache, picks>>

Build ==
    /\ phase = "idle" /\ "build" \in Commands[project]
    /\ Resolve("build")
    /\ UNCHANGED <<lockfile, targets, basis>>

List ==
    /\ phase = "idle" /\ "list" \in Commands[project]
    /\ Resolve("list")
    /\ UNCHANGED <<lockfile, targets, basis>>

\* `ebpm update`, of one registry dependency or of all the manifest has: the
\* pins go first, then everything is as in a build.
RegistryNames ==
    {rootManifest.deps[k].name : k \in
        {k \in DOMAIN rootManifest.deps : rootManifest.deps[k].kind = "registry"}}

Update(names) ==
    /\ phase = "idle" /\ "update" \in Commands[project]
    /\ names # {} /\ names \subseteq RegistryNames
    /\ names = RegistryNames \/ Cardinality(names) = 1
    /\ lockfile' = Unpinned(names)
    /\ basis' = IF lockfile' = lockfile THEN basis ELSE NoManifest
    /\ targets' = names
    /\ Resolve("update")

\* `ebpm list` prints `order` and is done.
Listed == phase = "compile" /\ cmd = "list"
          /\ Fail /\ UNCHANGED <<outside, cache>>

\* ebc runs for every package of `order`; the first failure ends the build.
Compile ==
    /\ phase = "compile" /\ cmd # "list"
    /\ phase' = "write"
    /\ UNCHANGED <<outside, lockfile, cache, cmd, targets, stack, order, picks,
                   basis, offered>>

CompileFails ==
    /\ "compile" \in Faults[project]
    /\ phase = "compile" /\ cmd # "list"
    /\ Fail
    /\ UNCHANGED <<outside, cache>>

WriteLock ==
    /\ phase = "write"
    /\ lockfile' = Pins
    /\ basis' = rootManifest
    /\ Return
    /\ UNCHANGED <<outside, cache>>

\* ebpm dies.  The lockfile is truncated before it is written, so dying in
\* the middle of that leaves a part of it.
Crash ==
    /\ "crash" \in Faults[project]
    /\ phase # "idle"
    /\ IF phase = "write"
       THEN /\ \E n \in 0..(Len(Pins) - 1) : lockfile' = SubSeq(Pins, 1, n)
            /\ basis' = NoManifest
       ELSE UNCHANGED <<lockfile, basis>>
    /\ Return
    /\ UNCHANGED <<outside, cache>>
-----------------------------------------------------------------------------
(* The world around it                                                       *)

EditManifest(m) ==
    /\ phase = "idle"
    /\ m # rootManifest
    /\ rootManifest' = m
    /\ UNCHANGED <<project, remote, published, lockfile, cache, cmd, targets, phase,
                   stack, order, picks, basis, offered>>

Publish(n) ==
    /\ published[n] < Len(Releases[project][n])
    /\ published' = [published EXCEPT ![n] = @ + 1]
    /\ UNCHANGED <<project, remote, rootManifest, lockfile, cache, cmd, targets, phase,
                   stack, order, picks, basis, offered>>

Named == {remote[u].heads[b] : u \in Urls, b \in Names}
             \cup {remote[u].tags[b] : u \in Urls, b \in Names}
Fetched == {c.git.origin[b] : c \in {cache[d] : d \in CacheDirs} \ {NoClone},
                              b \in Names}
Locked == {lockfile[k].commit : k \in DOMAIN lockfile}

\* Somebody pushes a commit nobody has yet.
Push(u, b, x) ==
    /\ <<u, b>> \in Moving[project]
    /\ remote[u].heads[b] # NoCommit
    /\ <<u, x>> \in DOMAIN GitManifest[project]
    /\ x \notin Named \cup Fetched \cup Locked
    /\ remote' = [remote EXCEPT ![u].heads[b] = x]
    /\ UNCHANGED <<project, published, rootManifest, lockfile, cache, cmd, targets,
                   phase, stack, order, picks, basis, offered>>

Run ==
    \/ PathEntry \/ GitEntry \/ RegistryAgain \/ RegistryPinned
    \/ RegistryFresh \/ FetchFails \/ Finish \/ FinishRoot
    \/ Listed \/ Compile \/ CompileFails \/ WriteLock

Next ==
    \/ Run \/ Crash
    \/ Build \/ List \/ \E names \in SUBSET PkgNames : Update(names)
    \/ \E m \in RootManifests[project] : EditManifest(m)
    \/ \E n \in PkgNames : Publish(n)
    \/ \E u \in Urls, b \in Names, x \in Commits : Push(u, b, x)

Spec == Init /\ [][Next]_vars
-----------------------------------------------------------------------------
Entries == UNION {{m.deps[k] : k \in DOMAIN m.deps} :
                    m \in {order[k].manifest : k \in DOMAIN order}}

RegistryEntries == {e \in Entries : e.kind = "registry"}

\* The resolution as DepGraph sees it: of a manifest, whether there is a
\* [lib] and how many entries are left.
GraphPhase == IF phase \in {"compile", "write"} THEN "done" ELSE phase

GraphFrame(f) == [dir |-> f.dir, lib |-> f.manifest.lib,
                  left |-> Len(f.manifest.deps) + 1 - f.next, deps |-> f.deps]

GraphPackage(p) == [dir |-> p.dir, lib |-> p.manifest.lib, deps |-> p.deps]

GraphStack == [k \in DOMAIN stack |-> GraphFrame(stack[k])]
GraphOrder == [k \in DOMAIN order |-> GraphPackage(order[k])]

\* Resolving follows the traversal of DepGraph, whatever the entries are and
\* however they are resolved.
Graph ==
    INSTANCE DepGraph WITH
        MaxDeps <- MaxDeps, phase <- GraphPhase, stack <- GraphStack,
        order <- GraphOrder

ResolvesDepthFirst == Graph!Spec

\* "A package name resolves to exactly one version for the whole dependency
\* graph" (docs/guide/ebpm.md), and that version satisfies every requirement
\* in it; in particular "a manifest edit must always take effect"
\* (resolve.cpp).
OneVersionForAll ==
    phase \in {"compile", "write"} =>
        \A e \in RegistryEntries :
            /\ picks[e.name] # NoPick
            /\ Matches(e.req, picks[e.name].version)
            /\ Loaded(picks[e.name].dir)

\* The sources a build compiles are those of the commits it locks.  The
\* exception is a clone that is fetched and checked out twice: for two git
\* entries, two registry dependencies, or one of each.
GitEntriesTo(d) ==
    UNION {{<<k, j>> : j \in {j \in DOMAIN order[k].manifest.deps :
                  LET e == order[k].manifest.deps[j]
                  IN  e.kind = "git" /\ DirOf[e.url, e.ref] = d}} :
              k \in DOMAIN order}

PickedIn(d) == {n \in PkgNames : picks[n] # NoPick /\ picks[n].dir = d}

ResolvedOnce(d) == Cardinality(GitEntriesTo(d)) + Cardinality(PickedIn(d)) < 2

CompilesWhatItLocks ==
    phase \in {"compile", "write"} =>
        \A k \in DOMAIN order :
            order[k].commit # NoCommit /\ ResolvedOnce(order[k].dir)
                => TreeIn(cache, order[k].dir) = order[k].commit

\* The directory an entry leads to; whether the package there has its key for
\* a name, as `byName` and the pins take for granted.
Target(pk, e) ==
    IF e.kind = "path" THEN e.dir
    ELSE IF e.kind = "git" THEN DirOf[e.url, e.ref]
    ELSE pk[e.name].dir

KeyIsName(e) ==
    \A k \in DOMAIN order :
        order[k].dir = Target(picks, e) => order[k].manifest.name = e.name

NamesDiffer ==
    \A j, k \in DOMAIN order :
        order[j].manifest.name = order[k].manifest.name => j = k

\* "This is what makes a repeat build reproducible" (docs/guide/ebpm.md): a
\* build of the manifest the lockfile was written for locks the same.  The
\* exception is a dependency under another key than its package's name, whose
\* pin is written under the one and looked up under the other, and packages of
\* one name, which share a pin.
RebuildLocksTheSame ==
    /\ phase = "write" /\ cmd = "build" /\ basis = rootManifest
    /\ NamesDiffer /\ \A e \in Entries : e.kind # "path" => KeyIsName(e)
    => Pins = lockfile

\* ... and resolves, as long as the repositories of its packages answer and
\* ebpm is not killed: an index that cannot be fetched or has grown, branches
\* that moved and clones that other commands have left do not make a
\* resolution fail that was successful for the same manifest.  This is less
\* than the guide promises, "an ordinary rebuild is fully offline-capable"
\* (ebpm.md, 285): resolveGitDependency fetches before it looks at the pin,
\* and without a network the rebuild fails there.
Rebuild == cmd # "update" /\ basis = rootManifest

RebuildResolves ==
    [][phase = "visit" /\ Rebuild =>
          phase' # "idle" \/ (Offline /\ FetchFails) \/ Crash]_vars

\* A build changes the version of a pinned registry dependency only when
\* some requirement in the graph excludes it: a newer release is not enough.
NoSilentUpgrade ==
    phase = "write" /\ cmd = "build" =>
        \A n \in {e.name : e \in RegistryEntries} :
            LET pin == PinOf(n)
            IN  /\ pin.url # NoUrl
                /\ \A e \in RegistryEntries :
                      e.name = n => Matches(e.req, pin.version)
                => /\ picks[n].version = pin.version
                   /\ picks[n].commit = pin.commit

\* After `ebpm update`, a dependency it was for is at no lower version than
\* the best its requirement allowed in the index when the command began.
UpdateTakesTheNewest ==
    phase = "write" /\ cmd = "update" =>
        \A n \in targets :
            \A k \in 1..offered[n] :
                Matches(picks[n].req, Releases[project][n][k].version) =>
                    ~Less(picks[n].version, Releases[project][n][k].version)

\* What the manifests of `order` say of who depends on whom.
DependencySteps == {s \in OrderDirs \X OrderDirs :
                      \E k \in DOMAIN order :
                          order[k].dir = s[1] /\ s[2] \in order[k].deps}

\* "Each package receives the flags for its entire transitive dependency
\* closure, not just its direct dependencies" (docs/guide/ebpm.md) - unless,
\* again, a key is not its package's name (collectTransitiveDeps looks for a
\* package of the key's name and links nothing when there is none), or two
\* packages have one name (it finds the last).
LinksWholeClosure ==
    phase = "compile" /\ (\A e \in Entries : KeyIsName(e)) /\ NamesDiffer =>
        \A d \in OrderDirs : LinkedWith(d) = ReachableBy(DependencySteps, d)
=============================================================================
