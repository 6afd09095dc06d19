----------------------------- MODULE Ebpm_proofs -----------------------------
(***************************************************************************)
(* Proofs about Ebpm, for any packages, repositories, index, manifests,    *)
(* commands and faults: a package name has one version in the whole graph  *)
(* and it satisfies every requirement, a build upgrades nothing unless it  *)
(* has to, `ebpm update` takes the newest release it may, and resolving    *)
(* follows the traversal of DepGraph step by step.                         *)
(***************************************************************************)
EXTENDS Ebpm, WellFoundedInduction, FiniteSetTheorems, SequenceTheorems, TLAPS

USE GitAssumption, IntMaxAssumption

\* The commits a repository of project j is known to have.
CommitsOf(j, u) == {x \in Commits : <<u, x>> \in DOMAIN GitManifest[j]}

\* A remote and a clone with these commits and no others.  HEAD is at one of
\* them, and the default branch exists.
RemotesOf(S) ==
    {r \in Remotes :
        /\ r.heads[DefaultBranch] # NoCommit
        /\ \A n \in Names : /\ r.heads[n] \in S \cup {NoCommit}
                            /\ r.tags[n] \in S \cup {NoCommit}}

ClonesOf(S) ==
    {c \in Clones :
        /\ HeadOf(c) \in S /\ c.origin[DefaultBranch] \in S
        /\ \A n \in Names : /\ c.local[n] \in S \cup {NoCommit}
                            /\ c.origin[n] \in S \cup {NoCommit}
                            /\ c.tags[n] \in S \cup {NoCommit}}

ClonedDirs(j) == {c \in [url : Urls, git : Clones] :
                    c.git \in ClonesOf(CommitsOf(j, c.url))}

\* What is read from an ebasic.toml.
Read == {m \in Manifest : Len(m.deps) <= MaxDeps}

\* A pin, and where a package came from: one of a registry dependency has all
\* there is to say.
Pin == {e \in [name : PkgNames, commit : MaybeCommit,
               version : Version \cup {NoVersion}, url : Urls \cup {NoUrl},
               ref : Refs] :
            e.url # NoUrl => e.commit \in Commits /\ e.version \in Version}

Origins == {o \in [version : Version \cup {NoVersion},
                   url : Urls \cup {NoUrl}, ref : Refs] :
                o.url # NoUrl => o.version \in Version}

Package == {f \in [dir : Dirs, manifest : Read, commit : MaybeCommit,
                   origin : Origins, deps : SUBSET Dirs] :
                f.origin.url # NoUrl => f.commit \in Commits}

Frame == {f \in [dir : Dirs, manifest : Read, commit : MaybeCommit,
                 origin : Origins, next : Nat \ {0}, deps : SUBSET Dirs] :
                /\ f.origin.url # NoUrl => f.commit \in Commits
                /\ f.next <= Len(f.manifest.deps) + 1}

Pick == [version : Version, dir : CacheDirs, commit : Commits,
         url : Urls, ref : Refs, req : Requirement]

TypeOK ==
    /\ project \in Projects
    /\ remote \in [Urls -> Remotes]
    /\ \A u \in Urls : remote[u] \in RemotesOf(CommitsOf(project, u))
    /\ published \in [PkgNames -> Nat]
    /\ \A n \in PkgNames : /\ Published0[project][n] <= published[n]
                            /\ published[n] <= Len(Releases[project][n])
    /\ rootManifest \in Read
    /\ lockfile \in Seq(Pin)
    /\ cache \in [CacheDirs -> ClonedDirs(project) \cup {NoClone}]
    /\ cmd \in {"none", "build", "list", "update"}
    /\ targets \in SUBSET PkgNames
    /\ phase \in {"idle", "visit", "compile", "write"}
    /\ stack \in Seq(Frame)
    /\ order \in Seq(Package)
    /\ picks \in [PkgNames -> Pick \cup {NoPick}]
    /\ offered \in [PkgNames -> Nat]
    /\ \A n \in PkgNames : offered[n] <= published[n]

\* What there is of a resolution in each phase.
Phases ==
    /\ phase = "visit" <=> stack # <<>>
    /\ phase = "idle" => /\ order = <<>> /\ targets = {}
                         /\ picks = [n \in PkgNames |-> NoPick]
    /\ phase = "visit" => stack[1].manifest = rootManifest
    /\ phase \in {"compile", "write"} =>
          order # <<>> /\ order[Len(order)].manifest = rootManifest

\* `update` is for registry dependencies of the root, which it has unpinned.
Unlocked ==
    /\ targets \subseteq RegistryNames
    /\ \A k \in DOMAIN lockfile : lockfile[k].name \notin targets

\* With the picks pk, a registry entry has a version; it leads to directory
\* d; it has been dealt with, where `loaded` are the directories in `order`.
Served(pk, e) ==
    e.kind = "registry" =>
        pk[e.name] # NoPick /\ Matches(e.req, pk[e.name].version)

LeadsTo(pk, e, d) ==
    Served(pk, e) /\ (e.kind = "registry" => pk[e.name].dir = d)

Settled(pk, loaded, e) ==
    Served(pk, e) /\ (e.kind = "registry" => pk[e.name].dir \in loaded)

\* All entries of the packages in `order` are settled, those of a package on
\* the stack up to the current one, which led to the next package there.
EntriesSettled ==
    /\ \A k \in DOMAIN order : \A i \in DOMAIN order[k].manifest.deps :
          Settled(picks, OrderDirs, order[k].manifest.deps[i])
    /\ \A k \in DOMAIN stack : \A i \in 1..(stack[k].next - 1) :
          Settled(picks, OrderDirs, stack[k].manifest.deps[i])
    /\ \A k \in 1..(Len(stack) - 1) :
          /\ stack[k].next <= Len(stack[k].manifest.deps)
          /\ LeadsTo(picks, stack[k].manifest.deps[stack[k].next],
                     stack[k + 1].dir)

\* Where a pick came from: the pin, if the requirement allowed it, else it was
\* the highest release the index had, which has only grown since.
WellPicked(n, req, version, commit) ==
    IF PinUsable(n, req)
    THEN version = PinOf(n).version /\ commit = PinOf(n).commit
    ELSE \A k \in 1..offered[n] :
            Matches(req, Releases[project][n][k].version) =>
                ~Less(version, Releases[project][n][k].version)

\* A pick is for an entry of a manifest, and its package has been reached.
\* The manifests read so far, and whether one of them asks for n like this.
ManifestsRead == {order[k].manifest : k \in DOMAIN order}
                     \cup {stack[k].manifest : k \in DOMAIN stack}

AsksFor(m, n, req) ==
    \E i \in DOMAIN m.deps :
        m.deps[i].kind = "registry" /\ m.deps[i].name = n /\ m.deps[i].req = req

PicksJustified ==
    \A n \in PkgNames :
        picks[n] # NoPick =>
            /\ WellPicked(n, picks[n].req, picks[n].version, picks[n].commit)
            /\ \E m \in ManifestsRead : AsksFor(m, n, picks[n].req)
            /\ Loaded(picks[n].dir) \/ OnStack(picks[n].dir)

Inv == TypeOK /\ Phases /\ Unlocked /\ EntriesSettled /\ PicksJustified

\* The stack is a path: no package is entered twice.
StackIsPath ==
    /\ \A j, k \in DOMAIN stack : stack[j].dir = stack[k].dir => j = k
    /\ \A k \in DOMAIN stack : ~Loaded(stack[k].dir)

\* Entry j of the package in directory p has opened clone d: the one below
\* the top of the stack has when it led to the next package.
ToGit(e, d) == e.kind = "git" /\ DirOf[e.url, e.ref] = d

Opens(m, j, d) == j \in DOMAIN m.deps /\ ToGit(m.deps[j], d)

HasOpened(dir, j, d) ==
    \/ \E k \in DOMAIN order :
          order[k].dir = dir /\ Opens(order[k].manifest, j, d)
    \/ \E k \in DOMAIN stack :
          /\ stack[k].dir = dir /\ Opens(stack[k].manifest, j, d)
          /\ j <= stack[k].next /\ (j = stack[k].next => k # Len(stack))

Visits(d) == {v \in Dirs \X (1..MaxDeps) : HasOpened(v[1], v[2], d)}

\* A clone is opened for a git entry or a registry dependency.
ResolvedEver(d) == Visits(d) # {} \/ PickedIn(d) # {}

ResolvedTwice(d) ==
    \/ \E v, w \in Visits(d) : v # w
    \/ \E n, o \in PickedIn(d) : n # o
    \/ Visits(d) # {} /\ PickedIn(d) # {}

\* A package of the git cache was read from the commit its clone is still at,
\* unless the clone has been opened again.
Stands(f) ==
    f.commit # NoCommit =>
        /\ f.dir \in CacheDirs /\ ResolvedEver(f.dir)
        /\ TreeIn(cache, f.dir) = f.commit \/ ResolvedTwice(f.dir)

ClonesStand ==
    /\ IsFiniteSet({n \in PkgNames : picks[n] # NoPick})
    /\ \A k \in DOMAIN order : Stands(order[k])
    /\ \A k \in DOMAIN stack : Stands(stack[k])

CloneInv == StackIsPath /\ ClonesStand

\* With the picks pk, the dependencies that f has are what its first n
\* entries lead to.
LeadTo(pk, m, n, d) == \E i \in 1..n : Target(pk, m.deps[i]) = d

Told(pk, f, n) == \A d : d \in f.deps <=> LeadTo(pk, f.manifest, n, d)

\* `order` knows the dependencies of its packages, and has them all; a
\* package on the stack knows those of the entries it is done with.
KnowsAll(f) ==
    Told(picks, f, Len(f.manifest.deps)) /\ \A d \in f.deps : Loaded(d)

KnowsSoFar(f) == Told(picks, f, f.next - 1) /\ \A d \in f.deps : Loaded(d)

DepsInv ==
    /\ \A k \in DOMAIN order : KnowsAll(order[k])
    /\ \A k \in DOMAIN stack : KnowsSoFar(stack[k])
    /\ \A k \in 1..(Len(stack) - 1) :
          Target(picks, stack[k].manifest.deps[stack[k].next])
              = stack[k + 1].dir
-----------------------------------------------------------------------------
(* What the git commands do to a clone that only has the commits S.          *)

LEMMA CloneKeeps ==
    ASSUME NEW S \in SUBSET Commits, NEW r \in RemotesOf(S)
    PROVE  CloneOf(r) \in ClonesOf(S)
<1>1. /\ r \in Remotes /\ r.heads[DefaultBranch] \in S
      /\ \A n \in Names : /\ r.heads[n] \in S \cup {NoCommit}
                          /\ r.tags[n] \in S \cup {NoCommit}
  BY DEF RemotesOf
<1>2. CloneOf(r) \in Clones
  BY <1>1 DEF CloneOf, Clones, Remotes, MaybeCommit
<1>3. HeadOf(CloneOf(r)) = r.heads[DefaultBranch]
  BY <1>1 DEF CloneOf, HeadOf
<1> QED BY <1>1, <1>2, <1>3 DEF CloneOf, ClonesOf

LEMMA FetchKeeps ==
    ASSUME NEW S \in SUBSET Commits, NEW r \in RemotesOf(S),
           NEW c \in ClonesOf(S)
    PROVE  Fetch(c, r) \in ClonesOf(S)
<1>1. /\ r \in Remotes /\ r.heads[DefaultBranch] \in S
      /\ \A n \in Names : /\ r.heads[n] \in S \cup {NoCommit}
                          /\ r.tags[n] \in S \cup {NoCommit}
  BY DEF RemotesOf
<1>2. /\ c \in Clones /\ HeadOf(c) \in S
      /\ \A n \in Names : /\ c.local[n] \in S \cup {NoCommit}
                          /\ c.tags[n] \in S \cup {NoCommit}
  BY DEF ClonesOf
<1>3. /\ Fetch(c, r) \in Clones
      /\ Fetch(c, r).origin = r.heads
      /\ Fetch(c, r).local = c.local
      /\ Fetch(c, r).head = c.head
      /\ Fetch(c, r).at = c.at
      /\ \A n \in Names : Fetch(c, r).tags[n] =
              IF c.tags[n] = NoCommit THEN r.tags[n] ELSE c.tags[n]
  BY <1>1, <1>2 DEF Fetch, Clones, Remotes
<1>4. HeadOf(Fetch(c, r)) = HeadOf(c)
  BY <1>3 DEF HeadOf
<1> QED BY <1>1, <1>2, <1>3, <1>4 DEF ClonesOf

LEMMA DetachKeeps ==
    ASSUME NEW S \in SUBSET Commits, NEW c \in ClonesOf(S), NEW x \in S
    PROVE  DetachAt(c, x) \in ClonesOf(S) /\ HeadOf(DetachAt(c, x)) = x
<1>1. c \in Clones
  BY DEF ClonesOf
<1>2. /\ DetachAt(c, x) \in Clones
      /\ DetachAt(c, x).origin = c.origin
      /\ DetachAt(c, x).tags = c.tags
      /\ DetachAt(c, x).local = c.local
      /\ HeadOf(DetachAt(c, x)) = x
  BY <1>1 DEF DetachAt, Clones, HeadOf, MaybeCommit
<1> QED BY <1>2 DEF ClonesOf

LEMMA ResetKeeps ==
    ASSUME NEW S \in SUBSET Commits, NEW c \in ClonesOf(S)
    PROVE  ResetToOriginHead(c) \in ClonesOf(S)
<1> DEFINE x == c.origin[DefaultBranch]
<1>1. /\ c \in Clones /\ x \in S
      /\ \A n \in Names : /\ c.local[n] \in S \cup {NoCommit}
                          /\ c.origin[n] \in S \cup {NoCommit}
                          /\ c.tags[n] \in S \cup {NoCommit}
  BY DEF ClonesOf
<1>2. CASE c.head = Detached
  <2>1. ResetToOriginHead(c) = [c EXCEPT !.at = x]
    BY <1>2 DEF ResetToOriginHead
  <2> QED BY <1>1, <1>2, <2>1 DEF Clones, ClonesOf, HeadOf, MaybeCommit
<1>3. CASE c.head # Detached
  <2>1. ResetToOriginHead(c) = [c EXCEPT !.local[c.head] = x]
    BY <1>3 DEF ResetToOriginHead
  <2>2. c.head \in Names /\ x \in MaybeCommit
    BY <1>1, <1>3 DEF Clones, MaybeCommit
  <2>3. /\ ResetToOriginHead(c) \in Clones
        /\ ResetToOriginHead(c).head = c.head
        /\ ResetToOriginHead(c).origin = c.origin
        /\ ResetToOriginHead(c).tags = c.tags
        /\ \A n \in Names : ResetToOriginHead(c).local[n] =
                               IF n = c.head THEN x ELSE c.local[n]
    BY <1>1, <2>1, <2>2 DEF Clones
  <2>4. HeadOf(ResetToOriginHead(c)) = x
    BY <1>3, <2>2, <2>3 DEF HeadOf
  <2> QED BY <1>1, <2>3, <2>4 DEF ClonesOf
<1> QED BY <1>2, <1>3

LEMMA CheckoutKeeps ==
    ASSUME NEW S \in SUBSET Commits, NEW c \in ClonesOf(S),
           NEW ref \in S \cup Names, CanCheckout(c, ref)
    PROVE  Checkout(c, ref) \in ClonesOf(S)
<1>1. /\ c \in Clones /\ c.origin[DefaultBranch] \in S
      /\ \A n \in Names : /\ c.local[n] \in S \cup {NoCommit}
                          /\ c.origin[n] \in S \cup {NoCommit}
                          /\ c.tags[n] \in S \cup {NoCommit}
  BY DEF ClonesOf
<1>2. CASE ref \in Commits
  BY <1>2, DetachKeeps DEF Checkout
<1>3. CASE ref \in Names /\ c.local[ref] # NoCommit
  <2>1. Checkout(c, ref) = [c EXCEPT !.head = ref]
    BY <1>3 DEF Checkout
  <2>2. HeadOf([c EXCEPT !.head = ref]) = c.local[ref]
    BY <1>1, <1>3 DEF HeadOf, Clones
  <2> QED BY <1>1, <1>3, <2>1, <2>2 DEF Clones, ClonesOf
<1>4. CASE ref \in Names /\ c.local[ref] = NoCommit /\ c.tags[ref] # NoCommit
  <2>1. Checkout(c, ref) = DetachAt(c, c.tags[ref]) /\ c.tags[ref] \in S
    BY <1>1, <1>4 DEF Checkout
  <2> QED BY <2>1, DetachKeeps
<1>5. CASE ref \in Names /\ c.local[ref] = NoCommit /\ c.tags[ref] = NoCommit
  <2>1. Checkout(c, ref) = [c EXCEPT !.head = ref, !.local[ref] = c.origin[ref]]
    BY <1>5 DEF Checkout
  <2>2. c.origin[ref] \in S
    BY <1>1, <1>5 DEF CanCheckout
  <2>3. Checkout(c, ref) =
            [head |-> ref, at |-> c.at,
             local |-> [c.local EXCEPT ![ref] = c.origin[ref]],
             origin |-> c.origin, tags |-> c.tags]
    BY <1>1, <2>1 DEF Clones
  <2>4. [c.local EXCEPT ![ref] = c.origin[ref]] \in [Names -> MaybeCommit]
    BY <1>1, <2>2 DEF Clones, MaybeCommit
  <2>5. Checkout(c, ref) \in Clones
    BY <1>1, <1>5, <2>3, <2>4 DEF Clones
  <2>6. HeadOf(Checkout(c, ref)) = c.origin[ref]
    BY <1>1, <1>5, <2>3 DEF Clones, HeadOf
  <2>7. \A n \in Names : Checkout(c, ref).local[n] \in S \cup {NoCommit}
    BY <1>1, <2>2, <2>3 DEF Clones
  <2>8. Checkout(c, ref).origin = c.origin /\ Checkout(c, ref).tags = c.tags
    BY <2>3
  <2> QED BY <1>1, <2>2, <2>5, <2>6, <2>7, <2>8 DEF ClonesOf
<1> QED BY <1>2, <1>3, <1>4, <1>5
-----------------------------------------------------------------------------
(* Projects, directories and pins.                                           *)

\* The parts of EbpmAssumption the proofs use.
LEMMA Constants ==
    ASSUME NEW j \in Projects
    PROVE  /\ NoRef \notin Names \cup Commits
           /\ NoUrl \notin Urls /\ NoVersion \notin Version
           /\ DirOf \in [Urls \X Refs -> CacheDirs]
           /\ RootDir \in Dirs /\ PathDirs \subseteq Dirs
           /\ CacheDirs \subseteq Dirs
           /\ DOMAIN PathManifest[j] \subseteq PathDirs
           /\ RootDir \notin PathDirs \cup CacheDirs
           /\ PathDirs \cap CacheDirs = {}
           /\ Releases[j] \in [PkgNames -> Seq(Release)]
           /\ Published0[j] \in [PkgNames -> Nat]
           /\ \A n \in PkgNames : Published0[j][n] <= Len(Releases[j][n])
           /\ NoPick \notin Pick /\ NoClone \notin ClonedDirs(j)
<1>1. NoPick \notin Pick /\ NoClone \notin [url : Urls, git : Clones]
  BY EbpmAssumption, Zenon DEF Pick
<1>2. ClonedDirs(j) \subseteq [url : Urls, git : Clones]
  BY Zenon DEF ClonedDirs
<1>3. /\ Releases[j] \in [PkgNames -> Seq(Release)]
      /\ Published0[j] \in [PkgNames -> Nat]
      /\ \A n \in PkgNames : Published0[j][n] <= Len(Releases[j][n])
  BY EbpmAssumption, Zenon
<1>4. /\ NoRef \notin Names \cup Commits
      /\ NoUrl \notin Urls /\ NoVersion \notin Version
      /\ DirOf \in [Urls \X Refs -> CacheDirs]
      /\ RootDir \notin PathDirs \cup CacheDirs /\ PathDirs \cap CacheDirs = {}
  BY EbpmAssumption, Zenon
<1>5. /\ RootDir \in Dirs /\ PathDirs \subseteq Dirs /\ CacheDirs \subseteq Dirs
      /\ DOMAIN PathManifest[j] \subseteq PathDirs
  BY Zenon DEF Dirs, PathDirs
<1> QED BY <1>1, <1>2, <1>3, <1>4, <1>5, Zenon

\* Every manifest there is to read.
LEMMA Readable ==
    ASSUME NEW j \in Projects
    PROVE  /\ RootManifests[j] \subseteq Read
           /\ \A d \in DOMAIN PathManifest[j] : PathManifest[j][d] \in Read
           /\ \A k \in DOMAIN GitManifest[j] : GitManifest[j][k] \in Read
<1> DEFINE all == RootManifests[j]
                     \cup {PathManifest[j][d] : d \in DOMAIN PathManifest[j]}
                     \cup {GitManifest[j][k] : k \in DOMAIN GitManifest[j]}
<1>1. /\ RootManifests[j] \subseteq Manifest
      /\ PathManifest[j] \in [DOMAIN PathManifest[j] -> Manifest]
      /\ GitManifest[j] \in [DOMAIN GitManifest[j] -> Manifest]
      /\ \A m \in all : Len(m.deps) <= MaxDeps
  BY EbpmAssumption, Zenon
<1>2. all \subseteq Manifest
  BY <1>1
<1>3. all \subseteq Read
  BY <1>1, <1>2, Zenon DEF Read
<1> QED BY <1>3, Zenon

\* The entries of a manifest.
LEMMA EntryType ==
    ASSUME NEW m \in Read, NEW i \in 1..Len(m.deps)
    PROVE  /\ i \in DOMAIN m.deps
           /\ m.deps[i].name \in PkgNames
           /\ \/ m.deps[i] \in PathDeps /\ m.deps[i].kind = "path"
              \/ m.deps[i] \in GitDeps /\ m.deps[i].kind = "git"
              \/ m.deps[i] \in RegistryDeps /\ m.deps[i].kind = "registry"
<1>1. m.deps \in Seq(PathDeps \cup GitDeps \cup RegistryDeps)
  BY DEF Read, Manifest
<1>2. /\ i \in DOMAIN m.deps
      /\ m.deps[i] \in PathDeps \cup GitDeps \cup RegistryDeps
  BY <1>1
<1>3. \A e \in PathDeps : e.name \in PkgNames /\ e.kind = "path"
  BY DEF PathDeps
<1>4. \A e \in GitDeps : e.name \in PkgNames /\ e.kind = "git"
  BY DEF GitDeps
<1>5. \A e \in RegistryDeps : e.name \in PkgNames /\ e.kind = "registry"
  BY DEF RegistryDeps
<1> QED BY <1>2, <1>3, <1>4, <1>5, Zenon

LEMMA LeastNumber ==
    ASSUME NEW S, S \subseteq Nat, S # {}
    PROVE  \E x \in S : \A y \in S : x <= y
<1>1. \E x \in S : \A y \in S : ~(<<y, x>> \in OpToRel(<, Nat))
  BY NatLessThanWellFounded, WFMin, Zenon
<1>2. \A x, y \in Nat : y < x => <<y, x>> \in OpToRel(<, Nat)
  BY Zenon DEF OpToRel
<1>3. \E x \in S : \A y \in S : ~(y < x)
  BY <1>1, <1>2, Zenon
<1> QED
  BY <1>3, SMT

\* A set of numbers below a bound has a greatest.
LEMMA GreatestNumber ==
    ASSUME NEW n \in Nat, NEW S \in SUBSET (0..n), S # {}
    PROVE  \E x \in S : \A y \in S : y <= x
<1> DEFINE T == {n - x : x \in S}
<1>0. PICK x \in S : TRUE
  OBVIOUS
<1>1. T \subseteq Nat /\ T # {}
  <2>1. n - x \in T
    BY <1>0
  <2>2. \A y \in S : n - y \in Nat
    OBVIOUS
  <2> QED BY <2>1, <2>2
<1>2. PICK y \in T : \A z \in T : y <= z
  <2> HIDE DEF T
  <2> QED BY <1>1, LeastNumber
<1>3. PICK w \in S : y = n - w
  BY <1>2
<1>4. ASSUME NEW z \in S
      PROVE  z <= w
  <2>1. n - z \in T
    OBVIOUS
  <2>2. y <= n - z
    BY <1>2, <2>1
  <2>3. w \in 0..n /\ z \in 0..n
    OBVIOUS
  <2> QED BY <1>3, <2>2, <2>3
<1> QED BY <1>4

\* A pin is an entry of the lockfile, if there is one of the name.
LEMMA PinOfType ==
    ASSUME TypeOK, NEW n \in PkgNames
    PROVE  /\ \/ PinOf(n) = NoPin
              \/ /\ PinOf(n) \in Pin
                 /\ \E k \in DOMAIN lockfile : lockfile[k].name = n
           /\ PinOf(n).commit \in MaybeCommit
           /\ PinOf(n).url # NoUrl =>
                 /\ PinOf(n).url \in Urls /\ PinOf(n).commit \in Commits
                 /\ PinOf(n).version \in Version /\ PinOf(n).ref \in Refs
<1> DEFINE mine == {k \in DOMAIN lockfile :
                     /\ lockfile[k].name = n
                     /\ lockfile[k].commit # NoCommit \/ lockfile[k].url # NoUrl}
<1>1. lockfile \in Seq(Pin)
  BY DEF TypeOK
<1>2. \/ PinOf(n) = NoPin
      \/ /\ PinOf(n) \in Pin
         /\ \E k \in DOMAIN lockfile : lockfile[k].name = n
  <2>1. CASE mine = {}
    BY <2>1, Zenon DEF PinOf
  <2>2. CASE mine # {}
    <3>1. mine \in SUBSET (0..Len(lockfile)) /\ Len(lockfile) \in Nat
      BY <1>1
    <3>2. \E k \in mine : \A j \in mine : j <= k
      <4> HIDE DEF mine
      <4> QED BY <2>2, <3>1, GreatestNumber
    <3> DEFINE last == CHOOSE k \in mine : \A j \in mine : j <= k
    <3>3. last \in mine
      <4> HIDE DEF mine
      <4> QED BY <3>2, Zenon
    <3>4. PinOf(n) = lockfile[last]
      BY <2>2, Zenon DEF PinOf
    <3>5. last \in DOMAIN lockfile /\ lockfile[last].name = n
      BY <3>3, Zenon
    <3>6. lockfile[last] \in Pin
      BY <1>1, <3>5
    <3> QED BY <3>4, <3>5, <3>6, Zenon
  <2> QED BY <2>1, <2>2
<1>3. NoPin.commit = NoCommit /\ NoPin.url = NoUrl
  BY DEF NoPin
<1>4. ASSUME PinOf(n) \in Pin
      PROVE  /\ PinOf(n).commit \in MaybeCommit
             /\ PinOf(n).url # NoUrl =>
                   /\ PinOf(n).url \in Urls /\ PinOf(n).commit \in Commits
                   /\ PinOf(n).version \in Version /\ PinOf(n).ref \in Refs
  BY <1>4 DEF Pin
<1>5. NoCommit \in MaybeCommit
  BY DEF MaybeCommit
<1> QED BY <1>2, <1>3, <1>4, <1>5, Zenon
-----------------------------------------------------------------------------
(* Resolving one entry.                                                      *)

LEMMA OpenedType ==
    ASSUME TypeOK, NEW u \in Urls, NEW d \in CacheDirs
    PROVE  Opened(u, d) \in ClonedDirs(project)
<1>1. /\ remote \in [Urls -> Remotes]
      /\ \A v \in Urls : remote[v] \in RemotesOf(CommitsOf(project, v))
      /\ cache[d] \in ClonedDirs(project) \cup {NoClone}
  BY DEF TypeOK
<1>2. \A v : CommitsOf(project, v) \in SUBSET Commits
  BY DEF CommitsOf
<1>3. CASE cache[d] = NoClone
  <2>1. CloneOf(remote[u]) \in ClonesOf(CommitsOf(project, u))
    BY <1>1, <1>2, CloneKeeps
  <2>2. CloneOf(remote[u]) \in Clones
    BY <2>1 DEF ClonesOf
  <2>3. Opened(u, d) = [url |-> u, git |-> CloneOf(remote[u])]
    BY <1>3 DEF Opened
  <2> QED BY <2>1, <2>2, <2>3 DEF ClonedDirs
<1>4. CASE cache[d] # NoClone
  <2>1. /\ cache[d] \in [url : Urls, git : Clones]
        /\ cache[d].url \in Urls
        /\ cache[d].git \in ClonesOf(CommitsOf(project, cache[d].url))
    BY <1>1, <1>4 DEF ClonedDirs
  <2> DEFINE S == CommitsOf(project, cache[d].url)
             r == remote[cache[d].url]
             g == ResetToOriginHead(Fetch(cache[d].git, r))
  <2>2. S \in SUBSET Commits /\ r \in RemotesOf(S)
    BY <1>1, <1>2, <2>1
  <2>3. Fetch(cache[d].git, r) \in ClonesOf(S)
    <3> HIDE DEF S, r
    <3>1. cache[d].git \in ClonesOf(S)
      BY <2>1 DEF S
    <3> QED BY <2>2, <3>1, FetchKeeps
  <2>4. g \in ClonesOf(S)
    <3> HIDE DEF S, r
    <3> QED BY <2>2, <2>3, ResetKeeps
  <2>5. g \in Clones
    BY <2>4 DEF ClonesOf
  <2>6. Opened(u, d) = [url |-> cache[d].url, git |-> g]
    <3>1. Opened(u, d) = [cache[d] EXCEPT !.git = g]
      BY <1>4 DEF Opened
    <3> HIDE DEF g
    <3> QED BY <2>1, <3>1
  <2> QED
    <3> HIDE DEF g
    <3> QED BY <2>1, <2>4, <2>5, <2>6 DEF ClonedDirs
<1> QED BY <1>3, <1>4

\* The ways to name a ref of a repository.
RefGiven(by, ref) ==
    \/ by = "default"
    \/ by = "branch" /\ ref \in Names
    \/ by = "bare" /\ ref \in Names \cup Commits

LEMMA CheckedOutKeeps ==
    ASSUME NEW S \in SUBSET Commits, NEW g \in ClonesOf(S), NEW by, NEW ref,
           NEW pinned \in S \cup {NoCommit}, RefGiven(by, ref),
           \/ pinned # NoCommit
           \/ by = "default"
           \/ by = "branch" /\ CanCheckoutOrigin(g, ref)
           \/ CanCheckout(g, ref) /\ (ref \in Commits => ref \in S)
    PROVE  /\ CheckedOut(g, by, ref, pinned) \in ClonesOf(S)
           /\ HeadOf(CheckedOut(g, by, ref, pinned)) \in S
           /\ pinned # NoCommit =>
                 HeadOf(CheckedOut(g, by, ref, pinned)) = pinned
<1>1. \A c \in ClonesOf(S) : HeadOf(c) \in S
  BY DEF ClonesOf
<1>2. CASE pinned # NoCommit
  <2>1. CheckedOut(g, by, ref, pinned) = Checkout(g, pinned)
    BY <1>2 DEF CheckedOut
  <2>2. Checkout(g, pinned) = DetachAt(g, pinned) /\ pinned \in S
    BY <1>2 DEF Checkout
  <2> QED BY <1>1, <2>1, <2>2, DetachKeeps
<1>3. CASE pinned = NoCommit /\ by = "default"
  <2>1. CheckedOut(g, by, ref, pinned) = g
    BY <1>3 DEF CheckedOut
  <2> QED BY <1>1, <1>3, <2>1
<1>4. CASE pinned = NoCommit /\ by = "branch" /\ CanCheckoutOrigin(g, ref)
  <2>1. CheckedOut(g, by, ref, pinned) = DetachAt(g, g.origin[ref])
    BY <1>4 DEF CheckedOut, CheckoutOrigin
  <2>2. ref \in Names
    BY <1>4 DEF RefGiven
  <2>3. g.origin[ref] \in S
    BY <1>4, <2>2 DEF CanCheckoutOrigin, ClonesOf
  <2> QED BY <1>1, <1>4, <2>1, <2>3, DetachKeeps
<1>5. CASE /\ pinned = NoCommit /\ by # "default"
           /\ ~(by = "branch" /\ CanCheckoutOrigin(g, ref))
  <2>1. CheckedOut(g, by, ref, pinned) = Checkout(g, ref)
    BY <1>5 DEF CheckedOut
  <2>2. CanCheckout(g, ref) /\ ref \in S \cup Names
    BY <1>5 DEF RefGiven
  <2>3. Checkout(g, ref) \in ClonesOf(S)
    BY <2>2, CheckoutKeeps
  <2> QED BY <1>1, <1>5, <2>1, <2>3
<1> QED BY <1>2, <1>3, <1>4, <1>5

\* The cache after the entry's git commands, and the commit they lead to.
Took(c, d, by, ref, pinned, open) ==
    c = [cache EXCEPT ![d] =
            [open EXCEPT !.git = CheckedOut(@, by, ref, pinned)]]

LEMMA TookType ==
    ASSUME TypeOK, NEW d \in CacheDirs, NEW by, NEW ref, RefGiven(by, ref),
           NEW pinned \in MaybeCommit, NEW open \in ClonedDirs(project),
           CanResolve(open, by, ref, pinned),
           NEW c, Took(c, d, by, ref, pinned, open)
    PROVE  /\ c \in [CacheDirs -> ClonedDirs(project) \cup {NoClone}]
           /\ TreeIn(c, d) \in Commits
           /\ pinned # NoCommit => TreeIn(c, d) = pinned
           /\ ManifestIn(c, d) \in Read
<1> DEFINE S == CommitsOf(project, open.url)
           g == CheckedOut(open.git, by, ref, pinned)
<1>1. open.url \in Urls /\ open.git \in ClonesOf(S)
  BY DEF ClonedDirs
<1>2. S \in SUBSET Commits
  BY DEF CommitsOf
<1>3. pinned \in S \cup {NoCommit}
  BY DEF CanResolve, CommitsOf, MaybeCommit
<1>4. \/ pinned # NoCommit
      \/ by = "default"
      \/ by = "branch" /\ CanCheckoutOrigin(open.git, ref)
      \/ CanCheckout(open.git, ref) /\ (ref \in Commits => ref \in S)
  BY Zenon DEF CanResolve, CommitsOf
<1>5. /\ g \in ClonesOf(S) /\ HeadOf(g) \in S
      /\ pinned # NoCommit => HeadOf(g) = pinned
  <2> HIDE DEF S
  <2> QED BY <1>1, <1>2, <1>3, <1>4, CheckedOutKeeps
<1>6. g \in Clones
  BY <1>5 DEF ClonesOf
<1>7. [open EXCEPT !.git = CheckedOut(@, by, ref, pinned)]
          = [url |-> open.url, git |-> g]
  <2>1. open \in [url : Urls, git : Clones]
    BY DEF ClonedDirs
  <2>2. [open EXCEPT !.git = g] = [url |-> open.url, git |-> g]
    <3> HIDE DEF g
    <3> QED BY <2>1
  <2> QED BY <2>2
<1> HIDE DEF g
<1>8. [url |-> open.url, git |-> g] \in ClonedDirs(project)
  BY <1>1, <1>5, <1>6 DEF ClonedDirs
<1>9. /\ cache \in [CacheDirs -> ClonedDirs(project) \cup {NoClone}]
      /\ c = [cache EXCEPT ![d] = [url |-> open.url, git |-> g]]
  BY <1>7, Zenon DEF Took, TypeOK
<1>10. /\ c \in [CacheDirs -> ClonedDirs(project) \cup {NoClone}]
       /\ c[d] = [url |-> open.url, git |-> g]
  BY <1>8, <1>9
<1>11. TreeIn(c, d) = HeadOf(g)
  BY <1>10 DEF TreeIn
<1>12. ManifestIn(c, d) \in Read
  <2>1. project \in Projects
    BY DEF TypeOK
  <2>2. d # RootDir /\ d \notin PathDirs
    BY <2>1, Constants
  <2>3. ManifestIn(c, d) = GitManifest[project][<<open.url, HeadOf(g)>>]
    BY <1>10, <1>11, <2>2 DEF ManifestIn
  <2>4. <<open.url, HeadOf(g)>> \in DOMAIN GitManifest[project]
    BY <1>5 DEF CommitsOf
  <2> QED BY <2>1, <2>3, <2>4, Readable
<1> QED BY <1>2, <1>5, <1>10, <1>11, <1>12

\* The index as published so far.
LEMMA IndexType ==
    ASSUME TypeOK, NEW n \in PkgNames
    PROVE  /\ DOMAIN Index(n) = 1..published[n]
           /\ \A k \in 1..published[n] :
                 /\ Index(n)[k] = Releases[project][n][k]
                 /\ Index(n)[k] \in Release
                 /\ Index(n)[k].version \in Version
<1>1. /\ Releases[project][n] \in Seq(Release)
      /\ published[n] \in Nat /\ published[n] <= Len(Releases[project][n])
  <2>1. project \in Projects
    BY DEF TypeOK
  <2>2. Releases[project] \in [PkgNames -> Seq(Release)]
    BY <2>1, Constants
  <2> QED BY <2>2 DEF TypeOK
<1> DEFINE r == Releases[project][n]
           m == published[n]
<1>2. /\ DOMAIN SubSeq(r, 1, m) = 1..m
      /\ \A k \in 1..m : SubSeq(r, 1, m)[k] = r[k] /\ r[k] \in Release
  <2> HIDE DEF r, m
  <2> QED BY <1>1 DEF r, m
<1>3. \A e \in Release : e.version \in Version
  BY DEF Release
<1> QED BY <1>2, <1>3, Zenon DEF Index

\* pickBestSatisfying finds one, and no candidate is higher.
LEMMA BestIsHighest ==
    ASSUME TypeOK, NEW n \in PkgNames, NEW req, Candidates(n, req) # {}
    PROVE  /\ Best(n, req) \in 1..published[n]
           /\ Matches(req, Index(n)[Best(n, req)].version)
           /\ \A k \in 1..published[n] :
                 Matches(req, Index(n)[k].version) =>
                     ~Less(Index(n)[Best(n, req)].version, Index(n)[k].version)
<1> DEFINE C == Candidates(n, req)
           v(k) == Index(n)[k].version
<1>1. /\ C \subseteq 1..published[n] /\ C # {} /\ published[n] \in Nat
      /\ \A k \in C : v(k) \in Version
      /\ \A k \in 1..published[n] : Matches(req, v(k)) <=> k \in C
  BY IndexType DEF Candidates, TypeOK
<1>2. \A k \in C : /\ v(k).major \in 0..IntMax /\ v(k).minor \in 0..IntMax
                   /\ v(k).patch \in 0..IntMax
  BY <1>1 DEF Version, Component
<1>3. PICK a \in C : \A k \in C : v(k).major <= v(a).major
  <2> DEFINE T == {v(k).major : k \in C}
  <2>1. T \in SUBSET (0..IntMax) /\ T # {}
    <3> HIDE DEF C, v
    <3> QED BY <1>1, <1>2
  <2>2. \E x \in T : \A y \in T : y <= x
    <3> HIDE DEF T
    <3> QED BY <2>1, GreatestNumber
  <2> HIDE DEF C, v
  <2> QED BY <2>2
<1>4. PICK b \in C : /\ v(b).major = v(a).major
                     /\ \A k \in C : v(k).major = v(a).major
                                        => v(k).minor <= v(b).minor
  <2> DEFINE T == {v(k).minor : k \in {k \in C : v(k).major = v(a).major}}
  <2>1. T \in SUBSET (0..IntMax) /\ T # {}
    <3> HIDE DEF C, v
    <3>1. v(a).minor \in T
      BY <1>3
    <3> QED BY <1>2, <3>1
  <2>2. \E x \in T : \A y \in T : y <= x
    <3> HIDE DEF T
    <3> QED BY <2>1, GreatestNumber
  <2> HIDE DEF C, v
  <2> QED BY <2>2
<1> DEFINE D == {k \in C : /\ v(k).major = v(a).major
                           /\ v(k).minor = v(b).minor}
<1>5. PICK c \in D : \A k \in D : v(k).patch <= v(c).patch
  <2> DEFINE T == {v(k).patch : k \in D}
  <2>1. T \in SUBSET (0..IntMax) /\ T # {}
    <3> HIDE DEF C, v
    <3>1. v(b).patch \in T
      BY <1>4
    <3> QED BY <1>2, <3>1
  <2>2. \E x \in T : \A y \in T : y <= x
    <3> HIDE DEF T
    <3> QED BY <2>1, GreatestNumber
  <2> HIDE DEF C, v, D
  <2> QED BY <2>2
<1>6. PICK d \in C : v(d) = v(c) /\ \A k \in C : v(k) = v(c) => d <= k
  <2> DEFINE T == {k \in C : v(k) = v(c)}
  <2>1. T \subseteq Nat /\ T # {}
    <3>1. c \in T
      OBVIOUS
    <3>2. T \subseteq C
      OBVIOUS
    <3>3. C \subseteq Nat
      <4> HIDE DEF C, v
      <4> QED BY <1>1
    <3> QED BY <3>1, <3>2, <3>3, Zenon
  <2>2. \E x \in T : \A y \in T : x <= y
    <3> HIDE DEF T
    <3> QED BY <2>1, LeastNumber
  <2> HIDE DEF C, v
  <2> QED BY <2>2
<1>7. \A x, y \in Version :
          x.major = y.major /\ x.minor = y.minor /\ x.patch = y.patch => x = y
  BY DEF Version
<1>8. \A k \in C : \/ Less(v(k), v(d))
                   \/ v(k) = v(d) /\ d <= k
  <2> TAKE k \in C
  <2>1. /\ v(k) \in Version /\ v(c) \in Version /\ v(d) = v(c)
        /\ v(k).major <= v(a).major /\ v(c).major = v(a).major
        /\ v(k).major = v(a).major => v(k).minor <= v(b).minor
        /\ v(c).minor = v(b).minor
    <3> HIDE DEF C, v
    <3> QED BY <1>1, <1>3, <1>4, <1>6 DEF D
  <2>2. v(k).major = v(a).major /\ v(k).minor = v(b).minor
            => v(k).patch <= v(c).patch
    <3> HIDE DEF C, v
    <3> QED BY <1>5
  <2>3. \A e \in Version : e.major \in Int /\ e.minor \in Int /\ e.patch \in Int
    BY DEF Version, Component
  <2>4. Less(v(k), v(c)) \/ v(k) = v(c)
    <3> DEFINE x == v(k)
               y == v(c)
               p == v(a).major
               q == v(b).minor
    <3>1. /\ x \in Version /\ y \in Version
          /\ x.major <= p /\ y.major = p
          /\ x.major = p => x.minor <= q
          /\ y.minor = q
          /\ x.major = p /\ x.minor = q => x.patch <= y.patch
      BY <2>1, <2>2
    <3> HIDE DEF x, y, p, q
    <3>2. Less(x, y) \/ x = y
      BY <1>7, <2>3, <3>1 DEF Less
    <3> QED BY <3>2 DEF x, y
  <2> HIDE DEF C, v
  <2> QED BY <1>6, <2>1, <2>4
<1>9. /\ Best(n, req) \in C
      /\ \A k \in C : \/ Less(v(k), v(Best(n, req)))
                      \/ v(k) = v(Best(n, req)) /\ Best(n, req) <= k
  <2> DEFINE P(x) == \A k \in C : \/ Less(v(k), v(x))
                                  \/ v(k) = v(x) /\ x <= k
  <2>1. d \in C /\ P(d)
    BY <1>8
  <2>2. Best(n, req) = CHOOSE x \in C : P(x)
    BY DEF Best
  <2> HIDE DEF P, C
  <2>3. Best(n, req) \in C /\ P(Best(n, req))
    BY <2>1, <2>2, Zenon
  <2> QED BY <2>3 DEF P
<1>10. \A x, y \in Version : Less(x, y) \/ x = y => ~Less(y, x)
  BY SMT DEF Less, Version, Component
<1>11. \A k \in C : ~Less(v(Best(n, req)), v(k))
  <2> HIDE DEF C, v
  <2> QED BY <1>1, <1>9, <1>10
<1>12. Best(n, req) \in 1..published[n] /\ Matches(req, v(Best(n, req)))
  <2> HIDE DEF C, v
  <2> QED BY <1>1, <1>9
<1> QED
  <2> HIDE DEF C
  <2> QED BY <1>1, <1>11, <1>12

\* The entry at the top of the stack leads to a package that is in `order`,
\* or to one that has not been seen.
Leads(d, m, commit, origin, pk) ==
    /\ d \in Dirs /\ m \in Read /\ commit \in MaybeCommit /\ origin \in Origins
    /\ origin.url # NoUrl => commit \in Commits
    /\ pk \in [PkgNames -> Pick \cup {NoPick}] /\ Target(pk, Entry) = d
    /\ Entry.kind = "registry" =>
          /\ pk[Entry.name] # NoPick
          /\ Matches(Entry.req, pk[Entry.name].version)
          /\ pk[Entry.name].dir = d
    /\ \A n \in PkgNames :
          \/ pk[n] = picks[n]
          \/ /\ picks[n] = NoPick /\ pk[n] # NoPick
             /\ Entry.kind = "registry" /\ n = Entry.name
             /\ pk[n].req = Entry.req
             /\ WellPicked(n, pk[n].req, pk[n].version, pk[n].commit)

Reaches(d, m, commit, origin, pk) ==
    /\ \/ /\ Loaded(d) /\ Lib(d)
          /\ stack' = [stack EXCEPT ![Len(stack)] = Advance(@, d)]
       \/ /\ ~Loaded(d) /\ ~OnStack(d)
          /\ stack' = Append(stack, NewFrame(d, m, commit, origin))
    /\ picks' = pk
    /\ UNCHANGED <<lockfile, cmd, targets, phase, order, basis, offered>>

\* What that does to the git cache: nothing, or the clone in d is opened.
Resolves(d, commit, pk) ==
    \/ cache' = cache /\ (commit = NoCommit \/ Loaded(d))
    \/ /\ d \in CacheDirs /\ commit = TreeIn(cache', d)
       /\ \A c \in CacheDirs \ {d} : cache'[c] = cache[c]
       /\ \/ ToGit(Entry, d)
          \/ Entry.kind = "registry" /\ picks[Entry.name] = NoPick

EntryStep ==
    /\ UNCHANGED outside
    /\ cache' \in [CacheDirs -> ClonedDirs(project) \cup {NoClone}]
    /\ \/ Fail
       \/ \E d, m, commit, origin, pk :
             /\ Leads(d, m, commit, origin, pk)
             /\ Reaches(d, m, commit, origin, pk)
             /\ Resolves(d, commit, pk)

LEMMA GoReaches ==
    ASSUME NEW d, NEW commit, NEW origin, NEW c, NEW pk,
           Go(d, commit, origin, c, pk)
    PROVE  Fail \/ Reaches(d, ManifestIn(c, d), commit, origin, pk)
BY Zenon DEF Go, Reaches

LEMMA TopType ==
    ASSUME TypeOK, Phases, phase = "visit"
    PROVE  /\ Len(stack) \in Nat \ {0} /\ Len(stack) \in DOMAIN stack
           /\ Top \in Frame /\ Top.manifest \in Read /\ Top.next \in Nat \ {0}
<1>1. stack \in Seq(Frame) /\ stack # <<>>
  BY DEF TypeOK, Phases
<1>2. Len(stack) \in Nat \ {0} /\ Len(stack) \in DOMAIN stack
  BY <1>1
<1>3. Top \in Frame
  BY <1>1, <1>2 DEF Top
<1> QED BY <1>2, <1>3 DEF Frame

LEMMA AtEntryType ==
    ASSUME TypeOK, Phases, AtEntry
    PROVE  /\ Len(stack) \in Nat \ {0} /\ Len(stack) \in DOMAIN stack
           /\ Top \in Frame /\ Top.manifest \in Read
           /\ Top.next \in DOMAIN Top.manifest.deps
           /\ Top.next \in 1..Len(Top.manifest.deps)
           /\ Entry.name \in PkgNames
           /\ \/ Entry \in PathDeps /\ Entry.kind = "path"
              \/ Entry \in GitDeps /\ Entry.kind = "git"
              \/ Entry \in RegistryDeps /\ Entry.kind = "registry"
<1>1. /\ Len(stack) \in Nat \ {0} /\ Len(stack) \in DOMAIN stack
      /\ Top \in Frame /\ Top.manifest \in Read /\ Top.next \in Nat \ {0}
  BY TopType DEF AtEntry
<1>2. Top.next <= Len(Top.manifest.deps)
  BY DEF AtEntry
<1>3. Len(Top.manifest.deps) \in Nat
  BY <1>1 DEF Read, Manifest
<1>4. Top.next \in 1..Len(Top.manifest.deps)
  BY <1>1, <1>2, <1>3
<1> QED BY <1>1, <1>4, EntryType DEF Entry

LEMMA PathOriginType == PathOrigin \in Origins /\ PathOrigin.url = NoUrl
BY DEF PathOrigin, Origins, Refs

LEMMA PathStep ==
    ASSUME TypeOK, Phases, PathEntry
    PROVE  EntryStep
<1>1. AtEntry /\ Entry.kind = "path" /\ UNCHANGED <<outside, cache>>
  BY DEF PathEntry
<1>2. Entry \in PathDeps
  BY <1>1, AtEntryType
<1>3. /\ cache' \in [CacheDirs -> ClonedDirs(project) \cup {NoClone}]
      /\ picks \in [PkgNames -> Pick \cup {NoPick}]
      /\ rootManifest \in Read /\ project \in Projects
  BY <1>1 DEF TypeOK
<1>4. CASE Entry.dir \notin {RootDir} \cup DOMAIN PathManifest[project]
  BY <1>1, <1>3, <1>4 DEF PathEntry, EntryStep
<1>5. CASE Entry.dir \in {RootDir} \cup DOMAIN PathManifest[project]
  <2>1. Entry.dir \in Dirs
    BY <1>2 DEF PathDeps, Dirs
  <2>2. ManifestIn(cache, Entry.dir) \in Read
    <3>1. CASE Entry.dir = RootDir
      BY <1>3, <3>1 DEF ManifestIn
    <3>2. CASE Entry.dir # RootDir
      <4>1. Entry.dir \in DOMAIN PathManifest[project]
        BY <1>5, <3>2
      <4>2. Entry.dir \in PathDirs
        BY <1>3, <4>1, Constants
      <4>3. ManifestIn(cache, Entry.dir) = PathManifest[project][Entry.dir]
        BY <3>2, <4>2 DEF ManifestIn
      <4> QED BY <1>3, <4>1, <4>3, Readable
    <3> QED BY <3>1, <3>2
  <2>3. Go(Entry.dir, NoCommit, PathOrigin, cache, picks)
    BY <1>5 DEF PathEntry
  <2>4. Fail \/ Reaches(Entry.dir, ManifestIn(cache, Entry.dir), NoCommit,
                        PathOrigin, picks)
    BY <2>3, GoReaches
  <2>5. Leads(Entry.dir, ManifestIn(cache, Entry.dir), NoCommit, PathOrigin,
              picks)
    <3>1. NoCommit \in MaybeCommit
      BY DEF MaybeCommit
    <3>2. Entry.kind # "registry" /\ Target(picks, Entry) = Entry.dir
      BY <1>1 DEF Target
    <3> QED BY <1>3, <2>1, <2>2, <3>1, <3>2, PathOriginType, Zenon DEF Leads
  <2>6. Resolves(Entry.dir, NoCommit, picks)
    BY <1>1 DEF Resolves
  <2> QED BY <1>1, <1>3, <2>4, <2>5, <2>6, Zenon DEF EntryStep
<1> QED BY <1>4, <1>5

LEMMA GitStep ==
    ASSUME TypeOK, Phases, GitEntry
    PROVE  EntryStep
<1>1. AtEntry /\ Entry.kind = "git" /\ UNCHANGED outside
  BY DEF GitEntry
<1>2. Entry \in GitDeps /\ Entry.name \in PkgNames
  BY <1>1, AtEntryType
<1>3. Entry.url \in Urls /\ Entry.ref \in Refs /\ RefGiven(Entry.by, Entry.ref)
  BY <1>2 DEF GitDeps, Refs, RefGiven
<1>4. /\ cache \in [CacheDirs -> ClonedDirs(project) \cup {NoClone}]
      /\ picks \in [PkgNames -> Pick \cup {NoPick}] /\ project \in Projects
  BY DEF TypeOK
<1> DEFINE dir == DirOf[Entry.url, Entry.ref]
           pinned == PinOf(Entry.name).commit
           open == Opened(Entry.url, dir)
           c == [cache EXCEPT ![dir] =
                    [open EXCEPT !.git = CheckedOut(@, Entry.by, Entry.ref,
                                                    pinned)]]
<1>5. dir \in CacheDirs /\ dir \in Dirs
  BY <1>3, <1>4, Constants
<1>6. pinned \in MaybeCommit
  BY <1>2, PinOfType
<1>7. open \in ClonedDirs(project)
  BY <1>3, <1>5, OpenedType
<1>8. IF CanResolve(open, Entry.by, Entry.ref, pinned)
      THEN cache' = c /\ Go(dir, TreeIn(c, dir), PathOrigin, c, picks)
      ELSE cache' = [cache EXCEPT ![dir] = open] /\ Fail
  BY Zenon DEF GitEntry
<1>9. Took(c, dir, Entry.by, Entry.ref, pinned, open)
  BY Zenon DEF Took
<1> HIDE DEF dir, pinned, open, c
<1>10. CASE ~CanResolve(open, Entry.by, Entry.ref, pinned)
  <2>1. cache' = [cache EXCEPT ![dir] = open] /\ Fail
    BY <1>8, <1>10
  <2>2. cache' \in [CacheDirs -> ClonedDirs(project) \cup {NoClone}]
    BY <1>4, <1>5, <1>7, <2>1
  <2> QED BY <1>1, <2>1, <2>2 DEF EntryStep
<1>11. CASE CanResolve(open, Entry.by, Entry.ref, pinned)
  <2>1. /\ c \in [CacheDirs -> ClonedDirs(project) \cup {NoClone}]
        /\ TreeIn(c, dir) \in Commits
        /\ ManifestIn(c, dir) \in Read
    BY <1>3, <1>5, <1>6, <1>7, <1>9, <1>11, TookType
  <2>2. cache' = c /\ Go(dir, TreeIn(c, dir), PathOrigin, c, picks)
    BY <1>8, <1>11
  <2>3. Fail \/ Reaches(dir, ManifestIn(c, dir), TreeIn(c, dir), PathOrigin,
                        picks)
    BY <2>2, GoReaches
  <2>4. Leads(dir, ManifestIn(c, dir), TreeIn(c, dir), PathOrigin, picks)
    <3>1. TreeIn(c, dir) \in MaybeCommit
      BY <2>1 DEF MaybeCommit
    <3>2. Entry.kind # "registry" /\ Target(picks, Entry) = dir
      BY <1>1 DEF Target, dir
    <3> QED BY <1>4, <1>5, <2>1, <3>1, <3>2, PathOriginType, Zenon DEF Leads
  <2>5. Resolves(dir, TreeIn(c, dir), picks)
    <3>1. TreeIn(cache', dir) = TreeIn(c, dir)
      BY <2>2, Zenon
    <3>2. \A x \in CacheDirs \ {dir} : cache'[x] = cache[x]
      BY <1>4, <1>5, <1>9, <2>2 DEF Took
    <3>3. ToGit(Entry, dir)
      BY <1>1 DEF ToGit, dir
    <3> QED BY <1>5, <3>1, <3>2, <3>3, Zenon DEF Resolves
  <2> QED BY <1>1, <2>1, <2>2, <2>3, <2>4, <2>5, Zenon DEF EntryStep
<1> QED BY <1>10, <1>11

LEMMA AgainStep ==
    ASSUME TypeOK, Phases, PicksJustified, RegistryAgain
    PROVE  EntryStep
<1>1. /\ AtEntry /\ Entry.kind = "registry" /\ UNCHANGED <<outside, cache>>
      /\ picks[Entry.name] # NoPick
  BY DEF RegistryAgain
<1>2. Entry \in RegistryDeps /\ Entry.name \in PkgNames /\ Top.manifest \in Read
  BY <1>1, AtEntryType
<1>3. /\ cache' \in [CacheDirs -> ClonedDirs(project) \cup {NoClone}]
      /\ picks \in [PkgNames -> Pick \cup {NoPick}] /\ project \in Projects
  BY <1>1 DEF TypeOK
<1> DEFINE pick == picks[Entry.name]
           origin == [version |-> pick.version, url |-> pick.url,
                      ref |-> pick.ref]
<1>4. pick \in Pick
  BY <1>1, <1>2, <1>3
<1>5. /\ pick.version \in Version /\ pick.dir \in CacheDirs
      /\ pick.commit \in Commits /\ pick.url \in Urls /\ pick.ref \in Refs
  BY <1>4 DEF Pick
<1>6. CASE ~Matches(Entry.req, pick.version)
  BY <1>1, <1>3, <1>6 DEF RegistryAgain, EntryStep
<1>7. CASE Matches(Entry.req, pick.version)
  <2>1. Go(pick.dir, pick.commit, origin, cache, picks)
    BY <1>7 DEF RegistryAgain
  <2>2. origin \in Origins
    BY <1>5 DEF Origins
  <2>3. pick.dir \in Dirs /\ pick.commit \in MaybeCommit
    BY <1>3, <1>5, Constants DEF MaybeCommit
  <2> HIDE DEF origin
  <2>4. Loaded(pick.dir) \/ OnStack(pick.dir)
    BY <1>1, <1>2 DEF PicksJustified
  <2>5. Fail \/ Reaches(pick.dir, Top.manifest, pick.commit, origin, picks)
    BY <2>1, <2>4, Zenon DEF Go, Reaches
  <2>6. Leads(pick.dir, Top.manifest, pick.commit, origin, picks)
    <3>1. Target(picks, Entry) = pick.dir
      BY <1>1 DEF Target
    <3> QED BY <1>1, <1>2, <1>3, <1>5, <1>7, <2>2, <2>3, <3>1, Zenon DEF Leads
  <2>7. CASE Fail
    BY <1>1, <1>3, <2>7, Zenon DEF EntryStep
  <2>8. CASE Reaches(pick.dir, Top.manifest, pick.commit, origin, picks)
    <3>1. Resolves(pick.dir, pick.commit, picks)
      BY <1>1, <2>4, <2>8, Zenon DEF Reaches, Resolves
    <3> QED BY <1>1, <1>3, <2>6, <2>8, <3>1, Zenon DEF EntryStep
  <2> QED BY <2>5, <2>7, <2>8
<1> QED BY <1>6, <1>7

\* The synthetic git dependency of a registry entry.
LEMMA TakeStep ==
    ASSUME TypeOK, Phases, AtFirstRegistryEntry, UNCHANGED outside,
           NEW version \in Version, NEW url \in Urls, NEW ref \in Refs,
           NEW pinned \in MaybeCommit,
           Matches(Entry.req, version),
           \A x \in Commits : (pinned # NoCommit => x = pinned) =>
               WellPicked(Entry.name, Entry.req, version, x),
           Take(version, url, ref, pinned)
    PROVE  EntryStep
<1>1. AtEntry /\ Entry.kind = "registry" /\ picks[Entry.name] = NoPick
  BY DEF AtFirstRegistryEntry
<1>2. Entry \in RegistryDeps /\ Entry.name \in PkgNames
  BY <1>1, AtEntryType
<1>3. /\ cache \in [CacheDirs -> ClonedDirs(project) \cup {NoClone}]
      /\ picks \in [PkgNames -> Pick \cup {NoPick}] /\ project \in Projects
  BY DEF TypeOK
<1>4. Entry.req \in Requirement
  BY <1>2 DEF RegistryDeps
<1> DEFINE dir == DirOf[url, ref]
           by == IF ref = NoRef THEN "default" ELSE "bare"
           open == Opened(url, dir)
           c == [cache EXCEPT ![dir] =
                    [open EXCEPT !.git = CheckedOut(@, by, ref, pinned)]]
           pick == [version |-> version, dir |-> dir, commit |-> TreeIn(c, dir),
                    url |-> url, ref |-> ref, req |-> Entry.req]
           origin == [version |-> version, url |-> url, ref |-> ref]
           pk == [picks EXCEPT ![Entry.name] = pick]
<1>5. dir \in CacheDirs /\ dir \in Dirs
  BY <1>3, Constants
<1>6. RefGiven(by, ref)
  BY DEF RefGiven, Refs
<1>7. open \in ClonedDirs(project)
  BY <1>5, OpenedType
<1>8. IF CanResolve(open, by, ref, pinned)
      THEN cache' = c /\ Go(dir, TreeIn(c, dir), origin, c, pk)
      ELSE cache' = [cache EXCEPT ![dir] = open] /\ Fail
  BY Zenon DEF Take
<1>9. Took(c, dir, by, ref, pinned, open)
  BY Zenon DEF Took
<1>10. origin \in Origins
  BY DEF Origins
<1> HIDE DEF dir, open, c, by, origin
<1>11. CASE ~CanResolve(open, by, ref, pinned)
  <2>1. cache' = [cache EXCEPT ![dir] = open] /\ Fail
    BY <1>8, <1>11
  <2>2. cache' \in [CacheDirs -> ClonedDirs(project) \cup {NoClone}]
    BY <1>3, <1>5, <1>7, <2>1
  <2> QED BY <2>1, <2>2 DEF EntryStep
<1>12. CASE CanResolve(open, by, ref, pinned)
  <2>1. /\ c \in [CacheDirs -> ClonedDirs(project) \cup {NoClone}]
        /\ TreeIn(c, dir) \in Commits
        /\ pinned # NoCommit => TreeIn(c, dir) = pinned
        /\ ManifestIn(c, dir) \in Read
    BY <1>5, <1>6, <1>7, <1>9, <1>12, TookType
  <2>2. cache' = c /\ Go(dir, TreeIn(c, dir), origin, c, pk)
    BY <1>8, <1>12
  <2>3. pick \in Pick
    BY <1>4, <1>5, <2>1 DEF Pick
  <2>4. pick # NoPick
    BY <1>3, <2>3, Constants
  <2>5. /\ pick.req = Entry.req /\ pick.version = version /\ pick.dir = dir
        /\ pick.commit = TreeIn(c, dir)
    OBVIOUS
  <2>6. WellPicked(Entry.name, pick.req, pick.version, pick.commit)
    BY <2>1, <2>5, Zenon
  <2> HIDE DEF pick
  <2>7. /\ pk \in [PkgNames -> Pick \cup {NoPick}]
        /\ pk[Entry.name] = pick
        /\ \A n \in PkgNames : n # Entry.name => pk[n] = picks[n]
    BY <1>2, <1>3, <2>3
  <2> HIDE DEF pk
  <2>8. Fail \/ Reaches(dir, ManifestIn(c, dir), TreeIn(c, dir), origin, pk)
    BY <2>2, GoReaches
  <2>9. Leads(dir, ManifestIn(c, dir), TreeIn(c, dir), origin, pk)
    <3>1. TreeIn(c, dir) \in MaybeCommit
      BY <2>1 DEF MaybeCommit
    <3>2. \A n \in PkgNames :
            \/ pk[n] = picks[n]
            \/ /\ picks[n] = NoPick /\ pk[n] # NoPick
               /\ Entry.kind = "registry" /\ n = Entry.name
               /\ pk[n].req = Entry.req
               /\ WellPicked(n, pk[n].req, pk[n].version, pk[n].commit)
      BY <1>1, <2>4, <2>5, <2>6, <2>7, Zenon
    <3>3. /\ pk[Entry.name] # NoPick
          /\ Matches(Entry.req, pk[Entry.name].version)
          /\ pk[Entry.name].dir = dir /\ Target(pk, Entry) = dir
      BY <1>1, <2>4, <2>5, <2>7 DEF Target
    <3> QED BY <1>5, <1>10, <2>1, <2>7, <3>1, <3>2, <3>3, Zenon DEF Leads
  <2>10. Resolves(dir, TreeIn(c, dir), pk)
    <3>1. TreeIn(cache', dir) = TreeIn(c, dir)
      BY <2>2, Zenon
    <3>2. \A x \in CacheDirs \ {dir} : cache'[x] = cache[x]
      BY <1>3, <1>5, <1>9, <2>2 DEF Took
    <3> QED BY <1>1, <1>5, <3>1, <3>2, Zenon DEF Resolves
  <2> QED BY <2>1, <2>2, <2>8, <2>9, <2>10, Zenon DEF EntryStep
<1> QED BY <1>11, <1>12

LEMMA PinnedStep ==
    ASSUME TypeOK, Phases, RegistryPinned
    PROVE  EntryStep
<1>1. /\ AtFirstRegistryEntry /\ PinUsable(Entry.name, Entry.req)
      /\ UNCHANGED outside
  BY DEF RegistryPinned
<1>2. Entry.name \in PkgNames
  BY <1>1, AtEntryType DEF AtFirstRegistryEntry
<1> DEFINE pin == PinOf(Entry.name)
<1>3. Take(pin.version, pin.url, pin.ref, pin.commit)
  BY DEF RegistryPinned
<1>4. /\ pin.url \in Urls /\ pin.commit \in Commits /\ pin.version \in Version
      /\ pin.ref \in Refs /\ Matches(Entry.req, pin.version)
  BY <1>1, <1>2, PinOfType DEF PinUsable
<1>5. pin.commit \in MaybeCommit /\ pin.commit # NoCommit
  BY <1>4 DEF MaybeCommit
<1>6. \A x \in Commits : x = pin.commit =>
          WellPicked(Entry.name, Entry.req, pin.version, x)
  BY <1>1, Zenon DEF WellPicked
<1> HIDE DEF pin
<1> QED BY <1>1, <1>3, <1>4, <1>5, <1>6, TakeStep

LEMMA FreshStep ==
    ASSUME TypeOK, Phases, RegistryFresh
    PROVE  EntryStep
<1>1. /\ AtFirstRegistryEntry /\ ~PinUsable(Entry.name, Entry.req)
      /\ UNCHANGED outside
  BY DEF RegistryFresh
<1>2. Entry.name \in PkgNames
  BY <1>1, AtEntryType DEF AtFirstRegistryEntry
<1>3. CASE Candidates(Entry.name, Entry.req) = {}
  <2>1. Fail /\ UNCHANGED cache
    BY <1>3 DEF RegistryFresh
  <2>2. cache' \in [CacheDirs -> ClonedDirs(project) \cup {NoClone}]
    BY <2>1 DEF TypeOK
  <2> QED BY <1>1, <2>1, <2>2 DEF EntryStep
<1>4. CASE Candidates(Entry.name, Entry.req) # {}
  <2> DEFINE best == Best(Entry.name, Entry.req)
             e == Index(Entry.name)[best]
  <2>1. Take(e.version, e.url, e.ref, NoCommit)
    BY <1>4 DEF RegistryFresh
  <2>2. /\ best \in 1..published[Entry.name]
        /\ Matches(Entry.req, e.version)
        /\ \A k \in 1..published[Entry.name] :
              Matches(Entry.req, Index(Entry.name)[k].version) =>
                  ~Less(e.version, Index(Entry.name)[k].version)
    BY <1>2, <1>4, BestIsHighest
  <2>3. /\ e \in Release
        /\ \A k \in 1..published[Entry.name] :
              Index(Entry.name)[k] = Releases[project][Entry.name][k]
    BY <1>2, <2>2, IndexType
  <2>4. e.version \in Version /\ e.url \in Urls /\ e.ref \in Refs
    BY <2>3 DEF Release
  <2>5. 1..offered[Entry.name] \subseteq 1..published[Entry.name]
    <3>1. /\ offered[Entry.name] \in Nat /\ published[Entry.name] \in Nat
          /\ offered[Entry.name] <= published[Entry.name]
      BY <1>2 DEF TypeOK
    <3> QED BY <3>1
  <2>6. \A x \in Commits : WellPicked(Entry.name, Entry.req, e.version, x)
    <3> HIDE DEF e
    <3> QED BY <1>1, <2>2, <2>3, <2>5, Zenon DEF WellPicked
  <2>7. NoCommit \in MaybeCommit
    BY DEF MaybeCommit
  <2> HIDE DEF e
  <2> QED BY <1>1, <2>1, <2>2, <2>4, <2>6, <2>7, TakeStep
<1> QED BY <1>3, <1>4
-----------------------------------------------------------------------------
(* The invariant: the steps that begin and end a command.                    *)

\* A command that ends leaves nothing but the lockfile and the cache.
LEMMA ReturnInv ==
    ASSUME TypeOK, Return, UNCHANGED outside,
           cache' \in [CacheDirs -> ClonedDirs(project) \cup {NoClone}],
           lockfile' \in Seq(Pin)
    PROVE  Inv'
<1>1. /\ UNCHANGED <<project, remote, published, rootManifest>>
      /\ phase' = "idle" /\ cmd' = "none" /\ targets' = {}
      /\ stack' = <<>> /\ order' = <<>>
      /\ picks' = [n \in PkgNames |-> NoPick]
      /\ offered' = Published0[project]
  BY DEF outside, Return
<1>2. project \in Projects
  BY DEF TypeOK
<1>3. TypeOK'
  <2>1. /\ Published0[project] \in [PkgNames -> Nat]
        /\ \A n \in PkgNames : Published0[project][n] <= published[n]
    BY <1>2, Constants DEF TypeOK
  <2>2. stack' \in Seq(Frame) /\ order' \in Seq(Package)
    BY <1>1
  <2>3. ClonedDirs(project)' = ClonedDirs(project)
    BY <1>1 DEF ClonedDirs, CommitsOf
  <2>4. \A u \in Urls : RemotesOf(CommitsOf(project, u))' =
                           RemotesOf(CommitsOf(project, u))
    BY <1>1 DEF CommitsOf
  <2> QED BY <1>1, <2>1, <2>2, <2>3, <2>4 DEF TypeOK
<1>4. Phases' /\ Unlocked'
  BY <1>1 DEF Phases, Unlocked
<1>5. EntriesSettled'
  BY <1>1 DEF EntriesSettled
<1>6. PicksJustified'
  BY <1>1 DEF PicksJustified
<1> QED BY <1>3, <1>4, <1>5, <1>6 DEF Inv

LEMMA FailInv ==
    ASSUME TypeOK, Fail, UNCHANGED outside,
           cache' \in [CacheDirs -> ClonedDirs(project) \cup {NoClone}]
    PROVE  Inv'
<1>1. lockfile' \in Seq(Pin) /\ Return
  BY DEF Fail, TypeOK
<1> QED BY <1>1, ReturnInv

LEMMA NewFrameType ==
    ASSUME NEW d \in Dirs, NEW m \in Read, NEW commit \in MaybeCommit,
           NEW origin \in Origins, origin.url # NoUrl => commit \in Commits
    PROVE  /\ NewFrame(d, m, commit, origin) \in Frame
           /\ NewFrame(d, m, commit, origin).dir = d
           /\ NewFrame(d, m, commit, origin).manifest = m
           /\ NewFrame(d, m, commit, origin).next = 1
<1>1. Len(m.deps) \in Nat
  BY DEF Read, Manifest
<1> QED BY <1>1 DEF NewFrame, Frame

LEMMA AdvanceType ==
    ASSUME NEW f \in Frame, f.next <= Len(f.manifest.deps), NEW d \in Dirs
    PROVE  /\ Advance(f, d) \in Frame
           /\ Advance(f, d).dir = f.dir
           /\ Advance(f, d).manifest = f.manifest
           /\ Advance(f, d).next = f.next + 1
<1>1. Len(f.manifest.deps) \in Nat
  BY DEF Read, Manifest, Frame
<1> DEFINE n == f.next + 1
           all == f.deps \cup {d}
<1>2. /\ n \in Nat \ {0} /\ n <= Len(f.manifest.deps) + 1
      /\ all \in SUBSET Dirs
  BY <1>1 DEF Frame
<1>3. Advance(f, d) = [dir |-> f.dir, manifest |-> f.manifest,
                       commit |-> f.commit, origin |-> f.origin,
                       next |-> n, deps |-> all]
  <2>1. f \in [dir : Dirs, manifest : Read, commit : MaybeCommit,
               origin : Origins, next : Nat \ {0}, deps : SUBSET Dirs]
    BY DEF Frame
  <2>2. Advance(f, d) = [f EXCEPT !.next = n, !.deps = all]
    BY DEF Advance
  <2> HIDE DEF n, all
  <2> QED BY <2>1, <2>2
<1>4. /\ f.dir \in Dirs /\ f.manifest \in Read /\ f.commit \in MaybeCommit
      /\ f.origin \in Origins
      /\ f.origin.url # NoUrl => f.commit \in Commits
  BY DEF Frame
<1>5. Advance(f, d) \in Frame
  <2> HIDE DEF n, all
  <2> QED BY <1>2, <1>3, <1>4 DEF Frame
<1> QED BY <1>3, <1>5

\* What an entry that leads somewhere does to the stack.
LEMMA ReachesStack ==
    ASSUME TypeOK, Phases, AtEntry, NEW d, NEW m, NEW commit, NEW origin,
           NEW pk, Leads(d, m, commit, origin, pk),
           Reaches(d, m, commit, origin, pk)
    PROVE  /\ stack' \in Seq(Frame) /\ Len(stack) \in Nat \ {0}
           /\ \A k \in 1..(Len(stack) - 1) : stack'[k] = stack[k]
           /\ \/ /\ Loaded(d) /\ Lib(d) /\ Len(stack') = Len(stack)
                 /\ stack'[Len(stack)] = Advance(Top, d)
              \/ /\ ~Loaded(d) /\ ~OnStack(d) /\ Len(stack') = Len(stack) + 1
                 /\ stack'[Len(stack)] = Top
                 /\ stack'[Len(stack) + 1] = NewFrame(d, m, commit, origin)
<1>1. /\ Len(stack) \in Nat \ {0} /\ Top \in Frame
      /\ Top.next \in 1..Len(Top.manifest.deps)
  BY AtEntryType
<1>2. stack \in Seq(Frame) /\ d \in Dirs
  BY DEF TypeOK, Leads
<1>3. Top.next <= Len(Top.manifest.deps) /\ Top = stack[Len(stack)]
  <2>1. Len(Top.manifest.deps) \in Nat
    BY <1>1 DEF Frame, Read, Manifest
  <2> QED BY <1>1, <2>1 DEF Top
<1>4. CASE /\ Loaded(d) /\ Lib(d)
           /\ stack' = [stack EXCEPT ![Len(stack)] = Advance(@, d)]
  <2>1. stack' = [stack EXCEPT ![Len(stack)] = Advance(Top, d)]
    BY <1>4 DEF Top
  <2>2. Advance(Top, d) \in Frame
    BY <1>1, <1>2, <1>3, AdvanceType
  <2> QED BY <1>1, <1>2, <1>4, <2>1, <2>2
<1>5. CASE /\ ~Loaded(d) /\ ~OnStack(d)
           /\ stack' = Append(stack, NewFrame(d, m, commit, origin))
  <2>1. NewFrame(d, m, commit, origin) \in Frame
    BY NewFrameType DEF Leads
  <2> QED BY <1>1, <1>2, <1>3, <1>5, <2>1
<1> QED BY <1>4, <1>5 DEF Reaches

LEMMA ReachesType ==
    ASSUME TypeOK, Phases, AtEntry, UNCHANGED outside,
           cache' \in [CacheDirs -> ClonedDirs(project) \cup {NoClone}],
           NEW d, NEW m, NEW commit, NEW origin, NEW pk,
           Leads(d, m, commit, origin, pk), Reaches(d, m, commit, origin, pk)
    PROVE  TypeOK' /\ Phases' /\ (Unlocked => Unlocked')
<1>1. /\ stack' \in Seq(Frame) /\ Len(stack) \in Nat \ {0}
      /\ \A k \in 1..(Len(stack) - 1) : stack'[k] = stack[k]
      /\ \/ /\ Loaded(d) /\ Lib(d) /\ Len(stack') = Len(stack)
            /\ stack'[Len(stack)] = Advance(Top, d)
         \/ /\ ~Loaded(d) /\ ~OnStack(d) /\ Len(stack') = Len(stack) + 1
            /\ stack'[Len(stack)] = Top
            /\ stack'[Len(stack) + 1] = NewFrame(d, m, commit, origin)
  BY ReachesStack
<1>2. /\ UNCHANGED <<project, remote, published, rootManifest>>
      /\ UNCHANGED <<lockfile, cmd, targets, phase, order, offered>>
      /\ picks' = pk /\ pk \in [PkgNames -> Pick \cup {NoPick}]
      /\ phase = "visit"
  BY DEF outside, Reaches, Leads, AtEntry
<1>3. TypeOK'
  <2>1. ClonedDirs(project)' = ClonedDirs(project)
    BY <1>2 DEF ClonedDirs, CommitsOf
  <2>2. \A u \in Urls : RemotesOf(CommitsOf(project, u))' =
                           RemotesOf(CommitsOf(project, u))
    BY <1>2 DEF CommitsOf
  <2> QED BY <1>1, <1>2, <2>1, <2>2 DEF TypeOK
<1>4. Phases'
  <2>1. stack' # <<>>
    BY <1>1
  <2>2. stack'[1].manifest = stack[1].manifest
    <3>1. CASE Len(stack) = 1
      <4>1. Top = stack[1] /\ Top.next <= Len(Top.manifest.deps) /\ Top \in Frame
        BY <3>1, AtEntryType DEF Top, AtEntry
      <4>2. Advance(Top, d).manifest = Top.manifest
        BY <4>1, AdvanceType DEF Leads
      <4> QED BY <1>1, <3>1, <4>1, <4>2
    <3>2. CASE Len(stack) # 1
      <4> DEFINE n == Len(stack)
      <4>0. n \in Nat \ {0} /\ n # 1
        BY <1>1, <3>2
      <4>1. 1 \in 1..(n - 1)
        <5> HIDE DEF n
        <5> QED BY <4>0
      <4>2. stack'[1] = stack[1]
        BY <1>1, <4>1
      <4> QED BY <4>2
    <3> QED BY <3>1, <3>2
  <2> QED BY <1>2, <2>1, <2>2 DEF Phases
<1>5. Unlocked => Unlocked'
  BY <1>2 DEF Unlocked, RegistryNames
<1> QED BY <1>3, <1>4, <1>5

\* Picks stay, and more packages are loaded: what is settled stays settled.
LEMMA SettledStays ==
    ASSUME NEW pk, NEW pk1, NEW loaded, NEW loaded1, NEW e,
           pk[e.name] # NoPick => pk1[e.name] = pk[e.name],
           loaded \subseteq loaded1
    PROVE  /\ Served(pk, e) => Served(pk1, e)
           /\ \A d : LeadsTo(pk, e, d) => LeadsTo(pk1, e, d)
           /\ Settled(pk, loaded, e) => Settled(pk1, loaded1, e)
BY Zenon DEF Served, LeadsTo, Settled

LEMMA ReachesSettled ==
    ASSUME TypeOK, Phases, EntriesSettled, AtEntry,
           NEW d, NEW m, NEW commit, NEW origin, NEW pk,
           Leads(d, m, commit, origin, pk), Reaches(d, m, commit, origin, pk)
    PROVE  EntriesSettled'
<1> DEFINE n == Len(stack)
<1>1. /\ stack' \in Seq(Frame) /\ n \in Nat \ {0}
      /\ \A k \in 1..(n - 1) : stack'[k] = stack[k]
      /\ \/ /\ Loaded(d) /\ Lib(d) /\ Len(stack') = n
            /\ stack'[n] = Advance(Top, d)
         \/ /\ ~Loaded(d) /\ ~OnStack(d) /\ Len(stack') = n + 1
            /\ stack'[n] = Top
            /\ stack'[n + 1] = NewFrame(d, m, commit, origin)
  BY ReachesStack
<1>2. /\ order' = order /\ picks' = pk /\ OrderDirs' = OrderDirs
      /\ stack \in Seq(Frame)
  BY DEF Reaches, OrderDirs, TypeOK
<1>3. /\ Top \in Frame /\ Top = stack[n] /\ Entry = Top.manifest.deps[Top.next]
      /\ Top.next \in Nat \ {0} /\ Top.next <= Len(Top.manifest.deps)
  BY TopType DEF AtEntry, Top, Entry
<1>4. \A x \in PkgNames : picks[x] # NoPick => pk[x] = picks[x]
  BY Zenon DEF Leads
<1>5. \A e : e.name \in PkgNames =>
          /\ \A c : LeadsTo(picks, e, c) => LeadsTo(pk, e, c)
          /\ Settled(picks, OrderDirs, e) => Settled(pk, OrderDirs, e)
  BY <1>4, SettledStays
<1>6. \A f \in Frame : \A i \in 1..Len(f.manifest.deps) :
          f.manifest.deps[i].name \in PkgNames
  <2>1. \A f \in Frame : f.manifest \in Read
    BY DEF Frame
  <2> QED BY <2>1, EntryType
<1>7. LeadsTo(pk, Entry, d)
  BY Zenon DEF Leads, LeadsTo, Served
<1>8. Loaded(d) => Settled(pk, OrderDirs, Entry)
  BY <1>7, Zenon DEF LeadsTo, Settled, Loaded, OrderDirs
<1>9. \A k \in DOMAIN order : \A i \in DOMAIN order[k].manifest.deps :
          Settled(pk, OrderDirs, order[k].manifest.deps[i])
  <2> TAKE k \in DOMAIN order
  <2> TAKE i \in DOMAIN order[k].manifest.deps
  <2>1. order[k] \in Package
    BY DEF TypeOK
  <2>2. order[k].manifest \in Read
    BY <2>1 DEF Package
  <2>3. i \in 1..Len(order[k].manifest.deps)
    BY <2>2 DEF Read, Manifest
  <2>4. order[k].manifest.deps[i].name \in PkgNames
    BY <2>2, <2>3, EntryType
  <2> QED BY <1>5, <2>4 DEF EntriesSettled
<1>10. \A f \in Frame : \A i \in 1..(f.next - 1) :
           f.manifest.deps[i].name \in PkgNames
  <2> TAKE f \in Frame
  <2>1. /\ f.next \in Nat \ {0} /\ f.next <= Len(f.manifest.deps) + 1
        /\ Len(f.manifest.deps) \in Nat
    BY DEF Frame, Read, Manifest
  <2> QED BY <1>6, <2>1
\* The entries that were settled are.
<1>11. \A k \in 1..n : stack[k] \in Frame /\ \A i \in 1..(stack[k].next - 1) :
           Settled(pk, OrderDirs, stack[k].manifest.deps[i])
  <2> TAKE k \in 1..n
  <2>1. stack[k] \in Frame /\ k \in DOMAIN stack
    BY <1>1, <1>2
  <2> QED BY <1>5, <1>10, <2>1 DEF EntriesSettled
<1>12. \A k \in 1..(n - 1) :
          /\ stack[k].next <= Len(stack[k].manifest.deps)
          /\ LeadsTo(pk, stack[k].manifest.deps[stack[k].next],
                     stack[k + 1].dir)
  <2> TAKE k \in 1..(n - 1)
  <2>1. /\ stack[k].next <= Len(stack[k].manifest.deps)
        /\ LeadsTo(picks, stack[k].manifest.deps[stack[k].next],
                   stack[k + 1].dir)
    BY DEF EntriesSettled
  <2>2. stack[k] \in Frame
    BY <1>1, <1>2
  <2>3. stack[k].next \in 1..Len(stack[k].manifest.deps)
    BY <2>1, <2>2 DEF Frame, Read, Manifest
  <2> QED BY <1>5, <1>6, <2>1, <2>2, <2>3
<1>13. CASE /\ Loaded(d) /\ Len(stack') = n /\ stack'[n] = Advance(Top, d)
  <2>1. /\ Advance(Top, d).manifest = Top.manifest
        /\ Advance(Top, d).next = Top.next + 1 /\ Advance(Top, d).dir = Top.dir
    <3>1. d \in Dirs
      BY Zenon DEF Leads
    <3>2. Top \in Frame /\ Top.next <= Len(Top.manifest.deps)
      BY <1>3
    <3> QED BY <3>1, <3>2, AdvanceType
  <2>2. \A i \in 1..Top.next : Settled(pk, OrderDirs, Top.manifest.deps[i])
    <3> TAKE i \in 1..Top.next
    <3>1. i = Top.next \/ i \in 1..(Top.next - 1)
      BY <1>3
    <3> QED BY <1>1, <1>3, <1>8, <1>11, <1>13, <3>1
  <2>3. \A k \in DOMAIN stack' : \A i \in 1..(stack'[k].next - 1) :
            Settled(pk, OrderDirs, stack'[k].manifest.deps[i])
    <3> TAKE k \in DOMAIN stack'
    <3>1. CASE k = n
      <4>1. /\ stack'[k].manifest = Top.manifest
            /\ 1..(stack'[k].next - 1) = 1..Top.next
        BY <1>3, <1>13, <2>1, <3>1
      <4> QED BY <2>2, <4>1
    <3>2. CASE k # n
      <4>1. k \in 1..(n - 1) /\ k \in 1..n
        BY <1>1, <1>13, <3>2
      <4> QED BY <1>1, <1>11, <4>1
    <3> QED BY <3>1, <3>2
  <2>4. \A k \in 1..(n - 1) : stack'[k + 1].dir = stack[k + 1].dir
    <3> TAKE k \in 1..(n - 1)
    <3>1. CASE k = n - 1
      BY <1>1, <1>3, <1>13, <2>1, <3>1
    <3>2. CASE k # n - 1
      <4>1. k + 1 \in 1..(n - 1)
        BY <1>1, <3>2
      <4> QED BY <1>1, <4>1
    <3> QED BY <3>1, <3>2
  <2> QED BY <1>1, <1>2, <1>9, <1>12, <1>13, <2>3, <2>4 DEF EntriesSettled
<1>14. CASE /\ Len(stack') = n + 1 /\ stack'[n] = Top
            /\ stack'[n + 1] = NewFrame(d, m, commit, origin)
  <2>1. /\ NewFrame(d, m, commit, origin).next = 1
        /\ NewFrame(d, m, commit, origin).dir = d
    BY DEF NewFrame
  <2>2. \A k \in 1..n : stack'[k] = stack[k]
    <3> TAKE k \in 1..n
    <3>1. k = n \/ k \in 1..(n - 1)
      BY <1>1
    <3> QED BY <1>1, <1>3, <1>14, <3>1
  <2>3. \A k \in DOMAIN stack' : \A i \in 1..(stack'[k].next - 1) :
            Settled(pk, OrderDirs, stack'[k].manifest.deps[i])
    <3> TAKE k \in DOMAIN stack'
    <3>1. CASE k = n + 1
      <4>1. 1..(stack'[k].next - 1) = {}
        BY <1>14, <2>1, <3>1
      <4> QED BY <4>1
    <3>2. CASE k # n + 1
      <4>1. k \in 1..n
        BY <1>1, <1>14, <3>2
      <4> QED BY <1>11, <2>2, <4>1
    <3> QED BY <3>1, <3>2
  <2>4. \A k \in 1..n :
          /\ stack'[k].next <= Len(stack'[k].manifest.deps)
          /\ LeadsTo(pk, stack'[k].manifest.deps[stack'[k].next],
                     stack'[k + 1].dir)
    <3> TAKE k \in 1..n
    <3>1. CASE k = n
      BY <1>3, <1>7, <1>14, <2>1, <3>1
    <3>2. CASE k # n
      <4>1. k \in 1..(n - 1) /\ k + 1 \in 1..n
        BY <1>1, <3>2
      <4> QED BY <1>12, <2>2, <4>1
    <3> QED BY <3>1, <3>2
  <2>5. 1..(Len(stack') - 1) = 1..n
    BY <1>1, <1>14
  <2> QED BY <1>2, <1>9, <2>3, <2>4, <2>5 DEF EntriesSettled
<1> QED BY <1>1, <1>13, <1>14

\* The pins do not change while a command runs, nor does what a pick owes
\* them.
LEMMA WellPickedStays ==
    ASSUME UNCHANGED <<lockfile, project, offered>>
    PROVE  /\ \A n : (PinOf(n) = PinOf(n)')
           /\ \A n, req, version, commit :
                 WellPicked(n, req, version, commit)
                     => WellPicked(n, req, version, commit)'
<1>1. \A n : (PinOf(n) = PinOf(n)')
  <2> TAKE n
  <2> DEFINE mine == {k \in DOMAIN lockfile :
                       /\ lockfile[k].name = n
                       /\ lockfile[k].commit # NoCommit
                             \/ lockfile[k].url # NoUrl}
             last == CHOOSE k \in mine : \A j \in mine : j <= k
  <2>1. mine = mine'
    BY Zenon
  <2>2. last = last'
    <3> HIDE DEF mine
    <3> QED BY <2>1
  <2>3. PinOf(n) = IF mine = {} THEN NoPin ELSE lockfile[last]
    BY Zenon DEF PinOf
  <2>4. PinOf(n)' = IF mine' = {} THEN NoPin ELSE lockfile'[last']
    BY Zenon DEF PinOf
  <2> HIDE DEF mine, last
  <2> QED BY <2>1, <2>2, <2>3, <2>4
<1>2. \A n, req : PinUsable(n, req) <=> PinUsable(n, req)'
  BY <1>1, Zenon DEF PinUsable
<1> QED BY <1>1, <1>2, Zenon DEF WellPicked

LEMMA ReachesPicks ==
    ASSUME TypeOK, Phases, PicksJustified, AtEntry, UNCHANGED outside,
           NEW d, NEW m, NEW commit, NEW origin, NEW pk,
           Leads(d, m, commit, origin, pk), Reaches(d, m, commit, origin, pk)
    PROVE  PicksJustified'
<1> DEFINE n == Len(stack)
<1>1. /\ stack' \in Seq(Frame) /\ n \in Nat \ {0}
      /\ \A k \in 1..(n - 1) : stack'[k] = stack[k]
      /\ \/ /\ Loaded(d) /\ Lib(d) /\ Len(stack') = n
            /\ stack'[n] = Advance(Top, d)
         \/ /\ ~Loaded(d) /\ ~OnStack(d) /\ Len(stack') = n + 1
            /\ stack'[n] = Top
            /\ stack'[n + 1] = NewFrame(d, m, commit, origin)
  BY ReachesStack
<1>2. /\ order' = order /\ picks' = pk
      /\ UNCHANGED <<lockfile, project, offered>> /\ stack \in Seq(Frame)
  BY DEF Reaches, outside, TypeOK
<1>3. /\ Top \in Frame /\ Top = stack[n] /\ Entry = Top.manifest.deps[Top.next]
      /\ Top.next \in DOMAIN Top.manifest.deps
      /\ Top.next <= Len(Top.manifest.deps)
  BY AtEntryType DEF Top, Entry, AtEntry
<1>4. /\ Advance(Top, d).manifest = Top.manifest
      /\ Advance(Top, d).dir = Top.dir
  BY <1>3, AdvanceType DEF Leads
<1>5. \A k \in DOMAIN stack : /\ k \in DOMAIN stack'
                              /\ stack'[k].manifest = stack[k].manifest
                              /\ stack'[k].dir = stack[k].dir
  <2> TAKE k \in DOMAIN stack
  <2>1. k \in 1..n /\ k \in DOMAIN stack'
    BY <1>1, <1>2
  <2>2. k = n \/ k \in 1..(n - 1)
    BY <1>1, <2>1
  <2> QED BY <1>1, <1>3, <1>4, <2>1, <2>2
<1>6. \A c : (Loaded(c) => Loaded(c)') /\ (OnStack(c) => OnStack(c)')
  BY <1>2, <1>5, Zenon DEF Loaded, OnStack
<1>7. Loaded(d)' \/ OnStack(d)'
  <2>1. CASE Loaded(d)
    BY <1>6, <2>1
  <2>2. CASE ~Loaded(d)
    <3>1. NewFrame(d, m, commit, origin).dir = d
      BY DEF NewFrame
    <3>2. n + 1 \in DOMAIN stack' /\ stack'[n + 1].dir = d
      BY <1>1, <2>2, <3>1
    <3> QED BY <3>2, Zenon DEF OnStack
  <2> QED BY <2>1, <2>2
<1>8. ManifestsRead \subseteq ManifestsRead'
  BY <1>2, <1>5, Zenon DEF ManifestsRead
<1>9. Top.manifest \in ManifestsRead
  <2>1. n \in DOMAIN stack
    BY <1>1, <1>2
  <2> QED BY <1>3, <2>1, Zenon DEF ManifestsRead
<1>10. ASSUME NEW x \in PkgNames, pk[x] # NoPick
       PROVE  /\ WellPicked(x, pk[x].req, pk[x].version, pk[x].commit)'
              /\ \E y \in ManifestsRead' : AsksFor(y, x, pk[x].req)
              /\ Loaded(pk[x].dir)' \/ OnStack(pk[x].dir)'
  <2>1. CASE pk[x] = picks[x]
    <3>1. /\ WellPicked(x, pk[x].req, pk[x].version, pk[x].commit)
          /\ \E y \in ManifestsRead : AsksFor(y, x, pk[x].req)
          /\ Loaded(pk[x].dir) \/ OnStack(pk[x].dir)
      BY <1>10, <2>1, Zenon DEF PicksJustified
    <3> QED BY <1>2, <1>6, <1>8, <3>1, WellPickedStays, Zenon
  <2>2. CASE pk[x] # picks[x]
    <3>1. /\ Entry.kind = "registry" /\ x = Entry.name
          /\ pk[x].req = Entry.req /\ pk[x].dir = d
          /\ WellPicked(x, pk[x].req, pk[x].version, pk[x].commit)
      BY <2>2, Zenon DEF Leads
    <3>2. AsksFor(Top.manifest, x, pk[x].req)
      BY <1>3, <3>1, Zenon DEF AsksFor
    <3> QED BY <1>2, <1>7, <1>8, <1>9, <3>1, <3>2, WellPickedStays, Zenon
  <2> QED BY <2>1, <2>2
<1>11. picks' = pk
  BY <1>2
<1> QED BY <1>10, <1>11, Zenon DEF PicksJustified

\* Resolving an entry keeps the invariant.
LEMMA EntryInv ==
    ASSUME Inv, PathEntry \/ GitEntry \/ RegistryAgain \/ RegistryPinned
                    \/ RegistryFresh
    PROVE  Inv'
<1> USE DEF Inv
<1>1. EntryStep /\ AtEntry
  BY PathStep, GitStep, AgainStep, PinnedStep, FreshStep
     DEF PathEntry, GitEntry, RegistryAgain, RegistryPinned, RegistryFresh,
         AtFirstRegistryEntry
<1>2. CASE Fail
  BY <1>1, <1>2, FailInv DEF EntryStep
<1>3. CASE ~Fail
  <2>1. PICK d, m, commit, origin, pk :
            Leads(d, m, commit, origin, pk) /\ Reaches(d, m, commit, origin, pk)
    BY <1>1, <1>3 DEF EntryStep
  <2>2. /\ UNCHANGED outside
        /\ cache' \in [CacheDirs -> ClonedDirs(project) \cup {NoClone}]
    BY <1>1 DEF EntryStep
  <2> QED BY <1>1, <2>1, <2>2, ReachesType, ReachesSettled, ReachesPicks
<1> QED BY <1>2, <1>3

LEMMA FetchFailsInv ==
    ASSUME Inv, FetchFails
    PROVE  Inv'
<1>1. Fail /\ UNCHANGED <<outside, cache>>
  BY DEF FetchFails
<1> QED BY <1>1, FailInv DEF Inv, TypeOK
-----------------------------------------------------------------------------
(* The invariant: a package has been visited.                                *)

LEMMA FinishOrder ==
    ASSUME TypeOK, Phases, EntriesSettled, phase = "visit",
           Top.next > Len(Top.manifest.deps), order' = Append(order, Resolved),
           picks' = picks
    PROVE  /\ order' \in Seq(Package) /\ Len(order') = Len(order) + 1
           /\ order' # <<>>
           /\ \A k \in DOMAIN order : order'[k] = order[k]
           /\ order'[Len(order')].manifest = Top.manifest
           /\ OrderDirs' = OrderDirs \cup {Top.dir}
           /\ \A c : Loaded(c)' <=> Loaded(c) \/ c = Top.dir
           /\ ManifestsRead' =
                 {order[k].manifest : k \in DOMAIN order}
                   \cup {Top.manifest}
                   \cup {stack'[k].manifest : k \in DOMAIN stack'}
           /\ \A k \in DOMAIN order' : \A i \in DOMAIN order'[k].manifest.deps :
                 Settled(picks', OrderDirs', order'[k].manifest.deps[i])
<1> DEFINE n == Len(order)
<1>1. /\ Len(stack) \in DOMAIN stack /\ Top \in Frame /\ Top.manifest \in Read
      /\ Top.next \in Nat \ {0} /\ Top = stack[Len(stack)]
  BY TopType DEF Top
<1>2. order \in Seq(Package) /\ n \in Nat
  BY DEF TypeOK
<1>3. /\ Resolved \in Package
      /\ Resolved.manifest = Top.manifest /\ Resolved.dir = Top.dir
  BY <1>1 DEF Resolved, Frame, Package
<1>4. /\ order' \in Seq(Package) /\ Len(order') = n + 1 /\ order' # <<>>
      /\ DOMAIN order = 1..n /\ DOMAIN order' = 1..(n + 1)
      /\ \A k \in 1..n : order'[k] = order[k]
      /\ order'[n + 1] = Resolved
  BY <1>2, <1>3
<1>5. \A c : c \in 1..(n + 1) <=> c \in 1..n \/ c = n + 1
  BY <1>2
<1>6. \A c : Loaded(c)' <=> Loaded(c) \/ c = Top.dir
  <2> HIDE DEF n
  <2> DEFINE n1 == n + 1
  <2>1. /\ DOMAIN order = 1..n /\ DOMAIN order' = 1..n1
        /\ \A k \in 1..n : order'[k] = order[k]
        /\ order'[n1] = Resolved
        /\ \A c : c \in 1..n1 <=> c \in 1..n \/ c = n1
    BY <1>4, <1>5
  <2> HIDE DEF n1
  <2> QED BY <1>3, <2>1, Zenon DEF Loaded
<1>7. OrderDirs' = OrderDirs \cup {Top.dir}
  <2>1. \A c : (c \in OrderDirs <=> Loaded(c)) /\ (c \in OrderDirs' <=> Loaded(c)')
    BY Zenon DEF OrderDirs, Loaded
  <2>2. \A c : c \in OrderDirs' <=> c \in OrderDirs \/ c = Top.dir
    BY <1>6, <2>1, Zenon
  <2> QED BY <2>2
<1>8. ManifestsRead' = {order[k].manifest : k \in DOMAIN order}
                         \cup {Top.manifest}
                         \cup {stack'[k].manifest : k \in DOMAIN stack'}
  <2>1. \A c : c \in {order'[k].manifest : k \in DOMAIN order'}
                 <=> c \in {order[k].manifest : k \in DOMAIN order}
                       \cup {Top.manifest}
    <3> HIDE DEF n
    <3> DEFINE n1 == n + 1
    <3>1. /\ DOMAIN order = 1..n /\ DOMAIN order' = 1..n1
          /\ \A k \in 1..n : order'[k] = order[k]
          /\ order'[n1] = Resolved
          /\ \A c : c \in 1..n1 <=> c \in 1..n \/ c = n1
      BY <1>4, <1>5
    <3> HIDE DEF n1
    <3> QED BY <1>3, <3>1, Zenon
  <2> QED BY <2>1, Zenon DEF ManifestsRead
<1>9. \A i \in DOMAIN Top.manifest.deps :
          Settled(picks, OrderDirs, Top.manifest.deps[i])
  <2> TAKE i \in DOMAIN Top.manifest.deps
  <2>1. DOMAIN Top.manifest.deps = 1..Len(Top.manifest.deps)
        /\ Len(Top.manifest.deps) \in Nat
    BY <1>1 DEF Read, Manifest
  <2>2. i \in 1..(Top.next - 1)
    BY <1>1, <2>1
  <2> QED BY <1>1, <2>2 DEF EntriesSettled
<1>10. \A e : Settled(picks, OrderDirs, e) => Settled(picks', OrderDirs', e)
  <2>1. OrderDirs \subseteq OrderDirs'
    BY <1>7
  <2>2. picks' = picks
    OBVIOUS
  <2> QED BY <2>1, <2>2, SettledStays
<1>11. \A k \in DOMAIN order' : \A i \in DOMAIN order'[k].manifest.deps :
           Settled(picks', OrderDirs', order'[k].manifest.deps[i])
  <2> TAKE k \in DOMAIN order'
  <2>1. CASE k = n + 1
    <3>1. order'[k].manifest = Top.manifest
      BY <1>3, <1>4, <2>1
    <3> QED BY <1>9, <1>10, <3>1
  <2>2. CASE k # n + 1
    <3>1. k \in DOMAIN order /\ order'[k] = order[k]
      BY <1>4, <1>5, <2>2
    <3> QED BY <1>10, <3>1 DEF EntriesSettled
  <2> QED BY <2>1, <2>2
<1>12. order'[Len(order')].manifest = Top.manifest
  BY <1>3, <1>4
<1> QED BY <1>4, <1>6, <1>7, <1>8, <1>11, <1>12

LEMMA FinishStack ==
    ASSUME TypeOK, Phases, EntriesSettled, Finish, Top.manifest.lib,
           NEW up, up = Len(stack) - 1
    PROVE  /\ up \in Nat \ {0} /\ Len(stack) = up + 1
           /\ Top = stack[up + 1] /\ Top \in Frame /\ Top.dir \in Dirs
           /\ stack[up] \in Frame
           /\ stack[up].next <= Len(stack[up].manifest.deps)
           /\ LeadsTo(picks, stack[up].manifest.deps[stack[up].next], Top.dir)
           /\ stack' \in Seq(Frame) /\ Len(stack') = up
           /\ \A k \in 1..(up - 1) : stack'[k] = stack[k]
           /\ stack'[up] = Advance(stack[up], Top.dir)
           /\ stack'[up].next = stack[up].next + 1
           /\ \A k \in 1..up : /\ stack'[k].manifest = stack[k].manifest
                               /\ stack'[k].dir = stack[k].dir
                               /\ stack'[k].commit = stack[k].commit
<1>1. /\ phase = "visit" /\ Len(stack) > 1
      /\ stack' = [SubSeq(stack, 1, up) EXCEPT ![up] = Advance(@, Top.dir)]
  BY DEF Finish
<1>2. /\ stack \in Seq(Frame) /\ up \in Nat \ {0} /\ Len(stack) = up + 1
      /\ Top = stack[up + 1] /\ Top \in Frame /\ stack[up] \in Frame
      /\ Top.dir \in Dirs
  <2>1. /\ Len(stack) \in Nat \ {0} /\ Top \in Frame
        /\ Top = stack[Len(stack)] /\ stack \in Seq(Frame)
    BY <1>1, TopType DEF TypeOK, Top
  <2>2. up \in Nat \ {0} /\ Len(stack) = up + 1
    BY <1>1, <2>1
  <2>3. up \in 1..Len(stack)
    BY <2>2
  <2> QED BY <2>1, <2>2, <2>3 DEF Frame
<1> DEFINE f == stack[up]
<1>3. /\ f.next <= Len(f.manifest.deps)
      /\ LeadsTo(picks, f.manifest.deps[f.next], Top.dir)
  <2>1. up \in 1..(Len(stack) - 1)
    BY <1>2
  <2> QED BY <1>2, <2>1 DEF EntriesSettled
<1>4. /\ Advance(f, Top.dir) \in Frame
      /\ Advance(f, Top.dir).dir = f.dir
      /\ Advance(f, Top.dir).manifest = f.manifest
      /\ Advance(f, Top.dir).next = f.next + 1
      /\ Advance(f, Top.dir).commit = f.commit
  <2>1. Advance(f, Top.dir).commit = f.commit
    BY <1>2 DEF Advance, Frame
  <2> QED BY <1>2, <1>3, <2>1, AdvanceType
<1>5. /\ stack' \in Seq(Frame) /\ Len(stack') = up
      /\ \A k \in 1..(up - 1) : stack'[k] = stack[k]
      /\ stack'[up] = Advance(f, Top.dir)
  <2> DEFINE s == SubSeq(stack, 1, up)
  <2>1. /\ s \in Seq(Frame) /\ Len(s) = up
        /\ \A k \in 1..up : s[k] = stack[k]
    BY <1>2
  <2>2. stack' = [s EXCEPT ![up] = Advance(f, Top.dir)]
    <3>1. s[up] = f
      BY <1>2, <2>1
    <3> QED BY <1>1, <3>1
  <2>3. Advance(f, Top.dir) \in Frame
    BY <1>4
  <2> DEFINE new == Advance(f, Top.dir)
  <2> HIDE DEF s, f, new
  <2> QED BY <1>2, <2>1, <2>2, <2>3 DEF new
<1>6. \A k \in 1..up : k = up \/ k \in 1..(up - 1)
  BY <1>2
<1> QED BY <1>2, <1>3, <1>4, <1>5, <1>6

LEMMA FinishInv ==
    ASSUME Inv, Finish
    PROVE  Inv'
<1> USE DEF Inv
<1>1. /\ phase = "visit" /\ Top.next > Len(Top.manifest.deps) /\ Len(stack) > 1
      /\ UNCHANGED <<outside, cache>>
  BY DEF Finish
<1>2. CASE ~Top.manifest.lib
  <2>1. Fail
    BY <1>2 DEF Finish
  <2> QED BY <1>1, <2>1, FailInv DEF TypeOK
<1>3. CASE Top.manifest.lib
  <2> DEFINE up == Len(stack) - 1
  <2>1. /\ order' = Append(order, Resolved)
        /\ stack' = [SubSeq(stack, 1, up) EXCEPT ![up] = Advance(@, Top.dir)]
        /\ UNCHANGED <<lockfile, cmd, targets, phase, picks, basis, offered>>
    BY <1>3 DEF Finish
  <2> DEFINE f == stack[up]
             e == f.manifest.deps[f.next]
  <2>2. /\ up \in Nat \ {0} /\ Len(stack) = up + 1 /\ Top = stack[up + 1]
        /\ f \in Frame /\ stack \in Seq(Frame)
    BY <1>3, FinishStack DEF TypeOK
  <2>3. LeadsTo(picks, e, Top.dir)
    BY <1>3, FinishStack
  <2>4. stack'[up].next = f.next + 1
    BY <1>3, FinishStack
  <2>5. /\ stack' \in Seq(Frame) /\ Len(stack') = up
        /\ \A k \in 1..(up - 1) : stack'[k] = stack[k]
    BY <1>3, FinishStack
  <2>6. /\ order' \in Seq(Package)
        /\ OrderDirs' = OrderDirs \cup {Top.dir}
        /\ \A c : Loaded(c)' <=> Loaded(c) \/ c = Top.dir
        /\ ManifestsRead' =
              {order[k].manifest : k \in DOMAIN order}
                \cup {Top.manifest}
                \cup {stack'[k].manifest : k \in DOMAIN stack'}
        /\ \A k \in DOMAIN order' : \A i \in DOMAIN order'[k].manifest.deps :
              Settled(picks', OrderDirs', order'[k].manifest.deps[i])
    BY <1>1, <2>1, FinishOrder
  <2>7. UNCHANGED <<project, remote, published, rootManifest>>
    BY <1>1 DEF outside
  <2>8. TypeOK'
    <3>1. ClonedDirs(project)' = ClonedDirs(project)
      BY <2>7 DEF ClonedDirs, CommitsOf
    <3>2. \A u \in Urls : RemotesOf(CommitsOf(project, u))' =
                             RemotesOf(CommitsOf(project, u))
      BY <2>7 DEF CommitsOf
    <3> QED BY <1>1, <2>1, <2>5, <2>6, <2>7, <3>1, <3>2 DEF TypeOK
  \* The frames that are left have the manifests and directories they had.
  <2>9. \A k \in 1..up : /\ stack'[k].manifest = stack[k].manifest
                         /\ stack'[k].dir = stack[k].dir
    BY <1>3, FinishStack
  <2>10. Phases'
    <3>1. 1 \in 1..up
      BY <2>2
    <3>2. stack' # <<>>
      BY <2>2, <2>5
    <3> QED BY <1>1, <2>1, <2>7, <2>9, <3>1, <3>2 DEF Phases
  <2>11. Unlocked'
    BY <2>1, <2>7 DEF Unlocked, RegistryNames
  <2>12. EntriesSettled'
    <3>1. \A x : Settled(picks, OrderDirs, x) => Settled(picks', OrderDirs', x)
      <4>1. OrderDirs \subseteq OrderDirs' /\ picks' = picks
        BY <2>1, <2>6
      <4> QED BY <4>1, SettledStays
    <3>2. Settled(picks', OrderDirs', e)
      BY <2>1, <2>3, <2>6 DEF LeadsTo, Settled
    <3>3. \A k \in 1..up : \A i \in 1..(stack[k].next - 1) :
              Settled(picks', OrderDirs', stack[k].manifest.deps[i])
      <4> TAKE k \in 1..up
      <4>1. k \in DOMAIN stack
        BY <2>2
      <4> QED BY <3>1, <4>1 DEF EntriesSettled
    <3>4. \A i \in 1..f.next :
              Settled(picks', OrderDirs', f.manifest.deps[i])
      <4> TAKE i \in 1..f.next
      <4>1. f.next \in Nat \ {0} /\ up \in 1..up
        BY <2>2 DEF Frame
      <4>2. i = f.next \/ i \in 1..(f.next - 1)
        BY <4>1
      <4> QED BY <3>2, <3>3, <4>1, <4>2
    <3>5. \A k \in DOMAIN stack' : \A i \in 1..(stack'[k].next - 1) :
              Settled(picks', OrderDirs', stack'[k].manifest.deps[i])
      <4> TAKE k \in DOMAIN stack'
      <4>1. k \in 1..up
        BY <2>5
      <4>2. CASE k = up
        <5>1. 1..(stack'[k].next - 1) = 1..f.next
          <6>1. f.next \in Nat /\ stack'[k].next = f.next + 1
            BY <2>2, <2>4, <2>5, <4>2 DEF Frame
          <6> QED BY <6>1
        <5> QED BY <2>9, <3>4, <4>1, <4>2, <5>1
      <4>3. CASE k # up
        <5>1. k \in 1..(up - 1)
          BY <2>2, <4>1, <4>3
        <5> QED BY <2>5, <3>3, <4>1, <5>1
      <4> QED BY <4>2, <4>3
    <3>6. \A k \in 1..(up - 1) :
            /\ stack'[k].next <= Len(stack'[k].manifest.deps)
            /\ LeadsTo(picks', stack'[k].manifest.deps[stack'[k].next],
                       stack'[k + 1].dir)
      <4> TAKE k \in 1..(up - 1)
      <4>1. k \in 1..(Len(stack) - 1) /\ k + 1 \in 1..up
        BY <2>2
      <4>2. /\ stack[k].next <= Len(stack[k].manifest.deps)
            /\ LeadsTo(picks, stack[k].manifest.deps[stack[k].next],
                       stack[k + 1].dir)
        BY <4>1 DEF EntriesSettled
      <4>3. stack'[k] = stack[k] /\ stack'[k + 1].dir = stack[k + 1].dir
        BY <2>5, <2>9, <4>1
      <4> QED BY <2>1, <4>2, <4>3
    <3>7. 1..(Len(stack') - 1) = 1..(up - 1)
      BY <2>5
    <3> QED BY <2>6, <3>5, <3>6, <3>7 DEF EntriesSettled
  <2>13. PicksJustified'
    <3>1. DOMAIN stack = 1..(up + 1) /\ DOMAIN stack' = 1..up
      BY <2>2, <2>5
    <3>2. \A k \in DOMAIN stack : k \in 1..up \/ stack[k] = Top
      BY <2>2, <3>1
    <3>3. \A c : OnStack(c) => OnStack(c)' \/ c = Top.dir
      BY <2>9, <3>1, <3>2, Zenon DEF OnStack
    <3>4. ManifestsRead \subseteq ManifestsRead'
      <4>1. \A k \in DOMAIN order : order[k].manifest \in ManifestsRead'
        BY <2>6, Zenon DEF ManifestsRead
      <4>2. \A k \in 1..up : stack[k].manifest \in ManifestsRead'
        BY <2>9, <3>1, Zenon DEF ManifestsRead
      <4>3. Top.manifest \in ManifestsRead'
        BY <2>6, Zenon DEF ManifestsRead
      <4>4. \A k \in DOMAIN stack : stack[k].manifest \in ManifestsRead'
        BY <3>2, <4>2, <4>3, Zenon
      <4>5. \A x \in ManifestsRead :
                \/ \E k \in DOMAIN order : x = order[k].manifest
                \/ \E k \in DOMAIN stack : x = stack[k].manifest
        BY Zenon DEF ManifestsRead
      <4> QED BY <4>1, <4>4, <4>5, Zenon
    <3>5. UNCHANGED <<lockfile, project, offered, picks>>
      BY <2>1, <2>7
    <3> HIDE DEF f, e, up
    <3> QED BY <2>6, <3>3, <3>4, <3>5, WellPickedStays, Zenon
            DEF PicksJustified
  <2> QED BY <2>8, <2>10, <2>11, <2>12, <2>13
<1> QED BY <1>2, <1>3

LEMMA FinishRootInv ==
    ASSUME Inv, FinishRoot
    PROVE  Inv'
<1> USE DEF Inv
<1>1. /\ phase = "visit" /\ Top.next > Len(Top.manifest.deps) /\ Len(stack) = 1
      /\ order' = Append(order, Resolved) /\ stack' = <<>>
      /\ phase' = "compile"
      /\ UNCHANGED <<outside, lockfile, cache, cmd, targets, picks, basis,
                     offered>>
  BY DEF FinishRoot
<1>2. /\ order' \in Seq(Package) /\ order' # <<>>
      /\ order'[Len(order')].manifest = Top.manifest
      /\ OrderDirs' = OrderDirs \cup {Top.dir}
      /\ \A c : Loaded(c)' <=> Loaded(c) \/ c = Top.dir
      /\ ManifestsRead' =
            {order[k].manifest : k \in DOMAIN order}
              \cup {Top.manifest}
              \cup {stack'[k].manifest : k \in DOMAIN stack'}
      /\ \A k \in DOMAIN order' : \A i \in DOMAIN order'[k].manifest.deps :
            Settled(picks', OrderDirs', order'[k].manifest.deps[i])
  BY <1>1, FinishOrder
<1>3. UNCHANGED <<project, remote, published, rootManifest>>
  BY <1>1 DEF outside
<1>4. stack' \in Seq(Frame) /\ DOMAIN stack' = {} /\ Len(stack') = 0
  BY <1>1
<1>5. DOMAIN stack = {1} /\ Top = stack[1]
  <2>1. stack \in Seq(Frame)
    BY DEF TypeOK
  <2> QED BY <1>1, <2>1 DEF Top
<1>6. TypeOK'
  <2>1. ClonedDirs(project)' = ClonedDirs(project)
    BY <1>3 DEF ClonedDirs, CommitsOf
  <2>2. \A u \in Urls : RemotesOf(CommitsOf(project, u))' =
                           RemotesOf(CommitsOf(project, u))
    BY <1>3 DEF CommitsOf
  <2> QED BY <1>1, <1>2, <1>3, <1>4, <2>1, <2>2 DEF TypeOK
<1>7. Phases'
  BY <1>1, <1>2, <1>3, <1>5 DEF Phases
<1>8. Unlocked'
  BY <1>1, <1>3 DEF Unlocked, RegistryNames
<1>9. EntriesSettled'
  <2>1. 1..(Len(stack') - 1) = {}
    BY <1>4
  <2> QED BY <1>2, <1>4, <2>1 DEF EntriesSettled
<1>10. PicksJustified'
  <2>1. \A c : OnStack(c) => c = Top.dir
    BY <1>5, Zenon DEF OnStack
  <2>2. ManifestsRead \subseteq ManifestsRead'
    BY <1>2, <1>5, Zenon DEF ManifestsRead
  <2>3. UNCHANGED <<lockfile, project, offered, picks>>
    BY <1>1, <1>3
  <2> QED BY <1>2, <2>1, <2>2, <2>3, WellPickedStays, Zenon
          DEF PicksJustified
<1> QED BY <1>6, <1>7, <1>8, <1>9, <1>10
-----------------------------------------------------------------------------
(* The invariant: a command begins.                                          *)

\* removeLockfilePinBlocks leaves pins, and none of these names.
LEMMA UnpinnedType ==
    ASSUME TypeOK, NEW names
    PROVE  /\ Unpinned(names) \in Seq(Pin)
           /\ \A k \in DOMAIN Unpinned(names) :
                 Unpinned(names)[k].name \notin names
<1> DEFINE n == Len(lockfile)
           Next1(f, k) == IF k = 0 THEN <<>>
                          ELSE IF lockfile[k].name \in names THEN f[k - 1]
                          ELSE Append(f[k - 1], lockfile[k])
           Good(s) == s \in Seq(Pin) /\ \A k \in DOMAIN s : s[k].name \notin names
           Builds(f, m) == /\ f \in [0..m -> Seq(Pin)]
                           /\ \A k \in 0..m : f[k] = Next1(f, k)
<1>1. n \in Nat /\ \A k \in 1..n : lockfile[k] \in Pin
  BY DEF TypeOK
<1>2. \A m \in 0..n : \E f : Builds(f, m)
  <2> DEFINE S == {m \in 0..n : ~\E f : Builds(f, m)}
  <2> SUFFICES S = {}
    OBVIOUS
  <2> SUFFICES ASSUME S # {} PROVE FALSE
    OBVIOUS
  <2>1. S \subseteq Nat
    BY <1>1
  <2>2. PICK m \in S : \A k \in S : m <= k
    <3> HIDE DEF S
    <3> QED BY <2>1, LeastNumber
  <2>3. m \in 0..n /\ ~\E f : Builds(f, m)
    OBVIOUS
  <2>4. CASE m = 0
    <3> DEFINE f == [k \in 0..0 |-> <<>>]
    <3>1. f \in [0..0 -> Seq(Pin)] /\ \A k \in 0..0 : k = 0 /\ f[k] = <<>>
      OBVIOUS
    <3>2. Builds(f, 0)
      <4> HIDE DEF f
      <4> QED BY <3>1
    <3> QED BY <2>3, <2>4, <3>2
  <2>5. CASE m # 0
    <3> DEFINE l == m - 1
    <3>1. l \in 0..n /\ m \in 1..n /\ ~(m <= l) /\ l \in 0..l
      BY <1>1, <2>3, <2>5
    <3>2. l \notin S
      <4> HIDE DEF S, l
      <4> QED BY <2>2, <3>1
    <3>3. PICK f : Builds(f, l)
      BY <3>1, <3>2
    <3> DEFINE last == Next1(f, m)
               g == [k \in 0..m |-> IF k = m THEN last ELSE f[k]]
    <3>4. f[l] \in Seq(Pin)
      BY <3>1, <3>3
    <3>5. last \in Seq(Pin)
      BY <1>1, <2>5, <3>1, <3>4
    <3>6. \A k \in 0..m : k # m => k \in 0..l
      BY <2>3
    <3>7. g \in [0..m -> Seq(Pin)]
      <4> HIDE DEF last
      <4> QED BY <3>3, <3>5, <3>6
    <3>8. \A k \in 0..m : k # 0 => k - 1 \in 0..l /\ k - 1 # m /\ k - 1 \in 0..m
      BY <2>3
    <3>9. ASSUME NEW k \in 0..m
          PROVE  g[k] = Next1(g, k)
      <4>1. CASE k = 0
        <5>1. g[k] = f[0] /\ f[0] = <<>>
          BY <2>5, <3>1, <3>3, <4>1
        <5> QED BY <4>1, <5>1
      <4>2. CASE k # 0
        <5>1. g[k - 1] = f[k - 1]
          BY <3>8, <4>2
        <5>2. g[k] = Next1(f, k)
          BY <3>3, <3>6
        <5> HIDE DEF g
        <5> QED BY <4>2, <5>1, <5>2
      <4> QED BY <4>1, <4>2
    <3>10. Builds(g, m)
      <4> HIDE DEF g, Next1
      <4> QED BY <3>7, <3>9
    <3> QED BY <2>3, <3>10
  <2> QED BY <2>4, <2>5
<1> DEFINE kept == CHOOSE f : f = [k \in 0..n |-> Next1(f, k)]
<1>3. kept = [k \in 0..n |-> Next1(kept, k)]
  <2>1. n \in 0..n
    BY <1>1
  <2>2. PICK f : Builds(f, n)
    BY <1>2, <2>1
  <2>3. f = [k \in 0..n |-> Next1(f, k)]
    <3> HIDE DEF Next1, n
    <3> QED BY <2>2
  <2> QED BY <2>3
<1>4. Unpinned(names) = kept[n]
  BY Zenon DEF Unpinned
<1> HIDE DEF kept
<1>5. \A m \in 0..n : Good(kept[m])
  <2> DEFINE S == {m \in 0..n : ~Good(kept[m])}
  <2> SUFFICES S = {}
    OBVIOUS
  <2> SUFFICES ASSUME S # {} PROVE FALSE
    OBVIOUS
  <2>1. S \subseteq Nat
    BY <1>1
  <2>2. PICK m \in S : \A k \in S : m <= k
    <3> HIDE DEF S
    <3> QED BY <2>1, LeastNumber
  <2>3. m \in 0..n /\ ~Good(kept[m])
    OBVIOUS
  <2>4. kept[m] = Next1(kept, m)
    BY <1>3, <2>3
  <2>5. CASE m = 0
    BY <2>3, <2>4, <2>5
  <2>6. CASE m # 0
    <3> DEFINE s == kept[m - 1]
    <3>1. m - 1 \in 0..n /\ m \in 1..n /\ ~(m <= m - 1)
      BY <1>1, <2>3, <2>6
    <3>2. Good(s)
      BY <2>2, <3>1
    <3>3. lockfile[m] \in Pin
      BY <1>1, <3>1
    <3>4. kept[m] = IF lockfile[m].name \in names THEN s
                    ELSE Append(s, lockfile[m])
      BY <2>4, <2>6
    <3> HIDE DEF s
    <3> QED BY <2>3, <3>2, <3>3, <3>4
  <2> QED BY <2>5, <2>6
<1>6. n \in 0..n
  BY <1>1
<1> QED BY <1>4, <1>5, <1>6

LEMMA BeginInv ==
    ASSUME Inv, phase = "idle", NEW c \in {"build", "list", "update"},
           Resolve(c), lockfile' \in Seq(Pin),
           targets' \subseteq RegistryNames,
           \A k \in DOMAIN lockfile' : lockfile'[k].name \notin targets'
    PROVE  Inv'
<1> USE DEF Inv
<1> DEFINE f == NewFrame(RootDir, rootManifest, NoCommit, PathOrigin)
<1>1. /\ phase' = "visit" /\ cmd' = c /\ stack' = <<f>> /\ order' = <<>>
      /\ offered' = published
      /\ UNCHANGED <<project, remote, published, rootManifest, cache, picks>>
  BY DEF Resolve, outside
<1>2. /\ project \in Projects /\ rootManifest \in Read
      /\ picks = [n \in PkgNames |-> NoPick]
  BY DEF TypeOK, Phases
<1>3. f \in Frame /\ f.manifest = rootManifest /\ f.next = 1
  <2>1. RootDir \in Dirs /\ NoCommit \in MaybeCommit
    BY <1>2, Constants DEF MaybeCommit
  <2> QED BY <1>2, <2>1, PathOriginType, NewFrameType
<1> HIDE DEF f
<1>4. /\ stack' \in Seq(Frame) /\ stack' # <<>> /\ Len(stack') = 1
      /\ DOMAIN stack' = {1} /\ stack'[1] = f
      /\ order' \in Seq(Package) /\ DOMAIN order' = {}
  BY <1>1, <1>3
<1>5. RegistryNames \subseteq PkgNames
  <2> SUFFICES ASSUME NEW k \in DOMAIN rootManifest.deps
               PROVE  rootManifest.deps[k].name \in PkgNames
    BY Zenon DEF RegistryNames
  <2>1. k \in 1..Len(rootManifest.deps)
    BY <1>2 DEF Read, Manifest
  <2> QED BY <1>2, <2>1, EntryType
<1>6. TypeOK'
  <2>1. ClonedDirs(project)' = ClonedDirs(project)
    BY <1>1 DEF ClonedDirs, CommitsOf
  <2>2. \A u \in Urls : RemotesOf(CommitsOf(project, u))' =
                           RemotesOf(CommitsOf(project, u))
    BY <1>1 DEF CommitsOf
  <2>3. /\ targets' \in SUBSET PkgNames
        /\ cmd' \in {"none", "build", "list", "update"}
    BY <1>1, <1>5
  <2> QED BY <1>1, <1>4, <2>1, <2>2, <2>3 DEF TypeOK
<1>7. Phases'
  BY <1>1, <1>3, <1>4 DEF Phases
<1>8. Unlocked'
  BY <1>1 DEF Unlocked, RegistryNames
<1>9. EntriesSettled'
  <2>1. 1..(Len(stack') - 1) = {} /\ 1..(stack'[1].next - 1) = {}
    BY <1>3, <1>4
  <2> QED BY <1>4, <2>1 DEF EntriesSettled
<1>10. PicksJustified'
  BY <1>1, <1>2 DEF PicksJustified
<1> QED BY <1>6, <1>7, <1>8, <1>9, <1>10

LEMMA CommandInv ==
    ASSUME Inv, Build \/ List \/ \E names \in SUBSET PkgNames : Update(names)
    PROVE  Inv'
<1>1. CASE Build \/ List
  <2>1. /\ phase = "idle" /\ UNCHANGED <<lockfile, targets>>
        /\ Resolve("build") \/ Resolve("list")
    BY <1>1 DEF Build, List
  <2>2. /\ lockfile' \in Seq(Pin) /\ targets' \subseteq RegistryNames
        /\ \A k \in DOMAIN lockfile' : lockfile'[k].name \notin targets'
    BY <2>1 DEF Inv, TypeOK, Unlocked
  <2> QED BY <2>1, <2>2, BeginInv
<1>2. ASSUME NEW names \in SUBSET PkgNames, Update(names)
      PROVE  Inv'
  <2>1. /\ phase = "idle" /\ names \subseteq RegistryNames
        /\ lockfile' = Unpinned(names) /\ targets' = names /\ Resolve("update")
    BY <1>2 DEF Update
  <2>2. /\ lockfile' \in Seq(Pin)
        /\ \A k \in DOMAIN lockfile' : lockfile'[k].name \notin names
    BY <2>1, UnpinnedType DEF Inv
  <2> QED BY <2>1, <2>2, BeginInv
<1> QED BY <1>1, <1>2
-----------------------------------------------------------------------------
(* The invariant: a command ends, and the world around it.                   *)

LEMMA PinsType ==
    ASSUME TypeOK, order # <<>>
    PROVE  /\ Pins \in Seq(Pin) /\ Len(Pins) = Len(order) - 1
           /\ \A n \in 0..(Len(Pins) - 1) : SubSeq(Pins, 1, n) \in Seq(Pin)
<1> DEFINE n == Len(order) - 1
<1>1. order \in Seq(Package) /\ n \in Nat /\ \A k \in 1..n : order[k] \in Package
  BY DEF TypeOK
<1>2. ASSUME NEW f \in Package
      PROVE  [name |-> f.manifest.name, commit |-> f.commit,
              version |-> f.origin.version, url |-> f.origin.url,
              ref |-> f.origin.ref] \in Pin
  <2>1. /\ f.manifest.name \in PkgNames /\ f.commit \in MaybeCommit
        /\ f.origin \in Origins
        /\ f.origin.url # NoUrl => f.commit \in Commits
    BY DEF Package, Read, Manifest
  <2>2. /\ f.origin.version \in Version \cup {NoVersion}
        /\ f.origin.url \in Urls \cup {NoUrl} /\ f.origin.ref \in Refs
        /\ f.origin.url # NoUrl => f.origin.version \in Version
    <3>1. \A o \in Origins :
            /\ o.version \in Version \cup {NoVersion}
            /\ o.url \in Urls \cup {NoUrl} /\ o.ref \in Refs
            /\ o.url # NoUrl => o.version \in Version
      BY DEF Origins
    <3> QED BY <2>1, <3>1, Zenon
  <2>3. \A name \in PkgNames, commit \in MaybeCommit,
           version \in Version \cup {NoVersion}, url \in Urls \cup {NoUrl},
           ref \in Refs :
            (url # NoUrl => commit \in Commits /\ version \in Version) =>
               [name |-> name, commit |-> commit, version |-> version,
                url |-> url, ref |-> ref] \in Pin
    BY DEF Pin
  <2> QED BY <2>1, <2>2, <2>3, Zenon
<1>3. /\ DOMAIN Pins = 1..n /\ \A k \in 1..n : Pins[k] \in Pin
      /\ Pins = [k \in 1..n |-> Pins[k]]
  BY <1>1, <1>2 DEF Pins
<1>4. Pins \in Seq(Pin) /\ Len(Pins) = n
  <2> HIDE DEF n
  <2> QED BY <1>1, <1>3
<1>5. \A m \in 0..(Len(Pins) - 1) : SubSeq(Pins, 1, m) \in Seq(Pin)
  <2> HIDE DEF n
  <2>1. \A m \in 0..(Len(Pins) - 1) : m \in Nat /\ m <= Len(Pins)
    BY <1>1, <1>4
  <2> QED BY <1>4, <2>1
<1> QED BY <1>4, <1>5

LEMMA EndInv ==
    ASSUME Inv, Listed \/ CompileFails \/ WriteLock \/ Crash
    PROVE  Inv'
<1>1. /\ UNCHANGED <<outside, cache>> /\ Return /\ TypeOK
      /\ cache' \in [CacheDirs -> ClonedDirs(project) \cup {NoClone}]
  BY DEF Listed, CompileFails, WriteLock, Crash, Fail, Inv, TypeOK
<1>2. lockfile' \in Seq(Pin)
  <2>1. CASE UNCHANGED lockfile
    BY <1>1, <2>1 DEF TypeOK
  <2>2. CASE ~UNCHANGED lockfile
    <3>1. /\ phase = "write"
          /\ \/ lockfile' = Pins
             \/ \E n \in 0..(Len(Pins) - 1) : lockfile' = SubSeq(Pins, 1, n)
      BY <2>2 DEF Listed, CompileFails, WriteLock, Crash, Fail
    <3>2. order # <<>>
      BY <3>1 DEF Inv, Phases
    <3> QED BY <1>1, <3>1, <3>2, PinsType
  <2> QED BY <2>1, <2>2
<1> QED BY <1>1, <1>2, ReturnInv

\* Steps that leave the resolution alone.
LEMMA AsideInv ==
    ASSUME Inv, TypeOK',
           UNCHANGED <<project, lockfile, targets, stack, order, picks, offered>>,
           \/ UNCHANGED <<phase, rootManifest>>
           \/ phase = "idle" /\ phase' = "idle"
           \/ phase = "compile" /\ phase' = "write" /\ UNCHANGED rootManifest
    PROVE  Inv'
<1> USE DEF Inv
<1>1. Phases'
  BY DEF Phases
<1>2. Unlocked'
  <2>1. CASE UNCHANGED rootManifest
    BY <2>1 DEF Unlocked, RegistryNames
  <2>2. CASE phase = "idle"
    <3>1. targets' = {}
      BY <2>2 DEF Phases
    <3> QED BY <3>1 DEF Unlocked
  <2> QED BY <2>1, <2>2
<1>3. OrderDirs' = OrderDirs
  BY DEF OrderDirs
<1>4. EntriesSettled'
  BY <1>3 DEF EntriesSettled
<1>5. /\ \A c : (Loaded(c)' <=> Loaded(c)) /\ (OnStack(c)' <=> OnStack(c))
      /\ ManifestsRead' = ManifestsRead
  BY DEF Loaded, OnStack, ManifestsRead
<1>6. picks' = picks
  OBVIOUS
<1>7. PicksJustified'
  <2>1. UNCHANGED <<lockfile, project, offered>>
    OBVIOUS
  <2> QED BY <1>5, <1>6, <2>1, WellPickedStays, Zenon DEF PicksJustified
<1> QED BY <1>1, <1>2, <1>4, <1>7

LEMMA WorldInv ==
    ASSUME Inv,
           \/ Compile
           \/ \E m \in RootManifests[project] : EditManifest(m)
           \/ \E n \in PkgNames : Publish(n)
           \/ \E u \in Urls, b \in Names, x \in Commits : Push(u, b, x)
           \/ UNCHANGED vars
    PROVE  Inv'
<1> USE DEF Inv
<1>0. project \in Projects
  BY DEF TypeOK
<1>1. ASSUME project' = project
      PROVE  /\ ClonedDirs(project)' = ClonedDirs(project)
             /\ \A u \in Urls : RemotesOf(CommitsOf(project, u))' =
                                   RemotesOf(CommitsOf(project, u))
  BY <1>1 DEF ClonedDirs, CommitsOf
<1>2. CASE Compile
  <2>1. TypeOK'
    BY <1>1, <1>2 DEF Compile, TypeOK, outside
  <2> QED BY <1>2, <2>1, AsideInv DEF Compile, outside
<1>3. ASSUME NEW m \in RootManifests[project], EditManifest(m)
      PROVE  Inv'
  <2>1. m \in Read
    BY <1>0, Readable
  <2>2. TypeOK'
    BY <1>1, <1>3, <2>1 DEF EditManifest, TypeOK
  <2> QED BY <1>3, <2>2, AsideInv DEF EditManifest
<1>4. ASSUME NEW n \in PkgNames, Publish(n)
      PROVE  Inv'
  <2> DEFINE new == published[n] + 1
  <2>1. /\ published[n] \in Nat /\ Len(Releases[project][n]) \in Nat
        /\ published[n] < Len(Releases[project][n])
        /\ Published0[project][n] \in Nat
        /\ Published0[project][n] <= published[n]
        /\ offered[n] \in Nat /\ offered[n] <= published[n]
    <3>1. Releases[project][n] \in Seq(Release) /\ Published0[project][n] \in Nat
      BY <1>0, Constants
    <3> QED BY <1>4, <3>1 DEF Publish, TypeOK
  <2>2. /\ new \in Nat /\ new <= Len(Releases[project][n])
        /\ Published0[project][n] <= new /\ offered[n] <= new
    BY <2>1
  <2>3. published' = [published EXCEPT ![n] = new]
    BY <1>4 DEF Publish
  <2> HIDE DEF new
  <2>4. /\ published' \in [PkgNames -> Nat]
        /\ \A k \in PkgNames : /\ Published0[project][k] <= published'[k]
                               /\ published'[k] <= Len(Releases[project][k])
                               /\ offered[k] <= published'[k]
    <3>1. published \in [PkgNames -> Nat]
      BY DEF TypeOK
    <3>2. /\ published' \in [PkgNames -> Nat]
          /\ \A k \in PkgNames : published'[k] = IF k = n THEN new
                                                          ELSE published[k]
      BY <2>2, <2>3, <3>1
    <3> QED BY <2>2, <3>2 DEF TypeOK
  <2>5. TypeOK'
    BY <1>1, <1>4, <2>4 DEF Publish, TypeOK
  <2> QED BY <1>4, <2>5, AsideInv DEF Publish
<1>5. ASSUME NEW u \in Urls, NEW b \in Names, NEW x \in Commits, Push(u, b, x)
      PROVE  Inv'
  <2> DEFINE r == remote[u]
             new == [r EXCEPT !.heads[b] = x]
             S == CommitsOf(project, u)
  <2>1. /\ remote \in [Urls -> Remotes] /\ r \in RemotesOf(S) /\ x \in S
        /\ remote' = [remote EXCEPT ![u].heads[b] = x]
    BY <1>5 DEF Push, TypeOK, CommitsOf
  <2>2. /\ r \in Remotes /\ r.heads[DefaultBranch] # NoCommit
        /\ \A n \in Names : /\ r.heads[n] \in S \cup {NoCommit}
                            /\ r.tags[n] \in S \cup {NoCommit}
    BY <2>1 DEF RemotesOf
  <2>3. S \subseteq Commits
    BY DEF CommitsOf
  <2>4. new = [heads |-> [r.heads EXCEPT ![b] = x], tags |-> r.tags]
    BY <2>2 DEF Remotes
  <2> HIDE DEF S, r, new
  <2>5. [r.heads EXCEPT ![b] = x] \in [Names -> MaybeCommit]
    BY <2>2 DEF Remotes, MaybeCommit
  <2>6. new \in RemotesOf(S)
    <3>1. new \in Remotes
      BY <2>2, <2>4, <2>5 DEF Remotes
    <3>2. \A n \in Names : /\ new.heads[n] = IF n = b THEN x ELSE r.heads[n]
                           /\ new.tags[n] = r.tags[n]
      BY <2>2, <2>4 DEF Remotes
    <3> QED BY <2>1, <2>2, <3>1, <3>2 DEF RemotesOf
  <2>7. remote' = [remote EXCEPT ![u] = new]
    BY <2>1 DEF new, r
  <2>8. /\ remote' \in [Urls -> Remotes]
        /\ \A v \in Urls : remote'[v] \in RemotesOf(CommitsOf(project, v))
    <3>1. new \in Remotes
      BY <2>6 DEF RemotesOf
    <3>2. \A v \in Urls : remote'[v] = IF v = u THEN new ELSE remote[v]
      BY <2>1, <2>7
    <3>3. remote' \in [Urls -> Remotes]
      BY <2>1, <2>7, <3>1
    <3>4. \A v \in Urls : remote[v] \in RemotesOf(CommitsOf(project, v))
      BY DEF TypeOK
    <3> QED BY <2>6, <3>2, <3>3, <3>4 DEF S
  <2>9. TypeOK'
    BY <1>1, <1>5, <2>8 DEF Push, TypeOK
  <2> QED BY <1>5, <2>9, AsideInv DEF Push
<1>6. CASE UNCHANGED vars
  <2>1. TypeOK'
    BY <1>1, <1>6 DEF vars, TypeOK
  <2> QED BY <1>6, <2>1, AsideInv DEF vars
<1> QED BY <1>2, <1>3, <1>4, <1>5, <1>6

LEMMA InvInit == Init => Inv
<1> SUFFICES ASSUME Init PROVE Inv
  OBVIOUS
<1>1. project \in Projects
  BY DEF Init
<1>2. \A u \in Urls : Remotes0[u] \in RemotesOf(CommitsOf(project, u))
  <2> TAKE u \in Urls
  <2>1. /\ Remotes0 \in [Urls -> Remotes]
        /\ Remotes0[u].heads[DefaultBranch] # NoCommit
        /\ \A n \in Names :
              \A x \in {Remotes0[u].heads[n], Remotes0[u].tags[n]} :
                 x # NoCommit => <<u, x>> \in DOMAIN GitManifest[project]
    BY <1>1, EbpmAssumption, Zenon
  <2>2. /\ Remotes0[u] \in Remotes
        /\ \A n \in Names : /\ Remotes0[u].heads[n] \in MaybeCommit
                            /\ Remotes0[u].tags[n] \in MaybeCommit
    BY <2>1 DEF Remotes
  <2> QED BY <2>1, <2>2 DEF RemotesOf, CommitsOf, MaybeCommit
<1>3. Remotes0 \in [Urls -> Remotes]
  BY EbpmAssumption, Zenon
<1>4. /\ rootManifest \in Read
      /\ published \in [PkgNames -> Nat] /\ offered = published
      /\ published = Published0[project]
      /\ \A n \in PkgNames : /\ published[n] \in Nat
                             /\ published[n] <= Len(Releases[project][n])
  BY <1>1, Constants, Readable DEF Init
<1>5. cache \in [CacheDirs -> ClonedDirs(project) \cup {NoClone}]
  BY DEF Init
<1>6. stack = <<>> /\ order = <<>> /\ lockfile = <<>> /\ DOMAIN stack = {}
        /\ Len(stack) = 0
  BY DEF Init
<1>7. TypeOK
  BY <1>1, <1>2, <1>3, <1>4, <1>5, <1>6 DEF Init, TypeOK
<1>8. Phases /\ Unlocked
  BY <1>6 DEF Init, Phases, Unlocked
<1>9. EntriesSettled
  <2>1. 1..(Len(stack) - 1) = {}
    BY <1>6
  <2> QED BY <1>6, <2>1 DEF EntriesSettled
<1>10. PicksJustified
  BY DEF Init, PicksJustified
<1> QED BY <1>7, <1>8, <1>9, <1>10 DEF Inv

LEMMA InvNext == Inv /\ [Next]_vars => Inv'
<1> SUFFICES ASSUME Inv, [Next]_vars PROVE Inv'
  OBVIOUS
<1> QED BY EntryInv, FetchFailsInv, FinishInv, FinishRootInv, CommandInv,
           EndInv, WorldInv DEF Next, Run

\* What resolving keeps, whatever is pinned, published, pushed and edited.
THEOREM Invariance == Spec => []Inv
BY InvInit, InvNext, PTL DEF Spec
-----------------------------------------------------------------------------
(* What the invariant gives.                                                 *)

\* The entries of the packages in `order`.
LEMMA EntriesAre ==
    ASSUME NEW e
    PROVE  e \in Entries <=>
               \E k \in DOMAIN order : \E i \in DOMAIN order[k].manifest.deps :
                  e = order[k].manifest.deps[i]
<1> DEFINE entries(m) == {m.deps[i] : i \in DOMAIN m.deps}
           read == {order[k].manifest : k \in DOMAIN order}
<1>1. e \in Entries <=> \E m \in read : e \in entries(m)
  <2>1. Entries = UNION {entries(m) : m \in read}
    BY Zenon DEF Entries
  <2> HIDE DEF entries, read
  <2> QED BY <2>1
<1>2. \A m : e \in entries(m) <=> \E i \in DOMAIN m.deps : e = m.deps[i]
  BY Zenon
<1>3. \A m : m \in read <=> \E k \in DOMAIN order : m = order[k].manifest
  BY Zenon
<1> HIDE DEF entries, read
<1>4. ASSUME e \in Entries
      PROVE  \E k \in DOMAIN order : \E i \in DOMAIN order[k].manifest.deps :
                e = order[k].manifest.deps[i]
  <2>1. PICK m \in read : e \in entries(m)
    BY <1>1, <1>4, Zenon
  <2>2. PICK k \in DOMAIN order : m = order[k].manifest
    BY <1>3, <2>1, Zenon
  <2>3. PICK i \in DOMAIN m.deps : e = m.deps[i]
    BY <1>2, <2>1, Zenon
  <2> QED BY <2>2, <2>3
<1>5. ASSUME NEW k \in DOMAIN order, NEW i \in DOMAIN order[k].manifest.deps,
             e = order[k].manifest.deps[i]
      PROVE  e \in Entries
  <2>1. order[k].manifest \in read
    BY <1>3, Zenon
  <2>2. e \in entries(order[k].manifest)
    BY <1>2, <1>5, Zenon
  <2> QED BY <1>1, <2>1, <2>2, Zenon
<1> QED BY <1>4, <1>5, Zenon

LEMMA EntryOf ==
    ASSUME NEW e
    PROVE  e \in RegistryEntries <=>
               /\ e.kind = "registry"
               /\ \E k \in DOMAIN order : \E i \in DOMAIN order[k].manifest.deps :
                     e = order[k].manifest.deps[i]
BY EntriesAre, Zenon DEF RegistryEntries

LEMMA OrderSettled ==
    ASSUME Inv, phase \in {"compile", "write"}
    PROVE  OneVersionForAll
<1> SUFFICES ASSUME NEW e \in RegistryEntries
             PROVE  /\ picks[e.name] # NoPick
                    /\ Matches(e.req, picks[e.name].version)
                    /\ Loaded(picks[e.name].dir)
  BY DEF OneVersionForAll
<1>1. PICK k \in DOMAIN order : \E i \in DOMAIN order[k].manifest.deps :
          e = order[k].manifest.deps[i]
  BY EntryOf, Zenon
<1>2. e.kind = "registry"
  BY Zenon DEF RegistryEntries
<1>3. Settled(picks, OrderDirs, e)
  BY <1>1 DEF Inv, EntriesSettled
<1> QED BY <1>2, <1>3, Zenon DEF Settled, Served, OrderDirs, Loaded

\* One version of a package for the whole graph, and it satisfies every
\* requirement of every manifest in it.
THEOREM OneVersionForAllSafe == Spec => []OneVersionForAll
<1>1. Inv => OneVersionForAll
  <2>1. CASE phase \in {"compile", "write"}
    BY <2>1, OrderSettled
  <2>2. CASE phase \notin {"compile", "write"}
    BY <2>2 DEF OneVersionForAll
  <2> QED BY <2>1, <2>2
<1> QED BY <1>1, Invariance, PTL

\* A build that could keep every pin of a package keeps its version and its
\* commit, whatever has been published and pushed since.
THEOREM NoSilentUpgradeSafe == Spec => []NoSilentUpgrade
<1>1. ASSUME Inv
      PROVE  NoSilentUpgrade
  <2> SUFFICES ASSUME phase = "write", NEW d \in RegistryEntries,
                      PinOf(d.name).url # NoUrl,
                      \A e \in RegistryEntries : e.name = d.name =>
                          Matches(e.req, PinOf(d.name).version)
               PROVE  /\ picks[d.name].version = PinOf(d.name).version
                      /\ picks[d.name].commit = PinOf(d.name).commit
    BY Zenon DEF NoSilentUpgrade
  <2> USE <1>1 DEF Inv
  <2> DEFINE n == d.name
  <2>1. picks[n] # NoPick
    BY OrderSettled DEF OneVersionForAll
  <2>2. n \in PkgNames
    <3>1. PICK k \in DOMAIN order : \E i \in DOMAIN order[k].manifest.deps :
              d = order[k].manifest.deps[i]
      BY EntryOf, Zenon
    <3>2. order[k] \in Package
      BY DEF TypeOK
    <3>3. order[k].manifest \in Read
      BY <3>2 DEF Package
    <3>4. DOMAIN order[k].manifest.deps = 1..Len(order[k].manifest.deps)
      BY <3>3 DEF Read, Manifest
    <3> QED BY <3>1, <3>3, <3>4, EntryType
  <2>3. /\ WellPicked(n, picks[n].req, picks[n].version, picks[n].commit)
        /\ \E m \in ManifestsRead : AsksFor(m, n, picks[n].req)
    BY <2>1, <2>2 DEF PicksJustified
  <2>4. Matches(picks[n].req, PinOf(n).version)
    <3>1. DOMAIN stack = {}
      <4>1. stack = <<>>
        BY DEF Phases
      <4> QED BY <4>1
    <3>2. PICK k \in DOMAIN order :
              AsksFor(order[k].manifest, n, picks[n].req)
      BY <2>3, <3>1 DEF ManifestsRead
    <3>3. PICK i \in DOMAIN order[k].manifest.deps :
              /\ order[k].manifest.deps[i].kind = "registry"
              /\ order[k].manifest.deps[i].name = n
              /\ order[k].manifest.deps[i].req = picks[n].req
      BY <3>2 DEF AsksFor
    <3>4. order[k].manifest.deps[i] \in RegistryEntries
      BY <3>3, EntryOf, Zenon
    <3> QED BY <3>3, <3>4
  <2>5. PinOf(n).version # NoVersion
    <3>1. project \in Projects
      BY DEF TypeOK
    <3> QED BY <2>2, <3>1, PinOfType, Constants
  <2>6. PinUsable(n, picks[n].req)
    BY <2>4, <2>5, Zenon DEF PinUsable
  <2> QED BY <2>3, <2>6, Zenon DEF WellPicked
<1> QED BY <1>1, Invariance, PTL

\* `ebpm update` leaves no dependency it was for below the best release the
\* index had when it began.
THEOREM UpdateTakesTheNewestSafe == Spec => []UpdateTakesTheNewest
<1>1. ASSUME Inv
      PROVE  UpdateTakesTheNewest
  <2> SUFFICES ASSUME phase = "write", NEW n \in targets,
                      NEW k \in 1..offered[n],
                      Matches(picks[n].req, Releases[project][n][k].version)
               PROVE  ~Less(picks[n].version, Releases[project][n][k].version)
    BY Zenon DEF UpdateTakesTheNewest
  <2> USE <1>1 DEF Inv
  <2>1. /\ n \in PkgNames /\ n \in RegistryNames
        /\ \A i \in DOMAIN lockfile : lockfile[i].name # n
    BY DEF TypeOK, Unlocked
  <2>2. picks[n] # NoPick
    <3>1. PICK i \in DOMAIN rootManifest.deps :
              /\ rootManifest.deps[i].kind = "registry"
              /\ rootManifest.deps[i].name = n
      BY <2>1, Zenon DEF RegistryNames
    <3>2. /\ order # <<>> /\ order \in Seq(Package)
          /\ order[Len(order)].manifest = rootManifest
      BY DEF Phases, TypeOK
    <3>3. Len(order) \in DOMAIN order
      BY <3>2
    <3>4. rootManifest.deps[i] \in RegistryEntries
      BY <3>1, <3>2, <3>3, EntryOf, Zenon
    <3> QED BY <3>1, <3>4, OrderSettled DEF OneVersionForAll
  <2>3. WellPicked(n, picks[n].req, picks[n].version, picks[n].commit)
    BY <2>1, <2>2 DEF PicksJustified
  <2>4. PinOf(n) = NoPin
    BY <2>1, PinOfType
  <2>5. ~PinUsable(n, picks[n].req)
    <3>1. NoPin.url = NoUrl
      BY DEF NoPin
    <3>2. PinOf(n).url = NoUrl
      BY <2>4, <3>1, Zenon
    <3> QED BY <3>2, Zenon DEF PinUsable
  <2> QED BY <2>3, <2>5, Zenon DEF WellPicked
<1> QED BY <1>1, Invariance, PTL
-----------------------------------------------------------------------------
(* Every step of a command is a step of the traversal, or none.              *)

LEMMA GraphFrameIs ==
    ASSUME NEW f \in Frame
    PROVE  /\ GraphFrame(f).dir = f.dir /\ GraphFrame(f).lib = f.manifest.lib
           /\ GraphFrame(f).deps = f.deps
           /\ GraphFrame(f).left = Len(f.manifest.deps) + 1 - f.next
           /\ GraphFrame(f).left \in Nat
           /\ Len(f.manifest.deps) \in 0..MaxDeps /\ f.manifest.lib \in BOOLEAN
<1>1. /\ f.manifest \in Manifest /\ Len(f.manifest.deps) <= MaxDeps
      /\ f.next \in Nat \ {0} /\ f.next <= Len(f.manifest.deps) + 1
  BY DEF Frame, Read
<1>2. Len(f.manifest.deps) \in Nat /\ f.manifest.lib \in BOOLEAN
  BY <1>1 DEF Manifest
<1>3. MaxDeps \in Nat
  BY EbpmAssumption, Zenon
<1> DEFINE n == Len(f.manifest.deps)
<1>4. n \in 0..MaxDeps /\ n + 1 - f.next \in Nat
  <2> HIDE DEF n
  <2> QED BY <1>1, <1>2, <1>3 DEF n
<1> QED BY <1>2, <1>4 DEF GraphFrame

LEMMA GraphState ==
    ASSUME TypeOK
    PROVE  /\ DOMAIN GraphStack = 1..Len(stack) /\ Len(GraphStack) = Len(stack)
           /\ Len(stack) \in Nat
           /\ \A k \in 1..Len(stack) : /\ stack[k] \in Frame
                                       /\ GraphStack[k] = GraphFrame(stack[k])
           /\ DOMAIN GraphOrder = 1..Len(order) /\ Len(GraphOrder) = Len(order)
           /\ Len(order) \in Nat
           /\ \A k \in 1..Len(order) : GraphOrder[k] = GraphPackage(order[k])
<1>1. stack \in Seq(Frame) /\ order \in Seq(Package)
  BY DEF TypeOK
<1>2. /\ Len(stack) \in Nat /\ DOMAIN stack = 1..Len(stack)
      /\ \A k \in 1..Len(stack) : stack[k] \in Frame
      /\ Len(order) \in Nat /\ DOMAIN order = 1..Len(order)
  BY <1>1
<1>3. GraphStack \in Seq({GraphFrame(f) : f \in Frame})
  BY <1>2 DEF GraphStack
<1>4. GraphOrder \in Seq({GraphPackage(order[k]) : k \in DOMAIN order})
  BY <1>2 DEF GraphOrder
<1>5. DOMAIN GraphStack = 1..Len(stack) /\ DOMAIN GraphOrder = 1..Len(order)
  BY <1>2 DEF GraphStack, GraphOrder
<1>6. Len(GraphStack) = Len(stack) /\ Len(GraphOrder) = Len(order)
  BY <1>2, <1>3, <1>4, <1>5
<1> QED BY <1>2, <1>5, <1>6 DEF GraphStack, GraphOrder

\* The two look at the same directories.
LEMMA GraphSees ==
    ASSUME NEW d
    PROVE  /\ Graph!Loaded(d) <=> Loaded(d)
           /\ Graph!Lib(d) <=> Lib(d)
           /\ Graph!OnStack(d) <=> OnStack(d)
<1>1. /\ DOMAIN GraphOrder = DOMAIN order /\ DOMAIN GraphStack = DOMAIN stack
      /\ \A k \in DOMAIN order : /\ GraphOrder[k].dir = order[k].dir
                                 /\ GraphOrder[k].lib = order[k].manifest.lib
      /\ \A k \in DOMAIN stack : GraphStack[k].dir = stack[k].dir
  BY DEF GraphOrder, GraphStack, GraphPackage, GraphFrame
<1> QED BY <1>1, Zenon DEF Graph!Loaded, Loaded, Graph!Lib, Lib,
                           Graph!OnStack, OnStack

LEMMA GraphTop ==
    ASSUME TypeOK, Phases, phase = "visit"
    PROVE  /\ GraphPhase = "visit" /\ Graph!Top = GraphFrame(Top)
           /\ Top \in Frame /\ Len(stack) \in Nat \ {0}
           /\ Graph!AtEntry <=> AtEntry
           /\ Graph!Top.left = 0 <=> Top.next > Len(Top.manifest.deps)
<1>1. /\ Len(stack) \in Nat \ {0} /\ Top \in Frame
      /\ Top = stack[Len(stack)]
  BY TopType DEF Top
<1>2. Len(stack) \in 1..Len(stack)
  BY <1>1
<1>3. Graph!Top = GraphFrame(Top)
  BY <1>1, <1>2, GraphState DEF Graph!Top
<1>4. GraphPhase = "visit"
  BY DEF GraphPhase
<1> DEFINE n == Len(Top.manifest.deps)
<1>5. /\ GraphFrame(Top).left = n + 1 - Top.next /\ n \in Nat
      /\ Top.next \in Nat \ {0} /\ Top.next <= n + 1
  <2>1. n \in 0..MaxDeps /\ MaxDeps \in Nat
    BY <1>1, GraphFrameIs, EbpmAssumption, Zenon
  <2>2. GraphFrame(Top).left = n + 1 - Top.next
    BY <1>1, GraphFrameIs
  <2>3. Top.next \in Nat \ {0} /\ Top.next <= n + 1
    BY <1>1 DEF Frame
  <2> HIDE DEF n
  <2> QED BY <2>1, <2>2, <2>3
<1>6. /\ Graph!Top.left > 0 <=> Top.next <= n
      /\ Graph!Top.left = 0 <=> Top.next > n
  <2> HIDE DEF n
  <2> QED BY <1>3, <1>5
<1> QED BY <1>1, <1>3, <1>4, <1>6 DEF Graph!AtEntry, AtEntry

\* Giving up ends the traversal, and what leaves the resolution alone is none
\* of its business.
LEMMA GraphEnds ==
    ASSUME Return, phase # "idle", TypeOK
    PROVE  Graph!Nowhere \/ Graph!Return
<1>1. phase' = "idle" /\ stack' = <<>> /\ order' = <<>>
  BY DEF Return
<1>2. GraphPhase' = "idle" /\ GraphStack' = <<>> /\ GraphOrder' = <<>>
  BY <1>1 DEF GraphPhase, GraphStack, GraphOrder
<1>3. Graph!Fail
  BY <1>2 DEF Graph!Fail
<1>4. GraphPhase \in {"visit", "done"}
  BY DEF GraphPhase, TypeOK
<1> QED BY <1>3, <1>4 DEF Graph!Nowhere, Graph!Return

LEMMA GraphStays ==
    ASSUME UNCHANGED <<stack, order>>, phase' = phase \/ {phase, phase'} =
               {"compile", "write"}
    PROVE  UNCHANGED Graph!vars
<1>1. GraphPhase' = GraphPhase
  BY DEF GraphPhase
<1> QED BY <1>1 DEF Graph!vars, GraphStack, GraphOrder

\* The current package's entry led to a package in `order`.
LEMMA GraphAdvance ==
    ASSUME NEW f \in Frame, f.next <= Len(f.manifest.deps), NEW d \in Dirs
    PROVE  GraphFrame(Advance(f, d)) = Graph!Advance(GraphFrame(f), d)
<1> DEFINE n == Len(f.manifest.deps)
           all == f.deps \cup {d}
           now == n + 1 - f.next
           g == Advance(f, d)
<1>1. /\ g \in Frame /\ g.dir = f.dir /\ g.manifest = f.manifest
      /\ g.next = f.next + 1
  BY AdvanceType
<1>2. g.deps = all
  BY DEF Advance, Frame
<1>3. n \in Nat /\ f.next \in Nat
  BY DEF Frame, Read, Manifest
<1>4. n + 1 - g.next = now - 1
  <2> HIDE DEF n, g
  <2> QED BY <1>1, <1>3
<1>5. Graph!Advance(GraphFrame(f), d) =
          [dir |-> f.dir, lib |-> f.manifest.lib, left |-> now - 1, deps |-> all]
  BY DEF GraphFrame, Graph!Advance
<1>6. GraphFrame(g) = [dir |-> g.dir, lib |-> g.manifest.lib,
                       left |-> Len(g.manifest.deps) + 1 - g.next,
                       deps |-> g.deps]
  BY DEF GraphFrame
<1>7. Len(g.manifest.deps) = n
  BY <1>1, Zenon
<1> HIDE DEF n, all, now, g
<1>8. GraphFrame(g) = [dir |-> f.dir, lib |-> f.manifest.lib,
                       left |-> now - 1, deps |-> all]
  BY <1>1, <1>2, <1>4, <1>6, <1>7, Zenon
<1> QED BY <1>5, <1>8 DEF g

LEMMA AppendIs ==
    ASSUME NEW T, NEW s \in Seq(T), NEW e
    PROVE  Append(s, e) = [k \in 1..(Len(s) + 1) |->
                              IF k = Len(s) + 1 THEN e ELSE s[k]]
<1> DEFINE t == Append(s, e)
           n == Len(s)
           m == n + 1
<1>1. e \in T \cup {e} /\ s \in Seq(T \cup {e})
  OBVIOUS
<1>2. /\ t \in Seq(T \cup {e}) /\ Len(t) = m /\ t[m] = e
      /\ \A k \in 1..n : t[k] = s[k]
  BY <1>1, AppendProperties
<1>3. t = [k \in 1..m |-> t[k]]
  <2>1. \A q \in Seq(T \cup {e}) : q = [k \in 1..Len(q) |-> q[k]]
    OBVIOUS
  <2> HIDE DEF t, m
  <2> QED BY <1>2, <2>1
<1>4. \A k \in 1..m : k = m \/ k \in 1..n
  BY <1>1
<1>5. \A k \in 1..m : t[k] = IF k = m THEN e ELSE s[k]
  <2> HIDE DEF t, n, m
  <2> QED BY <1>2, <1>4
<1> HIDE DEF t
<1>6. t = [k \in 1..m |-> IF k = m THEN e ELSE s[k]]
  <2> HIDE DEF n, m
  <2> QED BY <1>3, <1>5
<1> QED BY <1>6 DEF t

LEMMA GraphReaches ==
    ASSUME TypeOK, Phases, AtEntry, NEW d, NEW m, NEW commit, NEW origin,
           NEW pk, Leads(d, m, commit, origin, pk),
           Reaches(d, m, commit, origin, pk)
    PROVE  Graph!Visit
<1> DEFINE n == Len(stack)
<1>1. /\ stack' \in Seq(Frame) /\ n \in Nat \ {0}
      /\ \A k \in 1..(n - 1) : stack'[k] = stack[k]
      /\ \/ /\ Loaded(d) /\ Lib(d) /\ Len(stack') = n
            /\ stack'[n] = Advance(Top, d)
         \/ /\ ~Loaded(d) /\ ~OnStack(d) /\ Len(stack') = n + 1
            /\ stack'[n] = Top
            /\ stack'[n + 1] = NewFrame(d, m, commit, origin)
  BY ReachesStack
<1>2. phase = "visit" /\ phase' = phase /\ order' = order /\ d \in Dirs
  BY DEF AtEntry, Reaches, Leads
<1>3. GraphPhase' = GraphPhase /\ GraphOrder' = GraphOrder
  BY <1>2 DEF GraphPhase, GraphOrder
<1>4. /\ Graph!AtEntry /\ Graph!Top = GraphFrame(Top) /\ Top \in Frame
      /\ Top.next <= Len(Top.manifest.deps)
  BY <1>2, GraphTop DEF AtEntry
<1>5. /\ DOMAIN GraphStack = 1..n /\ Len(GraphStack) = n
      /\ \A k \in 1..n : GraphStack[k] = GraphFrame(stack[k])
      /\ GraphStack[n] = GraphFrame(Top)
  BY <1>1, GraphState DEF Top
<1>6. /\ DOMAIN GraphStack' = 1..Len(stack')
      /\ \A k \in 1..Len(stack') : GraphStack'[k] = GraphFrame(stack'[k])
  BY <1>1 DEF GraphStack
<1>7. CASE /\ Loaded(d) /\ Lib(d) /\ Len(stack') = n
           /\ stack'[n] = Advance(Top, d)
  <2>1. GraphFrame(Advance(Top, d)) = Graph!Advance(GraphStack[n], d)
    BY <1>2, <1>4, <1>5, GraphAdvance
  <2> DEFINE top == Graph!Advance(GraphStack[n], d)
  <2>2. \A k \in 1..n : GraphStack'[k] = IF k = n THEN top ELSE GraphStack[k]
    <3> HIDE DEF n, top
    <3> QED BY <1>1, <1>5, <1>6, <1>7, <2>1 DEF top
  <2>3. /\ GraphStack' = [k \in 1..n |-> GraphStack'[k]]
        /\ [GraphStack EXCEPT ![n] = top] =
              [k \in 1..n |-> IF k = n THEN top ELSE GraphStack[k]]
    <3> HIDE DEF n, top
    <3>1. GraphStack' = [k \in 1..n |-> GraphStack'[k]]
      <4>1. GraphStack' = [k \in DOMAIN stack' |-> GraphFrame(stack'[k])]
        BY DEF GraphStack
      <4>2. DOMAIN stack' = 1..n
        BY <1>1, <1>7
      <4> QED BY <4>1, <4>2
    <3> QED BY <1>5, <3>1
  <2>4. GraphStack' = [GraphStack EXCEPT ![n] = top]
    <3> HIDE DEF n, top
    <3> QED BY <2>2, <2>3
  <2>5. Graph!Reach(d)
    BY <1>3, <1>4, <1>5, <1>7, <2>4, GraphSees, Zenon DEF Graph!Reach
  <2> QED BY <1>2, <2>5, Zenon DEF Graph!Visit
<1>8. CASE /\ ~Loaded(d) /\ ~OnStack(d) /\ Len(stack') = n + 1
           /\ stack'[n] = Top
           /\ stack'[n + 1] = NewFrame(d, m, commit, origin)
  <2> DEFINE size == Len(m.deps)
             new == Graph!NewFrame(d, m.lib, size)
  <2>1. m \in Read
    BY DEF Leads
  <2>2. /\ m.lib \in BOOLEAN /\ size \in 0..MaxDeps
    <3>1. size \in Nat /\ size <= MaxDeps /\ m.lib \in BOOLEAN
      BY <2>1 DEF Read, Manifest
    <3>2. MaxDeps \in Nat
      BY EbpmAssumption, Zenon
    <3> QED BY <3>1, <3>2
  <2>3. GraphFrame(NewFrame(d, m, commit, origin)) = new
    <3>1. size + 1 - 1 = size
      BY <2>2
    <3> HIDE DEF size
    <3> QED BY <3>1 DEF size, NewFrame, GraphFrame, Graph!NewFrame
  <2> HIDE DEF size, new
  <2>4. GraphStack' = Append(GraphStack, new)
    <3> DEFINE up == n + 1
    <3>1. /\ DOMAIN GraphStack' = 1..up /\ up \in Nat
          /\ \A k \in 1..n : GraphStack'[k] = GraphStack[k]
          /\ GraphStack'[up] = new
      <4>1. \A k \in 1..n : k \in 1..up /\ stack'[k] = stack[k]
        <5>1. \A k \in 1..n : k \in 1..(n - 1) \/ k = n
          BY <1>1
        <5>2. stack[n] = Top
          BY DEF Top
        <5> QED BY <1>1, <1>8, <5>1, <5>2
      <4>2. up \in 1..up /\ up \in Nat
        BY <1>1
      <4> HIDE DEF n, up
      <4> QED BY <1>5, <1>6, <1>8, <2>3, <4>1, <4>2 DEF up
    <3>2. GraphStack' = [k \in 1..up |-> GraphStack'[k]]
      <4>1. GraphStack' = [k \in DOMAIN stack' |-> GraphFrame(stack'[k])]
        BY DEF GraphStack
      <4>2. DOMAIN stack' = 1..up
        BY <1>1, <1>8
      <4> HIDE DEF up, n
      <4> QED BY <4>1, <4>2
    <3>3. Append(GraphStack, new) =
              [k \in 1..up |-> IF k = up THEN new ELSE GraphStack[k]]
      <4>1. GraphStack = [k \in 1..n |-> GraphFrame(stack[k])]
        <5>1. DOMAIN stack = 1..n
          BY DEF TypeOK
        <5> QED BY <5>1 DEF GraphStack
      <4>2. GraphStack \in Seq({GraphFrame(f) : f \in Frame} \cup {new})
        <5>1. \A k \in 1..n : stack[k] \in Frame
          BY DEF TypeOK
        <5>2. n \in Nat
          BY <1>1
        <5> HIDE DEF n
        <5> QED BY <4>1, <5>1, <5>2
      <4>3. Append(GraphStack, new) =
                [k \in 1..(Len(GraphStack) + 1) |->
                    IF k = Len(GraphStack) + 1 THEN new ELSE GraphStack[k]]
        BY <4>2, AppendIs, Zenon
      <4> QED BY <1>5, <4>3, Zenon
    <3>4. \A k \in 1..up : GraphStack'[k] = IF k = up THEN new ELSE GraphStack[k]
      <4>1. \A k \in 1..up : k \in 1..n \/ k = up
        BY <1>1
      <4> HIDE DEF up
      <4> QED BY <3>1, <4>1
    <3> HIDE DEF up, n
    <3> QED BY <3>2, <3>3, <3>4
  <2>5. Graph!Descend(d, m.lib, size)
    BY <1>3, <1>4, <1>8, <2>4, GraphSees, Zenon DEF Graph!Descend, new
  <2> QED BY <1>2, <2>2, <2>5, Zenon DEF Graph!Visit
<1> QED BY <1>1, <1>7, <1>8

\* A package has been visited.
LEMMA GraphAppends ==
    ASSUME TypeOK, Phases, phase = "visit", order' = Append(order, Resolved)
    PROVE  GraphOrder' = Append(GraphOrder, Graph!Resolved)
<1> DEFINE n == Len(order)
           up == n + 1
<1>1. /\ Top \in Frame /\ Graph!Top = GraphFrame(Top)
  BY GraphTop
<1>2. /\ order \in Seq(Package) /\ n \in Nat
      /\ DOMAIN order = 1..n /\ DOMAIN GraphOrder = 1..n
      /\ Len(GraphOrder) = n
      /\ \A k \in 1..n : GraphOrder[k] = GraphPackage(order[k])
  <2>1. order \in Seq(Package)
    BY DEF TypeOK
  <2> QED BY <2>1, GraphState
<1>3. GraphPackage(Resolved) = Graph!Resolved
  <2>1. GraphPackage(Resolved) = [dir |-> Top.dir, lib |-> Top.manifest.lib,
                                  deps |-> Top.deps]
    BY DEF GraphPackage, Resolved
  <2>2. Graph!Resolved = [dir |-> GraphFrame(Top).dir,
                          lib |-> GraphFrame(Top).lib,
                          deps |-> GraphFrame(Top).deps]
    BY <1>1, Zenon DEF Graph!Resolved
  <2> QED BY <1>1, <2>1, <2>2, GraphFrameIs
<1>4. order' = [k \in 1..up |-> IF k = up THEN Resolved ELSE order[k]]
  BY <1>2, AppendIs
<1>5. /\ DOMAIN order' = 1..up
      /\ \A k \in 1..up : order'[k] = IF k = up THEN Resolved ELSE order[k]
  <2> HIDE DEF up
  <2> QED BY <1>4
<1>6. \A k \in 1..up : k # up => k \in 1..n
  BY <1>2
<1> DEFINE last == Graph!Resolved
<1> HIDE DEF last
<1>7. GraphOrder' = [k \in 1..up |-> GraphPackage(order'[k])]
  <2> HIDE DEF up
  <2> QED BY <1>5 DEF GraphOrder
<1>8. \A k \in 1..up : GraphPackage(order'[k]) =
                          IF k = up THEN last ELSE GraphOrder[k]
  <2> HIDE DEF n, up
  <2> QED BY <1>2, <1>3, <1>5, <1>6 DEF last
<1>9. GraphOrder \in Seq({GraphPackage(order[k]) : k \in 1..n})
  <2>1. GraphOrder = [k \in 1..n |-> GraphPackage(order[k])]
    BY <1>2, Zenon DEF GraphOrder
  <2> HIDE DEF n
  <2> QED BY <1>2, <2>1
<1>10. Append(GraphOrder, last) =
           [k \in 1..(Len(GraphOrder) + 1) |->
               IF k = Len(GraphOrder) + 1 THEN last ELSE GraphOrder[k]]
  BY <1>9, AppendIs, Zenon
<1>11. Append(GraphOrder, last) =
           [k \in 1..up |-> IF k = up THEN last ELSE GraphOrder[k]]
  BY <1>2, <1>10, Zenon
<1> HIDE DEF up
<1> QED BY <1>7, <1>8, <1>11 DEF last

LEMMA GraphFinish ==
    ASSUME Inv, Finish
    PROVE  Graph!Visit
<1> USE DEF Inv
<1> DEFINE n == Len(stack)
           up == n - 1
<1>1. /\ phase = "visit" /\ Top.next > Len(Top.manifest.deps) /\ n > 1
  BY DEF Finish
<1>2. /\ GraphPhase = "visit" /\ Graph!Top = GraphFrame(Top)
      /\ Top \in Frame /\ n \in Nat \ {0} /\ Graph!Top.left = 0
      /\ Top.manifest.lib \in BOOLEAN /\ Graph!Top.lib = Top.manifest.lib
      /\ Graph!Top.dir = Top.dir /\ Top.dir \in Dirs
  BY <1>1, GraphTop, GraphFrameIs DEF Frame
<1>3. CASE ~Top.manifest.lib
  <2>1. Return
    BY <1>3, Zenon DEF Finish, Fail
  <2>2. Graph!Nowhere \/ Graph!Return
    BY <1>1, <2>1, GraphEnds
  <2> QED BY <1>2, <2>2, Zenon DEF Graph!Visit, Graph!Nowhere, Graph!Return
<1>4. CASE Top.manifest.lib
  <2>1. /\ order' = Append(order, Resolved)
        /\ stack' = [SubSeq(stack, 1, up) EXCEPT ![up] = Advance(@, Top.dir)]
        /\ phase' = phase
    BY <1>4 DEF Finish
  <2>2. GraphOrder' = Append(GraphOrder, Graph!Resolved)
    BY <1>1, <2>1, GraphAppends
  <2>3. GraphPhase' = GraphPhase
    BY <2>1 DEF GraphPhase
  <2>4. /\ stack \in Seq(Frame) /\ DOMAIN stack = 1..n
        /\ DOMAIN GraphStack = 1..n /\ Len(GraphStack) = n
        /\ \A k \in 1..n : GraphStack[k] = GraphFrame(stack[k])
    <3>1. stack \in Seq(Frame)
      BY DEF TypeOK
    <3> QED BY <3>1, GraphState
  <2>5. /\ up \in 1..n /\ up \in Nat /\ up \in 1..up /\ up <= n /\ up < n
        /\ \A k \in 1..up : k \in 1..n
    BY <1>1, <1>2
  <2>6. /\ stack[up] \in Frame /\ stack[up].next <= Len(stack[up].manifest.deps)
        /\ GraphStack[up] = GraphFrame(stack[up])
    BY <2>4, <2>5 DEF EntriesSettled
  <2>7. GraphFrame(Advance(stack[up], Top.dir))
            = Graph!Advance(GraphStack[up], Top.dir)
    BY <1>2, <2>6, GraphAdvance
  <2>8. SubSeq(stack, 1, up) = [k \in 1..up |-> stack[k]]
    <3> HIDE DEF up
    <3> QED BY <2>4, <2>5
  <2>9. SubSeq(GraphStack, 1, up) = [k \in 1..up |-> GraphStack[k]]
    <3>1. GraphStack \in Seq({GraphFrame(f) : f \in Frame})
      <4>1. GraphStack = [k \in 1..n |-> GraphFrame(stack[k])]
        BY <2>4, Zenon DEF GraphStack
      <4>2. \A k \in 1..n : stack[k] \in Frame
        BY <2>4
      <4> HIDE DEF n
      <4> QED BY <1>2, <4>1, <4>2
    <3> HIDE DEF up
    <3> QED BY <2>4, <2>5, <3>1
  <2> DEFINE below == Advance(stack[up], Top.dir)
             gbelow == Graph!Advance(GraphStack[up], Top.dir)
  <2>10. stack' = [k \in 1..up |-> IF k = up THEN below ELSE stack[k]]
    <3> HIDE DEF up
    <3> QED BY <2>1, <2>5, <2>8
  <2>11. [SubSeq(GraphStack, 1, up) EXCEPT ![up] = Graph!Advance(@, Top.dir)]
             = [k \in 1..up |-> IF k = up THEN gbelow ELSE GraphStack[k]]
    <3> HIDE DEF up
    <3> QED BY <2>5, <2>9
  <2>12. GraphStack' = [k \in 1..up |-> GraphFrame(stack'[k])]
    <3>1. DOMAIN stack' = 1..up
      <4> HIDE DEF up, below
      <4> QED BY <2>10
    <3> HIDE DEF up
    <3> QED BY <3>1 DEF GraphStack
  <2>13. \A k \in 1..up : GraphFrame(stack'[k]) =
                             IF k = up THEN gbelow ELSE GraphStack[k]
    <3> HIDE DEF n, up, below, gbelow
    <3> QED BY <2>4, <2>5, <2>7, <2>10 DEF below, gbelow
  <2>14. GraphStack' = [SubSeq(GraphStack, 1, up) EXCEPT
                            ![up] = Graph!Advance(@, Graph!Top.dir)]
    <3>1. GraphStack' = [k \in 1..up |-> IF k = up THEN gbelow ELSE GraphStack[k]]
      <4> HIDE DEF up, gbelow
      <4> QED BY <2>12, <2>13
    <3> QED BY <1>2, <2>11, <3>1, Zenon
  <2>15. Graph!Finish
    BY <1>1, <1>2, <1>4, <2>2, <2>3, <2>4, <2>14, Zenon DEF Graph!Finish
  <2> QED BY <2>15, Zenon DEF Graph!Visit
<1> QED BY <1>3, <1>4

LEMMA GraphFinishRoot ==
    ASSUME Inv, FinishRoot
    PROVE  Graph!Visit
<1> USE DEF Inv
<1>1. /\ phase = "visit" /\ Top.next > Len(Top.manifest.deps) /\ Len(stack) = 1
      /\ order' = Append(order, Resolved) /\ stack' = <<>>
      /\ phase' = "compile"
  BY DEF FinishRoot
<1>2. GraphPhase = "visit" /\ Graph!Top.left = 0 /\ Len(GraphStack) = 1
  BY <1>1, GraphTop, GraphState
<1>3. GraphPhase' = "done" /\ GraphStack' = <<>>
  BY <1>1 DEF GraphPhase, GraphStack
<1>4. GraphOrder' = Append(GraphOrder, Graph!Resolved)
  BY <1>1, GraphAppends
<1>5. Graph!FinishRoot
  BY <1>2, <1>3, <1>4 DEF Graph!FinishRoot
<1> QED BY <1>5 DEF Graph!Visit

LEMMA GraphBegins ==
    ASSUME Inv, phase = "idle", NEW c, Resolve(c)
    PROVE  Graph!Next
<1> DEFINE f == NewFrame(RootDir, rootManifest, NoCommit, PathOrigin)
           size == Len(rootManifest.deps)
<1>1. phase' = "visit" /\ stack' = <<f>> /\ order' = <<>>
  BY DEF Resolve
<1>2. GraphPhase = "idle" /\ GraphPhase' = "visit" /\ GraphOrder' = <<>>
  BY <1>1 DEF GraphPhase, GraphOrder
<1>3. rootManifest.lib \in BOOLEAN /\ size \in 0..MaxDeps
  <2>1. size \in Nat /\ size <= MaxDeps /\ rootManifest.lib \in BOOLEAN
    BY DEF Inv, TypeOK, Read, Manifest
  <2>2. MaxDeps \in Nat
    BY EbpmAssumption, Zenon
  <2> QED BY <2>1, <2>2
<1>4. GraphFrame(f) = Graph!NewFrame(RootDir, rootManifest.lib, size)
  <2>1. size + 1 - 1 = size
    BY <1>3
  <2> HIDE DEF size
  <2> QED BY <2>1 DEF size, NewFrame, GraphFrame, Graph!NewFrame
<1> HIDE DEF f, size
<1>5. GraphStack' = <<GraphFrame(f)>>
  BY <1>1 DEF GraphStack
<1>6. Graph!Begin(rootManifest.lib, size)
  BY <1>2, <1>4, <1>5, Zenon DEF Graph!Begin
<1> QED BY <1>3, <1>6, Zenon DEF Graph!Next

LEMMA GraphNext ==
    ASSUME Inv, [Next]_vars
    PROVE  [Graph!Next]_Graph!vars
<1> USE DEF Inv
<1>1. ASSUME Return, phase # "idle"
      PROVE  Graph!Next
  BY <1>1, GraphEnds, Zenon DEF Graph!Next, Graph!Visit
<1>2. CASE PathEntry \/ GitEntry \/ RegistryAgain \/ RegistryPinned
               \/ RegistryFresh
  <2>1. EntryStep /\ AtEntry
    BY <1>2, PathStep, GitStep, AgainStep, PinnedStep, FreshStep
       DEF PathEntry, GitEntry, RegistryAgain, RegistryPinned, RegistryFresh,
           AtFirstRegistryEntry
  <2>2. CASE Fail
    BY <1>1, <2>1, <2>2 DEF Fail, AtEntry
  <2>3. CASE ~Fail
    <3>1. PICK d, m, commit, origin, pk :
              Leads(d, m, commit, origin, pk) /\ Reaches(d, m, commit, origin, pk)
      BY <2>1, <2>3 DEF EntryStep
    <3> QED BY <2>1, <3>1, GraphReaches, Zenon DEF Graph!Next
  <2> QED BY <2>2, <2>3
<1>3. CASE FetchFails
  BY <1>1, <1>3 DEF FetchFails, Fail, AtEntry
<1>4. CASE Finish \/ FinishRoot
  BY <1>4, GraphFinish, GraphFinishRoot, Zenon DEF Graph!Next
<1>5. CASE Listed \/ CompileFails \/ WriteLock \/ Crash
  BY <1>1, <1>5 DEF Listed, CompileFails, WriteLock, Crash, Fail
<1>6. CASE Compile
  <2>1. UNCHANGED Graph!vars
    BY <1>6, GraphStays DEF Compile
  <2> QED BY <2>1
<1>7. CASE Build \/ List \/ \E names \in SUBSET PkgNames : Update(names)
  BY <1>7, GraphBegins DEF Build, List, Update
<1>8. CASE \/ \E m \in RootManifests[project] : EditManifest(m)
           \/ \E n \in PkgNames : Publish(n)
           \/ \E u \in Urls, b \in Names, x \in Commits : Push(u, b, x)
           \/ UNCHANGED vars
  <2>1. UNCHANGED <<phase, stack, order>>
    BY <1>8 DEF EditManifest, Publish, Push, vars
  <2>2. UNCHANGED Graph!vars
    BY <2>1, GraphStays
  <2> QED BY <2>2
<1> QED BY <1>2, <1>3, <1>4, <1>5, <1>6, <1>7, <1>8 DEF Next, Run

LEMMA GraphInit == Init => Graph!Init
BY DEF Init, Graph!Init, GraphPhase, GraphStack, GraphOrder

\* ebpm resolves depth first, whatever the entries of the manifests are: each
\* step of a command is a step of DepGraph's traversal, or leaves it alone.
\* What is proved of DepGraph thus holds here: dependencies first, each
\* package once, the root last.
THEOREM ResolvesDepthFirstSafe == Spec => ResolvesDepthFirst
<1>1. Inv /\ [Next]_vars => [Graph!Next]_Graph!vars
  BY GraphNext
<1> QED BY <1>1, GraphInit, Invariance, PTL
        DEF Spec, ResolvesDepthFirst, Graph!Spec
-----------------------------------------------------------------------------
(* The clones packages were read from.                                       *)

\* What was opened stays opened.
OpenedStays ==
    /\ \A dir, j, d : HasOpened(dir, j, d) => HasOpened(dir, j, d)'
    /\ \A n \in PkgNames : picks'[n] = picks[n] \/ picks[n] = NoPick

LEMMA ResolvedStays ==
    ASSUME OpenedStays, NEW d
    PROVE  /\ Visits(d) \subseteq Visits(d)' /\ PickedIn(d) \subseteq PickedIn(d)'
           /\ ResolvedEver(d) => ResolvedEver(d)'
           /\ ResolvedTwice(d) => ResolvedTwice(d)'
<1>1. Visits(d) \subseteq Visits(d)'
  BY Zenon DEF OpenedStays, Visits
<1>2. PickedIn(d) \subseteq PickedIn(d)'
  BY DEF OpenedStays, PickedIn
<1>3. \A v : v \in Visits(d) => v \in Visits(d)'
  BY <1>1
<1>4. \A n : n \in PickedIn(d) => n \in PickedIn(d)'
  BY <1>2
<1>5. ResolvedEver(d) <=> (\E v : v \in Visits(d)) \/ (\E n : n \in PickedIn(d))
  BY DEF ResolvedEver
<1>6. ResolvedEver(d)' <=>
          (\E v : v \in Visits(d)') \/ (\E n : n \in PickedIn(d)')
  BY DEF ResolvedEver
<1>7. ResolvedTwice(d) => ResolvedTwice(d)'
  <2>1. (Visits(d) # {} => Visits(d)' # {}) /\ (PickedIn(d) # {} => PickedIn(d)' # {})
    BY <1>1, <1>2
  <2> QED BY <1>3, <1>4, <2>1, Zenon DEF ResolvedTwice
<1> QED BY <1>1, <1>2, <1>3, <1>4, <1>5, <1>6, <1>7, Zenon

\* A package stays what it was, its clone is left alone or opened again.
LEMMA StandsStays ==
    ASSUME OpenedStays, NEW f, Stands(f),
           \/ f.commit # NoCommit => TreeIn(cache', f.dir) = TreeIn(cache, f.dir)
           \/ ResolvedEver(f.dir) => ResolvedTwice(f.dir)'
    PROVE  Stands(f)'
<1> DEFINE d == f.dir
<1>1. /\ ResolvedEver(d) => ResolvedEver(d)'
      /\ ResolvedTwice(d) => ResolvedTwice(d)'
  BY ResolvedStays
<1>2. TreeIn(cache', d) = TreeIn(cache, d)' 
  BY DEF TreeIn
<1> QED BY <1>1, <1>2, Zenon DEF Stands

\* The entry at the top of the stack has not been resolved yet.
LEMMA EntryIsNew ==
    ASSUME TypeOK, Phases, StackIsPath, AtEntry, NEW d
    PROVE  ~HasOpened(Top.dir, Top.next, d)
<1>1. Len(stack) \in DOMAIN stack /\ Top = stack[Len(stack)]
  BY AtEntryType DEF Top
<1>2. ~Loaded(Top.dir)
  BY <1>1 DEF StackIsPath
<1>3. \A k \in DOMAIN stack : stack[k].dir = Top.dir => k = Len(stack)
  BY <1>1 DEF StackIsPath
<1> QED BY <1>1, <1>2, <1>3, Zenon DEF HasOpened, Loaded

LEMMA ReachesOpens ==
    ASSUME TypeOK, Phases, AtEntry, NEW d, NEW m, NEW commit, NEW origin,
           NEW pk, Leads(d, m, commit, origin, pk),
           Reaches(d, m, commit, origin, pk)
    PROVE  /\ OpenedStays
           /\ ToGit(Entry, d) =>
                 \E dir, j : dir = Top.dir /\ j = Top.next /\ HasOpened(dir, j, d)'
<1> DEFINE n == Len(stack)
<1>1. /\ stack' \in Seq(Frame) /\ n \in Nat \ {0}
      /\ \A k \in 1..(n - 1) : stack'[k] = stack[k]
      /\ \/ /\ Len(stack') = n /\ stack'[n] = Advance(Top, d)
         \/ /\ Len(stack') = n + 1 /\ stack'[n] = Top
  BY ReachesStack
<1>2. /\ Top \in Frame /\ Top = stack[n] /\ Top.next \in DOMAIN Top.manifest.deps
      /\ Top.next \in 1..Len(Top.manifest.deps)
      /\ stack \in Seq(Frame) /\ d \in Dirs /\ order' = order /\ picks' = pk
  BY AtEntryType DEF TypeOK, Leads, Reaches, Top
<1>3. Top.next \in Nat \ {0} /\ Top.next <= Len(Top.manifest.deps)
  BY <1>2 DEF Frame, AtEntry
<1>4. /\ Advance(Top, d).dir = Top.dir
      /\ Advance(Top, d).manifest = Top.manifest
      /\ Advance(Top, d).next = Top.next + 1
  BY <1>2, <1>3, AdvanceType
<1>5. /\ n \in DOMAIN stack' /\ stack'[n].dir = Top.dir
      /\ stack'[n].manifest = Top.manifest
      /\ \A j : (j \in Nat /\ j <= Top.next) =>
            /\ j <= stack'[n].next
            /\ j = stack'[n].next => n # Len(stack')
  BY <1>1, <1>3, <1>4
<1>6. \A k \in 1..(n - 1) : k # Len(stack') /\ k \in DOMAIN stack'
  BY <1>1
<1>7. \A k \in DOMAIN stack : k = n \/ k \in 1..(n - 1)
  BY <1>1, <1>2
<1>8. ASSUME NEW dir, NEW j, NEW x, HasOpened(dir, j, x)
      PROVE  HasOpened(dir, j, x)'
  <2>1. CASE \E k \in DOMAIN order :
                order[k].dir = dir /\ Opens(order[k].manifest, j, x)
    BY <1>2, <2>1, Zenon DEF HasOpened, Opens, ToGit
  <2>2. ASSUME NEW k \in DOMAIN stack,
               /\ stack[k].dir = dir /\ Opens(stack[k].manifest, j, x)
               /\ j <= stack[k].next /\ (j = stack[k].next => k # Len(stack))
        PROVE  HasOpened(dir, j, x)'
    <3>1. CASE k \in 1..(n - 1)
      <4>1. stack'[k] = stack[k] /\ k # Len(stack') /\ k \in DOMAIN stack'
        BY <1>1, <1>6, <3>1
      <4> QED BY <2>2, <4>1, Zenon DEF HasOpened, Opens, ToGit
    <3>2. CASE k = n
      <4>1. j \in Nat
        <5>1. j \in DOMAIN Top.manifest.deps
          BY <1>2, <2>2, <3>2 DEF Opens
        <5>2. DOMAIN Top.manifest.deps = 1..Len(Top.manifest.deps)
          <6>1. Top.manifest \in Read
            BY <1>2 DEF Frame
          <6> QED BY <6>1 DEF Read, Manifest
        <5> QED BY <5>1, <5>2
      <4>2. /\ stack'[n].dir = dir /\ stack'[n].manifest = stack[k].manifest
            /\ j <= stack'[n].next /\ (j = stack'[n].next => n # Len(stack'))
        <5>1. j <= Top.next
          BY <1>2, <2>2, <3>2
        <5> QED BY <1>2, <1>5, <2>2, <3>2, <4>1, <5>1
      <4> QED BY <1>5, <2>2, <4>2, Zenon DEF HasOpened, Opens, ToGit
    <3> QED BY <1>7, <3>1, <3>2
  <2> QED BY <1>8, <2>1, <2>2, Zenon DEF HasOpened
<1>9. ASSUME ToGit(Entry, d)
      PROVE  \E dir, j : dir = Top.dir /\ j = Top.next /\ HasOpened(dir, j, d)'
  <2>1. /\ Top.next <= stack'[n].next
        /\ Top.next = stack'[n].next => n # Len(stack')
    BY <1>3, <1>5
  <2>2. /\ Top.next \in DOMAIN Top.manifest.deps
        /\ Top.manifest.deps[Top.next].kind = "git"
        /\ DirOf[Top.manifest.deps[Top.next].url,
                 Top.manifest.deps[Top.next].ref] = d
    BY <1>2, <1>9, Zenon DEF Entry, ToGit
  <2>3. PICK dir, j, h : dir = Top.dir /\ j = Top.next /\ h = Top.manifest
    OBVIOUS
  <2>4. /\ stack'[n].dir = dir /\ stack'[n].manifest = h
        /\ j <= stack'[n].next /\ (j = stack'[n].next => n # Len(stack'))
        /\ j \in DOMAIN h.deps /\ h.deps[j].kind = "git"
        /\ DirOf[h.deps[j].url, h.deps[j].ref] = d
    BY <1>5, <2>1, <2>2, <2>3, Zenon
  <2>5. HasOpened(dir, j, d)'
    BY <1>5, <2>4, Zenon DEF HasOpened, Opens, ToGit
  <2> QED BY <2>3, <2>5, Zenon
<1>10. \A k \in PkgNames : picks'[k] = picks[k] \/ picks[k] = NoPick
  BY <1>2, Zenon DEF Leads
<1> QED BY <1>8, <1>9, <1>10, Zenon DEF OpenedStays

\* An entry that is resolved adds to what opened the clone it is for.
LEMMA OpensOnceMore ==
    ASSUME TypeOK, TypeOK', Phases, StackIsPath, AtEntry, NEW d, NEW m,
           NEW commit, NEW origin, NEW pk, Leads(d, m, commit, origin, pk),
           Reaches(d, m, commit, origin, pk),
           \/ ToGit(Entry, d)
           \/ Entry.kind = "registry" /\ picks[Entry.name] = NoPick
    PROVE  ResolvedEver(d)' /\ (ResolvedEver(d) => ResolvedTwice(d)')
<1>0. OpenedStays
  BY ReachesOpens
<1>1. Visits(d) \subseteq Visits(d)' /\ PickedIn(d) \subseteq PickedIn(d)'
  BY <1>0, ResolvedStays
<1>2. CASE ToGit(Entry, d)
  <2>1. PICK dir, j : dir = Top.dir /\ j = Top.next /\ HasOpened(dir, j, d)'
    BY <1>2, ReachesOpens
  <2> DEFINE v == <<dir, j>>
  <2>2. v \in Visits(d)'
    <3>1. dir \in Dirs /\ j \in 1..MaxDeps
      <4>1. /\ Top \in Frame /\ Top.manifest \in Read
            /\ Top.next \in 1..Len(Top.manifest.deps)
        BY AtEntryType
      <4>2. Top.dir \in Dirs /\ Len(Top.manifest.deps) \in 0..MaxDeps
        BY <4>1, GraphFrameIs DEF Frame
      <4>3. MaxDeps \in Nat
        BY EbpmAssumption, Zenon
      <4>4. Top.next \in 1..MaxDeps
        BY <4>1, <4>2, <4>3
      <4> QED BY <2>1, <4>2, <4>4
    <3>2. v \in Dirs \X (1..MaxDeps) /\ v[1] = dir /\ v[2] = j
      BY <3>1
    <3> HIDE DEF v
    <3> QED BY <2>1, <3>2, Zenon DEF Visits
  <2>3. v \notin Visits(d)
    <3>1. ~HasOpened(dir, j, d)
      BY <2>1, EntryIsNew, Zenon
    <3>2. v[1] = dir /\ v[2] = j
      OBVIOUS
    <3> HIDE DEF v
    <3> QED BY <3>1, <3>2, Zenon DEF Visits
  <2>4. ResolvedEver(d)'
    BY <2>2 DEF ResolvedEver
  <2>5. ASSUME ResolvedEver(d) PROVE ResolvedTwice(d)'
    <3>1. CASE Visits(d) # {}
      <4>1. PICK w : w \in Visits(d)
        BY <3>1
      <4>2. w # v /\ w \in Visits(d)'
        BY <1>1, <2>3, <4>1
      <4> QED BY <2>2, <4>2, Zenon DEF ResolvedTwice
    <3>2. CASE PickedIn(d) # {}
      <4>1. PickedIn(d)' # {} /\ Visits(d)' # {}
        BY <1>1, <2>2, <3>2
      <4> QED BY <4>1 DEF ResolvedTwice
    <3> QED BY <2>5, <3>1, <3>2 DEF ResolvedEver
  <2> QED BY <2>4, <2>5
<1>3. CASE Entry.kind = "registry" /\ picks[Entry.name] = NoPick
  <2>1. PICK n : n = Entry.name
    OBVIOUS
  <2>2. /\ n \in PkgNames /\ picks' = pk /\ pk[n] # NoPick /\ pk[n].dir = d
        /\ picks[n] = NoPick
    BY <1>3, <2>1, AtEntryType, Zenon DEF Leads, Reaches
  <2>3. n \in PickedIn(d)' /\ n \notin PickedIn(d)
    BY <2>2 DEF PickedIn
  <2>4. ResolvedEver(d)'
    BY <2>3 DEF ResolvedEver
  <2>5. ASSUME ResolvedEver(d) PROVE ResolvedTwice(d)'
    <3>1. CASE PickedIn(d) # {}
      <4>1. PICK o : o \in PickedIn(d)
        BY <3>1
      <4>2. o # n /\ o \in PickedIn(d)'
        BY <1>1, <2>3, <4>1
      <4> QED BY <2>3, <4>2, Zenon DEF ResolvedTwice
    <3>2. CASE Visits(d) # {}
      <4>1. PickedIn(d)' # {} /\ Visits(d)' # {}
        BY <1>1, <2>3, <3>2
      <4> QED BY <4>1 DEF ResolvedTwice
    <3> QED BY <2>5, <3>1, <3>2 DEF ResolvedEver
  <2> QED BY <2>4, <2>5
<1> QED BY <1>2, <1>3

LEMMA ReachesClones ==
    ASSUME Inv, CloneInv, TypeOK', AtEntry, NEW d, NEW m, NEW commit,
           NEW origin, NEW pk, Leads(d, m, commit, origin, pk),
           Reaches(d, m, commit, origin, pk), Resolves(d, commit, pk)
    PROVE  CloneInv'
<1> USE DEF Inv, CloneInv
<1> DEFINE n == Len(stack)
<1>0. n = Len(stack)
  OBVIOUS
<1> HIDE DEF n
<1>1. /\ stack' \in Seq(Frame) /\ n \in Nat \ {0}
      /\ \A k \in 1..(n - 1) : stack'[k] = stack[k]
      /\ \/ /\ Loaded(d) /\ Len(stack') = n
            /\ stack'[n] = Advance(Top, d)
         \/ /\ ~Loaded(d) /\ ~OnStack(d) /\ Len(stack') = n + 1
            /\ stack'[n] = Top
            /\ stack'[n + 1] = NewFrame(d, m, commit, origin)
  BY <1>0, ReachesStack
<1>2. /\ Top \in Frame /\ Top = stack[n] /\ n \in DOMAIN stack
      /\ DOMAIN stack = 1..n /\ DOMAIN stack' = 1..Len(stack')
      /\ order' = order /\ picks' = pk
  BY <1>0, <1>1, AtEntryType DEF TypeOK, Reaches, Top
<1>3. /\ Advance(Top, d).dir = Top.dir /\ Advance(Top, d).commit = Top.commit
      /\ NewFrame(d, m, commit, origin).dir = d
      /\ NewFrame(d, m, commit, origin).commit = commit
  BY <1>2 DEF Advance, NewFrame, Frame
<1>4. /\ \A k \in 1..n : /\ k \in DOMAIN stack'
                         /\ stack'[k].dir = stack[k].dir
                         /\ stack'[k].commit = stack[k].commit
      /\ \A k \in DOMAIN stack' :
            \/ k \in 1..n
            \/ /\ k = n + 1 /\ k \notin 1..n
               /\ stack'[k].dir = d /\ stack'[k].commit = commit
               /\ ~Loaded(d) /\ ~OnStack(d)
  <2>1. \A k \in 1..n : k \in 1..(n - 1) \/ k = n
    BY <1>1
  <2>2. \A k \in 1..n : k \in DOMAIN stack'
    <3>1. \A k \in 1..n : k \in 1..(n + 1)
      BY <1>1
    <3>2. DOMAIN stack' = 1..n \/ DOMAIN stack' = 1..(n + 1)
      BY <1>1, <1>2, Zenon
    <3> QED BY <3>1, <3>2, Zenon
  <2>3. \A k \in 1..(n + 1) : k \in 1..n \/ (k = n + 1 /\ k \notin 1..n)
    BY <1>1
  <2>4. \A k \in DOMAIN stack' :
            \/ k \in 1..n
            \/ /\ k = n + 1 /\ k \notin 1..n /\ Len(stack') = n + 1
               /\ stack'[n + 1] = NewFrame(d, m, commit, origin)
               /\ ~Loaded(d) /\ ~OnStack(d)
    BY <1>1, <1>2, <2>3
  <2> QED BY <1>1, <1>2, <1>3, <2>1, <2>2, <2>4
<1>5. \A c : Loaded(c)' <=> Loaded(c)
  BY <1>2, Zenon DEF Loaded
<1>6. StackIsPath'
  <2>1. \A k \in DOMAIN stack' : ~Loaded(stack'[k].dir)
    BY <1>2, <1>4, Zenon DEF StackIsPath
  <2>2. \A j, k \in DOMAIN stack' : stack'[j].dir = stack'[k].dir => j = k
    <3> TAKE j, k \in DOMAIN stack'
    <3>1. CASE j \in 1..n /\ k \in 1..n
      <4>1. stack[j].dir = stack[k].dir => j = k
        BY <1>2, <3>1, Zenon DEF StackIsPath
      <4> QED BY <1>4, <3>1, <4>1, Zenon
    <3>2. \A i \in 1..n : stack'[i].dir # d \/ OnStack(d)
      BY <1>2, <1>4, Zenon DEF OnStack
    <3> QED BY <1>4, <3>1, <3>2, Zenon
  <2> QED BY <1>5, <2>1, <2>2, Zenon DEF StackIsPath
<1>7. OpenedStays
  BY ReachesOpens
<1>8. \A x : ResolvedEver(x) => ResolvedEver(x)'
  BY <1>7, ResolvedStays
<1>9. \A x : ResolvedTwice(x) => ResolvedTwice(x)'
  BY <1>7, ResolvedStays
\* Whatever package it is.
<1>10. \A f : Stands(f) => Stands(f)'
  <2> TAKE f
  <2>1. CASE cache' = cache
    BY <1>7, <2>1, StandsStays DEF TreeIn
  <2>2. CASE cache' # cache
    <3>1. /\ \A c \in CacheDirs \ {d} : cache'[c] = cache[c]
          /\ ResolvedEver(d) => ResolvedTwice(d)'
      BY <2>2, OpensOnceMore DEF Resolves
    <3>2. CASE f.dir = d
      BY <1>7, <3>1, <3>2, StandsStays
    <3>3. CASE f.dir # d
      <4> SUFFICES ASSUME Stands(f), f.commit # NoCommit PROVE Stands(f)'
        BY DEF Stands
      <4>1. f.dir \in CacheDirs \ {d}
        BY <3>3 DEF Stands
      <4>2. TreeIn(cache', f.dir) = TreeIn(cache, f.dir)
        BY <3>1, <4>1 DEF TreeIn
      <4> QED BY <1>7, <4>2, StandsStays
    <3> QED BY <3>2, <3>3
  <2> QED BY <2>1, <2>2
<1>11. ASSUME commit # NoCommit, ~Loaded(d)
       PROVE  /\ d \in CacheDirs /\ ResolvedEver(d)'
              /\ TreeIn(cache', d) = commit
  <2>1. /\ d \in CacheDirs /\ commit = TreeIn(cache', d)
        /\ \/ ToGit(Entry, d)
           \/ Entry.kind = "registry" /\ picks[Entry.name] = NoPick
    BY <1>11 DEF Resolves
  <2> QED BY <2>1, OpensOnceMore
<1>12. \A k \in DOMAIN order' : Stands(order[k])'
  BY <1>2, <1>10, Zenon DEF ClonesStand
<1>13. \A k \in DOMAIN stack' : Stands(stack[k])'
  <2> TAKE k \in DOMAIN stack'
  <2>1. CASE k \in 1..n
    <3>1. PICK f, g : f = stack[k] /\ g = stack'[k]
      OBVIOUS
    <3>2. Stands(f)'
      BY <1>2, <1>10, <2>1, <3>1, Zenon DEF ClonesStand
    <3>3. g.commit = f.commit /\ g.dir = f.dir
      BY <1>4, <2>1, <3>1
    <3>4. Stands(g)'
      BY <3>2, <3>3, Zenon DEF Stands
    <3> QED BY <3>1, <3>4, Zenon
  <2>2. CASE k \notin 1..n
    <3>1. PICK f : f = stack'[k]
      OBVIOUS
    <3>2. f.dir = d /\ f.commit = commit /\ ~Loaded(d)
      BY <1>4, <2>2, <3>1
    <3>3. TreeIn(cache', d) = TreeIn(cache, d)'
      BY DEF TreeIn
    <3>4. Stands(f)'
      BY <1>11, <3>2, <3>3, Zenon DEF Stands
    <3> QED BY <3>1, <3>4, Zenon
  <2> QED BY <2>1, <2>2
<1>14. IsFiniteSet({x \in PkgNames : picks[x] # NoPick})'
  <2> DEFINE old == {x \in PkgNames : picks[x] # NoPick}
             new == {x \in PkgNames : picks'[x] # NoPick}
  <2>1. new \subseteq old \cup {Entry.name}
    BY <1>2 DEF Leads
  <2>2. IsFiniteSet(old)
    BY DEF ClonesStand
  <2> HIDE DEF old, new
  <2>3. IsFiniteSet(old \cup {Entry.name})
    BY <2>2, FS_AddElement
  <2>4. IsFiniteSet(new)
    BY <2>1, <2>3, FS_Subset
  <2> QED BY <2>4 DEF new
<1> QED BY <1>6, <1>12, <1>13, <1>14, Zenon DEF ClonesStand

LEMMA EntryClones ==
    ASSUME Inv, CloneInv, TypeOK', PathEntry \/ GitEntry \/ RegistryAgain
                              \/ RegistryPinned \/ RegistryFresh
    PROVE  CloneInv' \/ Return
<1> USE DEF Inv
<1>1. EntryStep /\ AtEntry
  BY PathStep, GitStep, AgainStep, PinnedStep, FreshStep
     DEF PathEntry, GitEntry, RegistryAgain, RegistryPinned, RegistryFresh,
         AtFirstRegistryEntry
<1>2. CASE Fail
  BY <1>2 DEF Fail
<1>3. CASE ~Fail
  <2>1. PICK d, m, commit, origin, pk :
            /\ Leads(d, m, commit, origin, pk)
            /\ Reaches(d, m, commit, origin, pk)
            /\ Resolves(d, commit, pk)
    BY <1>1, <1>3 DEF EntryStep
  <2> QED BY <1>1, <2>1, ReachesClones
<1> QED BY <1>2, <1>3

\* Nothing is left of a command that has ended.
LEMMA ReturnClones ==
    ASSUME Return
    PROVE  CloneInv'
<1>1. /\ DOMAIN order' = {} /\ DOMAIN stack' = {}
      /\ picks' = [n \in PkgNames |-> NoPick]
  BY DEF Return
<1>2. StackIsPath'
  BY <1>1 DEF StackIsPath
<1>3. {n \in PkgNames : picks'[n] # NoPick} = {}
  BY <1>1
<1>4. IsFiniteSet({n \in PkgNames : picks[n] # NoPick})'
  BY <1>3, FS_EmptySet
<1>5. ClonesStand'
  BY <1>1, <1>4, Zenon DEF ClonesStand
<1> QED BY <1>2, <1>5 DEF CloneInv

\* A package goes from the stack to `order`.
LEMMA FinishOpens ==
    ASSUME TypeOK, Phases, phase = "visit", Top.next > Len(Top.manifest.deps),
           order' = Append(order, Resolved), picks' = picks,
           \A k \in DOMAIN stack :
              \/ k = Len(stack)
              \/ /\ k \in DOMAIN stack'
                 /\ stack'[k].dir = stack[k].dir
                 /\ stack'[k].manifest = stack[k].manifest
                 /\ \/ stack'[k] = stack[k] /\ k # Len(stack')
                    \/ stack'[k].next = stack[k].next + 1
    PROVE  /\ OpenedStays
           /\ DOMAIN order' = DOMAIN order \cup {Len(order) + 1}
           /\ Len(order) + 1 \notin DOMAIN order
           /\ \A k \in DOMAIN order : order'[k] = order[k]
           /\ order'[Len(order) + 1] = Resolved
<1> DEFINE n == Len(order)
           up == n + 1
<1>1. /\ order \in Seq(Package) /\ n \in Nat /\ DOMAIN order = 1..n
  BY DEF TypeOK
<1>2. order' = [k \in 1..up |-> IF k = up THEN Resolved ELSE order[k]]
  BY <1>1, AppendIs
<1>3. \A k : k \in 1..up <=> k \in 1..n \/ k = up
  BY <1>1
<1>4. up \notin 1..n
  BY <1>1
<1> HIDE DEF n, up
<1>5. /\ DOMAIN order' = 1..up /\ order'[up] = Resolved /\ up \in 1..up
      /\ \A k \in DOMAIN order : k \in 1..up /\ order'[k] = order[k]
  BY <1>1, <1>2, <1>3, <1>4
<1>6. DOMAIN order' = DOMAIN order \cup {up} /\ up \notin DOMAIN order
  BY <1>1, <1>3, <1>4, <1>5
<1>7. /\ Resolved.dir = Top.dir /\ Resolved.manifest = Top.manifest
      /\ Top = stack[Len(stack)]
  BY DEF Resolved, Top
<1>8. ASSUME NEW dir, NEW j, NEW d, HasOpened(dir, j, d)
      PROVE  HasOpened(dir, j, d)'
  <2>1. CASE \E k \in DOMAIN order :
                order[k].dir = dir /\ Opens(order[k].manifest, j, d)
    BY <1>5, <2>1, Zenon DEF HasOpened, Opens, ToGit
  <2>2. ASSUME NEW k \in DOMAIN stack,
               /\ stack[k].dir = dir /\ Opens(stack[k].manifest, j, d)
               /\ j <= stack[k].next /\ (j = stack[k].next => k # Len(stack))
        PROVE  HasOpened(dir, j, d)'
    <3>1. CASE k = Len(stack)
      <4>1. Top.dir = dir /\ Opens(Top.manifest, j, d)
        BY <1>7, <2>2, <3>1, Zenon
      <4>2. order'[up].dir = dir /\ order'[up].manifest = Top.manifest
        BY <1>5, <1>7, <4>1, Zenon
      <4>3. PICK h : h = Top.manifest
        OBVIOUS
      <4>4. order'[up].manifest = h /\ Opens(h, j, d) /\ up \in DOMAIN order'
        BY <1>5, <4>1, <4>2, <4>3, Zenon
      <4> QED BY <4>2, <4>4, Zenon DEF HasOpened, Opens, ToGit
    <3>2. CASE k # Len(stack)
      <4>1. /\ k \in DOMAIN stack'
            /\ stack'[k].dir = dir /\ stack'[k].manifest = stack[k].manifest
        BY <2>2, <3>2
      <4>2. j <= stack'[k].next /\ (j = stack'[k].next => k # Len(stack'))
        <5>1. CASE stack'[k] = stack[k] /\ k # Len(stack')
          BY <2>2, <5>1
        <5>2. CASE stack'[k].next = stack[k].next + 1
          <6>1. stack[k].next \in Nat /\ j \in Nat
            <7>1. stack[k] \in Frame
              BY DEF TypeOK
            <7>2. j \in DOMAIN stack[k].manifest.deps
              BY <2>2 DEF Opens
            <7> QED BY <7>1, <7>2 DEF Frame, Read, Manifest
          <6> QED BY <2>2, <5>2, <6>1
        <5> QED BY <3>2, <5>1, <5>2
      <4> QED BY <2>2, <4>1, <4>2, Zenon DEF HasOpened, Opens, ToGit
    <3> QED BY <3>1, <3>2
  <2> QED BY <1>8, <2>1, <2>2, Zenon DEF HasOpened
<1> QED BY <1>5, <1>6, <1>8 DEF OpenedStays, n, up

LEMMA FinishClones ==
    ASSUME Inv, CloneInv, Finish \/ FinishRoot
    PROVE  CloneInv' \/ Return
<1> USE DEF Inv, CloneInv
<1> DEFINE n == Len(stack)
           up == n - 1
<1>1. /\ phase = "visit" /\ Top.next > Len(Top.manifest.deps)
      /\ UNCHANGED cache
  BY DEF Finish, FinishRoot
<1>2. /\ n \in Nat \ {0} /\ DOMAIN stack = 1..n /\ n \in DOMAIN stack
      /\ Top = stack[n] /\ Top \in Frame
  BY <1>1, TopType DEF TypeOK, Top
<1>3. CASE Return
  BY <1>3
<1>4. CASE ~Return
  <2>1. order' = Append(order, Resolved) /\ picks' = picks
    BY <1>4 DEF Finish, FinishRoot, Fail
  \* The packages below the top stay on the stack.
  <2>2. /\ \A k \in DOMAIN stack :
              \/ k = n
              \/ /\ k \in DOMAIN stack'
                 /\ stack'[k].dir = stack[k].dir
                 /\ stack'[k].manifest = stack[k].manifest
                 /\ \/ stack'[k] = stack[k] /\ k # Len(stack')
                    \/ stack'[k].next = stack[k].next + 1
        /\ \A k \in DOMAIN stack' :
              /\ k \in DOMAIN stack /\ k # n
              /\ stack'[k].dir = stack[k].dir
              /\ stack'[k].commit = stack[k].commit
    <3>1. CASE FinishRoot
      <4>1. DOMAIN stack' = {} /\ n = 1
        BY <3>1 DEF FinishRoot
      <4> QED BY <1>2, <4>1
    <3>2. CASE Finish
      <4>1. Top.manifest.lib
        BY <1>4, <3>2 DEF Finish, Fail
      <4>2. /\ up \in Nat \ {0} /\ n = up + 1 /\ stack' \in Seq(Frame)
            /\ Len(stack') = up
            /\ \A k \in 1..(up - 1) : stack'[k] = stack[k]
            /\ stack'[up].next = stack[up].next + 1
            /\ \A k \in 1..up : /\ stack'[k].manifest = stack[k].manifest
                                /\ stack'[k].dir = stack[k].dir
                                /\ stack'[k].commit = stack[k].commit
        BY <3>2, <4>1, FinishStack
      <4>3. DOMAIN stack' = 1..up
        BY <4>2
      <4> HIDE DEF n, up
      <4>4. /\ \A k \in 1..n : k = n \/ k \in 1..up
            /\ \A k \in 1..up : k \in 1..n /\ k # n
            /\ \A k \in 1..up : k = up \/ k \in 1..(up - 1)
            /\ \A k \in 1..(up - 1) : k # up
        BY <4>2
      <4> QED BY <1>2, <4>2, <4>3, <4>4, Zenon
    <3> QED BY <3>1, <3>2
  <2>3. /\ OpenedStays
        /\ DOMAIN order' = DOMAIN order \cup {Len(order) + 1}
        /\ Len(order) + 1 \notin DOMAIN order
        /\ \A k \in DOMAIN order : order'[k] = order[k]
        /\ order'[Len(order) + 1] = Resolved
    BY <1>1, <2>1, <2>2, FinishOpens
  <2>4. Resolved.dir = Top.dir /\ Resolved.commit = Top.commit
    BY DEF Resolved
  <2>5. \A f : Stands(f) => Stands(f)'
    BY <1>1, <2>3, StandsStays DEF TreeIn
  <2>6. StackIsPath'
    <3>1. \A c : Loaded(c)' => Loaded(c) \/ c = Top.dir
      BY <2>3, <2>4, Zenon DEF Loaded
    <3>2. \A k \in DOMAIN stack' : ~Loaded(stack'[k].dir) /\ stack'[k].dir # Top.dir
      BY <1>2, <2>2 DEF StackIsPath
    <3>3. \A j, k \in DOMAIN stack' : stack'[j].dir = stack'[k].dir => j = k
      BY <2>2, Zenon DEF StackIsPath
    <3> QED BY <3>1, <3>2, <3>3, Zenon DEF StackIsPath
  <2>7. \A k \in DOMAIN order' : Stands(order[k])'
    <3> TAKE k \in DOMAIN order'
    <3>1. PICK f : f = order'[k]
      OBVIOUS
    <3>2. CASE k \in DOMAIN order
      <4>1. Stands(f)
        BY <2>3, <3>1, <3>2, Zenon DEF ClonesStand
      <4> QED BY <2>5, <3>1, <4>1, Zenon
    <3>3. CASE k \notin DOMAIN order
      <4>1. f.dir = Top.dir /\ f.commit = Top.commit
        BY <2>3, <2>4, <3>1, <3>3
      <4>2. Stands(Top)
        BY <1>2, Zenon DEF ClonesStand
      <4>3. Stands(f)
        BY <4>1, <4>2, Zenon DEF Stands
      <4> QED BY <2>5, <3>1, <4>3, Zenon
    <3> QED BY <3>2, <3>3
  <2>8. \A k \in DOMAIN stack' : Stands(stack[k])'
    <3> TAKE k \in DOMAIN stack'
    <3>1. PICK f : f = stack'[k]
      OBVIOUS
    <3>2. Stands(stack[k]) /\ f.dir = stack[k].dir /\ f.commit = stack[k].commit
      BY <2>2, <3>1 DEF ClonesStand
    <3>3. Stands(f)
      BY <3>2, Zenon DEF Stands
    <3> QED BY <2>5, <3>1, <3>3, Zenon
  <2>9. IsFiniteSet({x \in PkgNames : picks[x] # NoPick})'
    BY <2>1 DEF ClonesStand
  <2> QED BY <2>6, <2>7, <2>8, <2>9, Zenon DEF ClonesStand
<1> QED BY <1>3, <1>4

LEMMA BeginClones ==
    ASSUME Inv, CloneInv, NEW c, Resolve(c)
    PROVE  CloneInv'
<1> DEFINE f == NewFrame(RootDir, rootManifest, NoCommit, PathOrigin)
<1>1. stack' = <<f>> /\ order' = <<>> /\ picks' = picks
  BY DEF Resolve
<1>2. f.commit = NoCommit
  BY DEF NewFrame
<1> HIDE DEF f
<1>3. DOMAIN stack' = {1} /\ stack'[1] = f /\ DOMAIN order' = {}
  BY <1>1
<1>4. StackIsPath'
  BY <1>3 DEF StackIsPath, Loaded
<1>5. \A k \in DOMAIN stack' : Stands(stack[k])'
  BY <1>2, <1>3 DEF Stands
<1>6. IsFiniteSet({x \in PkgNames : picks[x] # NoPick})'
  BY <1>1 DEF ClonesStand, CloneInv
<1> QED BY <1>3, <1>4, <1>5, <1>6 DEF CloneInv, ClonesStand

LEMMA AsideClones ==
    ASSUME CloneInv, UNCHANGED <<cache, stack, order, picks>>
    PROVE  CloneInv'
<1>1. StackIsPath'
  BY DEF CloneInv, StackIsPath, Loaded
<1>2. OpenedStays
  <2>1. order' = order /\ stack' = stack /\ picks' = picks
    OBVIOUS
  <2>2. \A dir, j, d : HasOpened(dir, j, d) => HasOpened(dir, j, d)'
    <3> TAKE dir, j, d
    <3> HAVE HasOpened(dir, j, d)
    <3>1. CASE \E k \in DOMAIN order :
                  order[k].dir = dir /\ Opens(order[k].manifest, j, d)
      BY <2>1, <3>1, Zenon DEF HasOpened, Opens, ToGit
    <3>2. ASSUME NEW k \in DOMAIN stack,
                 /\ stack[k].dir = dir /\ Opens(stack[k].manifest, j, d)
                 /\ j <= stack[k].next /\ (j = stack[k].next => k # Len(stack))
          PROVE  HasOpened(dir, j, d)'
      BY <2>1, <3>2, Zenon DEF HasOpened, Opens, ToGit
    <3> QED BY <3>1, <3>2, Zenon DEF HasOpened
  <2> QED BY <2>1, <2>2, Zenon DEF OpenedStays
<1>3. \A f : Stands(f) => Stands(f)'
  BY <1>2, StandsStays DEF TreeIn
<1>4. /\ \A k \in DOMAIN order' : Stands(order[k])'
      /\ \A k \in DOMAIN stack' : Stands(stack[k])'
  BY <1>3, Zenon DEF CloneInv, ClonesStand
<1>5. IsFiniteSet({x \in PkgNames : picks[x] # NoPick})'
  BY DEF ClonesStand, CloneInv
<1> QED BY <1>1, <1>4, <1>5 DEF CloneInv, ClonesStand

LEMMA CloneNext == Inv /\ Inv' /\ CloneInv /\ [Next]_vars => CloneInv'
<1> SUFFICES ASSUME Inv, Inv', CloneInv, [Next]_vars PROVE CloneInv'
  OBVIOUS
<1>1. TypeOK'
  BY DEF Inv
<1>2. CASE PathEntry \/ GitEntry \/ RegistryAgain \/ RegistryPinned
               \/ RegistryFresh \/ Finish \/ FinishRoot
  BY <1>1, <1>2, EntryClones, FinishClones, ReturnClones
<1>3. CASE FetchFails \/ Listed \/ CompileFails \/ WriteLock \/ Crash
  BY <1>3, ReturnClones
     DEF FetchFails, Listed, CompileFails, WriteLock, Crash, Fail
<1>4. CASE Build \/ List \/ \E names \in SUBSET PkgNames : Update(names)
  BY <1>4, BeginClones DEF Build, List, Update
<1>5. CASE \/ Compile
           \/ \E m \in RootManifests[project] : EditManifest(m)
           \/ \E n \in PkgNames : Publish(n)
           \/ \E u \in Urls, b \in Names, x \in Commits : Push(u, b, x)
           \/ UNCHANGED vars
  BY <1>5, AsideClones DEF Compile, EditManifest, Publish, Push, vars
<1> QED BY <1>2, <1>3, <1>4, <1>5 DEF Next, Run

THEOREM CloneInvariance == Spec => []CloneInv
<1>1. Init => CloneInv
  <2> SUFFICES ASSUME Init PROVE CloneInv
    OBVIOUS
  <2>1. DOMAIN order = {} /\ DOMAIN stack = {}
    BY DEF Init
  <2>2. {n \in PkgNames : picks[n] # NoPick} = {}
    BY DEF Init
  <2> QED BY <2>1, <2>2, FS_EmptySet DEF CloneInv, StackIsPath, ClonesStand
<1> QED BY <1>1, CloneNext, Invariance, PTL DEF Spec
-----------------------------------------------------------------------------
(* How often a clone was opened.                                             *)

LEMMA TwoOf ==
    ASSUME NEW S, IsFiniteSet(S), NEW x \in S, NEW y \in S, x # y
    PROVE  Cardinality(S) \in Nat /\ Cardinality(S) >= 2
<1>1. Cardinality(S) \in Nat
  BY FS_CardinalityType
<1>2. IsFiniteSet({x}) /\ Cardinality({x}) = 1
  BY FS_Singleton
<1>3. Cardinality({x} \cup {y}) = 2
  <2>1. y \notin {x}
    OBVIOUS
  <2>2. Cardinality({x} \cup {y}) = Cardinality({x}) + 1
    BY <1>2, <2>1, FS_AddElement, Zenon
  <2> QED BY <1>2, <2>2
<1>4. {x} \cup {y} \subseteq S
  OBVIOUS
<1>5. Cardinality({x} \cup {y}) <= Cardinality(S)
  BY <1>4, FS_Subset
<1> QED BY <1>1, <1>3, <1>5

LEMMA OneOf ==
    ASSUME NEW S, IsFiniteSet(S), S # {}
    PROVE  Cardinality(S) \in Nat /\ Cardinality(S) >= 1
<1>1. Cardinality(S) \in Nat /\ Cardinality(S) # 0
  BY FS_CardinalityType, FS_EmptySet
<1> QED BY <1>1

\* When nothing is left on the stack, every visit was of an entry of `order`.
LEMMA TwiceIsNotOnce ==
    ASSUME TypeOK, CloneInv, stack = <<>>, NEW d, ResolvedTwice(d)
    PROVE  ~ResolvedOnce(d)
<1>1. order \in Seq(Package) /\ DOMAIN order = 1..Len(order) /\ Len(order) \in Nat
  BY DEF TypeOK
<1>2. \A k \in DOMAIN order : /\ order[k].manifest \in Read
                              /\ DOMAIN order[k].manifest.deps \subseteq 1..MaxDeps
  <2> TAKE k \in DOMAIN order
  <2>1. order[k].manifest \in Read
    BY <1>1 DEF Package
  <2>2. /\ DOMAIN order[k].manifest.deps = 1..Len(order[k].manifest.deps)
        /\ Len(order[k].manifest.deps) \in Nat
        /\ Len(order[k].manifest.deps) <= MaxDeps
    BY <2>1 DEF Read, Manifest
  <2>3. MaxDeps \in Nat
    BY EbpmAssumption, Zenon
  <2> QED BY <2>1, <2>2, <2>3
<1> DEFINE E == GitEntriesTo(d)
           P == PickedIn(d)
<1>3. \A k \in DOMAIN order : \A j : Opens(order[k].manifest, j, d) => <<k, j>> \in E
  <2> TAKE k \in DOMAIN order
  <2> TAKE j
  <2> HAVE Opens(order[k].manifest, j, d)
  <2> DEFINE J == {i \in DOMAIN order[k].manifest.deps :
                     LET e == order[k].manifest.deps[i]
                     IN  e.kind = "git" /\ DirOf[e.url, e.ref] = d}
             pairs == {<<k, i>> : i \in J}
  <2>1. j \in J
    BY Zenon DEF Opens, ToGit
  <2>2. <<k, j>> \in pairs
    BY <2>1
  <2>3. pairs \in {{<<c, i>> : i \in {i \in DOMAIN order[c].manifest.deps :
                      LET e == order[c].manifest.deps[i]
                      IN  e.kind = "git" /\ DirOf[e.url, e.ref] = d}} :
                     c \in DOMAIN order}
    BY Zenon
  <2> HIDE DEF pairs
  <2> QED BY <2>2, <2>3, Zenon DEF GitEntriesTo
<1>4. E \subseteq (1..Len(order)) \X (1..MaxDeps)
  <2> SUFFICES ASSUME NEW v \in E PROVE v \in (1..Len(order)) \X (1..MaxDeps)
    OBVIOUS
  <2>1. PICK k \in DOMAIN order :
            v \in {<<k, i>> : i \in {i \in DOMAIN order[k].manifest.deps :
                      LET e == order[k].manifest.deps[i]
                      IN  e.kind = "git" /\ DirOf[e.url, e.ref] = d}}
    BY Zenon DEF GitEntriesTo
  <2>2. PICK i \in DOMAIN order[k].manifest.deps : v = <<k, i>>
    BY <2>1, Zenon
  <2> QED BY <1>1, <1>2, <2>2
<1>5. IsFiniteSet(E)
  <2>1. IsFiniteSet(1..Len(order)) /\ IsFiniteSet(1..MaxDeps)
    BY <1>1, FS_Interval, EbpmAssumption
  <2>2. IsFiniteSet((1..Len(order)) \X (1..MaxDeps))
    BY <2>1, FS_Product
  <2> QED BY <1>4, <2>2, FS_Subset
<1>6. IsFiniteSet(P)
  <2>1. P \subseteq {n \in PkgNames : picks[n] # NoPick}
    BY DEF PickedIn
  <2> QED BY <2>1, FS_Subset DEF CloneInv, ClonesStand
<1>7. \A v \in Visits(d) : \E k \in DOMAIN order :
          order[k].dir = v[1] /\ <<k, v[2]>> \in E
  <2> TAKE v \in Visits(d)
  <2>1. HasOpened(v[1], v[2], d) /\ DOMAIN stack = {}
    BY DEF Visits
  <2> HIDE DEF E
  <2> QED BY <1>3, <2>1, Zenon DEF HasOpened
<1> DEFINE e == Cardinality(E)
           p == Cardinality(P)
<1>8. ResolvedOnce(d) <=> e + p < 2
  BY DEF ResolvedOnce
<1>9. e \in Nat /\ p \in Nat
  BY <1>5, <1>6, FS_CardinalityType
<1> HIDE DEF E, P
<1>10. CASE \E v, w \in Visits(d) : v # w
  <2>1. PICK v \in Visits(d), w \in Visits(d) : v # w
    BY <1>10
  <2>2. PICK k \in DOMAIN order : order[k].dir = v[1] /\ <<k, v[2]>> \in E
    BY <1>7
  <2>3. PICK c \in DOMAIN order : order[c].dir = w[1] /\ <<c, w[2]>> \in E
    BY <1>7
  <2>4. <<k, v[2]>> # <<c, w[2]>>
    <3>1. v = <<v[1], v[2]>> /\ w = <<w[1], w[2]>>
      BY DEF Visits
    <3> QED BY <2>1, <2>2, <2>3, <3>1
  <2>5. e >= 2
    BY <1>5, <2>2, <2>3, <2>4, TwoOf
  <2> HIDE DEF e, p
  <2> QED BY <1>8, <1>9, <2>5
<1>11. CASE \E n, o \in PickedIn(d) : n # o
  <2>1. p >= 2
    BY <1>6, <1>11, TwoOf DEF P
  <2> HIDE DEF e, p
  <2> QED BY <1>8, <1>9, <2>1
<1>12. CASE Visits(d) # {} /\ PickedIn(d) # {}
  <2>1. E # {} /\ P # {}
    BY <1>7, <1>12 DEF P
  <2>2. e >= 1 /\ p >= 1
    BY <1>5, <1>6, <2>1, OneOf
  <2> HIDE DEF e, p
  <2> QED BY <1>8, <1>9, <2>2
<1> QED BY <1>10, <1>11, <1>12 DEF ResolvedTwice

\* A build compiles the sources of the commits it locks: the clone a package
\* was read from is still at its commit when `order` is compiled and written,
\* unless it was opened twice for one resolution.
THEOREM CompilesWhatItLocksSafe == Spec => []CompilesWhatItLocks
<1>1. ASSUME Inv, CloneInv
      PROVE  CompilesWhatItLocks
  <2> SUFFICES ASSUME phase \in {"compile", "write"}, NEW k \in DOMAIN order,
                      order[k].commit # NoCommit, ResolvedOnce(order[k].dir)
               PROVE  TreeIn(cache, order[k].dir) = order[k].commit
    BY Zenon DEF CompilesWhatItLocks
  <2>1. stack = <<>> /\ TypeOK
    BY <1>1 DEF Inv, Phases
  <2>2. Stands(order[k])
    BY <1>1 DEF CloneInv, ClonesStand
  <2>3. ~ResolvedTwice(order[k].dir)
    BY <1>1, <2>1, TwiceIsNotOnce
  <2> QED BY <2>2, <2>3 DEF Stands
<1> QED BY <1>1, Invariance, CloneInvariance, PTL
-----------------------------------------------------------------------------
(* What a package is known to depend on.                                     *)

LEMMA ToldStays ==
    ASSUME NEW pk, NEW pk1, NEW m \in Read, NEW n \in Nat, n <= Len(m.deps),
           \A x \in PkgNames : pk[x] # NoPick => pk1[x] = pk[x],
           \A i \in 1..n : Served(pk, m.deps[i])
    PROVE  \A d : LeadTo(pk1, m, n, d) <=> LeadTo(pk, m, n, d)
<1>1. \A i \in 1..n : Target(pk1, m.deps[i]) = Target(pk, m.deps[i])
  <2> TAKE i \in 1..n
  <2>1. i \in 1..Len(m.deps)
    BY DEF Read, Manifest
  <2>2. /\ m.deps[i].name \in PkgNames
        /\ m.deps[i].kind \in {"path", "git", "registry"}
    BY <2>1, EntryType
  <2>3. CASE m.deps[i].kind = "registry"
    <3>1. pk1[m.deps[i].name] = pk[m.deps[i].name]
      BY <2>2, <2>3, Zenon DEF Served
    <3> QED BY <2>3, <3>1 DEF Target
  <2>4. CASE m.deps[i].kind # "registry"
    BY <2>2, <2>4 DEF Target
  <2> QED BY <2>3, <2>4
<1> QED BY <1>1, Zenon DEF LeadTo

\* Picks stay, and more packages are loaded: what is known stays known.
LEMMA KnownStays ==
    ASSUME TypeOK, EntriesSettled,
           \A x \in PkgNames : picks[x] # NoPick => picks'[x] = picks[x],
           \A c : Loaded(c) => Loaded(c)'
    PROVE  /\ \A k \in DOMAIN order : \A f :
                 f = order[k] /\ KnowsAll(f) => KnowsAll(f)'
           /\ \A k \in DOMAIN stack : \A f :
                 f = stack[k] /\ KnowsSoFar(f) => KnowsSoFar(f)'
<1>1. ASSUME NEW k \in DOMAIN order, NEW f, f = order[k], KnowsAll(f)
      PROVE  KnowsAll(f)'
  <2> DEFINE n == Len(f.manifest.deps)
  <2>1. f.manifest \in Read
    <3>1. f \in Package
      BY <1>1 DEF TypeOK
    <3> QED BY <3>1 DEF Package
  <2>2. n \in Nat /\ n <= Len(f.manifest.deps) /\ DOMAIN f.manifest.deps = 1..n
    BY <2>1 DEF Read, Manifest
  <2>3. \A i \in 1..n : Served(picks, f.manifest.deps[i])
    BY <1>1, <2>2 DEF EntriesSettled, Settled
  <2> HIDE DEF n
  <2>4. \A d : LeadTo(picks', f.manifest, n, d) <=> LeadTo(picks, f.manifest, n, d)
    BY <2>1, <2>2, <2>3, ToldStays
  <2> QED BY <1>1, <2>4, Zenon DEF KnowsAll, Told, n
<1>2. ASSUME NEW k \in DOMAIN stack, NEW f, f = stack[k], KnowsSoFar(f)
      PROVE  KnowsSoFar(f)'
  <2> DEFINE n == f.next - 1
  <2>1. f \in Frame /\ f.manifest \in Read
    <3>1. f \in Frame
      BY <1>2 DEF TypeOK
    <3> QED BY <3>1 DEF Frame
  <2>2. n \in Nat /\ n <= Len(f.manifest.deps)
    BY <2>1 DEF Frame, Read, Manifest
  <2>3. \A i \in 1..n : Served(picks, f.manifest.deps[i])
    BY <1>2 DEF EntriesSettled, Settled
  <2> HIDE DEF n
  <2>4. \A d : LeadTo(picks', f.manifest, n, d) <=> LeadTo(picks, f.manifest, n, d)
    BY <2>1, <2>2, <2>3, ToldStays
  <2> QED BY <1>2, <2>4, Zenon DEF KnowsSoFar, Told, n
<1> QED BY <1>1, <1>2, Zenon

\* A package is done with one more entry.
LEMMA KnowsNext ==
    ASSUME NEW f \in Frame, f.next <= Len(f.manifest.deps), NEW d \in Dirs,
           KnowsSoFar(f)', Loaded(d)',
           Target(picks', f.manifest.deps[f.next]) = d
    PROVE  KnowsSoFar(Advance(f, d))'
<1> DEFINE g == Advance(f, d)
           m == f.manifest
           n == f.next
<1>1. g.manifest = m /\ g.next = n + 1
  BY AdvanceType
<1>2. \A c : c \in g.deps <=> c \in f.deps \/ c = d
  <2>1. g.deps = f.deps \cup {d}
    BY DEF Advance, Frame
  <2> QED BY <2>1
<1>3. n \in Nat \ {0}
  BY DEF Frame
<1>4. \A i : i \in 1..n <=> i \in 1..(n - 1) \/ i = n
  BY <1>3
<1>5. g.next - 1 = n
  BY <1>1, <1>3
<1> DEFINE before == n - 1
<1>6. \A c : c \in f.deps <=> LeadTo(picks', m, before, c)
  BY Zenon DEF KnowsSoFar, Told
<1>7. \A i : i \in 1..n <=> i \in 1..before \/ i = n
  BY <1>4
<1>8. Target(picks', m.deps[n]) = d /\ \A c : c \in f.deps => Loaded(c)'
  BY Zenon DEF KnowsSoFar
<1> HIDE DEF g, m, n, before
<1>9. \A c : LeadTo(picks', m, n, c) <=> LeadTo(picks', m, before, c) \/ c = d
  BY <1>7, <1>8, Zenon DEF LeadTo
<1>10. \A c : c \in g.deps <=> LeadTo(picks', m, n, c)
  BY <1>2, <1>6, <1>9, Zenon
<1>11. \A c : c \in g.deps => Loaded(c)'
  BY <1>2, <1>8, Zenon
<1>12. KnowsSoFar(g)'
  BY <1>1, <1>5, <1>10, <1>11, Zenon DEF KnowsSoFar, Told
<1> QED BY <1>12 DEF g

LEMMA NewKnows ==
    ASSUME NEW d, NEW m, NEW commit, NEW origin
    PROVE  /\ KnowsSoFar(NewFrame(d, m, commit, origin))
           /\ KnowsSoFar(NewFrame(d, m, commit, origin))'
<1> DEFINE f == NewFrame(d, m, commit, origin)
<1>1. f.deps = {} /\ f.next = 1
  BY DEF NewFrame
<1>2. 1..(f.next - 1) = {}
  BY <1>1
<1> HIDE DEF f
<1>3. KnowsSoFar(f) /\ KnowsSoFar(f)'
  BY <1>1, <1>2 DEF KnowsSoFar, Told, LeadTo
<1> QED BY <1>3 DEF f

LEMMA ReachesDeps ==
    ASSUME Inv, DepsInv, AtEntry, NEW d, NEW m, NEW commit, NEW origin, NEW pk,
           Leads(d, m, commit, origin, pk), Reaches(d, m, commit, origin, pk)
    PROVE  DepsInv'
<1> USE DEF Inv
<1> DEFINE n == Len(stack)
<1>0. n = Len(stack)
  OBVIOUS
<1> HIDE DEF n
<1>1. /\ stack' \in Seq(Frame) /\ n \in Nat \ {0}
      /\ \A k \in 1..(n - 1) : stack'[k] = stack[k]
      /\ \/ /\ Loaded(d) /\ Len(stack') = n
            /\ stack'[n] = Advance(Top, d)
         \/ /\ ~Loaded(d) /\ ~OnStack(d) /\ Len(stack') = n + 1
            /\ stack'[n] = Top
            /\ stack'[n + 1] = NewFrame(d, m, commit, origin)
  BY <1>0, ReachesStack
<1>2. /\ Top \in Frame /\ Top = stack[n] /\ n \in DOMAIN stack
      /\ DOMAIN stack = 1..n /\ DOMAIN stack' = 1..Len(stack')
      /\ order' = order /\ picks' = pk /\ stack \in Seq(Frame)
      /\ Entry = Top.manifest.deps[Top.next]
      /\ Top.next <= Len(Top.manifest.deps)
  <2>1. /\ stack \in Seq(Frame) /\ order' = order /\ picks' = pk
        /\ Top.next <= Len(Top.manifest.deps)
        /\ Top = stack[n] /\ Entry = Top.manifest.deps[Top.next]
    BY <1>0 DEF TypeOK, Reaches, Top, AtEntry, Entry
  <2>2. Top \in Frame /\ n \in DOMAIN stack
    BY <1>0, AtEntryType
  <2>3. DOMAIN stack = 1..n /\ DOMAIN stack' = 1..Len(stack')
    BY <1>0, <1>1, <2>1
  <2> QED BY <2>1, <2>2, <2>3
<1>3. /\ \A c : Loaded(c) <=> Loaded(c)'
      /\ \A x \in PkgNames : picks[x] # NoPick => picks'[x] = picks[x]
      /\ d \in Dirs /\ Target(picks', Entry) = d
  <2>1. \A c : Loaded(c) <=> Loaded(c)'
    BY <1>2, Zenon DEF Loaded
  <2>2. \A x \in PkgNames : picks[x] # NoPick => pk[x] = picks[x]
    BY Zenon DEF Leads
  <2> QED BY <1>2, <2>1, <2>2, Zenon DEF Leads
<1>4. /\ \A k \in DOMAIN order : \A f :
            f = order[k] /\ KnowsAll(f) => KnowsAll(f)'
      /\ \A k \in DOMAIN stack : \A f :
            f = stack[k] /\ KnowsSoFar(f) => KnowsSoFar(f)'
  BY <1>3, KnownStays
<1>5. \A k \in DOMAIN order : \A f : f = order'[k] => KnowsAll(f)'
  BY <1>2, <1>4, Zenon DEF DepsInv
<1>6. \A k \in 1..n : \A f : f = stack[k] => KnowsSoFar(f)'
  BY <1>2, <1>4, Zenon DEF DepsInv
\* The entries that led to the next package on the stack still do.
<1>7. \A k \in 1..(n - 1) :
          Target(picks', stack[k].manifest.deps[stack[k].next])
              = stack[k + 1].dir
  <2> TAKE k \in 1..(n - 1)
  <2> DEFINE e == stack[k].manifest.deps[stack[k].next]
  <2>1. /\ stack[k].next <= Len(stack[k].manifest.deps)
        /\ Served(picks, e) /\ Target(picks, e) = stack[k + 1].dir
    BY <1>0 DEF EntriesSettled, LeadsTo, DepsInv
  <2>2. stack[k] \in Frame
    <3>1. k \in 1..n
      BY <1>1
    <3>2. stack \in Seq(Frame) /\ k \in DOMAIN stack
      BY <1>2, <3>1
    <3> QED BY <3>2
  <2>3. /\ stack[k].manifest \in Read
        /\ stack[k].next \in 1..Len(stack[k].manifest.deps)
    BY <2>1, <2>2 DEF Frame, Read, Manifest
  <2>4. e.name \in PkgNames /\ e.kind \in {"path", "git", "registry"}
    BY <2>3, EntryType
  <2> HIDE DEF e
  <2>5. Target(picks', e) = Target(picks, e)
    <3>1. CASE e.kind = "registry"
      <4>1. picks'[e.name] = picks[e.name]
        BY <1>3, <2>1, <2>4, <3>1, Zenon DEF Served
      <4> QED BY <3>1, <4>1 DEF Target
    <3>2. CASE e.kind # "registry"
      BY <2>4, <3>2 DEF Target
    <3> QED BY <3>1, <3>2
  <2> QED BY <2>1, <2>5 DEF e
<1>8. ASSUME Loaded(d), Len(stack') = n, stack'[n] = Advance(Top, d)
      PROVE  DepsInv'
  <2>1. ASSUME NEW f, f = Top
        PROVE  KnowsSoFar(Advance(f, d))'
    <3>1. KnowsSoFar(f)' /\ Loaded(d)'
      BY <1>1, <1>2, <1>3, <1>6, <1>8, <2>1
    <3> QED BY <1>2, <1>3, <2>1, <3>1, KnowsNext
  <2>2. /\ \A k \in DOMAIN stack' : k \in 1..(n - 1) \/ k = n
        /\ \A k \in 1..(n - 1) : k \in 1..n /\ stack'[k] = stack[k]
    BY <1>1, <1>2, <1>8
  <2>3. ASSUME NEW k \in DOMAIN stack', NEW g, g = stack'[k]
        PROVE  KnowsSoFar(g)'
    <3>1. CASE k = n
      BY <1>8, <2>1, <2>3, <3>1
    <3>2. CASE k # n
      BY <1>6, <2>2, <2>3, <3>2
    <3> QED BY <3>1, <3>2
  <2>4. \A k \in 1..(n - 1) :
            Target(picks', stack'[k].manifest.deps[stack'[k].next])
                = stack'[k + 1].dir
    <3> TAKE k \in 1..(n - 1)
    <3>1. stack'[k + 1].dir = stack[k + 1].dir
      <4>1. CASE k + 1 = n
        <5>1. Advance(Top, d).dir = Top.dir
          BY <1>2, <1>3, AdvanceType
        <5> QED BY <1>2, <1>8, <4>1, <5>1
      <4>2. CASE k + 1 # n
        <5>1. k + 1 \in 1..(n - 1)
          BY <1>1, <4>2
        <5> QED BY <2>2, <5>1
      <4> QED BY <4>1, <4>2
    <3> QED BY <1>7, <2>2, <3>1
  <2> QED BY <1>2, <1>5, <1>8, <2>3, <2>4, Zenon DEF DepsInv
<1>9. ASSUME Len(stack') = n + 1, stack'[n] = Top,
             stack'[n + 1] = NewFrame(d, m, commit, origin)
      PROVE  DepsInv'
  <2>1. /\ \A k \in DOMAIN stack' : k \in 1..n \/ k = n + 1
        /\ \A k \in 1..n : stack'[k] = stack[k]
        /\ \A k \in 1..(Len(stack') - 1) : k \in 1..(n - 1) \/ k = n
        /\ \A k \in 1..(n - 1) : k \in 1..n /\ k + 1 \in 1..n
        /\ n \in 1..n
    BY <1>1, <1>2, <1>9
  <2>2. ASSUME NEW k \in DOMAIN stack', NEW g, g = stack'[k]
        PROVE  KnowsSoFar(g)'
    <3>1. CASE k = n + 1
      BY <1>9, <2>2, <3>1, NewKnows
    <3>2. CASE k # n + 1
      BY <1>6, <2>1, <2>2, <3>2
    <3> QED BY <3>1, <3>2
  <2>3. \A k \in 1..(Len(stack') - 1) :
            Target(picks', stack'[k].manifest.deps[stack'[k].next])
                = stack'[k + 1].dir
    <3> TAKE k \in 1..(Len(stack') - 1)
    <3>1. CASE k = n
      <4>1. NewFrame(d, m, commit, origin).dir = d
        BY DEF NewFrame
      <4> QED BY <1>2, <1>3, <1>9, <3>1, <4>1
    <3>2. CASE k # n
      BY <1>7, <2>1, <3>2
    <3> QED BY <3>1, <3>2
  <2> QED BY <1>2, <1>5, <2>2, <2>3, Zenon DEF DepsInv
<1> QED BY <1>1, <1>8, <1>9

LEMMA FinishDeps ==
    ASSUME Inv, DepsInv, Finish \/ FinishRoot
    PROVE  DepsInv' \/ Return
<1> USE DEF Inv
<1> DEFINE n == Len(stack)
           up == n - 1
           m == Len(order) + 1
<1>1. /\ phase = "visit" /\ Top.next > Len(Top.manifest.deps)
      /\ n \in Nat \ {0} /\ DOMAIN stack = 1..n /\ n \in DOMAIN stack
      /\ Top = stack[n] /\ Top \in Frame /\ order \in Seq(Package)
  BY TopType DEF TypeOK, Top, Finish, FinishRoot
<1>2. CASE Return
  BY <1>2
<1>3. ASSUME ~Return
      PROVE  DepsInv'
  <2>1. order' = Append(order, Resolved) /\ picks' = picks
    BY <1>3 DEF Finish, FinishRoot, Fail
  <2>2. /\ order' = [k \in 1..m |-> IF k = m THEN Resolved ELSE order[k]]
        /\ \A k \in 1..m : k # m => k \in DOMAIN order
    <3>1. order' = [k \in 1..m |-> IF k = m THEN Resolved ELSE order[k]]
      BY <1>1, <2>1, AppendIs
    <3> QED BY <1>1, <3>1
  <2>3. \A c : Loaded(c)' <=> Loaded(c) \/ c = Top.dir
    BY <1>1, <2>1, FinishOrder
  <2>4. /\ \A k \in DOMAIN order : \A f :
              f = order[k] /\ KnowsAll(f) => KnowsAll(f)'
        /\ \A k \in DOMAIN stack : \A f :
              f = stack[k] /\ KnowsSoFar(f) => KnowsSoFar(f)'
    BY <2>1, <2>3, KnownStays
  <2>5. \A k \in DOMAIN stack : \A f : f = stack[k] => KnowsSoFar(f)'
    BY <2>4, Zenon DEF DepsInv
  \* The entries of the package at the top are all done.
  <2>6. ASSUME NEW f, f = Resolved
        PROVE  KnowsAll(f)'
    <3>1. PICK g : g = Top
      OBVIOUS
    <3>2. KnowsSoFar(g)' /\ g \in Frame
      BY <1>1, <2>5, <3>1
    <3>3. f.deps = g.deps /\ f.manifest = g.manifest
      BY <2>6, <3>1 DEF Resolved
    <3>4. g.next - 1 = Len(g.manifest.deps)
      <4>1. g.next > Len(g.manifest.deps)
        BY <1>1, <3>1
      <4>2. /\ g.next \in Nat /\ Len(g.manifest.deps) \in Nat
            /\ g.next <= Len(g.manifest.deps) + 1
        BY <3>2 DEF Frame, Read, Manifest
      <4> QED BY <4>1, <4>2
    <3> QED BY <3>2, <3>3, <3>4, Zenon DEF KnowsSoFar, KnowsAll, Told
  <2>7. ASSUME NEW k \in DOMAIN order', NEW f, f = order'[k]
        PROVE  KnowsAll(f)'
    <3> HIDE DEF m
    <3>1. CASE k = m
      BY <2>2, <2>6, <2>7, <3>1
    <3>2. CASE k # m
      <4>1. k \in DOMAIN order /\ f = order[k]
        BY <2>2, <2>7, <3>2
      <4> QED BY <2>4, <4>1, Zenon DEF DepsInv
    <3> QED BY <3>1, <3>2
  <2>8. CASE FinishRoot
    <3>1. DOMAIN stack' = {} /\ 1..(Len(stack') - 1) = {}
      BY <2>8 DEF FinishRoot
    <3> QED BY <2>7, <3>1, Zenon DEF DepsInv
  <2>9. CASE Finish
    <3> DEFINE d == Top.dir
    <3>1. Top.manifest.lib
      BY <1>3, <2>9 DEF Finish, Fail
    <3>2. /\ up \in Nat \ {0} /\ n = up + 1 /\ d \in Dirs /\ stack[up] \in Frame
          /\ stack[up].next <= Len(stack[up].manifest.deps)
          /\ stack' \in Seq(Frame) /\ Len(stack') = up
          /\ \A k \in 1..(up - 1) : stack'[k] = stack[k]
          /\ stack'[up] = Advance(stack[up], d)
          /\ \A k \in 1..up : stack'[k].dir = stack[k].dir
      BY <2>9, <3>1, FinishStack
    <3>3. Target(picks, stack[up].manifest.deps[stack[up].next]) = d
      <4>1. up \in 1..(Len(stack) - 1) /\ stack[up + 1] = Top
        BY <1>1, <3>2
      <4> QED BY <4>1 DEF DepsInv
    <3>4. /\ \A k \in DOMAIN stack' : k \in 1..(up - 1) \/ k = up
          /\ \A k \in 1..(up - 1) : k \in DOMAIN stack /\ k + 1 \in 1..up
          /\ \A k \in 1..(up - 1) : k \in 1..(Len(stack) - 1)
          /\ up \in DOMAIN stack /\ 1..(Len(stack') - 1) = 1..(up - 1)
      BY <1>1, <3>2
    <3> HIDE DEF n, up, d
    <3>5. ASSUME NEW f, f = stack[up], NEW c, c = d
          PROVE  KnowsSoFar(Advance(f, c))'
      <4>1. KnowsSoFar(f)' /\ Loaded(c)'
        BY <2>3, <2>5, <3>4, <3>5 DEF d
      <4>2. Target(picks', f.manifest.deps[f.next]) = c
        BY <2>1, <3>3, <3>5
      <4> QED BY <3>2, <3>5, <4>1, <4>2, KnowsNext
    <3>6. ASSUME NEW k \in DOMAIN stack', NEW g, g = stack'[k]
          PROVE  KnowsSoFar(g)'
      <4>1. CASE k = up
        BY <3>2, <3>5, <3>6, <4>1
      <4>2. CASE k # up
        BY <2>5, <3>2, <3>4, <3>6, <4>2
      <4> QED BY <4>1, <4>2
    <3>7. \A k \in 1..(Len(stack') - 1) :
              Target(picks', stack'[k].manifest.deps[stack'[k].next])
                  = stack'[k + 1].dir
      <4> TAKE k \in 1..(Len(stack') - 1)
      <4>1. Target(picks, stack[k].manifest.deps[stack[k].next])
               = stack[k + 1].dir
        BY <3>4, Zenon DEF DepsInv
      <4> QED BY <2>1, <3>2, <3>4, <4>1
    <3> QED BY <2>7, <3>6, <3>7, Zenon DEF DepsInv
  <2> QED BY <2>8, <2>9
<1> QED BY <1>2, <1>3

LEMMA ReturnDeps ==
    ASSUME Return
    PROVE  DepsInv'
<1>1. DOMAIN order' = {} /\ DOMAIN stack' = {} /\ 1..(Len(stack') - 1) = {}
  BY DEF Return
<1> QED BY <1>1, Zenon DEF DepsInv

LEMMA BeginDeps ==
    ASSUME NEW c, Resolve(c)
    PROVE  DepsInv'
<1>1. PICK f : f = NewFrame(RootDir, rootManifest, NoCommit, PathOrigin)
  OBVIOUS
<1>2. KnowsSoFar(f)'
  <2>1. \A m, o, g : g = NewFrame(RootDir, m, NoCommit, o) => KnowsSoFar(g)'
    BY NewKnows
  <2> QED BY <1>1, <2>1
<1>3. DOMAIN order' = {} /\ stack' = <<f>>
  BY <1>1 DEF Resolve
<1>4. DOMAIN stack' = {1} /\ stack'[1] = f /\ 1..(Len(stack') - 1) = {}
  BY <1>3
<1>5. \A k \in DOMAIN stack' : KnowsSoFar(stack[k])'
  BY <1>2, <1>4
<1> QED BY <1>3, <1>4, <1>5, Zenon DEF DepsInv

LEMMA AsideDeps ==
    ASSUME DepsInv, UNCHANGED <<stack, order, picks>>
    PROVE  DepsInv'
<1>1. /\ \A c : Loaded(c)' <=> Loaded(c)
      /\ stack' = stack /\ order' = order /\ picks' = picks
  BY Zenon DEF Loaded
<1>2. \A f : (KnowsAll(f)' <=> KnowsAll(f)) /\ (KnowsSoFar(f)' <=> KnowsSoFar(f))
  BY <1>1, Zenon DEF KnowsAll, KnowsSoFar, Told
<1> QED BY <1>1, <1>2, Zenon DEF DepsInv

LEMMA EntryDeps ==
    ASSUME Inv, DepsInv, PathEntry \/ GitEntry \/ RegistryAgain
                             \/ RegistryPinned \/ RegistryFresh
    PROVE  DepsInv' \/ Return
<1> USE DEF Inv
<1>1. EntryStep /\ AtEntry
  BY PathStep, GitStep, AgainStep, PinnedStep, FreshStep
     DEF PathEntry, GitEntry, RegistryAgain, RegistryPinned, RegistryFresh,
         AtFirstRegistryEntry
<1>2. CASE Fail
  BY <1>2 DEF Fail
<1>3. CASE ~Fail
  <2>1. PICK d, m, commit, origin, pk :
            Leads(d, m, commit, origin, pk) /\ Reaches(d, m, commit, origin, pk)
    BY <1>1, <1>3 DEF EntryStep
  <2> QED BY <1>1, <2>1, ReachesDeps
<1> QED BY <1>2, <1>3

LEMMA DepsNext == Inv /\ DepsInv /\ [Next]_vars => DepsInv'
<1> SUFFICES ASSUME Inv, DepsInv, [Next]_vars PROVE DepsInv'
  OBVIOUS
<1>1. CASE PathEntry \/ GitEntry \/ RegistryAgain \/ RegistryPinned
               \/ RegistryFresh \/ Finish \/ FinishRoot
  BY <1>1, EntryDeps, FinishDeps, ReturnDeps
<1>2. CASE FetchFails \/ Listed \/ CompileFails \/ WriteLock \/ Crash
  BY <1>2, ReturnDeps
     DEF FetchFails, Listed, CompileFails, WriteLock, Crash, Fail
<1>3. CASE Build \/ List \/ \E names \in SUBSET PkgNames : Update(names)
  BY <1>3, BeginDeps DEF Build, List, Update
<1>4. CASE \/ Compile
           \/ \E m \in RootManifests[project] : EditManifest(m)
           \/ \E n \in PkgNames : Publish(n)
           \/ \E u \in Urls, b \in Names, x \in Commits : Push(u, b, x)
           \/ UNCHANGED vars
  BY <1>4, AsideDeps DEF Compile, EditManifest, Publish, Push, vars
<1> QED BY <1>1, <1>2, <1>3, <1>4 DEF Next, Run

\* What the packages of `order` are known to depend on is what their entries
\* lead to.
THEOREM DepsInvariance == Spec => []DepsInv
<1>1. Init => DepsInv
  <2> SUFFICES ASSUME Init PROVE DepsInv
    OBVIOUS
  <2>1. DOMAIN order = {} /\ DOMAIN stack = {} /\ 1..(Len(stack) - 1) = {}
    BY DEF Init
  <2> QED BY <2>1, Zenon DEF DepsInv
<1> QED BY <1>1, DepsNext, Invariance, PTL DEF Spec
-----------------------------------------------------------------------------
(* What a package is linked with.                                            *)

LEMMA KeysAre ==
    ASSUME NEW d, NEW n
    PROVE  n \in KeysOf(d) <=>
               \E k \in DOMAIN order :
                  /\ order[k].dir = d
                  /\ \E i \in DOMAIN order[k].manifest.deps :
                        n = order[k].manifest.deps[i].name
<1> DEFINE names(k) == {order[k].manifest.deps[i].name :
                           i \in DOMAIN order[k].manifest.deps}
           those == {k \in DOMAIN order : order[k].dir = d}
<1>1. KeysOf(d) = UNION {names(k) : k \in those}
  BY Zenon DEF KeysOf
<1>2. \A k : n \in names(k) <=> \E i \in DOMAIN order[k].manifest.deps :
                                   n = order[k].manifest.deps[i].name
  BY Zenon
<1>3. \A k : k \in those <=> k \in DOMAIN order /\ order[k].dir = d
  BY Zenon
<1> HIDE DEF names, those
<1>4. n \in KeysOf(d) <=> \E k \in those : n \in names(k)
  BY <1>1
<1> QED BY <1>2, <1>3, <1>4, Zenon

\* Of packages with different names, `byName` finds each.
LEMMA NamedOnce ==
    ASSUME order \in Seq(Package), NamesDiffer, NEW n, NEW c
    PROVE  c \in ByName(n) <=>
               \E k \in DOMAIN order :
                  order[k].manifest.name = n /\ order[k].dir = c
<1> DEFINE mine == {k \in DOMAIN order : order[k].manifest.name = n}
           last == CHOOSE k \in mine : \A j \in mine : j <= k
<1>1. ByName(n) = IF mine = {} THEN {} ELSE {order[last].dir}
  BY Zenon DEF ByName
<1>2. ASSUME mine # {}
      PROVE  mine = {last}
  <2>1. PICK k \in mine : TRUE
    BY <1>2
  <2>2. \A j \in mine : j = k
    BY <2>1, Zenon DEF NamesDiffer
  <2>3. k \in Nat
    BY <2>1
  <2>4. k <= k
    BY <2>3
  <2>5. \E i \in mine : \A j \in mine : j <= i
    BY <2>2, <2>4, Zenon
  <2>6. last \in mine
    BY <2>5, Zenon
  <2> HIDE DEF last, mine
  <2> QED BY <2>1, <2>2, <2>6
<1>3. \A k : k \in mine <=> k \in DOMAIN order /\ order[k].manifest.name = n
  BY Zenon
<1> HIDE DEF mine, last
<1>4. c \in ByName(n) <=> \E k \in mine : c = order[k].dir
  <2>1. CASE mine = {}
    BY <1>1, <2>1
  <2>2. CASE mine # {}
    <3>1. \A k : k \in mine <=> k = last
      BY <1>2, <2>2
    <3>2. c \in ByName(n) <=> c = order[last].dir
      BY <1>1, <2>2
    <3> QED BY <3>1, <3>2, Zenon
  <2> QED BY <2>1, <2>2
<1> QED BY <1>3, <1>4, Zenon

\* When keys are names, and names are different, the packages found through
\* them are the dependencies.
LEMMA StepsAgree ==
    ASSUME Inv, DepsInv, \A e \in Entries : KeyIsName(e), NamesDiffer
    PROVE  LinkSteps = DependencySteps
<1>1. order \in Seq(Package)
  BY DEF Inv, TypeOK
<1>2. ASSUME NEW k \in DOMAIN order, NEW d
      PROVE  d \in order[k].deps <=>
                \E i \in DOMAIN order[k].manifest.deps :
                   Target(picks, order[k].manifest.deps[i]) = d
  <2>1. order[k].manifest \in Read
    <3>1. order[k] \in Package
      BY <1>1
    <3> QED BY <3>1 DEF Package
  <2>2. DOMAIN order[k].manifest.deps = 1..Len(order[k].manifest.deps)
    BY <2>1 DEF Read, Manifest
  <2> QED BY <2>2, Zenon DEF DepsInv, KnowsAll, Told, LeadTo
\* An entry leads to the one package of its key's name.
<1>3. ASSUME NEW k \in DOMAIN order, NEW i \in DOMAIN order[k].manifest.deps,
             NEW c
      PROVE  Target(picks, order[k].manifest.deps[i]) = c
                <=> c \in ByName(order[k].manifest.deps[i].name)
  <2> DEFINE e == order[k].manifest.deps[i]
             t == Target(picks, e)
  <2>1. KeyIsName(e)
    BY EntriesAre, Zenon
  <2>2. PICK j \in DOMAIN order : order[j].dir = t
    <3>1. t \in order[k].deps
      BY <1>2, Zenon
    <3>2. Loaded(t)
      BY <3>1, Zenon DEF DepsInv, KnowsAll
    <3> QED BY <3>2, Zenon DEF Loaded
  <2>3. order[j].manifest.name = e.name
    BY <2>1, <2>2, Zenon DEF KeyIsName
  <2> HIDE DEF e, t
  <2>4. c \in ByName(e.name) <=>
            \E l \in DOMAIN order :
               order[l].manifest.name = e.name /\ order[l].dir = c
    BY <1>1, NamedOnce
  <2>5. \A l \in DOMAIN order : order[l].manifest.name = e.name => l = j
    BY <2>3, Zenon DEF NamesDiffer
  <2>6. t = c <=> c \in ByName(e.name)
    BY <2>2, <2>3, <2>4, <2>5, Zenon
  <2> QED BY <2>6 DEF t, e
<1>4. ASSUME NEW d, NEW c
      PROVE  (\E n \in KeysOf(d) : c \in ByName(n)) <=>
                \E k \in DOMAIN order : order[k].dir = d /\ c \in order[k].deps
  <2>1. ASSUME NEW n \in KeysOf(d), c \in ByName(n)
        PROVE  \E k \in DOMAIN order : order[k].dir = d /\ c \in order[k].deps
    <3>1. PICK k \in DOMAIN order :
              /\ order[k].dir = d
              /\ \E i \in DOMAIN order[k].manifest.deps :
                    n = order[k].manifest.deps[i].name
      BY KeysAre
    <3>2. PICK i \in DOMAIN order[k].manifest.deps :
              n = order[k].manifest.deps[i].name
      BY <3>1
    <3>3. c \in ByName(order[k].manifest.deps[i].name)
      BY <2>1, <3>2
    <3>4. Target(picks, order[k].manifest.deps[i]) = c
      BY <1>3, <3>3
    <3>5. c \in order[k].deps
      BY <1>2, <3>4
    <3> QED BY <3>1, <3>5
  <2>2. ASSUME NEW k \in DOMAIN order, order[k].dir = d, c \in order[k].deps
        PROVE  \E n \in KeysOf(d) : c \in ByName(n)
    <3>1. PICK i \in DOMAIN order[k].manifest.deps :
              Target(picks, order[k].manifest.deps[i]) = c
      BY <1>2, <2>2
    <3>2. c \in ByName(order[k].manifest.deps[i].name)
      BY <1>3, <3>1
    <3>3. order[k].manifest.deps[i].name \in KeysOf(d)
      BY <2>2, KeysAre
    <3> QED BY <3>2, <3>3
  <2> QED BY <2>1, <2>2, Zenon
<1>5. \A s : (\E n \in KeysOf(s[1]) : s[2] \in ByName(n)) <=>
          \E k \in DOMAIN order : order[k].dir = s[1] /\ s[2] \in order[k].deps
  BY <1>4
<1> QED BY <1>5, Zenon DEF LinkSteps, DependencySteps

\* What collectTransitiveDeps goes by is the graph that was resolved: every
\* package is compiled and linked against all it depends on, and no more.
THEOREM LinksWholeClosureSafe == Spec => []LinksWholeClosure
<1>1. Inv /\ DepsInv => LinksWholeClosure
  <2> SUFFICES ASSUME Inv, DepsInv, \A e \in Entries : KeyIsName(e), NamesDiffer,
                      NEW d \in OrderDirs
               PROVE  LinkedWith(d) = ReachableBy(DependencySteps, d)
    BY DEF LinksWholeClosure
  <2>1. LinkSteps = DependencySteps
    BY StepsAgree
  <2> QED BY <2>1, Zenon DEF LinkedWith
<1> QED BY <1>1, Invariance, DepsInvariance, PTL
=============================================================================
