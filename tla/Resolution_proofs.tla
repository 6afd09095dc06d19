-------------------------- MODULE Resolution_proofs --------------------------
(***************************************************************************)
(* Proofs about the two algorithms that dependency resolution rests on.    *)
(*                                                                         *)
(* VersionPick: for every list of published versions and every requirement,*)
(* the scan returns the highest matching version, and the ranges it tests  *)
(* mean what the forms mean.                                               *)
(*                                                                         *)
(* DepGraph: the traversal of resolveDependencyGraph is correct for every  *)
(* set of packages and every bound on their dependencies.                  *)
(***************************************************************************)
EXTENDS VersionPick, DepGraph, SequenceTheorems, TLAPS

-----------------------------------------------------------------------------
(* The scan of pickBestSatisfying.                                           *)

\* Versions are totally ordered, component by component.
LEMMA LessIsTransitive ==
    ASSUME NEW a \in Version, NEW b \in Version, NEW c \in Version,
           Less(a, b), ~Less(c, b)
    PROVE  Less(a, c)
BY IntMaxAssumption, SMT DEF Less, Version, Component

LEMMA LessIsIrreflexive ==
    ASSUME NEW a \in Version
    PROVE  ~Less(a, a)
BY IntMaxAssumption DEF Less, Version, Component

LEMMA LessIsTotal ==
    ASSUME NEW a \in Version, NEW b \in Version, ~Less(a, b)
    PROVE  a = b \/ Less(b, a)
BY IntMaxAssumption, SMT DEF Less, Version, Component

LEMMA PickTypeInit == PickInit => PickTypeOK
BY PickAssumption DEF PickInit, PickTypeOK

LEMMA PickTypeNext == PickTypeOK /\ [PickNext]_pickVars => PickTypeOK'
<1> SUFFICES ASSUME PickTypeOK, [PickNext]_pickVars PROVE PickTypeOK'
  OBVIOUS
<1> USE PickAssumption DEF PickTypeOK
<1>a. available \in Seq(Version)
  OBVIOUS
<1>1. CASE Look
  <2>1. i \in DOMAIN available /\ available[i] \in Version
    BY <1>1, <1>a DEF Look
  <2>2. QED BY <1>1, <1>a, <2>1 DEF Look
<1>2. CASE UNCHANGED pickVars
  BY <1>2 DEF pickVars
<1>3. QED BY <1>1, <1>2 DEF PickNext, Done

\* The type invariant of the scan, for every set of lists and requirements.
THEOREM PickTypeCorrect == PickSpec => []PickTypeOK
BY PickTypeInit, PickTypeNext, PTL DEF PickSpec

LEMMA BestInit == PickInit => BestSoFar
BY PickAssumption DEF PickInit, BestSoFar

LEMMA BestNext == PickTypeOK /\ BestSoFar /\ [PickNext]_pickVars => BestSoFar'
<1> SUFFICES ASSUME PickTypeOK, BestSoFar, [PickNext]_pickVars PROVE BestSoFar'
  OBVIOUS
<1> USE PickAssumption
<1>a. available \in Seq(Version) /\ i \in Nat \ {0}
  BY DEF PickTypeOK
<1>1. CASE Look
  <2> DEFINE v == available[i]
  <2>0. /\ v \in Version
        /\ available' = available /\ req' = req /\ i' = i + 1
        /\ best' = IF Better(v) THEN v ELSE best
        /\ 1..(i' - 1) = 1..(i - 1) \cup {i}
    BY <1>1, <1>a DEF Look
  <2>b. \A k \in 1..(i - 1) : available[k] \in Version
    BY <1>1, <1>a DEF Look
  <2>1. CASE Better(v)
    <3>1. best' = v /\ Matches(req, v) /\ best' # NoVersion
      BY <2>0, <2>1 DEF Better
    <3>2. ASSUME NEW k \in 1..(i - 1), Matches(req, available[k])
          PROVE  ~Less(v, available[k])
      <4>1. best # NoVersion
        BY <3>2 DEF BestSoFar
      <4>2. best \in Version /\ Less(best, v) /\ ~Less(best, available[k])
        BY <2>1, <3>2, <4>1 DEF Better, BestSoFar, PickTypeOK
      <4>3. available[k] \in Version
        BY <2>b, <3>2
      <4>4. ASSUME Less(v, available[k]) PROVE FALSE
        <5>1. ~Less(available[k], v)
          BY <2>0, <4>3, <4>4, IntMaxAssumption, SMT
             DEF Less, Version, Component
        <5>2. Less(best, available[k])
          BY <2>0, <4>2, <4>3, <5>1, LessIsTransitive
        <5>3. QED BY <4>2, <5>2
      <4>5. QED BY <4>4
    <3>3. ~Less(v, v)
      BY <2>0, LessIsIrreflexive
    <3>4. QED
      BY <2>0, <3>1, <3>2, <3>3 DEF BestSoFar
  <2>2. CASE ~Better(v)
    <3>1. best' = best
      BY <2>0, <2>2
    <3>2. CASE best = NoVersion
      <4>1. ~Matches(req, v)
        BY <2>2, <3>2 DEF Better
      <4>2. QED BY <2>0, <3>1, <3>2, <4>1 DEF BestSoFar
    <3>3. CASE best # NoVersion
      <4>1. Matches(req, v) => ~Less(best, v)
        BY <2>2 DEF Better
      <4>2. QED BY <2>0, <3>1, <3>3, <4>1 DEF BestSoFar
    <3>4. QED BY <3>2, <3>3
  <2>3. QED BY <2>1, <2>2
<1>2. CASE UNCHANGED pickVars
  BY <1>2 DEF pickVars, BestSoFar
<1>3. QED BY <1>1, <1>2 DEF PickNext, Done

LEMMA BestIsHighest == PickTypeOK /\ BestSoFar => PicksHighest
<1> SUFFICES ASSUME PickTypeOK, BestSoFar, i > Len(available)
             PROVE  IF best = NoVersion
                    THEN Satisfying = {}
                    ELSE /\ best \in Satisfying
                         /\ \A v \in Satisfying : ~Less(best, v)
  BY DEF PicksHighest
<1>1. 1..(i - 1) = DOMAIN available
  BY PickAssumption DEF PickTypeOK
<1>2. QED BY <1>1 DEF BestSoFar, Satisfying

\* pickBestSatisfying returns the highest matching version of any list.
THEOREM PickCorrect == PickSpec => []PicksHighest
<1>1. PickInit => PickTypeOK /\ BestSoFar
  BY PickTypeInit, BestInit
<1>2. (PickTypeOK /\ BestSoFar) /\ [PickNext]_pickVars => (PickTypeOK /\ BestSoFar)'
  BY PickTypeNext, BestNext
<1>3. QED BY <1>1, <1>2, BestIsHighest, PTL DEF PickSpec

\* The ranges of matches() against what the forms mean, where the component
\* that is raised is below the largest int, or nothing wraps.
LEMMA RangeIsMeaning ==
    ASSUME NEW r \in Requirement, NEW v \in Version, r.op # "exact",
           ~Overflows(r)
    PROVE  Matches(r, v) <=> MeansCompatible(r, v)
<1> USE IntMaxAssumption DEF Version, Component
<1>1. /\ r.major \in Nat /\ r.minor \in Nat /\ r.patch \in Nat
      /\ r.precision \in 1..3 /\ r.op \in {"caret", "tilde"}
      /\ r.precision < 3 => r.patch = 0
      /\ r.precision < 2 => r.minor = 0
  BY DEF Requirement
<1>2. Inc(Raised(r)) = Raised(r) + 1
  BY DEF Inc, Overflows
<1>3. CASE r.op = "tilde"
  <2>1. TildeUpperBound(r) = IF r.precision >= 2
                             THEN V(r.major, r.minor + 1, 0)
                             ELSE V(r.major + 1, 0, 0)
    BY <1>1, <1>2, <1>3 DEF TildeUpperBound, Raised, Kept
  <2>2. QED
    BY <1>1, <1>3, <2>1
       DEF Matches, MeansCompatible, Kept, Less, LowerBound, V
<1>4. CASE r.op = "caret"
  <2>1. CASE r.major # 0
    <3>1. CaretUpperBound(r) = V(r.major + 1, 0, 0) /\ Kept(r) = 1
      BY <1>1, <1>2, <1>4, <2>1 DEF CaretUpperBound, Raised, Kept
    <3>2. QED
      BY <1>1, <1>4, <3>1
         DEF Matches, MeansCompatible, Less, LowerBound, V
  <2>2. CASE r.major = 0 /\ r.precision >= 2 /\ r.minor # 0
    <3>1. CaretUpperBound(r) = V(0, r.minor + 1, 0) /\ Kept(r) = 2
      BY <1>1, <1>2, <1>4, <2>2 DEF CaretUpperBound, Raised, Kept
    <3>2. QED
      BY <1>1, <1>4, <2>2, <3>1
         DEF Matches, MeansCompatible, Less, LowerBound, V
  <2>3. CASE r.major = 0 /\ r.minor = 0 /\ r.precision = 3
    <3>1. CaretUpperBound(r) = V(0, 0, r.patch + 1) /\ Kept(r) = 3
      BY <1>1, <1>2, <1>4, <2>3 DEF CaretUpperBound, Raised, Kept
    <3>2. QED
      BY <1>1, <1>4, <2>3, <3>1
         DEF Matches, MeansCompatible, Less, LowerBound, V
  <2>4. CASE r.major = 0 /\ r.minor = 0 /\ r.precision = 2
    <3>1. CaretUpperBound(r) = V(0, 1, 0) /\ Kept(r) = 2
      BY <1>1, <1>4, <2>4 DEF CaretUpperBound, Kept
    <3>2. QED
      BY <1>1, <1>4, <2>4, <3>1
         DEF Matches, MeansCompatible, Less, LowerBound, V
  <2>5. CASE r.major = 0 /\ r.precision = 1
    <3>1. CaretUpperBound(r) = V(1, 0, 0) /\ Kept(r) = 1
      BY <1>1, <1>4, <2>5 DEF CaretUpperBound, Kept
    <3>2. QED
      BY <1>1, <1>4, <2>5, <3>1
         DEF Matches, MeansCompatible, Less, LowerBound, V
  <2>6. QED BY <1>1, <2>1, <2>2, <2>3, <2>4, <2>5
<1>5. QED BY <1>1, <1>3, <1>4

\* Where the bound wraps it is negative in the component that is raised, and
\* no version at or above the lower bound is below it.
LEMMA OverflowMatchesNothing ==
    ASSUME NEW r \in Requirement, NEW v \in Version, Overflows(r)
    PROVE  ~Matches(r, v)
<1> USE IntMaxAssumption DEF Version, Component
<1>1. /\ r.major \in Nat /\ r.minor \in Nat /\ r.patch \in Nat
      /\ r.precision \in 1..3 /\ r.op \in {"caret", "tilde"}
      /\ r.precision < 3 => r.patch = 0
      /\ r.precision < 2 => r.minor = 0
  BY DEF Requirement, Overflows
<1>2. /\ Raised(r) = IntMax
      /\ Inc(Raised(r)) \in Int /\ Inc(Raised(r)) < 0
  BY DEF Inc, Overflows
<1>3. CASE Kept(r) = 1
  <2>1. /\ Raised(r) = r.major
        /\ r.op = "caret" => CaretUpperBound(r) = V(Inc(r.major), 0, 0)
        /\ r.op = "tilde" => TildeUpperBound(r) = V(Inc(r.major), 0, 0)
    BY <1>1, <1>2, <1>3 DEF Raised, Kept, CaretUpperBound, TildeUpperBound
  <2>2. QED BY <1>1, <1>2, <2>1 DEF Matches, Less, LowerBound, V
<1>4. CASE Kept(r) = 2
  <2>1. /\ Raised(r) = r.minor
        /\ r.op = "caret" => CaretUpperBound(r) = V(r.major, Inc(r.minor), 0)
        /\ r.op = "tilde" => TildeUpperBound(r) = V(r.major, Inc(r.minor), 0)
    BY <1>1, <1>2, <1>4 DEF Raised, Kept, CaretUpperBound, TildeUpperBound
  <2>2. QED BY <1>1, <1>2, <2>1 DEF Matches, Less, LowerBound, V
<1>5. CASE Kept(r) = 3
  <2>1. /\ Raised(r) = r.patch /\ r.op = "caret"
        /\ CaretUpperBound(r) = V(r.major, r.minor, Inc(r.patch))
    BY <1>1, <1>2, <1>5 DEF Raised, Kept, CaretUpperBound
  <2>2. QED BY <1>1, <1>2, <2>1 DEF Matches, Less, LowerBound, V
<1>6. QED BY <1>3, <1>4, <1>5 DEF Kept

\* matches() accepts exactly the compatible versions, for every requirement
\* whose bound is a number, and nothing for the others.
THEOREM RangesCorrect == PickSpec => []RangesMeanCompatible
<1>1. PickTypeOK => RangesMeanCompatible
  <2> SUFFICES ASSUME PickTypeOK, NEW k \in DOMAIN available
               PROVE  Matches(req, available[k]) <=>
                        MeansCompatible(req, available[k]) /\ ~Overflows(req)
    BY DEF RangesMeanCompatible
  <2>1. req \in Requirement /\ available[k] \in Version
    BY PickAssumption DEF PickTypeOK
  <2>2. CASE req.op = "exact"
    BY <2>2 DEF Matches, MeansCompatible, Overflows
  <2>3. CASE req.op # "exact"
    BY <2>1, <2>3, RangeIsMeaning, OverflowMatchesNothing
  <2>4. QED BY <2>2, <2>3
<1>2. QED BY <1>1, PickTypeCorrect, PTL
-----------------------------------------------------------------------------
(* The traversal of resolveDependencyGraph.                                  *)

\* While resolving: the root is at the bottom, every package below the top
\* is at an entry, and everything in `order` can be linked against.
Pending ==
    phase = "visit" =>
        /\ stack[1].dir = RootDir
        /\ \A k \in 1..(Len(stack) - 1) : stack[k].left > 0
        /\ \A k \in DOMAIN order : order[k].lib

Inv ==
    /\ TypeOK /\ Traversal /\ Pending
    /\ DependenciesFirst /\ OnceEach /\ RootLast

USE DepGraphAssumption
-----------------------------------------------------------------------------
(* What a sequence looks like after the three operations on it.              *)

LEMMA AppendedOrder ==
    ASSUME order \in Seq(Package), NEW r \in Package,
           order' = Append(order, r)
    PROVE  /\ order' \in Seq(Package)
           /\ Len(order') = Len(order) + 1
           /\ DOMAIN order' = 1..(Len(order) + 1)
           /\ order'[Len(order) + 1] = r
           /\ \A k \in DOMAIN order : order'[k] = order[k]
           /\ DOMAIN order = 1..Len(order)
           /\ Len(order) \in Nat
BY AppendProperties

LEMMA PushedStack ==
    ASSUME stack \in Seq(Frame), NEW f \in Frame,
           stack' = Append(stack, f)
    PROVE  /\ stack' \in Seq(Frame)
           /\ Len(stack') = Len(stack) + 1
           /\ DOMAIN stack' = 1..(Len(stack) + 1)
           /\ stack'[Len(stack) + 1] = f
           /\ \A k \in DOMAIN stack : stack'[k] = stack[k]
           /\ DOMAIN stack = 1..Len(stack)
           /\ Len(stack) \in Nat
BY AppendProperties

LEMMA AdvancedFrame ==
    ASSUME NEW f \in Frame, NEW d \in Dirs, f.left > 0
    PROVE  /\ Advance(f, d) \in Frame
           /\ Advance(f, d).dir = f.dir
           /\ Advance(f, d).deps = f.deps \cup {d}
<1>1. f.left - 1 \in 0..MaxDeps
  BY DEF Frame
<1>2. f.deps \cup {d} \in SUBSET Dirs
  BY DEF Frame
<1> QED BY <1>1, <1>2 DEF Advance, Frame

\* The frame at position n of `stack` advances to d, those above it go.
LEMMA AdvancedStack ==
    ASSUME stack \in Seq(Frame), NEW n \in 1..Len(stack), NEW d \in Dirs,
           stack[n].left > 0,
           stack' = [SubSeq(stack, 1, n) EXCEPT ![n] = Advance(@, d)]
    PROVE  /\ stack' \in Seq(Frame)
           /\ Len(stack') = n
           /\ DOMAIN stack' = 1..n
           /\ stack' # <<>>
           /\ \A k \in 1..n : stack'[k].dir = stack[k].dir
           /\ \A k \in 1..(n - 1) : stack'[k] = stack[k]
           /\ stack'[n].deps = stack[n].deps \cup {d}
<1> DEFINE s == SubSeq(stack, 1, n)
<1> DEFINE f == Advance(s[n], d)
<1>1. /\ s \in Seq(Frame) /\ Len(s) = n
      /\ \A k \in 1..n : s[k] = stack[k]
  BY SubSeqProperties
<1>2. f \in Frame /\ f.dir = stack[n].dir /\ f.deps = stack[n].deps \cup {d}
  <2>1. stack[n] \in Frame
    BY ElementOfSeq
  <2> QED BY <1>1, <2>1, AdvancedFrame
<1>3. stack' = [s EXCEPT ![n] = f]
  BY <1>1
<1> HIDE DEF s, f
<1>4. /\ stack' \in Seq(Frame) /\ Len(stack') = n
      /\ \A k \in 1..n : stack'[k] = IF k = n THEN f ELSE s[k]
  <2>1. s \in Seq(Frame) /\ f \in Frame /\ n \in 1..Len(s)
    BY <1>1, <1>2
  <2>2. /\ [s EXCEPT ![n] = f] \in Seq(Frame)
        /\ Len([s EXCEPT ![n] = f]) = Len(s)
        /\ \A k \in 1..Len(s) : [s EXCEPT ![n] = f][k] = IF k = n THEN f ELSE s[k]
    BY <2>1, ExceptSeq
  <2> QED BY <1>1, <1>3, <2>2
<1> QED BY <1>1, <1>2, <1>4, LenProperties
-----------------------------------------------------------------------------
LEMMA InitInv == Init => Inv
BY DEF Init, Inv, TypeOK, Traversal, StackIsPath, VisitedAreLoaded, Pending,
       DependenciesFirst, OnceEach, RootLast, Loaded

\* A resolution that fails leaves nothing that could be wrong.
LEMMA FailInv == Fail => Inv'
BY DEF Fail, Inv, TypeOK, Traversal, StackIsPath, VisitedAreLoaded, Pending,
       DependenciesFirst, OnceEach, RootLast, Loaded

LEMMA BeginInv ==
    ASSUME NEW lib \in BOOLEAN, NEW n \in 0..MaxDeps, Begin(lib, n)
    PROVE  Inv'
<1>1. /\ NewFrame(RootDir, lib, n) \in Frame
      /\ NewFrame(RootDir, lib, n).dir = RootDir
      /\ NewFrame(RootDir, lib, n).deps = {}
  BY DEF NewFrame, Frame
<1>2. /\ stack' \in Seq(Frame) /\ stack' # <<>> /\ Len(stack') = 1
      /\ DOMAIN stack' = {1}
      /\ stack'[1] = NewFrame(RootDir, lib, n)
  BY <1>1 DEF Begin
<1>3. order' = <<>> /\ phase' = "visit" /\ DOMAIN order' = {}
  BY DEF Begin
<1> QED
  BY <1>1, <1>2, <1>3
     DEF Inv, TypeOK, Traversal, StackIsPath, VisitedAreLoaded, Pending,
         DependenciesFirst, OnceEach, RootLast, Loaded

\* The next entry leads to a package that is in `order`: it only counts as
\* visited.
LEMMA ReachInv ==
    ASSUME Inv, NEW d \in Dirs, Reach(d), Lib(d)
    PROVE  Inv'
<1> DEFINE n == Len(stack)
<1>1. /\ stack \in Seq(Frame) /\ stack # <<>> /\ n \in 1..n
      /\ stack[n].left > 0 /\ phase = "visit"
  BY LenProperties, EmptySeq DEF Inv, TypeOK, Reach, AtEntry, Top
<1>2. stack' = [SubSeq(stack, 1, n) EXCEPT ![n] = Advance(@, d)]
  <2>1. SubSeq(stack, 1, n) = stack
    BY <1>1, SubSeqFull
  <2> QED BY <2>1 DEF Reach
<1>3. /\ stack' \in Seq(Frame) /\ Len(stack') = n /\ DOMAIN stack' = 1..n
      /\ stack' # <<>>
      /\ \A k \in 1..n : stack'[k].dir = stack[k].dir
      /\ \A k \in 1..(n - 1) : stack'[k] = stack[k]
      /\ stack'[n].deps = stack[n].deps \cup {d}
  BY <1>1, <1>2, AdvancedStack
<1>4. phase' = phase /\ order' = order /\ Loaded(d)
  BY DEF Reach
<1>5. DOMAIN stack = 1..n
  BY <1>1, LenProperties
<1> HIDE DEF n
<1>6. \A x : Loaded(x)' <=> Loaded(x)
  BY <1>4 DEF Loaded
<1>7. TypeOK'
  BY <1>1, <1>3, <1>4 DEF Inv, TypeOK
<1>8. StackIsPath'
  BY <1>3, <1>5, <1>6 DEF Inv, Traversal, StackIsPath
<1>9. VisitedAreLoaded'
  <2> SUFFICES ASSUME NEW k \in 1..n, NEW x \in stack'[k].deps
               PROVE  Loaded(x)
    BY <1>3, <1>6 DEF VisitedAreLoaded
  <2>1. CASE k = n
    BY <2>1, <1>3, <1>4, <1>5 DEF Inv, Traversal, VisitedAreLoaded
  <2>2. CASE k \in 1..(n - 1)
    BY <2>2, <1>3, <1>5 DEF Inv, Traversal, VisitedAreLoaded
  <2> QED BY <2>1, <2>2, <1>1
<1>10. Pending'
  BY <1>1, <1>3, <1>4 DEF n, Inv, Pending
<1>11. DependenciesFirst' /\ OnceEach' /\ RootLast'
  BY <1>1, <1>4 DEF Inv, DependenciesFirst, OnceEach, RootLast
<1> QED BY <1>7, <1>8, <1>9, <1>10, <1>11 DEF Inv, Traversal

\* It leads to a package that was never seen: that goes on top.
LEMMA DescendInv ==
    ASSUME Inv, NEW d \in Dirs, NEW lib \in BOOLEAN, NEW m \in 0..MaxDeps,
           Descend(d, lib, m)
    PROVE  Inv'
<1> DEFINE n == Len(stack)
           f == NewFrame(d, lib, m)
<1>1. f \in Frame /\ f.dir = d /\ f.deps = {}
  BY DEF NewFrame, Frame
<1>2. /\ stack \in Seq(Frame) /\ phase = "visit" /\ stack[n].left > 0
      /\ stack' = Append(stack, f) /\ order' = order /\ phase' = phase
      /\ ~Loaded(d) /\ ~OnStack(d)
  BY DEF Inv, TypeOK, Descend, AtEntry, Top
<1> HIDE DEF f
<1>3. /\ stack' \in Seq(Frame) /\ Len(stack') = n + 1
      /\ DOMAIN stack' = 1..(n + 1) /\ stack'[n + 1] = f
      /\ \A k \in 1..n : stack'[k] = stack[k]
      /\ DOMAIN stack = 1..n /\ n \in Nat
  BY <1>1, <1>2, PushedStack
<1>4. n >= 1 /\ stack' # <<>>
  BY <1>2, <1>3, EmptySeq, LenProperties DEF Inv, TypeOK
<1> HIDE DEF n
<1>5. \A x : Loaded(x)' <=> Loaded(x)
  BY <1>2 DEF Loaded
<1>6. TypeOK'
  BY <1>2, <1>3, <1>4 DEF Inv, TypeOK
<1>7. StackIsPath'
  BY <1>1, <1>2, <1>3, <1>5 DEF Inv, Traversal, StackIsPath, OnStack
<1>8. VisitedAreLoaded'
  BY <1>1, <1>3, <1>5 DEF Inv, Traversal, VisitedAreLoaded
<1>9. Pending'
  BY <1>2, <1>3, <1>4 DEF Inv, Pending
<1>10. DependenciesFirst' /\ OnceEach' /\ RootLast'
  BY <1>2 DEF Inv, DependenciesFirst, OnceEach, RootLast
<1> QED BY <1>6, <1>7, <1>8, <1>9, <1>10 DEF Inv, Traversal

\* The top is done: it goes to the end of `order`, and the package below
\* counts it as visited, or the whole traversal is done.
LEMMA AppendedInv ==
    ASSUME Inv, phase = "visit", stack # <<>>, order' = Append(order, Resolved)
    PROVE  /\ order' \in Seq(Package)
           /\ Len(order') = Len(order) + 1
           /\ DOMAIN order' = 1..(Len(order) + 1)
           /\ order'[Len(order) + 1] = Resolved
           /\ \A k \in DOMAIN order : order'[k] = order[k]
           /\ DOMAIN order = 1..Len(order) /\ Len(order) \in Nat
           /\ \A x : Loaded(x)' <=> Loaded(x) \/ x = Top.dir
           /\ DependenciesFirst' /\ OnceEach'
<1> DEFINE n == Len(stack)
           m == Len(order)
<1>1. /\ n \in DOMAIN stack /\ stack[n] \in Frame /\ order \in Seq(Package)
      /\ DOMAIN stack = 1..n
  BY LenProperties, EmptySeq, ElementOfSeq DEF Inv, TypeOK
<1>2. /\ Resolved \in Package /\ Resolved.dir = Top.dir
      /\ Resolved.deps = stack[n].deps /\ Top.dir = stack[n].dir
  BY <1>1 DEF Resolved, Package, Frame, Top
<1>3. /\ order' \in Seq(Package) /\ Len(order') = m + 1
      /\ DOMAIN order' = 1..(m + 1) /\ order'[m + 1] = Resolved
      /\ \A k \in DOMAIN order : order'[k] = order[k]
      /\ DOMAIN order = 1..m /\ m \in Nat
  BY <1>1, <1>2, AppendedOrder
<1> HIDE DEF n, m
<1>4. \A x : Loaded(x)' <=> Loaded(x) \/ x = Top.dir
  BY <1>2, <1>3 DEF Loaded
<1>5. DependenciesFirst'
  <2> SUFFICES ASSUME NEW k \in 1..(m + 1), NEW x \in order'[k].deps
               PROVE  x \in {order'[j].dir : j \in 1..(k - 1)}
    BY <1>3 DEF DependenciesFirst
  <2>1. CASE k \in 1..m
    <3>1. PICK j \in 1..(k - 1) : x = order[j].dir
      BY <2>1, <1>3 DEF Inv, DependenciesFirst
    <3> QED BY <3>1, <2>1, <1>3
  <2>2. CASE k = m + 1
    <3>1. Loaded(x)
      BY <2>2, <1>1, <1>2, <1>3 DEF Inv, Traversal, VisitedAreLoaded
    <3>2. PICK j \in 1..m : x = order[j].dir
      BY <3>1, <1>3 DEF Loaded
    <3> QED BY <3>2, <2>2, <1>3
  <2> QED BY <2>1, <2>2, <1>3
<1>6. OnceEach'
  <2>1. ~Loaded(Top.dir)
    BY <1>1, <1>2 DEF Inv, Traversal, StackIsPath
  <2> QED BY <2>1, <1>2, <1>3 DEF Inv, OnceEach, Loaded
<1> QED BY <1>3, <1>4, <1>5, <1>6 DEF m

LEMMA FinishInv ==
    ASSUME Inv, Finish, Top.lib
    PROVE  Inv'
<1> DEFINE n == Len(stack) - 1
<1>1. /\ stack \in Seq(Frame) /\ stack # <<>> /\ phase = "visit"
      /\ phase' = phase /\ n \in 1..Len(stack) /\ n >= 1 /\ n \in Nat
      /\ DOMAIN stack = 1..(n + 1) /\ Len(stack) = n + 1
      /\ order' = Append(order, Resolved)
      /\ stack' = [SubSeq(stack, 1, n) EXCEPT ![n] = Advance(@, Top.dir)]
  BY LenProperties, EmptySeq DEF Inv, TypeOK, Finish
<1> HIDE DEF n
<1>2. stack[n].left > 0 /\ Top = stack[n + 1] /\ stack[n + 1] \in Frame
  BY <1>1, ElementOfSeq DEF Inv, Pending, Top
<1>3. Top.dir \in Dirs
  BY <1>2 DEF Frame
<1>4. /\ stack' \in Seq(Frame) /\ Len(stack') = n /\ DOMAIN stack' = 1..n
      /\ stack' # <<>>
      /\ \A k \in 1..n : stack'[k].dir = stack[k].dir
      /\ \A k \in 1..(n - 1) : stack'[k] = stack[k]
      /\ stack'[n].deps = stack[n].deps \cup {Top.dir}
  BY <1>1, <1>2, <1>3, AdvancedStack
<1>5. /\ order' \in Seq(Package) /\ DOMAIN order' = 1..(Len(order) + 1)
      /\ order'[Len(order) + 1] = Resolved
      /\ \A k \in DOMAIN order : order'[k] = order[k]
      /\ DOMAIN order = 1..Len(order) /\ Len(order) \in Nat
      /\ \A x : Loaded(x)' <=> Loaded(x) \/ x = Top.dir
      /\ DependenciesFirst' /\ OnceEach'
  BY <1>1, AppendedInv
<1>6. TypeOK'
  BY <1>1, <1>4, <1>5 DEF Inv, TypeOK
<1>7. StackIsPath'
  <2>1. \A j, k \in 1..(n + 1) : stack[j].dir = stack[k].dir => j = k
    BY <1>1 DEF Inv, Traversal, StackIsPath
  <2>2. \A j, k \in 1..n : stack'[j].dir = stack'[k].dir => j = k
    BY <2>1, <1>1, <1>4
  <2>3. ASSUME NEW k \in 1..n PROVE ~Loaded(stack[k].dir)'
    <3>1. ~Loaded(stack[k].dir)
      BY <1>1 DEF Inv, Traversal, StackIsPath
    <3>2. stack[k].dir # Top.dir
      BY <2>1, <1>1, <1>2
    <3> QED BY <3>1, <3>2, <1>4, <1>5
  <2> QED BY <2>2, <2>3, <1>4 DEF StackIsPath
<1>8. VisitedAreLoaded'
  <2> SUFFICES ASSUME NEW k \in 1..n, NEW x \in stack'[k].deps
               PROVE  Loaded(x)'
    BY <1>4 DEF VisitedAreLoaded
  <2>1. CASE k = n
    BY <2>1, <1>1, <1>4, <1>5 DEF Inv, Traversal, VisitedAreLoaded
  <2>2. CASE k \in 1..(n - 1)
    <3>1. x \in stack[k].deps /\ k \in DOMAIN stack
      BY <2>2, <1>1, <1>4
    <3> QED BY <3>1, <1>5 DEF Inv, Traversal, VisitedAreLoaded
  <2> QED BY <2>1, <2>2, <1>1
<1>9. Pending'
  <2>1. stack'[1].dir = RootDir
    BY <1>1, <1>4 DEF Inv, Pending
  <2>2. \A k \in 1..(Len(stack') - 1) : stack'[k].left > 0
    BY <1>1, <1>4 DEF Inv, Pending
  <2>3. \A k \in DOMAIN order' : order'[k].lib
    BY <1>1, <1>5 DEF Inv, Pending, Resolved
  <2> QED BY <2>1, <2>2, <2>3 DEF Pending
<1>10. RootLast'
  BY <1>1 DEF RootLast
<1> QED BY <1>5, <1>6, <1>7, <1>8, <1>9, <1>10 DEF Inv, Traversal

LEMMA FinishRootInv ==
    ASSUME Inv, FinishRoot
    PROVE  Inv'
<1>1. /\ stack # <<>> /\ phase = "visit" /\ phase' = "done" /\ stack' = <<>>
      /\ Len(stack) = 1 /\ order' = Append(order, Resolved)
  BY EmptySeq DEF Inv, TypeOK, FinishRoot
<1>2. /\ order' \in Seq(Package) /\ Len(order') = Len(order) + 1
      /\ order'[Len(order) + 1] = Resolved
      /\ \A k \in DOMAIN order : order'[k] = order[k]
      /\ DOMAIN order = 1..Len(order) /\ Len(order) \in Nat
      /\ DependenciesFirst' /\ OnceEach'
  BY <1>1, AppendedInv
<1>3. TypeOK'
  BY <1>1, <1>2 DEF TypeOK
<1>4. Traversal' /\ Pending'
  BY <1>1 DEF Traversal, StackIsPath, VisitedAreLoaded, Pending
<1>5. RootLast'
  <2>1. Resolved.dir = RootDir
    BY <1>1 DEF Inv, Pending, Resolved, Top
  <2>2. \A k \in 1..Len(order) : order'[k].lib
    BY <1>1, <1>2 DEF Inv, Pending
  <2> QED BY <2>1, <2>2, <1>2 DEF RootLast
<1> QED BY <1>2, <1>3, <1>4, <1>5 DEF Inv
-----------------------------------------------------------------------------
THEOREM Correct == Spec => []Inv
<1>1. Inv /\ [Next]_vars => Inv'
  <2> SUFFICES ASSUME Inv, [Next]_vars PROVE Inv'
    OBVIOUS
  <2>1. CASE \E lib \in BOOLEAN, n \in 0..MaxDeps : Begin(lib, n)
    BY <2>1, BeginInv
  <2>2. CASE \E d \in Dirs : Reach(d)
    BY <2>2, ReachInv, FailInv DEF Reach
  <2>3. CASE \E d \in Dirs : Cycle(d)
    BY <2>3, FailInv DEF Cycle
  <2>4. CASE \E d \in Dirs, lib \in BOOLEAN, n \in 0..MaxDeps :
                Descend(d, lib, n)
    BY <2>4, DescendInv
  <2>5. CASE Nowhere
    BY <2>5, FailInv DEF Nowhere
  <2>6. CASE Finish
    BY <2>6, FinishInv, FailInv DEF Finish
  <2>7. CASE FinishRoot
    BY <2>7, FinishRootInv
  <2>8. CASE Return
    BY <2>8, FailInv DEF Return
  <2>9. CASE UNCHANGED vars
    BY <2>9 DEF vars, Inv, TypeOK, Traversal, StackIsPath, VisitedAreLoaded,
                Pending, DependenciesFirst, OnceEach, RootLast, Loaded
  <2> QED BY <2>1, <2>2, <2>3, <2>4, <2>5, <2>6, <2>7, <2>8, <2>9
          DEF Next, Visit
<1> QED BY <1>1, InitInv, PTL DEF Spec

\* `order` only ever holds packages, and `visiting` only while resolving.
THEOREM TypeCorrect == Spec => []TypeOK
BY Correct, PTL DEF Inv

\* "Dependency-first order: a package's own dependencies always appear before
\* it" (resolve.hpp), however many packages there are.
THEOREM DependenciesAreFirst == Spec => []DependenciesFirst
BY Correct, PTL DEF Inv

\* "A package reachable through more than one path appears exactly once."
THEOREM EachOnce == Spec => []OnceEach
BY Correct, PTL DEF Inv

\* The root comes last, and all others have a [lib].
THEOREM RootIsLast == Spec => []RootLast
BY Correct, PTL DEF Inv

\* No package is entered twice: the recursion of `visit` is at most as deep
\* as there are packages, cyclic manifests included.
THEOREM NoPackageTwice == Spec => []Traversal
BY Correct, PTL DEF Inv
=============================================================================
