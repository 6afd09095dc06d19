----------------------------- MODULE VersionPick -----------------------------
(***************************************************************************)
(* pickBestSatisfying of pkg/src/semver.cpp: one scan over the versions an *)
(* index file publishes, in file order, for one requirement.               *)
(***************************************************************************)
EXTENDS SemVer, Sequences

CONSTANTS
    Lists,      \* the version lists an index file may hold
    Reqs,       \* the requirements a manifest may state
    NoVersion   \* std::nullopt

ASSUME PickAssumption ==
    /\ Lists \subseteq Seq(Version)
    /\ Reqs \subseteq Requirement
    /\ NoVersion \notin Version

VARIABLES
    available,  \* the list being scanned
    req,        \* the requirement
    i,          \* the versions before position i have been looked at
    best        \* the best of them, or NoVersion

pickVars == <<available, req, i, best>>

PickInit ==
    /\ available \in Lists
    /\ req \in Reqs
    /\ i = 1
    /\ best = NoVersion

\* Mutant: the last match wins.
BetterLast(v) == Matches(req, v)

\* One round of the for loop.
Better(v) == Matches(req, v) /\ (best = NoVersion \/ Less(best, v))

Look ==
    /\ i <= Len(available)
    /\ best' = IF Better(available[i]) THEN available[i] ELSE best
    /\ i' = i + 1
    /\ UNCHANGED <<available, req>>

Done == i > Len(available) /\ UNCHANGED pickVars

PickNext == Look \/ Done

PickSpec == PickInit /\ [][PickNext]_pickVars
-----------------------------------------------------------------------------
PickTypeOK ==
    /\ available \in Lists
    /\ req \in Reqs
    /\ i \in 1..(Len(available) + 1)
    /\ best \in Version \cup {NoVersion}

Satisfying == {available[k] : k \in {k \in DOMAIN available :
                                       Matches(req, available[k])}}

\* "The highest version in `available` that matches `req`, or nullopt if
\* none does" (semver.hpp): whatever the order of the list.
PicksHighest ==
    i > Len(available) =>
        IF best = NoVersion
        THEN Satisfying = {}
        ELSE /\ best \in Satisfying
             /\ \A v \in Satisfying : ~Less(best, v)

\* The loop invariant behind it: `best` is the highest matching version among
\* those looked at so far.
BestSoFar ==
    /\ best = NoVersion =>
          \A k \in 1..(i - 1) : ~Matches(req, available[k])
    /\ best # NoVersion =>
          /\ \E k \in 1..(i - 1) : available[k] = best
          /\ Matches(req, best)
          /\ \A k \in 1..(i - 1) :
                Matches(req, available[k]) => ~Less(best, available[k])

\* What the forms mean, without ranges: a caret requirement keeps everything
\* up to its first nonzero given component (all given components when they are
\* all zero), a tilde requirement keeps major and a given minor ("patch-level
\* looseness if a minor was given at all", semver.cpp), and neither accepts
\* anything older than itself.  Another comment says otherwise: that tilde
\* "only allows the last *given* component to vary" (semver.hpp, 48-49), so
\* that ~1.2 would accept 1.3.0 and ~1 would accept 2.0.0.  The code refuses
\* both, and its tests agree.
Kept(r) ==
    IF r.op = "tilde" THEN IF r.precision >= 2 THEN 2 ELSE 1
    ELSE IF r.major # 0 \/ r.precision = 1 THEN 1
    ELSE IF r.minor # 0 \/ r.precision = 2 THEN 2
    ELSE 3

MeansCompatible(r, v) ==
    IF r.op = "exact" THEN v = LowerBound(r)
    ELSE /\ ~Less(v, LowerBound(r))
         /\ v.major = r.major
         /\ Kept(r) >= 2 => v.minor = r.minor
         /\ Kept(r) >= 3 => v.patch = r.patch

\* The last component that is kept is the one the upper bound raises by one.
Raised(r) == CASE Kept(r) = 1 -> r.major
               [] Kept(r) = 2 -> r.minor
               [] Kept(r) = 3 -> r.patch

\* Of a requirement at the largest int the upper bound may be below the lower
\* one.
Overflows(r) == Wraps /\ r.op # "exact" /\ Raised(r) = IntMax

\* The half-open ranges of matches() accept exactly the compatible versions;
\* where the bound overflows and wraps, matches() accepts nothing at all, not
\* even the version that the requirement names.
RangesMeanCompatible ==
    \A k \in DOMAIN available :
        Matches(req, available[k]) <=>
            MeansCompatible(req, available[k]) /\ ~Overflows(req)
=============================================================================
