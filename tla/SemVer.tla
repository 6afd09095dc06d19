------------------------------- MODULE SemVer -------------------------------
(***************************************************************************)
(* Versions and version requirements: pkg/src/semver.cpp.                  *)
(* Parsing is abstracted to its result; components are C++ ints, so the    *)
(* `+ 1` of an upper bound overflows at IntMax.                            *)
(***************************************************************************)
EXTENDS Integers

CONSTANTS
    IntMax,     \* the largest int; 2^31 - 1 in every build of ebpm
    Wraps       \* what the build makes of overflow, which C++ leaves open: TRUE
                \* if the sum is computed, FALSE if `v < x + 1` became `v <= x`

ASSUME IntMaxAssumption == IntMax \in Nat \ {0} /\ Wraps \in BOOLEAN

Component == 0..IntMax

Version == [major : Component, minor : Component, patch : Component]

\* What parseVersionReq can return: ungiven components are 0, and an exact
\* requirement has all three.
Requirement ==
    {r \in [op : {"caret", "tilde", "exact"}, major : Component,
            minor : Component, patch : Component, precision : 1..3] :
        /\ r.op = "exact" => r.precision = 3
        /\ r.precision < 3 => r.patch = 0
        /\ r.precision < 2 => r.minor = 0}

V(a, b, c) == [major |-> a, minor |-> b, patch |-> c]

\* x + 1 on an int, as it is compared.
Inc(x) == IF x = IntMax /\ Wraps THEN -IntMax - 1 ELSE x + 1

Less(a, b) ==
    \/ a.major < b.major
    \/ a.major = b.major /\ a.minor < b.minor
    \/ a.major = b.major /\ a.minor = b.minor /\ a.patch < b.patch

LowerBound(req) == V(req.major, req.minor, req.patch)

\* Mutant: 0.x is as stable as 1.x.
CaretMajor(req) == V(Inc(req.major), 0, 0)

CaretUpperBound(req) ==
    IF req.major # 0 THEN V(Inc(req.major), 0, 0)
    ELSE IF req.precision >= 2 /\ req.minor # 0 THEN V(0, Inc(req.minor), 0)
    ELSE IF req.precision >= 3 THEN V(0, 0, Inc(req.patch))
    ELSE IF req.precision = 2 THEN V(0, 1, 0)
    ELSE V(1, 0, 0)

TildeUpperBound(req) ==
    IF req.precision >= 2 THEN V(req.major, Inc(req.minor), 0)
                          ELSE V(Inc(req.major), 0, 0)

Matches(req, v) ==
    IF req.op = "exact"
    THEN v = LowerBound(req)
    ELSE /\ ~Less(v, LowerBound(req))
         /\ Less(v, IF req.op = "caret" THEN CaretUpperBound(req)
                                        ELSE TildeUpperBound(req))
=============================================================================
