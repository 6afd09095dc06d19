------------------------------ MODULE DepGraph ------------------------------
(***************************************************************************)
(* The depth-first traversal of resolveDependencyGraph (pkg/src/resolve.cpp*)
(* `visit`): a package directory is loaded when it is first reached, its   *)
(* dependencies are visited one after the other, and it is appended to     *)
(* `order` after the last of them.                                         *)
(*                                                                         *)
(* How one dependency entry becomes a directory - by path, git or registry *)
(* - and what a manifest says is left open here: any directory, any number *)
(* of entries, with or without [lib].  Ebpm fills that in and is checked   *)
(* to be an implementation of this module.                                 *)
(***************************************************************************)
EXTENDS Naturals, Sequences, FiniteSets

CONSTANTS
    Dirs,       \* canonical package directories
    RootDir,    \* the package ebpm is run on
    MaxDeps     \* bound: dependency entries in one manifest

ASSUME DepGraphAssumption == RootDir \in Dirs /\ MaxDeps \in Nat

VARIABLES
    phase,      \* "idle", "visit" while resolving, "done" with an `order`
    stack,      \* `visiting`: the packages being resolved, root first
    order       \* `order` and `resolvedByDir`: the packages resolved so far

vars == <<phase, stack, order>>

\* A package on the stack: its directory, whether it has a [lib], how many
\* entries are still to be visited, the directories of those that were.
Frame == [dir : Dirs, lib : BOOLEAN, left : 0..MaxDeps, deps : SUBSET Dirs]

Package == [dir : Dirs, lib : BOOLEAN, deps : SUBSET Dirs]

NewFrame(d, lib, n) == [dir |-> d, lib |-> lib, left |-> n, deps |-> {}]

Top == stack[Len(stack)]

OnStack(d) == \E k \in DOMAIN stack : stack[k].dir = d
Loaded(d) == \E k \in DOMAIN order : order[k].dir = d
Lib(d) == \E k \in DOMAIN order : order[k].dir = d /\ order[k].lib

\* Frame f after its next entry led to directory d.
Advance(f, d) == [dir |-> f.dir, lib |-> f.lib, left |-> f.left - 1,
                  deps |-> f.deps \cup {d}]

Init == phase = "idle" /\ stack = <<>> /\ order = <<>>

Begin(lib, n) ==
    /\ phase = "idle"
    /\ phase' = "visit"
    /\ stack' = <<NewFrame(RootDir, lib, n)>>
    /\ order' = <<>>

\* resolveDependencyGraph returns false: nothing of the attempt remains.
Fail == phase' = "idle" /\ stack' = <<>> /\ order' = <<>>

AtEntry == phase = "visit" /\ Top.left > 0

\* The next entry leads to a package that is already in `order`.
Reach(d) ==
    /\ AtEntry
    /\ Loaded(d)
    /\ IF Lib(d)
       THEN /\ stack' = [stack EXCEPT ![Len(stack)] = Advance(@, d)]
            /\ UNCHANGED <<phase, order>>
       ELSE Fail

\* Mutant: without the look at `resolvedByDir`.
DescendAgain(d, lib, n) ==
    /\ AtEntry
    /\ ~OnStack(d)
    /\ stack' = Append(stack, NewFrame(d, lib, n))
    /\ UNCHANGED <<phase, order>>

\* ... to one that has not been seen: it is loaded and visited first.
Descend(d, lib, n) ==
    /\ AtEntry
    /\ ~Loaded(d) /\ ~OnStack(d)
    /\ stack' = Append(stack, NewFrame(d, lib, n))
    /\ UNCHANGED <<phase, order>>

\* ... back to one that is being visited (a cycle), or nowhere: a manifest
\* that cannot be read, a git command that fails, a requirement no version
\* satisfies; or ebpm is killed.
Cycle(d) == AtEntry /\ ~Loaded(d) /\ OnStack(d) /\ Fail

Nowhere == phase = "visit" /\ Fail

\* The last entry is behind: the package is appended, and the one that led
\* to it goes on if it got a [lib].
Resolved == [dir |-> Top.dir, lib |-> Top.lib, deps |-> Top.deps]

FinishRoot ==
    /\ phase = "visit" /\ Top.left = 0 /\ Len(stack) = 1
    /\ order' = Append(order, Resolved)
    /\ phase' = "done"
    /\ stack' = <<>>

\* Mutants: dependents first, and another attempt when there is no [lib].
FinishBefore ==
    /\ phase = "visit" /\ Top.left = 0 /\ Len(stack) > 1
    /\ IF Top.lib
       THEN LET up == Len(stack) - 1
            IN  /\ order' = <<Resolved>> \o order
                /\ stack' = [SubSeq(stack, 1, up) EXCEPT
                                 ![up] = Advance(@, Top.dir)]
                /\ phase' = phase
       ELSE Fail

FinishRetries ==
    /\ phase = "visit" /\ Top.left = 0 /\ Len(stack) > 1
    /\ LET up == Len(stack) - 1
       IN  IF Top.lib
           THEN /\ order' = Append(order, Resolved)
                /\ stack' = [SubSeq(stack, 1, up) EXCEPT
                                 ![up] = Advance(@, Top.dir)]
           ELSE order' = order /\ stack' = SubSeq(stack, 1, up)
    /\ phase' = phase

Finish ==
    /\ phase = "visit" /\ Top.left = 0 /\ Len(stack) > 1
    /\ IF Top.lib
       THEN LET up == Len(stack) - 1
            IN  /\ order' = Append(order, Resolved)
                /\ stack' = [SubSeq(stack, 1, up) EXCEPT
                                 ![up] = Advance(@, Top.dir)]
                /\ phase' = phase
       ELSE Fail

\* The caller is done with the result.
Return == phase = "done" /\ Fail

Visit ==
    \/ \E d \in Dirs : Reach(d) \/ Cycle(d)
    \/ \E d \in Dirs, lib \in BOOLEAN, n \in 0..MaxDeps : Descend(d, lib, n)
    \/ Nowhere \/ Finish \/ FinishRoot

Next ==
    \/ \E lib \in BOOLEAN, n \in 0..MaxDeps : Begin(lib, n)
    \/ Visit
    \/ Return

Spec == Init /\ [][Next]_vars

\* A resolution that has begun goes on: it waits for nobody.
FairSpec == Spec /\ WF_vars(Visit)
-----------------------------------------------------------------------------
TypeOK ==
    /\ phase \in {"idle", "visit", "done"}
    /\ stack \in Seq(Frame)
    /\ order \in Seq(Package)
    /\ phase = "visit" <=> stack # <<>>

\* "Dependency-first order: a package's own dependencies always appear
\* before it" (resolve.hpp).
DependenciesFirst ==
    \A k \in DOMAIN order :
        order[k].deps \subseteq {order[j].dir : j \in 1..(k - 1)}

\* "A package reachable through more than one path appears exactly once."
OnceEach ==
    \A j, k \in DOMAIN order : order[j].dir = order[k].dir => j = k

\* What makes the two true, in every step of the traversal: no package is
\* entered twice, and whatever a package has visited is in `order`.
StackIsPath ==
    /\ \A j, k \in DOMAIN stack : stack[j].dir = stack[k].dir => j = k
    /\ \A k \in DOMAIN stack : ~Loaded(stack[k].dir)

VisitedAreLoaded ==
    \A k \in DOMAIN stack : \A d \in stack[k].deps : Loaded(d)

Traversal == StackIsPath /\ VisitedAreLoaded

\* "including the root itself, always last", and every other package can be
\* linked against.
RootLast ==
    phase = "done" =>
        /\ order[Len(order)].dir = RootDir
        /\ \A k \in 1..(Len(order) - 1) : order[k].lib

\* Resolving ends, cyclic graphs included.
Terminates == phase = "visit" ~> phase # "visit"
=============================================================================
