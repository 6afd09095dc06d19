------------------------------ MODULE MCCoroutine ------------------------------
(* A generator count; a generator evens that uses the variables source and t *)
(* and a task total that uses source; a task sum that calls total and itself *)
EXTENDS Coroutine, TLC

CONSTANTS count, evens, total, sum, source, view, t

Symmetry == Permutations(Frames)

MCProcs == {count, evens, total, sum}
MCShape == [p \in MCProcs |-> IF p \in {count, evens} THEN "generator" ELSE "task"]
MCVars == {source, view, t}
MCHolds == [v \in MCVars |-> CASE v = source -> {count} [] v = view -> {evens}
                               [] v = t -> {total}]
MCCalls == [p \in MCProcs |-> CASE p = count -> {} [] p = evens -> {count}
                                [] p = total -> {count} [] p = sum -> {total, sum}]
MCTouches == [p \in MCProcs |-> CASE p = count -> {} [] p = evens -> {source, t}
                                  [] p = total -> {source}
                                  [] p = sum -> {source, view, t}]
=============================================================================
