--------------------------- MODULE MCPreprocessor ---------------------------
(* Small programs for Preprocessor: a main file and two it may include.      *)
EXTENDS Preprocessor

CONSTANTS main, a, b, m, n

MCFiles == {main, a, b}

Plain == [k |-> "text"]
Def(x) == [k |-> "define", m |-> x]
Undef(x) == [k |-> "undef", m |-> x]
If(c) == [k |-> "if", c |-> c]
ElIf(c) == [k |-> "elseif", c |-> c]
ElseLine == [k |-> "else"]
End == [k |-> "endif"]
Incl(f) == [k |-> "include", f |-> f, once |-> FALSE]
Once(f) == [k |-> "include", f |-> f, once |-> TRUE]
Call(x) == [k |-> "call", m |-> x, fits |-> TRUE]
Within(x) == [k |-> "inline", m |-> x, fits |-> TRUE]
BadCall(x) == [k |-> "call", m |-> x, fits |-> FALSE]
Body(x, lines) == [k |-> "block", m |-> x, body |-> lines, as |-> "good"]
BadBody(how) == [k |-> "block", m |-> m, body |-> <<Plain>>, as |-> how]
IsDef(x) == [is |-> "def", m |-> x]
NotDef(x) == [is |-> "ndef", m |-> x]
Lit(w) == [is |-> w]

Alone(lines) == [f \in Files |-> IF f = main THEN lines ELSE <<>>]
Three(x, y, z) == [f \in Files |-> CASE f = main -> x [] f = a -> y
                                     [] f = b -> z]

\* All five lines of conditions and of what they depend on.
Chains == {Alone(s) : s \in [1..5 -> {Def(m), Undef(m), If(IsDef(m)),
                                      ElIf(NotDef(m)), ElseLine, End}]}

\* A whole chain with one nested in a branch, and conditions of all kinds.
Whole == {Alone(<<If(c), Plain, ElIf(d), If(e), Def(n), ElseLine, Plain, End,
                  ElseLine, Plain, End, Plain>>) :
            c, d, e \in {Lit("true"), Lit("false"), Lit("bad"), IsDef(n)}}

\* What cannot be used, in a branch that is taken or not.
Faults == {Alone(<<If(c), x, y, End, z>>) :
             c \in {Lit("true"), Lit("false")},
             x, y \in {[k |-> "error"], [k |-> "unknown"], Incl(NoFile),
                       BadBody("header"), Call(m), Body(m, <<Plain, Plain>>)},
             z \in {BadBody("open"), BadCall(m), Within(m)}}

Guard(x, l) == <<If(NotDef(x)), Def(x), l, End>>

\* Three lines of includes, of files that include each other.
Includes ==
    {Three(x, y, z) :
       x \in [1..3 -> {Incl(a), Once(a), Incl(b), Once(b)}],
       y \in {<<Plain>>, <<Once(b), Plain>>, <<Incl(b)>>, <<Incl(a), Plain>>,
              <<Once(main), Plain>>, <<Incl(main)>>, Guard(m, Plain),
              Guard(m, Incl(b))},
       z \in {<<Plain>>, <<Once(a), Plain>>, <<Incl(a), Plain>>,
              Guard(n, Plain), Guard(n, Once(a))}}

\* Two macros, invoked on lines of their own and within text; bodies with
\* directives, includes and other macros, the macro itself too.
Expansions ==
    {Three(<<Body(m, x), Body(n, y)>> \o z, <<Call(n), Plain>>, <<Plain>>) :
       x \in {<<>>, <<Plain, Plain>>, <<Call(n), Plain>>, <<Call(m)>>,
              <<If(IsDef(m)), Undef(m), ElseLine, Plain>>, <<Incl(a)>>},
       y \in {<<Plain>>, <<Call(m), Plain>>, <<Once(b), Def(n)>>,
              <<If(Lit("false")), [k |-> "error"], End, [k |-> "unknown"]>>},
       z \in [1..2 -> {Call(m), Within(n), Call(n), Undef(m), Incl(a)}]}

MCPrograms == Chains \cup Whole \cup Faults \cup Includes \cup Expansions
=============================================================================
