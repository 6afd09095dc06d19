----------------------------- MODULE MCFrontEnd -----------------------------
(***************************************************************************)
(* Small modules for FrontEnd: all short sequences of the statements of a  *)
(* menu, one menu per question.  Expressions and TYPEs are those of Sema.  *)
(***************************************************************************)
EXTENDS FrontEnd, Expressions

-----------------------------------------------------------------------------
(* Statements and expressions. *)

Num == [k |-> "int", v |-> 1]
Id(x) == [k |-> "id", x |-> x]
CallE(x, args) == [k |-> "call", on |-> NoExpr, x |-> x, args |-> args]
On(e, x, args) == [k |-> "call", on |-> e, x |-> x, args |-> args]
Dot(e, x) == [k |-> "member", on |-> e, x |-> x]
UBound(x) == CallE("ubound", <<Id(x)>>)
LBound(x) == CallE("lbound", <<Id(x)>>)
Bin(op, l, r) == [k |-> "bin", op |-> op, l |-> l, r |-> r]

DimS(x, t) == [s |-> "dim", x |-> x, t |-> t, array |-> FALSE, bounds |-> <<>>]
ArrayS(x, bounds) == [s |-> "dim", x |-> x, t |-> Integer, array |-> TRUE, bounds |-> bounds]
RedimS(x) == [s |-> "redim", x |-> x, t |-> Unknown, bounds |-> <<Num>>]
ConstS(x, e) == [s |-> "const", x |-> x, t |-> Unknown, e |-> e]
Let(x, e) == [s |-> "assign", x |-> x, index |-> NoExpr, e |-> e]
LetAt(x, i, e) == [s |-> "assign", x |-> x, index |-> i, e |-> e]
Put(target, e) == [s |-> "store", target |-> target, e |-> e]
Show(e) == [s |-> "print", args |-> <<e>>]
Jump(kind, x) == [s |-> kind, x |-> x]
Exit(what) == [s |-> "exit", what |-> what]
Ret(e) == [s |-> "return", e |-> e]
IfS(body) == [s |-> "if", conds |-> <<Num>>, blocks |-> <<body>>]
ForS(body) == [s |-> "for", x |-> "n", from |-> Num, to |-> Num, step |-> NoExpr, body |-> body]
DoS(body) == [s |-> "do", pre |-> NoExpr, post |-> Num, body |-> body]
WhileS(body) == [s |-> "while", e |-> Num, body |-> body]
SelectS(body) ==
    [s |-> "select", e |-> Num, arms |-> <<[else |-> FALSE, matches |-> <<Num>>, body |-> body],
                                           [else |-> TRUE, matches |-> <<>>, body |-> <<>>]>>]
CallS(on, x, args) == [s |-> "call", on |-> on, x |-> x, args |-> args]
Namespace(x, body) == [s |-> "ns", x |-> x, body |-> body]

Param(x, t) == [x |-> x, t |-> t, by |-> None, opt |-> FALSE]
ByRef(x, t) == [Param(x, t) EXCEPT !.by = "ref"]
Proc(x, fn, t, params, body) ==
    [s |-> "proc", x |-> x, owner |-> None, role |-> "method", fn |-> fn, t |-> t,
     params |-> params, op |-> None, extern |-> FALSE, conv |-> None, generic |-> None,
     async |-> FALSE, body |-> body]
SubS(x, params, body) == Proc(x, FALSE, Unknown, params, body)
FunctionS(x, params, body) == Proc(x, TRUE, Integer, params, body)
Async(x, t, body) == [Proc(x, TRUE, t, <<>>, body) EXCEPT !.async = TRUE]
GenericS(x, body) == [FunctionS(x, <<Param("v", User("T"))>>, body) EXCEPT !.generic = "T"]
Method(owner, role, x, fn, params, body) ==
    [Proc(x, fn, IF fn THEN Integer ELSE Unknown, params, body)
        EXCEPT !.owner = owner, !.role = role]

Field(x, t) == [x |-> x, t |-> t]
Member(role, x, fn, params, virtual, override) ==
    [role |-> role, x |-> x, fn |-> fn, params |-> params, virtual |-> virtual,
     override |-> override, t |-> IF fn THEN Integer ELSE Unknown, extern |-> FALSE, conv |-> None]
TypeS(x, extends, fields, methods) ==
    [s |-> "type", x |-> x, union |-> FALSE, extends |-> extends, fields |-> fields,
     methods |-> methods]
UnionS(x, fields) == [TypeS(x, <<>>, fields, <<>>) EXCEPT !.union = TRUE]

SeqsUpTo(menu, n) == UNION {[1..k -> menu] : k \in 1..n}
After(first, seqs) == {first \o q : q \in seqs}

-----------------------------------------------------------------------------
(* Control: spans, jumps, loops and procedures around them. *)

Control ==
    {Jump("label", "one"), Jump("label", "two"), Jump("gosub", "one"), Jump("goto", "two"),
     Ret(NoExpr), IfS(<<Ret(NoExpr)>>), SubS("p", <<>>, <<IfS(<<Ret(NoExpr)>>)>>),
     FunctionS("f", <<>>, <<IfS(<<Exit("Function")>>), Ret(Num)>>)}
\* A generic that no pass collects.
Nested == IfS(<<GenericS("q", <<Ret(Num)>>)>>)
Loops ==
    {ForS(<<Exit("For")>>), WhileS(<<Exit("For")>>), DoS(<<IfS(<<Exit("Do")>>)>>),
     SelectS(<<WhileS(<<Exit("While")>>)>>),
     ForS(<<DoS(<<Exit("For")>>)>>), SubS("p", <<>>, <<ForS(<<Exit("Sub")>>)>>),
     FunctionS("f", <<>>, <<[s |-> "retassign", x |-> "f", e |-> Num], Exit("For")>>),
     IfS(<<Jump("goto", "two")>>), IfS(<<SubS("q", <<>>, <<>>)>>), Nested, Ret(Num),
     Jump("label", "one"), Jump("gosub", "one")}

(* Generics: bodies with their own loops, stray EXITs, other generics. *)

Bodies == {<<Ret(Num)>>, <<Exit("For"), Ret(Num)>>, <<ForS(<<Exit("For")>>), Ret(Num)>>,
           <<Exit("Sub"), Ret(Id("v"))>>, <<Ret(NoExpr)>>,
           <<ArrayS("a", <<>>), RedimS("a"), LetAt("a", Num, Num), Ret(CallE("h", <<Id("v")>>))>>}
Uses == {Show(CallE("g", <<Num>>)), ForS(<<Show(CallE("g", <<Id("n")>>))>>),
         SubS("p", <<Param("s", StringT)>>, <<Show(CallE("g", <<Id("s")>>)), Exit("Sub")>>),
         CallS(NoExpr, "g", <<CallE("g", <<Num>>)>>), Jump("label", "one"), Jump("gosub", "one"),
         Ret(NoExpr), Show(CallE("g", <<>>))}
Generics ==
    UNION {After(<<DimS("n", Integer), GenericS("g", b), GenericS("h", <<Ret(Id("v"))>>)>>,
                 SeqsUpTo(Uses, 2)) : b \in Bodies}

(* Names: what a declaration repeats, hides or lets go. *)

NamesMenu ==
    {DimS("n", Integer), ConstS("n", Num), ArrayS("a", <<>>),
     [s |-> "enum", members |-> <<[x |-> "m", e |-> NoExpr], [x |-> "n", e |-> Id("m")]>>],
     Namespace("ns", <<DimS("n", StringT), ConstS("c", Num),
                       SubS("q", <<>>, <<Let("n", [k |-> "str"])>>)>>),
     SubS("p", <<ByRef("a", Integer)>>, <<DimS("n", StringT), Let("a", Num)>>),
     FunctionS("f", <<Param("n", StringT)>>, <<LetAt("a", Num, Num), Ret(Num)>>),
     CallS(NoExpr, "p", <<Id("n")>>), CallS(Id("ns"), "q", <<>>),
     Put(Dot(Id("ns"), "n"), [k |-> "str"]), Let("n", CallE("f", <<[k |-> "str"]>>)),
     RedimS("a"), LetAt("a", Num, UBound("a"))}

\* A namespace: an array, a SUB that uses it, and what may not be there.
Spaces == {<<Namespace("ns", q)>> :
             q \in SeqsUpTo({ArrayS("a", <<>>), ArrayS("b", <<UBound("a")>>), ConstS("c", LBound("a")),
                              SubS("q", <<>>, <<RedimS("a"), Show(UBound("b"))>>), Show(Num)}, 3)}

(* Bounds: where UBOUND and LBOUND may stand, and what the name means there. *)

BoundsMenu ==
    {ArrayS("a", <<>>), DimS("a", Integer), ArrayS("b", <<UBound("a")>>),
     [IfS(<<ArrayS("a", <<>>)>>) EXCEPT !.conds = <<Bin("Add", Num, LBound("a"))>>],
     [s |-> "if", conds |-> <<Num, UBound("a")>>, blocks |-> <<<<ArrayS("a", <<>>)>>, <<Show(Num)>>>>],
     [SelectS(<<ArrayS("a", <<>>)>>) EXCEPT !.arms[2] =
         [else |-> FALSE, matches |-> <<UBound("a")>>, body |-> <<>>]],
     [DoS(<<ArrayS("a", <<>>)>>) EXCEPT !.post = UBound("a")],
     [WhileS(<<Show(CallE("ubound", <<Num>>))>>) EXCEPT !.e = UBound("a")],
     FunctionS("f", <<Param("a", Integer)>>, <<Ret(UBound("a"))>>),
     FunctionS("f", <<>>, <<ArrayS("a", <<>>), Show(CallE("a", <<UBound("a")>>)), Ret(Num)>>),
     GenericS("g", <<Ret(UBound("a"))>>), Show(CallE("g", <<UBound("a")>>))}

(* TYPEs: what they hold, extend and implement, in every order. *)

TypesA == {TypeS("A", <<>>, <<Field("x", Integer)>>, <<>>),
           TypeS("A", <<>>, <<Field("b", User("B"))>>, <<>>),
           TypeS("A", <<"B", "C">>, <<Field("b", Ptr(User("A")))>>, <<>>),
           UnionS("A", <<Field("b", User("B"))>>)}
TypesB == {TypeS("B", <<>>, <<Field("x", Integer)>>, <<>>),
           TypeS("B", <<"C">>, <<Field("s", StringT)>>, <<>>),
           TypeS("B", <<"C">>, <<>>, <<Member("method", "go", FALSE, <<>>, FALSE, TRUE)>>),
           TypeS("B", <<>>, <<>>, <<>>)}
TypesC == {TypeS("C", <<>>, <<Field("a", User("A"))>>, <<>>),
           TypeS("C", <<>>, <<>>, <<Member("method", "go", FALSE, <<>>, TRUE, FALSE)>>),
           TypeS("C", <<>>, <<Field("x", Integer)>>,
                 <<Member("get", "y", TRUE, <<>>, FALSE, FALSE),
                   Member("set", "y", FALSE, <<Param("v", Integer)>>, FALSE, FALSE)>>)}
Definitions ==
    <<Method("B", "method", "go", FALSE, <<>>, <<Show(Id("x"))>>),
      Method("C", "get", "y", TRUE, <<>>, <<Ret(Dot([k |-> "this"], "x"))>>),
      Method("C", "set", "y", FALSE, <<Param("v", Integer)>>, <<Let("x", Id("v"))>>)>>
Orders == {<<1, 2, 3>>, <<1, 3, 2>>, <<2, 1, 3>>, <<2, 3, 1>>, <<3, 1, 2>>, <<3, 2, 1>>}
TypePrograms ==
    {LET ts == <<a, b, c>> IN <<ts[o[1]], ts[o[2]], ts[o[3]]>> \o defs
        \o <<DimS("v", User("C")), Put(Dot(Id("v"), "y"), Num)>> :
     a \in TypesA, b \in TypesB, c \in TypesC, o \in Orders,
     defs \in {<<>>, SubSeq(Definitions, 1, 1), SubSeq(Definitions, 2, 3)}}

(* Coroutines: where they may give, end and wait. *)

Generators == Generator(Integer)
AsyncMenu ==
    {Async("f", Generators, <<[s |-> "yield", e |-> Num]>>),
     Async("f", Generators, <<WhileS(<<Ret(NoExpr)>>)>>),
     Async("f", Task(Integer), <<Ret(Num)>>),
     FunctionS("k", <<>>, <<[s |-> "yield", e |-> Num], Ret(Num)>>),
     Async("h", Task(Integer), <<Ret([k |-> "await", on |-> CallE("f", <<>>)])>>),
     Show(On(CallE("f", <<>>), "movenext", <<>>)), Show(On(CallE("f", <<>>), "result", <<>>)),
     Show([k |-> "await", on |-> CallE("f", <<>>)])}

MCPrograms ==
    SeqsUpTo(Control, 3)
    \cup After(<<Jump("gosub", "one"), Jump("label", "one")>>, SeqsUpTo(Control, 2))
    \cup After(<<DimS("n", Integer)>>, SeqsUpTo(Loops, 2))
    \cup Generics
    \cup SeqsUpTo(NamesMenu, 3) \cup Spaces \cup SeqsUpTo(BoundsMenu, 3)
    \cup TypePrograms
    \cup SeqsUpTo(AsyncMenu, 3)
\* The generics are enough to see the generator throw.
GenericPrograms == Generics

MCArgTypes == {Integer, StringT}
\* The statements of the programs, those in them (they nest three deep), and
\* the instances.
Elements(b) == {b[i] : i \in DOMAIN b}
WithInner(sts) ==
    sts \cup UNION {UNION {Elements(Parts(st)[j]) : j \in DOMAIN Parts(st)} : st \in sts}
        \cup UNION {Elements(st.body) : st \in {d \in sts : d.s \in {"ns", "proc"}}}
Written == WithInner(WithInner(WithInner(UNION {Elements(m) : m \in Programs})))
MCStatements ==
    Written \cup {[g EXCEPT !.params = <<Param("v", t)>>, !.generic = None] :
                     g \in {st \in Written : st.s = "proc" /\ st.generic # None}, t \in MCArgTypes}
=============================================================================
