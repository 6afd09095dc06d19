---------------------------- MODULE Expressions ----------------------------
(***************************************************************************)
(* What semantic analysis makes of an expression (Sema::checkExpr and its  *)
(* helpers): its type and what is reported about it.                       *)
(*                                                                         *)
(* An expression is a record with a kind e.k; "on" is the operand of a     *)
(* unary form and the left of a dot (NoExpr when there is none).           *)
(***************************************************************************)
EXTENDS TypeTable, Integers

LOCAL INSTANCE SequencesExt

\* BYREF is what is written, and what STRINGs and TYPEs get unasked.
byRef(p) == p.by = "ref" \/ (p.by = None /\ (p.t = StringT \/ IsUser(p.t)))

IsNamespace(T, e) == e.k = "id" /\ e.x \in T.namespaces

isLvalue(S, e) == \/ e.k \in {"id", "member", "deref"}
                  \/ e.k = "call" /\ e.on = NoExpr /\ lookupSymbol(S, e.x).array
IsConstName(S, e) == e.k = "id" /\ lookupSymbol(S, e.x).const

RECURSIVE isConstantExpr(_, _)
isConstantExpr(S, e) ==
    CASE e.k \in {"int", "dbl", "str", "bool"} -> TRUE
      [] e.k = "id" -> lookupSymbol(S, e.x).const
      [] e.k \in {"neg", "not"} -> isConstantExpr(S, e.on)
      [] e.k = "bin" -> isConstantExpr(S, e.l) /\ isConstantExpr(S, e.r)
      [] OTHER -> FALSE

\* C++ division and remainder truncate toward zero.
Magnitude(n) == IF n < 0 THEN -n ELSE n
Quotient(l, r) == LET q == Magnitude(l) \div Magnitude(r)
                  IN  IF (l < 0) = (r < 0) THEN q ELSE -q

\* evalConstInt: names are looked up by their bare name only, in one table for
\* the whole module.  The values are small: the range of long long is not at
\* stake.  The bitwise operators (NOT and shifts among them) are left out.
RECURSIVE evalConstInt(_, _)
evalConstInt(values, e) ==
    LET Both(Op(_, _)) ==
          LET l == evalConstInt(values, e.l)
              r == evalConstInt(values, e.r)
          IN  IF l.ok /\ r.ok THEN Op(l.v, r.v) ELSE [ok |-> FALSE, v |-> 0]
        Value(v) == [ok |-> TRUE, v |-> v]
        Failed == [ok |-> FALSE, v |-> 0]
    IN  CASE e.k \in {"int", "bool"} -> Value(e.v)
          [] e.k = "id" -> IF e.x \in DOMAIN values THEN Value(values[e.x]) ELSE Failed
          [] e.k = "neg" -> LET v == evalConstInt(values, e.on)
                            IN  IF v.ok THEN Value(-v.v) ELSE Failed
          [] e.k = "bin" /\ e.op = "Add" -> Both(LAMBDA l, r : Value(l + r))
          [] e.k = "bin" /\ e.op = "Sub" -> Both(LAMBDA l, r : Value(l - r))
          [] e.k = "bin" /\ e.op = "Mul" -> Both(LAMBDA l, r : Value(l * r))
          [] e.k = "bin" /\ e.op \in {"Div", "IDiv"} ->
                Both(LAMBDA l, r : IF r = 0 THEN Failed ELSE Value(Quotient(l, r)))
          [] e.k = "bin" /\ e.op = "Mod" ->
                Both(LAMBDA l, r : IF r = 0 THEN Failed ELSE Value(l - r * Quotient(l, r)))
          [] OTHER -> Failed

-----------------------------------------------------------------------------
(* Callees. *)

Procedure(p) == [k |-> "proc", sig |-> p]
Pointer(t)   == [k |-> "pointer", sig |-> t]
NoCallee     == [k |-> "none"]

\* obj.x(...): a method, or a field or property that holds a function pointer.
MemberCallee(T, t, x) ==
    LET m == findMethodInChain(T.structs, t.name, x)
        f == findFieldInChain(T.structs, t.name, x)
        p == findPropertyInChain(T.structs, t.name, x)
    IN  IF ~IsUser(t) \/ t.name \notin DOMAIN T.structs THEN NoCallee
        ELSE IF m # Null THEN Procedure([m EXCEPT !.t = IF m.fn THEN m.t ELSE Unknown])
        ELSE IF f # Null THEN IF isFn(f) THEN Pointer(f) ELSE NoCallee
        ELSE IF p # Null /\ isFn(p) THEN Pointer(p) ELSE NoCallee

NamespaceCallee(T, ns, x) ==
    IF <<ns, x>> \in DOMAIN T.procs THEN Procedure(T.procs[<<ns, x>>]) ELSE NoCallee

\* x(...) resolves to a generic when nothing concrete has the name: a CALL
\* asks the procedures only, an expression the arrays and pointers first.
IsArrayOrPointer(S, x) == lookupSymbol(S, x).array \/ isFn(lookupSymbol(S, x).t)
IsGeneric(T, S, x, isCall) ==
    /\ findProcedure(T, S, x) = NoProc /\ <<x>> \in DOMAIN T.generics
    /\ isCall \/ ~IsArrayOrPointer(S, x)

\* The names typeManglingSuffix gives to the types it has one for.
RECURSIVE typeManglingSuffix(_)
typeManglingSuffix(t) ==
    CASE t.k \in {"FunctionPointer", "Coroutine", "Unknown", "Null"} -> <<>>
      [] IsUser(t) -> <<t.name>>
      [] isAny(t)  -> <<"anyptr">>
      [] isPtr(t)  -> IF typeManglingSuffix(t.to) = <<>> THEN <<>>
                      ELSE Append(typeManglingSuffix(t.to), "ptr")
      [] OTHER -> <<t.k>>

\* The first parameter whose type is the type parameter; 0 when none is.
InferAt(g) ==
    LET is == {i \in DOMAIN g.params : g.params[i].t = User(g.generic)}
    IN  IF is = {} THEN 0 ELSE CHOOSE i \in is : \A j \in is : i <= j
InstanceOf(g, t) == InstanceKey(g.x, typeManglingSuffix(t))

-----------------------------------------------------------------------------
(* What is made of an expression, given what was made of its operands: "on"  *)
(* is the result for the operand or receiver, "args" those for arguments.    *)

Common(a, b) == 1..(IF Len(a) < Len(b) THEN Len(a) ELSE Len(b))

checkCallArgs(T, S, proc, exprs, args) ==
    Check(Len(args) <= Len(proc.params), "argument count")
    \cup Check(Len(args) < Len(proc.params) => proc.params[Len(args) + 1].opt, "argument count")
    \cup ErrorsOf(args)
    \cup UNION {Check(isAssignCompatible(T.structs, proc.params[i].t, args[i].t), "argument type")
                \cup Check(byRef(proc.params[i])
                           => isLvalue(S, exprs[i]) /\ ~IsConstName(S, exprs[i]), "BYREF argument")
                : i \in Common(args, proc.params)}

checkIndirectCallArgs(T, fn, args) ==
    Check(Len(args) = Len(fn.params), "argument count")
    \cup ErrorsOf(args)
    \cup UNION {Check(isAssignCompatible(T.structs, fn.params[i], args[i].t), "argument type")
                : i \in Common(args, fn.params)}

\* A call of a generic: its instance, Null while there is none.  One that does
\* not exist yet has been asked for (Sema), unless its type cannot be inferred.
GenericCall(T, x, args) ==
    LET g == T.generics[<<x>>]
        i == InferAt(g)
        t == args[i].t
    IN  IF i = 0 \/ Len(args) < i THEN Typed(Null, {"cannot infer"})
        ELSE IF t = Unknown THEN Typed(Null, args[i].errs)
        ELSE IF typeManglingSuffix(t) = <<>> THEN Typed(Null, {"cannot instantiate"})
        ELSE IF InstanceOf(g, t) \notin DOMAIN T.procs THEN Typed(Null, {})
        ELSE Typed(T.procs[InstanceOf(g, t)], {})

\* What e calls, e an expression or a CALL with its on, x and args.
callee(T, S, e, on, args, isCall) ==
    LET var  == lookupSymbol(S, e.x)
        proc == findProcedure(T, S, e.x)
        g    == GenericCall(T, e.x, args)
        Found(c) == [c |-> c, errs |-> {}]
    IN  IF e.on # NoExpr
        THEN IF IsNamespace(T, e.on) THEN Found(NamespaceCallee(T, e.on.x, e.x))
             ELSE [c |-> MemberCallee(T, on.t, e.x), errs |-> on.errs]
        ELSE IF isFn(var.t) /\ ~isCall THEN Found(Pointer(var.t))
        ELSE IF proc # NoProc THEN Found(Procedure(proc))
        ELSE IF IsGeneric(T, S, e.x, isCall)
        THEN [c |-> IF g.t = Null THEN NoCallee ELSE Procedure(g.t), errs |-> g.errs]
        ELSE IF isFn(var.t) THEN Found(Pointer(var.t)) ELSE Found(NoCallee)

\* c is what callee found.
CallErrors(T, S, e, c, args, isCall) ==
    c.errs \cup
    CASE c.c.k = "proc"    -> checkCallArgs(T, S, c.c.sig, e.args, args)
                              \cup Check(isCall \/ c.c.sig.fn, "SUB in an expression")
      [] c.c.k = "pointer" -> checkIndirectCallArgs(T, c.c.sig, args)
                              \cup Check(isCall \/ c.c.sig.ret # Null, "SUB in an expression")
      [] OTHER -> IF e.on = NoExpr /\ IsGeneric(T, S, e.x, isCall) THEN {}
                  ELSE ErrorsOf(args) \cup Check(c.errs # {}, "not callable")

\* The members of a TASK or GENERATOR; only expressions know them.
CoroutineMember(t, x) ==
    CASE t.gen /\ x = "movenext" -> Boolean
      [] t.gen /\ x = "current"  -> IF t.val = Null THEN Unknown ELSE t.val
      [] ~t.gen /\ t.val # Null /\ x = "result" -> t.val
      [] OTHER -> Null

\* UBOUND and LBOUND take the name of an array.
\* Mutant: of any variable.
BoundOfAny(S, e, args) ==
    Typed(Integer, IF Len(e.args) # 1 THEN ErrorsOf(args) \cup {"argument count"}
                   ELSE IF e.args[1].k = "id" /\ lookupSymbol(S, e.args[1].x) # NoSymbol THEN {}
                   ELSE ErrorsOf(args) \cup {"not an array"})
Bound(S, e, args) ==
    Typed(Integer,
          IF Len(e.args) # 1 THEN ErrorsOf(args) \cup {"argument count"}
          ELSE IF e.args[1].k = "id" /\ lookupSymbol(S, e.args[1].x).array THEN {}
          ELSE ErrorsOf(args) \cup {"not an array"})

Element(t, args) ==
    Typed(t, ErrorsOf(args) \cup Check(Len(args) = 1, "one index")
             \cup UNION {Check(isIntegerFamily(args[i].t), "index type") : i \in DOMAIN args})

\* What a callee gives in an expression.
Returned(c) == CASE c.k = "proc" -> c.sig.t
                 [] c.k = "pointer" /\ c.sig.ret # Null -> c.sig.ret
                 [] OTHER -> Unknown
Result(T, S, e, c, args) == Typed(Returned(c.c), CallErrors(T, S, e, c, args, FALSE))

Call(T, S, e, on, args) ==
    IF e.on # NoExpr /\ ~IsNamespace(T, e.on) /\ on.t.k = "Coroutine"
    THEN LET m == CoroutineMember(on.t, e.x)
         IN  Typed(IF m = Null THEN Unknown ELSE m,
                   on.errs \cup ErrorsOf(args)
                   \cup Check(m # Null, "no such member")
                   \cup Check(m # Null => args = <<>>, "argument count"))
    ELSE IF e.on = NoExpr /\ e.x \in {"ubound", "lbound"} THEN Bound(S, e, args)
    ELSE IF e.on = NoExpr /\ lookupSymbol(S, e.x).array
    THEN Element(lookupSymbol(S, e.x).t, args)
    ELSE Result(T, S, e, callee(T, S, e, on, args, FALSE), args)

MemberType(T, S, e, on) ==
    LET f == findFieldInChain(T.structs, on.t.name, e.x)
        p == findPropertyInChain(T.structs, on.t.name, e.x)
    IN  IF IsNamespace(T, e.on)
        THEN IF <<e.on.x, e.x>> \in DOMAIN S.symbols
             THEN Typed(S.symbols[<<e.on.x, e.x>>].t, {}) ELSE Typed(Unknown, {"no such member"})
        ELSE IF on.t = Unknown THEN on
        ELSE IF ~IsUser(on.t) \/ on.t.name \notin DOMAIN T.structs
        THEN Typed(Unknown, on.errs \cup {"no TYPE"})
        ELSE IF f # Null THEN Typed(f, on.errs)
        ELSE IF p # Null THEN Typed(p, on.errs)
        ELSE Typed(Unknown, on.errs \cup {"no such member"})

\* @x of a procedure is a function pointer; of anything else a pointer to it.
AddressOf(T, S, e, on) ==
    LET proc == findProcedure(T, S, e.on.x)
        text == \/ proc.t = StringT
                \/ \E i \in DOMAIN proc.params : proc.params[i].t = StringT
    IN  IF e.on.k = "id" /\ proc # NoProc
        THEN Typed(FnPtr(IF proc.fn THEN proc.t ELSE Null,
                         [i \in DOMAIN proc.params |-> proc.params[i].t], proc.conv),
                   Check(~proc.extern, "@ of EXTERN") \cup Check(~text, "@ with STRING"))
        ELSE Typed(Ptr(on.t), on.errs \cup Check(isLvalue(S, e.on), "@ of a value"))

Identifier(T, S, x) ==
    LET var == lookupSymbol(S, x)
        f   == IF S.class = None THEN Null ELSE findFieldInChain(T.structs, S.class, x)
    IN  IF var # NoSymbol THEN Typed(var.t, Check(~var.array, "array without index"))
        ELSE IF f # Null THEN Typed(f, {}) ELSE Typed(Unknown, {"not declared"})

InCoroutine(S) == S.inProc /\ S.ret.k = "Coroutine"

UnaryType(S, e, on) ==
    LET Refuse(t, what) == Typed(t, on.errs \cup {what})
        silent == on.t = Unknown
    IN  CASE e.k = "neg" -> IF isNumericType(on.t) THEN on ELSE Refuse(Integer, "operand type")
          [] e.k = "not" -> IF isIntegerFamily(on.t) THEN on ELSE Refuse(Integer, "operand type")
          [] e.k = "deref" ->
                IF silent THEN on
                ELSE IF isPtr(on.t) /\ ~isAny(on.t) THEN Typed(on.t.to, on.errs)
                ELSE Refuse(Unknown, "operand type")
          [] e.k = "await" ->
                IF ~InCoroutine(S) THEN Refuse(Unknown, "AWAIT outside")
                ELSE IF silent THEN on
                ELSE IF on.t.k = "Coroutine" /\ ~on.t.gen /\ on.t.val # Null
                THEN Typed(on.t.val, on.errs) ELSE Refuse(Unknown, "operand type")

-----------------------------------------------------------------------------
(* Expressions. *)

Operands(e) ==
    CASE e.k = "bin" -> <<e.l, e.r>>
      [] e.k \in {"call", "callstmt"} -> <<e.on>> \o e.args
      [] "on" \in DOMAIN e -> <<e.on>>
      [] OTHER -> <<>>

\* The names whose bounds the generator looks up for an expression; None where
\* UBOUND or LBOUND is not asked of a name.
RECURSIVE boundsAsked(_)
boundsAsked(e) ==
    IF e.k = "call" /\ e.on = NoExpr /\ e.x \in {"ubound", "lbound"}
    THEN {IF e.args # <<>> /\ e.args[1].k = "id" THEN e.args[1].x ELSE None}
    ELSE UNION {boundsAsked(a) : a \in ToSet(Operands(e))}

RECURSIVE checkExpr(_, _, _)
checkExpr(T, S, e) ==
    LET sub == FoldLeft(LAMBDA acc, a : Append(acc, checkExpr(T, S, a)), <<>>, Operands(e))
        on  == Head(sub)
    IN  CASE e.k = "none" -> Typed(Unknown, {})
          [] e.k = "int"  -> Typed(Integer, {})
          [] e.k = "dbl"  -> Typed(Double, {})
          [] e.k = "str"  -> Typed(StringT, {})
          [] e.k = "bool" -> Typed(Boolean, {})
          [] e.k = "id"   -> Identifier(T, S, e.x)
          [] e.k = "this" -> IF S.class = None THEN Typed(Unknown, {"THIS outside"})
                             ELSE Typed(User(S.class), {})
          [] e.k = "base" -> IF S.class \notin DOMAIN T.structs \/ T.structs[S.class].base = None
                             THEN Typed(Unknown, {"no BASE"})
                             ELSE Typed(User(T.structs[S.class].base), {})
          [] e.k = "call"   -> Call(T, S, e, on, Tail(sub))
          [] e.k = "callstmt" ->
                Typed(Unknown, CallErrors(T, S, e, callee(T, S, e, on, Tail(sub), TRUE),
                                          Tail(sub), TRUE))
          [] e.k = "member" -> MemberType(T, S, e, on)
          [] e.k = "addr"   -> AddressOf(T, S, e, on)
          [] e.k = "bin" -> LET b == BinaryType(T.ops, e.op, on.t, sub[2].t)
                            IN  Typed(b.t, ErrorsOf(sub) \cup Check(b.ok, "operand type"))
          [] OTHER -> UnaryType(S, e, on)

\* The calls of generics in an expression or CALL (k is "callstmt"), in the order
\* they are met: in the argument that gives the type, the call itself, in the
\* others; nothing after an argument that gives no type.
IsGenericCall(T, S, e) ==
    /\ e.k \in {"call", "callstmt"} /\ e.on = NoExpr
    /\ e.k = "call" => e.x \notin {"ubound", "lbound"}
    /\ IsGeneric(T, S, e.x, e.k = "callstmt")

\* As [x, t], the name of the generic and the type it is called for.
RECURSIVE GenericCalls(_, _, _)
GenericCalls(T, S, e) ==
    LET g == T.generics[<<e.x>>]
        i == InferAt(g)
        t == checkExpr(T, S, e.args[i]).t
        order == IF ~IsGenericCall(T, S, e) THEN Operands(e)
                 ELSE IF i = 0 \/ Len(e.args) < i THEN <<>>
                 ELSE IF typeManglingSuffix(t) = <<>> THEN <<e.args[i]>>
                 ELSE <<e.args[i], e>> \o RemoveAt(e.args, i)
    IN  FoldLeft(LAMBDA acc, a :
                   acc \o (IF a = e THEN <<[x |-> e.x, t |-> t]>> ELSE GenericCalls(T, S, a)),
                 <<>>, order)

\* The instances that checking these expressions asks for, the first one first.
Requests(T, S, es) ==
    SelectSeq(FlattenSeq([i \in DOMAIN es |-> GenericCalls(T, S, es[i])]),
              LAMBDA r : InstanceOf(T.generics[<<r.x>>], r.t) \notin DOMAIN T.procs)
=============================================================================
