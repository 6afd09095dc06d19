--------------------------- MODULE TypeRelations ---------------------------
(***************************************************************************)
(* The relations that semantic analysis has on types (sema.cpp): identity  *)
(* of pointees, the base chain of a TYPE, assignment, what a binary        *)
(* operator yields.  A table of TYPEs is a function from names to records  *)
(* [base, ifaces, fields, ...] (TypeTable).                                *)
(***************************************************************************)
EXTENDS Types

-----------------------------------------------------------------------------
(* Identity of what pointers point to: exact, but for ANY PTR and the value *)
(* type of a coroutine, which nobody compares below a pointer.              *)

RECURSIVE pointeesIdentical(_, _)
pointeesIdentical(a, b) ==
    /\ a.k = b.k
    /\ a.k = "UserDefined" => a.name = b.name
    /\ a.k = "Pointer" => Null \in {a.to, b.to} \/ pointeesIdentical(a.to, b.to)
    /\ a.k = "FunctionPointer" =>
         /\ a.conv = b.conv
         /\ (a.ret = Null) = (b.ret = Null)
         /\ a.ret # Null => pointeesIdentical(a.ret, b.ret)
         /\ Len(a.params) = Len(b.params)
         /\ \A i \in 1..Len(a.params) : pointeesIdentical(a.params[i], b.params[i])

(* The base chain of a TYPE, nearest first, up to an unknown name or a name *)
(* that is on it already.                                                   *)
RECURSIVE ChainFrom(_, _, _)
ChainFrom(structs, n, seen) ==
    IF n \notin DOMAIN structs \/ n \in seen THEN <<>>
    ELSE <<n>> \o ChainFrom(structs, structs[n].base, seen \cup {n})

Chain(structs, n) == ChainFrom(structs, n, {})

isSameOrDerivedFrom(structs, n, base) ==
    LET chain == Chain(structs, n) IN
    \/ n = base
    \/ \E i \in 1..Len(chain) :
          \/ base \in {chain[i], structs[chain[i]].base}
          \/ base \in structs[chain[i]].ifaces

\* findFieldInChain, findMethodInChain and findPropertyInChain: the nearest
\* TYPE of the chain that has the member.
FindInChain(structs, n, members, x) ==
    LET chain == Chain(structs, n)
        at    == {i \in 1..Len(chain) : x \in DOMAIN structs[chain[i]][members]}
    IN  IF at = {} THEN Null
        ELSE LET nearest == CHOOSE i \in at : \A j \in at : i <= j
             IN  structs[chain[nearest]][members][x]

findFieldInChain(structs, n, x)    == FindInChain(structs, n, "fields", x)
findMethodInChain(structs, n, x)   == FindInChain(structs, n, "methods", x)
findPropertyInChain(structs, n, x) == FindInChain(structs, n, "properties", x)

-----------------------------------------------------------------------------
(* Assignment: may a value of type v be put where a type t is wanted? *)

RECURSIVE isAssignCompatible(_, _, _)
isAssignCompatible(structs, t, v) ==
    IF isFn(t) \/ isFn(v)
    THEN IF isFn(t) /\ isFn(v) THEN pointeesIdentical(t, v)
         ELSE IF isFn(t) THEN isAny(v) ELSE isAny(t)
    ELSE IF t = ZStringT /\ isAny(v) THEN TRUE
    ELSE IF isPtr(t) /\ isPtr(v)
    THEN isAny(t) \/ isAny(v) \/ pointeesIdentical(t.to, v.to)
    ELSE IF isPtr(t) \/ isPtr(v) THEN isPtr(t) /\ isIntegerFamily(v)
    ELSE IF isText(t) \/ isText(v) THEN isText(t) /\ isText(v)
    ELSE IF "Coroutine" \in {t.k, v.k}
    THEN /\ t.k = v.k
         /\ t.gen = v.gen
         /\ (t.val = Null) = (v.val = Null)
         /\ t.val # Null => isAssignCompatible(structs, t.val, v.val)
    ELSE IF "UserDefined" \in {t.k, v.k}
    THEN t.k = v.k /\ isSameOrDerivedFrom(structs, v.name, t.name)
    ELSE TRUE

-----------------------------------------------------------------------------
(* Binary operators: the type of the result, and whether the operands fit. *)

Ok(t)  == [t |-> t, ok |-> TRUE]
Bad(t) == [t |-> t, ok |-> FALSE]

operatorKey(op, l, r) ==
    LET key(t) == IF t.k = "UserDefined" THEN t ELSE Basic(t.k) IN <<op, key(l), key(r)>>

Additive(op, l, r) ==
    IF op = "Sub" /\ isPtr(l) /\ isPtr(r)
    THEN [t |-> LongInt, ok |-> isAny(l) \/ isAny(r) \/ pointeesIdentical(l.to, r.to)]
    ELSE IF isPtr(l) /\ isIntegerFamily(r) THEN Ok(l)
    ELSE IF op = "Add" /\ isPtr(r) /\ isIntegerFamily(l) THEN Ok(r)
    ELSE IF isNumericType(l) /\ isNumericType(r) THEN Ok(promoteNumeric(l, r))
    ELSE Bad(Integer)

Relational(l, r) ==
    [t |-> Boolean,
     ok |-> \/ isPtr(l) /\ (isPtr(r) \/ isIntegerFamily(r))
            \/ isPtr(r) /\ isIntegerFamily(l)
            \/ isCaseCompatible(l, r)]

BinaryType(overloads, op, l, r) ==
    LET numeric == isNumericType(l) /\ isNumericType(r)
        whole   == isIntegerFamily(l) /\ isIntegerFamily(r)
    IN  IF "UserDefined" \in {l.k, r.k}
        THEN IF operatorKey(op, l, r) \in DOMAIN overloads
             THEN Ok(overloads[operatorKey(op, l, r)]) ELSE Bad(Unknown)
        ELSE CASE op = "Concat"         -> [t |-> StringT, ok |-> l = StringT /\ r = StringT]
               [] op \in {"Add", "Sub"} -> Additive(op, l, r)
               [] op = "Mul"  -> IF numeric THEN Ok(promoteNumeric(l, r)) ELSE Bad(Integer)
               [] op = "Div"  -> IF ~numeric THEN Bad(Double)
                                 ELSE IF whole THEN Ok(Double) ELSE Ok(promoteNumeric(l, r))
               [] op = "Pow"  -> [t |-> Double, ok |-> numeric]
               [] op \in {"Shl", "Shr"} -> IF whole THEN Ok(l) ELSE Bad(Integer)
               [] op \in {"Eq", "Ne", "Lt", "Le", "Gt", "Ge"} -> Relational(l, r)
               [] OTHER -> IF whole THEN Ok(promoteInteger(l, r)) ELSE Bad(Integer)
=============================================================================
