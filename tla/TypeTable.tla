----------------------------- MODULE TypeTable -----------------------------
(***************************************************************************)
(* Sema::collectTypes and the passes next to it: the table of a module's   *)
(* TYPEs and what is reported about their declarations; and the order in   *)
(* which the code generator emits them (Codegen::genTypeDecl).             *)
(*                                                                         *)
(* A module is a sequence of statements.  The ones read here are           *)
(*   [s |-> "type", x, union, extends, fields, methods]   TYPE or UNION    *)
(*   [s |-> "proc", x, owner, role, fn, t, params, op, extern, ...]        *)
(* A member and a procedure have a role: "method" (a plain SUB or FUNCTION *)
(* as well), "ctor", "dtor", "get" or "set" (the halves of a PROPERTY).    *)
(* An error is what is wrong.                                              *)
(***************************************************************************)
EXTENDS TypeRelations, Scopes, FiniteSets

TypeStmts(stmts) == Where(stmts, LAMBDA st : st.s = "type")
Owned(stmts)     == Where(stmts, LAMBDA st : st.s = "proc" /\ st.owner # None)

-----------------------------------------------------------------------------
(* Passes 1 and 2: names, then fields, bases and members. *)

\* structs_ holds the names no procedure has; of two declarations of one name
\* the later one is what the table says, though it is reported.
TypeKeys(stmts, procs) == {stmts[i].x : i \in TypeStmts(stmts)} \ procs
LastDecl(stmts, n) ==
    LET is == {i \in TypeStmts(stmts) : stmts[i].x = n}
    IN  stmts[CHOOSE i \in is : \A j \in is : j <= i]

isPureInterfaceShape(d) ==
    /\ ~d.union
    /\ d.fields = <<>> /\ d.extends = <<>> /\ d.methods # <<>>
    /\ \A i \in DOMAIN d.methods : d.methods[i].role = "method" /\ d.methods[i].virtual

SameRole(a, b) == a.x = b.x /\ a.role = b.role
FieldsOf(d) == DOMAIN d.fields \ Repeats(d.fields, DOMAIN d.fields, SameName)

\* The members that are registered: a method must be new among the fields and
\* the methods before it, a half of a property among these and its own kind.
MethodsOf(d) ==
    LET plain == {i \in DOMAIN d.methods : d.methods[i].role = "method"
                                           /\ d.methods[i].x \notin Names(d.fields)}
    IN  plain \ Repeats(d.methods, plain, SameName)
HalvesOf(d) ==
    LET halves == {i \in DOMAIN d.methods :
                     /\ d.methods[i].role \in {"get", "set"}
                     /\ d.methods[i].x \notin Names(d.fields)
                     /\ ~\E j \in MethodsOf(d) : j < i /\ d.methods[j].x = d.methods[i].x}
    IN  halves \ Repeats(d.methods, halves, SameRole)

HalfType(m) == IF m.role = "get" THEN m.t
               ELSE IF m.params = <<>> THEN Unknown ELSE m.params[1].t
\* The type of the half that was declared first.
PropertyType(d, x) ==
    LET is == {i \in HalvesOf(d) : d.methods[i].x = x}
    IN  HalfType(d.methods[CHOOSE i \in is : \A j \in is : i <= j])

KnownBases(stmts, keys, d) ==
    {i \in DOMAIN d.extends : d.extends[i] \in keys}
Ordinary(stmts, keys, d) ==
    {i \in KnownBases(stmts, keys, d) :
        ~isPureInterfaceShape(LastDecl(stmts, d.extends[i]))}

Record(stmts, keys, d) ==
    LET bases == IF d.union THEN {} ELSE Ordinary(stmts, keys, d)
        base  == IF bases = {} THEN None
                 ELSE d.extends[CHOOSE i \in bases : \A j \in bases : i <= j]
        ifaces == IF d.union THEN {}
                  ELSE {d.extends[i] : i \in KnownBases(stmts, keys, d) \ bases}
        ms    == IF d.union THEN {} ELSE MethodsOf(d)
        hs    == IF d.union THEN {} ELSE HalvesOf(d)
        has(r) == ~d.union /\ \E i \in DOMAIN d.methods : d.methods[i].role = r
        at(is, x) == CHOOSE i \in is : d.methods[i].x = x
    IN  [base |-> base, ifaces |-> ifaces, union |-> d.union,
         fields |-> [x \in Names(d.fields) |->
                        d.fields[CHOOSE i \in FieldsOf(d) : d.fields[i].x = x].t],
         methods |-> [x \in {d.methods[i].x : i \in ms} |-> d.methods[at(ms, x)]],
         properties |-> [x \in {d.methods[i].x : i \in hs} |-> PropertyType(d, x)],
         ctor |-> has("ctor"), dtor |-> has("dtor"),
         interface |-> isPureInterfaceShape(d),
         opaque |-> /\ ~d.union /\ base = None /\ ifaces = {}
                    /\ d.fields = <<>> /\ d.methods = <<>>]

StructTable(stmts, procs) ==
    LET keys == TypeKeys(stmts, procs)
    IN  [n \in keys |-> Record(stmts, keys, LastDecl(stmts, n))]

MemberErrors(stmts, keys, d) ==
    LET ms     == DOMAIN d.methods
        role(r) == {i \in ms : d.methods[i].role = r}
        halves(x) == {d.methods[i].role : i \in {j \in HalvesOf(d) : d.methods[j].x = x}}
        KindOf(t) == operatorKey(None, t, t)
    IN  {"duplicate field" : i \in DOMAIN d.fields \ FieldsOf(d)}
        \cup {"unknown field type" : i \in
                {j \in FieldsOf(d) : d.fields[j].t.k = "UserDefined"
                                     /\ d.fields[j].t.name \notin keys}}
        \cup (IF d.union
              THEN (IF d.extends # <<>> THEN {"union extends"} ELSE {})
                   \cup (IF ms # {} THEN {"union members"} ELSE {})
              ELSE {"unknown base" : i \in DOMAIN d.extends \ KnownBases(stmts, keys, d)}
                   \cup (IF Cardinality(Ordinary(stmts, keys, d)) > 1
                         THEN {"two bases"} ELSE {})
                   \cup {"second" : r \in {q \in {"ctor", "dtor"} : Cardinality(role(q)) > 1}}
                   \cup {"already a member" : i \in
                           (ms \ (role("ctor") \cup role("dtor")))
                           \ (MethodsOf(d) \cup HalvesOf(d))}
                   \cup {"half a property" : i \in
                           {j \in HalvesOf(d) : halves(d.methods[j].x) # {"get", "set"}}}
                   \cup {"property types" : i \in
                           {j \in HalvesOf(d) : KindOf(HalfType(d.methods[j]))
                                                # KindOf(PropertyType(d, d.methods[j].x))}})

-----------------------------------------------------------------------------
(* Passes 3 to 8. *)

RECURSIVE ContainsString(_, _, _)
ContainsString(structs, t, visited) ==
    \/ t = StringT
    \/ /\ t.k = "UserDefined" /\ t.name \notin visited /\ t.name \in DOMAIN structs
       /\ \E x \in DOMAIN structs[t.name].fields :
             ContainsString(structs, structs[t.name].fields[x], visited \cup {t.name})

EmbeddingErrors(structs, d) ==
    LET opaque(n) == n \in DOMAIN structs /\ structs[n].opaque
        base == IF d.x \in DOMAIN structs THEN structs[d.x].base ELSE None
    IN  {"embeds opaque" : i \in
            {j \in DOMAIN d.fields : d.fields[j].t.k = "UserDefined" /\ opaque(d.fields[j].t.name)}}
        \cup (IF ~d.union /\ opaque(base) THEN {"extends opaque"} ELSE {})
        \cup {"union string" : i \in
                {j \in DOMAIN d.fields : d.union /\ ContainsString(structs, d.fields[j].t, {})}}

\* An out-of-line definition matches a declaration of its TYPE by role and name.
Declares(structs, st) ==
    LET r == structs[st.owner] IN
    CASE st.role = "ctor" -> r.ctor
      [] st.role = "dtor" -> r.dtor
      [] st.role = "method" -> st.x \in DOMAIN r.methods
      [] OTHER -> st.x \in DOMAIN r.properties

DefinitionErrors(stmts, structs) ==
    LET defs == Owned(stmts)
        known == {i \in defs : stmts[i].owner \in DOMAIN structs}
        good == {i \in known : Declares(structs, stmts[i])}
        Same(a, b) == /\ a.owner = b.owner /\ a.role = b.role
                      /\ a.role \in {"ctor", "dtor"} \/ a.x = b.x
    IN  {"no such type" : i \in defs \ known}
        \cup {"not declared" : i \in known \ good}
        \cup {"defined twice" : i \in Repeats(stmts, good, Same)}
        \cup {"parameter count" : i \in
                {j \in good \ Repeats(stmts, good, Same) :
                    /\ stmts[j].role = "method"
                    /\ Len(structs[stmts[j].owner].methods[stmts[j].x].params)
                       # Len(stmts[j].params)}}

\* Every member of a TYPE that is no interface has a definition.
UndefinedErrors(stmts, structs, n) ==
    LET r == structs[n]
        defines(role, x) == \E i \in Owned(stmts) :
                              /\ stmts[i].owner = n /\ stmts[i].role = role
                              /\ role \in {"ctor", "dtor"} \/ stmts[i].x = x
    IN  IF r.interface \/ r.union THEN {}
        ELSE {"never defined" :
                i \in {j \in {1} : \/ r.ctor /\ ~defines("ctor", None)
                                   \/ r.dtor /\ ~defines("dtor", None)
                                   \/ \E x \in DOMAIN r.methods : ~defines("method", x)
                                   \/ \E x \in DOMAIN r.properties :
                                         ~defines("get", x) \/ ~defines("set", x)}}

\* The walk up the bases meets a TYPE again: those on a cycle and those that
\* lead into one.
Circular(structs, n) ==
    LET chain == Chain(structs, n)
    IN  \E i \in DOMAIN chain : structs[chain[Len(chain)]].base = chain[i]

OverrideErrors(structs, d) ==
    LET base == structs[d.x].base
    IN  {"overrides nothing" : i \in
            {j \in DOMAIN d.methods :
                /\ d.methods[j].override
                /\ base # None => findMethodInChain(structs, base, d.methods[j].x) = Null}}

\* Everything reported of the TYPEs, given the table of them.
collectTypes(stmts, structs) ==
    LET keys    == DOMAIN structs
        decls   == TypeStmts(stmts)
        known   == {i \in decls : stmts[i].x \in keys}
        types   == {i \in known : ~stmts[i].union}
    IN  {"already declared" : i \in
           (decls \ known) \cup Repeats(stmts, decls, SameName)}
        \cup UNION {MemberErrors(stmts, keys, stmts[i]) : i \in known}
        \cup UNION {EmbeddingErrors(structs, stmts[i]) : i \in decls}
        \cup DefinitionErrors(stmts, structs)
        \cup UNION {UndefinedErrors(stmts, structs, stmts[i].x) : i \in types}
        \cup {"circular" : i \in
                {j \in types : Circular(structs, stmts[j].x)}}
        \cup UNION {OverrideErrors(structs, stmts[i]) : i \in types}

-----------------------------------------------------------------------------
(* Operators and EXTERN signatures. *)

collectOperators(stmts, structs) ==
    LET ops  == Where(stmts, LAMBDA st : st.s = "proc" /\ st.op # None)
        key(i) == operatorKey(stmts[i].op, stmts[i].params[1].t, stmts[i].params[2].t)
        operands(i) == {stmts[i].params[1].t, stmts[i].params[2].t}
        good == {i \in ops : /\ \E t \in operands(i) : IsUser(t)
                             /\ \A t \in operands(i) : IsUser(t) => t.name \in DOMAIN structs}
        first(k) == CHOOSE i \in good : key(i) = k /\ \A j \in good : key(j) = k => i <= j
    IN  [overloads |-> [k \in {key(i) : i \in good} |-> stmts[first(k)].t],
         errs |-> {"operands" : i \in ops \ good}
                  \cup {"already overloaded" : i \in
                          {j \in good : j # first(key(j))}}]

RECURSIVE CrossesExtern(_, _)
CrossesExtern(structs, t) ==
    CASE t.k \in {"StringT", "Coroutine"} -> FALSE
      [] t.k = "FunctionPointer" ->
            /\ t.ret = Null \/ CrossesExtern(structs, t.ret)
            /\ \A i \in DOMAIN t.params : CrossesExtern(structs, t.params[i])
      [] IsUser(t) /\ t.name \in DOMAIN structs ->
            /\ ~structs[t.name].ctor /\ ~structs[t.name].dtor
            /\ \A m \in DOMAIN structs[t.name].methods :
                  ~structs[t.name].methods[m].virtual /\ ~structs[t.name].methods[m].override
      [] OTHER -> TRUE

\* An exported procedure is checked alike and the prelude is exempt (sema.cpp:676,
\* 729); the statements here have neither.
ExternErrors(stmts, structs) ==
    {"not for extern" : i \in
        {j \in Where(stmts, LAMBDA st : st.s = "proc" /\ st.extern) :
            \/ \E p \in DOMAIN stmts[j].params : ~CrossesExtern(structs, stmts[j].params[p].t)
            \/ stmts[j].fn /\ ~CrossesExtern(structs, stmts[j].t)}}

-----------------------------------------------------------------------------
(* Codegen::genTypeDecl: a TYPE after the ones it needs complete, those that *)
(* are being emitted left out.  The result is the emitted definitions.       *)

\* Mutant: the base is left out.
NeedsFields(stmts, d, r) ==
    LET fields == SelectSeq(d.fields, LAMBDA f : IsUser(f.t))
    IN  [i \in DOMAIN fields |-> fields[i].t.name] \o SelectSeq(d.extends, LAMBDA n : n \in r.ifaces)
Needs(stmts, d, r) ==
    LET fields == SelectSeq(d.fields, LAMBDA f : IsUser(f.t))
    IN  [i \in DOMAIN fields |-> fields[i].t.name]
        \o (IF r.base = None THEN <<>> ELSE <<r.base>>)
        \o SelectSeq(d.extends, LAMBDA n : n \in r.ifaces)

RECURSIVE EmitTypes(_, _, _, _, _)
EmitTypes(stmts, structs, out, busy, todo) ==
    IF todo = <<>> THEN out
    ELSE LET n == Head(todo)
             skip == n \notin DOMAIN structs \/ n \in busy
                     \/ \E i \in DOMAIN out : out[i] = n
             own == EmitTypes(stmts, structs, out, busy \cup {n},
                              Needs(stmts, LastDecl(stmts, n), structs[n]))
         IN  EmitTypes(stmts, structs,
                       IF skip THEN out
                       ELSE IF structs[n].opaque THEN Append(out, n) ELSE Append(own, n),
                       busy, Tail(todo))

genTypeDecl(stmts, structs, out, n) == EmitTypes(stmts, structs, out, {}, <<n>>)
=============================================================================
