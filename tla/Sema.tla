-------------------------------- MODULE Sema --------------------------------
(***************************************************************************)
(* Semantic analysis (Sema::check): the passes that collect the names of a *)
(* module, then a walk over its statements with a scope that procedures,   *)
(* namespaces and the instances of generics change and give back.          *)
(*                                                                         *)
(* The recursion of checkBlock and checkStmt is the stack "work", one frame *)
(* per block being checked.  A generic call suspends the statement it is   *)
(* in while the body of the instance is checked, as instantiateGeneric     *)
(* does inside checkExpr; the statement is then checked with the instance  *)
(* in the table.  An error is what is wrong, without its place; those of an *)
(* expression and those of the TYPEs are one error each here.              *)
(*                                                                         *)
(* Statements, by their s:                                                 *)
(*   dim x t array bounds     redim x t bounds    const x t e              *)
(*   enum members<<[x, e]>>   assign x index e    store target e           *)
(*   retassign e              print args          if conds blocks          *)
(*   select e arms<<[else, matches, body]>>       for x from to step body  *)
(*   do pre body post         while e body        goto x   label x         *)
(*   gosub x                  exit what           call on x args           *)
(*   return e                 yield e             ns x body                *)
(*   proc x owner role fn t params op extern conv generic async body       *)
(*   type x union extends fields methods                                   *)
(*                                                                         *)
(* What is made of expressions and of TYPEs (Expressions, TypeTable) is a  *)
(* parameter: the walk is the same whatever they say.                      *)
(***************************************************************************)
EXTENDS Scopes, SequencesExt

CONSTANTS
    Programs,               \* the modules that may be given
    Statements,             \* the statements in them and in instances of their generics
    ArgTypes,               \* bound: the types a generic is called for
    \* Sema's view of an expression, with T and S as in Scopes: its type and errors,
    \* the instances [x, t] it asks for, and its value if it is constant.
    ExprResult(_, _, _), RequestsOf(_, _, _), IsConstant(_, _), ConstantValue(_, _),
    \* The types: the table of a module's TYPEs and what is reported about them.
    Assignable(_, _, _), FieldOf(_, _, _), SuffixOf(_),
    TypesOf(_, _), TypeErrors(_, _), OperatorsOf(_, _), ExternFaults(_, _)

Leaves == {"dim", "redim", "const", "enum", "assign", "store", "retassign", "print", "goto",
           "label", "gosub", "exit", "call", "return", "yield", "type"}
Nests  == {"if", "select", "for", "do", "while", "ns", "proc"}

IsSeq(q) == q \in Seq({q[i] : i \in DOMAIN q})
\* What is in a statement are statements again.
WellFormed(st) ==
    /\ st.s \in Leaves \cup Nests
    /\ st.s \in {"for", "do", "while", "ns", "proc"} => st.body \in Seq(Statements)
    /\ st.s = "if" => st.blocks \in Seq(Seq(Statements))
    /\ st.s = "select" => /\ IsSeq(st.arms)
                          /\ \A i \in DOMAIN st.arms : st.arms[i].body \in Seq(Statements)
    /\ st.s = "enum" => IsSeq(st.members)
    /\ st.s = "dim" => st.array \in BOOLEAN
    /\ st.s = "label" => st.x # None

VARIABLES
    module,   \* the statements of the module being compiled
    tables,   \* labels, gosubs, procs, generics, structs, ops, namespaces
    scope,    \* what a name means here, and where "here" is
    values,   \* constIntValues_: the values of ENUM members, by bare name
    work,     \* the blocks being checked, innermost first
    judged,   \* what checkExpr said of the expressions of the statement at hand
    diags,    \* what has been reported
    pending,  \* instances to be appended to the module: [key, st]
    stage     \* "collect", "collect types", "check", then what the code generator makes of it

semaVars == <<module, tables, scope, values, work, judged, diags, pending, stage>>

EmptyScope == [symbols |-> <<>>, locals |-> <<>>, prefix |-> <<>>, class |-> None,
               inProc |-> FALSE, ret |-> Unknown, loops |-> <<>>, gosub |-> FALSE]

\* A block: what is left of it, whether its statements are at the top level,
\* what its end ends, the scope it was entered with; the instance it is.
Frame(todo, top, ends) ==
    [todo |-> todo, top |-> top, ends |-> ends, saved |-> scope, key |-> <<>>, st |-> None]
NotYet == [done |-> FALSE, of |-> <<>>]

SemaInit ==
    /\ module \in Programs
    /\ tables = [labels |-> {}, gosubs |-> {}, procs |-> <<>>, generics |-> <<>>,
                 structs |-> <<>>, ops |-> <<>>, namespaces |-> {}]
    /\ scope = EmptyScope
    /\ values = <<>> /\ work = <<>> /\ judged = NotYet /\ diags = {} /\ pending = <<>>
    /\ stage = "collect"

-----------------------------------------------------------------------------
(* The passes before the walk. *)

NamesOf(stmts, kind) == {stmts[i].x : i \in Where(stmts, LAMBDA st : st.s = kind)}

collectLabels(stmts) ==
    Check(Repeats(stmts, Where(stmts, LAMBDA st : st.s = "label"), SameName) = {},
          "label twice")

collectGosubUsage(stmts) ==
    Check(NamesOf(stmts, "label") \cap NamesOf(stmts, "gosub") \cap NamesOf(stmts, "goto") = {},
          "label for GOTO and GOSUB")

\* The procedures of a statement, of a namespace those in it, with their keys.
KeyedIn[st \in Statements, prefix \in Seq(STRING)] ==
    IF st.s = "ns"
    THEN FlattenSeq([i \in DOMAIN st.body |-> KeyedIn[st.body[i], Append(prefix, st.x)]])
    ELSE IF st.s = "proc" /\ st.owner = None /\ st.op = None
    THEN <<[key |-> Append(prefix, st.x), st |-> st]>> ELSE <<>>
Keyed(stmts) == FlattenSeq([i \in DOMAIN stmts |-> KeyedIn[stmts[i], <<>>]])

NamespacesIn[st \in Statements] ==
    IF st.s = "ns" THEN {st.x} \cup UNION {NamespacesIn[st.body[i]] : i \in DOMAIN st.body} ELSE {}
Namespaces(stmts) == UNION {NamespacesIn[stmts[i]] : i \in DOMAIN stmts}

Signature(st) == [fn |-> st.fn, t |-> IF st.fn THEN st.t ELSE Unknown, params |-> st.params,
                  extern |-> st.extern, conv |-> st.conv]

collectProcedures(stmts) ==
    LET keyed == Keyed(stmts)
        SameKey(a, b) == a.key = b.key
        again == Repeats(keyed, DOMAIN keyed, SameKey)
        first(is, k) == keyed[CHOOSE i \in is : keyed[i].key = k].st
        generic == {i \in DOMAIN keyed \ again : keyed[i].st.generic # None}
        plain == DOMAIN keyed \ (again \cup generic)
    IN  [procs    |-> [k \in {keyed[i].key : i \in plain} |-> Signature(first(plain, k))],
         generics |-> [k \in {keyed[i].key : i \in generic} |-> first(generic, k)],
         errs     |-> Check(again = {}, "declared twice")]

\* The names: labels, procedures and TYPEs; then what depends on all of them.
CollectNames ==
    /\ stage = "collect"
    /\ LET ps == collectProcedures(module)
           procs == {module[i].x : i \in {j \in Free(module) : <<module[j].x>> \in DOMAIN ps.procs}}
       IN  /\ tables' = [labels |-> NamesOf(module, "label"),
                         gosubs |-> NamesOf(module, "gosub"),
                         procs |-> ps.procs, generics |-> ps.generics,
                         structs |-> TypesOf(module, procs), ops |-> <<>>,
                         namespaces |-> Namespaces(module)]
           /\ diags' = collectLabels(module) \cup ps.errs
    /\ stage' = "collect types"
    /\ UNCHANGED <<module, scope, values, work, judged, pending>>

CollectTypes ==
    /\ stage = "collect types"
    /\ LET os == OperatorsOf(module, tables.structs)
       IN  /\ tables' = [tables EXCEPT !.ops = os.overloads]
           /\ diags' = diags \cup Check(TypeErrors(module, tables.structs) \cup os.errs
                                        \cup ExternFaults(module, tables.structs) = {}, "TYPEs")
                       \cup collectGosubUsage(module)
    /\ work' = <<Frame(module, TRUE, "module")>>
    /\ stage' = "check"
    /\ UNCHANGED <<module, scope, values, judged, pending>>

-----------------------------------------------------------------------------
(* The statement at hand. *)

T == tables
S == scope
Now == Head(Head(work).todo)
Top == Head(work).top
Rest == <<[Head(work) EXCEPT !.todo = Tail(@)]>> \o Tail(work)
\* The results for the expressions of this statement, the i-th of them.
It(i) == judged.of[i]
\* Of what is reported on an expression only that there is something.
Faulty(result) == Check(result.errs = {}, "expression")
AllErrors == UNION {Faulty(It(i)) : i \in DOMAIN judged.of}
Fits(t, result) == Check(Assignable(T.structs, t, result.t), "type mismatch")

checkCondition(e, result) ==
    IF e = NoExpr THEN {} ELSE Faulty(result) \cup Check(isNumericType(result.t), "condition type")
WholeNumbers(results, what) ==
    UNION {Faulty(results[i]) \cup Check(isIntegerFamily(results[i].t), what) : i \in DOMAIN results}

\* The innermost SUB or FUNCTION around; "none" at the top level.
AroundOf(loops) ==
    LET at == {i \in DOMAIN loops : loops[i] \in {"Sub", "Function"}}
    IN  IF at = {} THEN "none" ELSE loops[CHOOSE i \in at : \A j \in at : j <= i]
Around == AroundOf(S.loops)

IsField(x) == S.class # None /\ FieldOf(T.structs, S.class, x) # Null

\* The expressions a statement has checked before its blocks, in their order,
\* none when it returns early.
Evaluated(st) ==
    CASE st.s = "dim" -> IF Taken(T, S, st.x) THEN <<>> ELSE st.bounds
      [] st.s = "const" -> IF Taken(T, S, st.x) THEN <<>> ELSE <<st.e>>
      [] st.s = "redim" -> IF lookupSymbol(S, st.x).array THEN st.bounds ELSE <<>>
      [] st.s = "assign" ->
            LET var == lookupSymbol(S, st.x) IN
            IF var.const \/ (var = NoSymbol /\ ~(st.index = NoExpr /\ IsField(st.x))) THEN <<>>
            ELSE <<st.index, st.e>>
      [] st.s = "store" -> <<st.target, st.e>>
      [] st.s = "return" ->
            IF (Around = "none" /\ ~S.gosub) \/ (Around = "Function" /\ ~(S.ret.k = "Coroutine" /\ S.ret.gen))
            THEN <<st.e>> ELSE <<>>
      [] st.s \in {"retassign", "select", "while", "yield", "post"} -> <<st.e>>
      [] st.s = "print" -> st.args
      [] st.s = "call"  -> <<[k |-> "callstmt", on |-> st.on, x |-> st.x, args |-> st.args]>>
      [] st.s = "if"    -> st.conds
      [] st.s = "arm"   -> st.matches
      [] st.s = "for"   -> <<st.from, st.to, st.step>>
      [] st.s = "do"    -> <<st.pre>>
      [] OTHER -> <<>>

\* checkBlock skips the generics; a namespace hands on the members it allows.
InNamespace == {"const", "enum", "dim", "proc"}
Skipped(st) == st.s = "proc" /\ st.generic # None /\ Head(work).ends # "namespace"
Stray(st) == Head(work).ends = "namespace" /\ st.s \notin InNamespace

Busy == stage = "check" /\ work # <<>> /\ Head(work).todo # <<>>
Turn == Busy /\ ~Skipped(Now) /\ ~Stray(Now)
\* checkExpr is called on the statement's expressions once their instances exist.
CheckExpressions ==
    /\ Turn /\ ~judged.done
    /\ RequestsOf(T, S, Evaluated(Now)) = <<>>
    /\ judged' = [done |-> TRUE,
                  of |-> [i \in DOMAIN Evaluated(Now) |-> ExprResult(T, S, Evaluated(Now)[i])]]
    /\ UNCHANGED <<module, tables, scope, values, work, diags, pending, stage>>

At(kind) == Turn /\ judged.done /\ Now.s = kind

\* The current statement is done, with these errors; its scope is as given.
Done(errs, s) ==
    /\ diags' = diags \cup errs
    /\ scope' = s
    /\ work' = Rest
    /\ judged' = NotYet
    /\ UNCHANGED <<module, tables, values, pending, stage>>
\* It goes on with a block of its own, in this scope.
Enter(errs, s, frame) ==
    /\ diags' = diags \cup errs
    /\ scope' = s
    /\ work' = <<frame>> \o Rest
    /\ judged' = NotYet
    /\ UNCHANGED <<module, tables, values, pending, stage>>

\* Where a declaration goes: its keys and their symbols.
\* Mutant: that does not depend on where it stands.
DeclaredAnywhere(s, symbols) == [s EXCEPT !.symbols = Merge(symbols, @)]
Declared(s, symbols) ==
    IF s.inProc THEN [s EXCEPT !.locals = Merge(symbols, @)]
    ELSE [s EXCEPT !.symbols = Merge(symbols, @)]

Symbol(t, const, array, dynamic) ==
    [t |-> t, const |-> const, array |-> array, dynamic |-> dynamic]
One(x, symbol) == [k \in {ScopeKey(S, x)} |-> symbol]

-----------------------------------------------------------------------------
(* Declarations of variables and constants. *)

Dim ==
    /\ At("dim")
    /\ LET st == Now
           known == IsUser(st.t) => st.t.name \in DOMAIN T.structs
           errs == Check(known, "unknown TYPE")
                   \cup Check(IsUser(st.t) /\ known => ~T.structs[st.t.name].opaque, "opaque TYPE")
                   \cup (IF st.array THEN WholeNumbers(judged.of, "bound type") ELSE {})
       IN  IF Taken(T, S, st.x) THEN Done({"declared twice"}, S)
           ELSE Done(errs, Declared(S, One(st.x, Symbol(st.t, FALSE, st.array,
                                                        st.array /\ st.bounds = <<>>))))

Redim ==
    /\ At("redim")
    /\ LET var == lookupSymbol(S, Now.x)
       IN  Done(IF var = NoSymbol THEN {"not declared"}
                ELSE IF ~var.array THEN {"not an array"}
                ELSE Check(var.dynamic, "fixed array")
                     \cup Check(Now.t # Unknown => Assignable(T.structs, Now.t, var.t),
                                "type mismatch")
                     \cup WholeNumbers(judged.of, "bound type"), S)

Const ==
    /\ At("const")
    /\ LET t == IF Now.t # Unknown THEN Now.t ELSE It(1).t
       IN  IF Taken(T, S, Now.x) THEN Done({"declared twice"}, S)
           ELSE Done(Faulty(It(1)) \cup Fits(t, It(1))
                     \cup Check(IsConstant(S, Now.e), "not constant"),
                     Declared(S, One(Now.x, Symbol(t, TRUE, FALSE, FALSE))))

\* The members of an ENUM that are new; the others are reported.
Fresh(members) ==
    {i \in DOMAIN members : /\ ~Taken(T, S, members[i].x)
                            /\ \A j \in 1..(i - 1) : members[j].x # members[i].x}

\* One member after another: its value, and the value after it.
EnumValues(members) ==
    LET kept == S.inProc \/ S.prefix = <<>>
        after[i \in 0..Len(members)] ==
          IF i = 0 THEN [next |-> 0, values |-> values, ok |-> TRUE]
          ELSE LET before == after[i - 1]
                   m == members[i]
                   given == IF m.e = NoExpr THEN [ok |-> TRUE, v |-> before.next]
                            ELSE ConstantValue(before.values, m.e)
                   value == IF given.ok THEN given.v ELSE before.next
               IN  [next |-> value + 1,
                    values |-> IF i \in Fresh(members) /\ kept THEN Bind(before.values, m.x, value)
                               ELSE before.values,
                    ok |-> before.ok /\ given.ok]
    IN  after[Len(members)]

Enum ==
    /\ At("enum")
    /\ LET members == Now.members
           end == EnumValues(members)
       IN  /\ diags' = diags \cup Check(end.ok, "not constant")
                       \cup Check(Fresh(members) = DOMAIN members, "declared twice")
           /\ scope' = Declared(S, [k \in {ScopeKey(S, members[i].x) : i \in Fresh(members)} |->
                                       Symbol(Integer, TRUE, FALSE, FALSE)])
           /\ values' = end.values
    /\ work' = Rest
    /\ judged' = NotYet
    /\ UNCHANGED <<module, tables, pending, stage>>

-----------------------------------------------------------------------------
(* Assignments, output, calls. *)

Assign ==
    /\ At("assign")
    /\ LET var == lookupSymbol(S, Now.x)
           field == FieldOf(T.structs, S.class, Now.x)
       IN  Done(IF var = NoSymbol
                THEN IF Now.index = NoExpr /\ IsField(Now.x)
                     THEN Faulty(It(2)) \cup Fits(field, It(2)) ELSE {"not declared"}
                ELSE IF var.const THEN {"constant"}
                ELSE (IF Now.index # NoExpr
                      THEN Check(var.array, "not an array") \cup WholeNumbers(<<It(1)>>, "index type")
                      ELSE Check(~var.array, "array without index"))
                     \cup Faulty(It(2)) \cup Fits(var.t, It(2)), S)

Store ==
    /\ At("store")
    /\ Done(AllErrors \cup Fits(It(1).t, It(2)), S)

ReturnAssign ==
    /\ At("retassign")
    /\ Done(AllErrors \cup (IF S.ret.k = "Coroutine" THEN {"Async assigns its name"}
                             ELSE Fits(S.ret, It(1))), S)

PrintStmt == At("print") /\ Done(AllErrors, S)

CallStmt == At("call") /\ Done(AllErrors, S)

-----------------------------------------------------------------------------
(* Blocks and loops.  A block of a statement is never at the top level.  The *)
(* blocks of IF and SELECT are the arms of one frame, a LOOP and its last    *)
(* condition the parts of another.                                           *)

Inner(todo) == Frame(todo, FALSE, "block")
Loop(todo)  == Frame(todo, FALSE, "loop")
InLoop(kind) == [S EXCEPT !.loops = Append(@, kind)]
ArmOf(sel, matches, body, early) ==
    [s |-> "arm", sel |-> sel, matches |-> matches, body |-> body, early |-> early]

If ==
    /\ At("if")
    /\ Enter(UNION {checkCondition(Now.conds[i], It(i)) : i \in DOMAIN Now.conds}, S,
             Inner([i \in DOMAIN Now.blocks |-> ArmOf(Unknown, <<>>, Now.blocks[i], FALSE)]))

\* The arms are checked in turn, each with its matches before its body.
SelectCase ==
    /\ At("select")
    /\ Enter(AllErrors, S,
             Inner([i \in DOMAIN Now.arms |->
                       ArmOf(It(1).t, Now.arms[i].matches, Now.arms[i].body,
                             Now.arms[i].else /\ i # Len(Now.arms))]))
Arm ==
    /\ At("arm")
    /\ Enter(Check(~Now.early, "CASE ELSE not last")
             \cup UNION {Faulty(It(i)) \cup Check(isCaseCompatible(Now.sel, It(i).t), "CASE type")
                         : i \in DOMAIN Now.matches}, S, Inner(Now.body))

ForNext ==
    /\ At("for")
    /\ LET var == lookupSymbol(S, Now.x)
       IN  Enter(Check(var # NoSymbol, "not declared")
                 \cup Check(var = NoSymbol \/ (~var.const /\ ~var.array /\ isNumericType(var.t)),
                            "FOR variable")
                 \cup checkCondition(Now.from, It(1)) \cup checkCondition(Now.to, It(2))
                 \cup checkCondition(Now.step, It(3)), InLoop("For"), Loop(Now.body))

WhileWend == At("while") /\ Enter(checkCondition(Now.e, It(1)), InLoop("While"), Loop(Now.body))

\* The condition after LOOP is checked when the loop has been left.
DoLoop ==
    /\ At("do")
    /\ Enter(checkCondition(Now.pre, It(1)), S,
             Inner(<<[s |-> "round", body |-> Now.body], [s |-> "post", e |-> Now.post]>>))
LoopBody == At("round") /\ Enter({}, InLoop("Do"), Loop(Now.body))
LoopUntil == At("post") /\ Done(checkCondition(Now.e, It(1)), S)

-----------------------------------------------------------------------------
(* Jumps. *)

Goto == At("goto") /\ Done(Check(Top, "GOTO nested") \cup Check(Now.x \in T.labels, "no label"), S)
GoSub == At("gosub") /\ Done(Check(Top, "GOSUB nested") \cup Check(Now.x \in T.labels, "no label"), S)

\* Mutant: a span goes on after a label that is no target of GOSUB.
LabelInSpan ==
    At("label") /\ Done(Check(Top, "label nested"), [S EXCEPT !.gosub = @ \/ Now.x \in T.gosubs])
\* A label ends the span of a GOSUB target and may start one.
Label ==
    At("label") /\ Done(Check(Top, "label nested"), [S EXCEPT !.gosub = Now.x \in T.gosubs])

ExitLoop ==
    At("exit") /\ Done(Check(\E i \in DOMAIN S.loops : S.loops[i] = Now.what, "EXIT outside"), S)

IsGenerator(t) == t.k = "Coroutine" /\ t.gen
\* What RETURN and YIELD give, inside an Async FUNCTION: the value type.
Given(t) == IF t.k # "Coroutine" THEN t ELSE IF t.val = Null THEN Unknown ELSE t.val

Return ==
    /\ At("return")
    /\ Done(IF Around = "none" /\ ~S.gosub THEN {"RETURN outside"} \cup AllErrors
             ELSE IF Around # "Function" \/ IsGenerator(S.ret)
             THEN Check(Now.e = NoExpr, "RETURN a value")
             ELSE IF Now.e = NoExpr THEN {"RETURN no value"}
             ELSE AllErrors \cup Fits(Given(S.ret), It(1)), S)

Yield ==
    /\ At("yield")
    /\ Done(AllErrors \cup (IF Around = "Function" /\ IsGenerator(S.ret)
                             THEN Fits(Given(S.ret), It(1)) ELSE {"YIELD outside"}), S)

-----------------------------------------------------------------------------
(* Procedures, instances, namespaces. *)

\* The scope of a body: its parameters, and a RETURN of this type.
Body(params, ret, class, fn) ==
    [S EXCEPT !.locals = [k \in {<<params[i].x>> : i \in DOMAIN params} |->
                            Symbol(params[CHOOSE i \in DOMAIN params : <<params[i].x>> = k].t,
                                   FALSE, FALSE, FALSE)],
              !.inProc = TRUE, !.ret = ret, !.class = class,
              !.loops = Append(@, IF fn THEN "Function" ELSE "Sub")]

ProcDecl ==
    /\ At("proc")
    /\ LET st  == Now
           ret == IF st.fn THEN st.t ELSE IF st.async THEN Task(Null) ELSE Unknown
       IN  IF ~Top THEN Done({"procedure nested"}, S)
           ELSE Enter(Check(st.fn => st.async = (st.t.k = "Coroutine"), "Async")
                      \cup Check(Repeats(st.params, DOMAIN st.params, SameName) = {}, "parameter twice"),
                      Body(st.params, ret, st.owner, st.fn),
                      Frame(st.body, FALSE, "body"))

SkipGeneric == Busy /\ Skipped(Now) /\ Done({}, S)

\* The statements of a generic with its type parameter replaced.
substituteGenericType(g, param, t) ==
    LET Type(u) == IF u = User(param) THEN t ELSE u
        substituted[st \in Statements] ==
          LET Block(b) == [i \in DOMAIN b |-> substituted[b[i]]]
          IN  [f \in DOMAIN st |->
                  CASE f = "t"      -> Type(st.t)
                    [] f = "params" -> [i \in DOMAIN st.params |-> [st.params[i] EXCEPT !.t = Type(@)]]
                    [] f = "body"   -> Block(st.body)
                    [] f = "blocks" -> [i \in DOMAIN st.blocks |-> Block(st.blocks[i])]
                    [] f = "arms"   -> [i \in DOMAIN st.arms |->
                                          [st.arms[i] EXCEPT !.body = Block(@)]]
                    [] OTHER -> st[f]]
    IN  substituted[g]
Instance(g, t) == [substituteGenericType(g, g.generic, t) EXCEPT !.generic = None]

\* It is declared under this key, and its body checked.
Instantiate(key, st) ==
    /\ tables' = [tables EXCEPT !.procs = Bind(@, key, [Signature(st) EXCEPT !.extern = FALSE])]
    /\ scope' = Body(st.params, IF st.fn THEN st.t ELSE Unknown, None, st.fn)
    /\ work' = <<[Frame(st.body, FALSE, "instance") EXCEPT !.key = key, !.st = st]>> \o work
    /\ UNCHANGED <<module, values, judged, diags, pending, stage>>

HeadOf(q) == IF q = <<>> THEN {} ELSE {Head(q)}
instantiateGeneric ==
    /\ Turn /\ ~judged.done
    /\ \E r \in HeadOf(RequestsOf(T, S, Evaluated(Now))) :
          /\ <<r.x>> \in DOMAIN T.generics /\ r.t \in ArgTypes
          /\ InstanceKey(r.x, SuffixOf(r.t)) \notin DOMAIN T.procs
          /\ Instantiate(InstanceKey(r.x, SuffixOf(r.t)),
                         Instance(T.generics[<<r.x>>], r.t))

NamespaceDecl ==
    /\ At("ns")
    /\ IF ~Top THEN Done({"namespace nested"}, S)
       ELSE Enter({}, [S EXCEPT !.prefix = Append(@, Now.x)], Frame(Now.body, TRUE, "namespace"))
StrayMember == Busy /\ Stray(Now) /\ Done({"namespace member"}, S)

TypeDecl == At("type") /\ Done(Check(Top, "TYPE nested"), S)

\* The end of a block gives the scope back what the block took: of a body four
\* fields that were put aside and what was pushed on the loops.
\* Mutant: after an instance the caller counts as a procedure.
RestoredLeaking(ends, saved) ==
    LET out == [S EXCEPT !.loops = SubSeq(@, 1, Len(@) - 1)]
    IN  CASE ends \in {"body", "instance"} ->
                [out EXCEPT !.locals = saved.locals, !.inProc = ends = "instance" \/ saved.inProc,
                            !.ret = saved.ret, !.class = saved.class]
          [] ends = "loop" -> out
          [] ends = "namespace" -> [S EXCEPT !.prefix = saved.prefix]
          [] OTHER -> S
Restored(ends, saved) ==
    LET out == [S EXCEPT !.loops = SubSeq(@, 1, Len(@) - 1)]
    IN  CASE ends \in {"body", "instance"} ->
                [out EXCEPT !.locals = saved.locals, !.inProc = saved.inProc,
                            !.ret = saved.ret, !.class = saved.class]
          [] ends = "loop" -> out
          [] ends = "namespace" -> [S EXCEPT !.prefix = saved.prefix]
          [] OTHER -> S

EndBlock ==
    /\ stage = "check" /\ work # <<>> /\ Head(work).todo = <<>>
    /\ LET f == Head(work)
       IN  /\ scope' = Restored(f.ends, f.saved)
           /\ pending' = IF f.ends = "instance"
                         THEN Append(pending, [key |-> f.key, st |-> f.st]) ELSE pending
           /\ stage' = IF f.ends # "module" THEN stage
                       ELSE IF diags = {} THEN "generate" ELSE "rejected"
    /\ work' = Tail(work)
    /\ UNCHANGED <<module, tables, values, judged, diags>>

-----------------------------------------------------------------------------
(* What the constants have to be: the statements are closed under what is in *)
(* them and under instantiation, and a type an instance is made for has a    *)
(* suffix for its name.                                                      *)

ASSUME StatementsAssumption ==
    /\ Programs \subseteq Seq(Statements)
    /\ \A st \in Statements : WellFormed(st)

ASSUME KeyedAssumption ==
    \A m \in Programs :
        Keyed(m) \in Seq([key : Seq(STRING), st : {st \in Statements : st.s = "proc"}])

ASSUME InstanceAssumption ==
    \A t \in ArgTypes :
        /\ SuffixOf(t) \in Seq(STRING) \ {<<>>}
        /\ \A g \in Statements :
              g.s = "proc" /\ g.generic # None =>
                Instance(g, t) \in {st \in Statements : st.s = "proc" /\ st.generic = None}
=============================================================================
