------------------------------ MODULE FrontEnd ------------------------------
(***************************************************************************)
(* ebc between the parser and the C++ compiler: semantic analysis (Sema),  *)
(* and when it reports nothing the code generator (Codegen::generate),     *)
(* which walks the statements and the instances appended to them.          *)
(*                                                                         *)
(* Of the generated program the model keeps which C++ function each piece  *)
(* of control ends up in: "main", one function per GOSUB span, one per     *)
(* procedure.  A piece is a pair: <<"return", has a value>>, <<"goto", x>>, *)
(* <<"gosub", x>>, <<"label", x>>, <<"break", kind of loop>>,              *)
(* <<"leave", "Sub" or "Function">>, <<"throw", what>>.                    *)
(*                                                                         *)
(* A recursive function f of statements is written as f[st] == Step(f, st) *)
(* where Step looks one level into the statement.                          *)
(***************************************************************************)
EXTENDS Sema

CONSTANTS
    TypesAfter(_, _, _, _),  \* the TYPEs emitted after one (TypeTable)
    BoundsIn(_)              \* the names whose UBOUND or LBOUND an expression asks for

VARIABLES
    pos,     \* the statement being generated
    open,    \* the GOSUB target whose function is open, or None
    arrays,  \* arrayLowerBoundVar_: the names that are arrays here
    out      \* types: the definitions in order; main, subs, procs: their control;
             \* inside: procedures defined while a span was open

codegenVars == <<pos, open, arrays, out>>
vars == <<module, tables, scope, values, work, judged, diags, pending, stage, pos, open, arrays, out>>

Init ==
    /\ SemaInit
    /\ pos = 1 /\ open = None /\ arrays = {}
    /\ out = [types |-> <<>>, main |-> {}, subs |-> <<>>, procs |-> <<>>, inside |-> {}]

-----------------------------------------------------------------------------
(* The blocks of a statement that is no declaration, and what loop they are. *)

Parts(st) ==
    CASE st.s = "if"     -> st.blocks
      [] st.s = "select" -> [i \in DOMAIN st.arms |-> st.arms[i].body]
      [] st.s \in {"for", "do", "while"} -> <<st.body>>
      [] OTHER -> <<>>
LoopOf(st) == CASE st.s = "for" -> {"For"} [] st.s = "do" -> {"Do"}
                [] st.s = "while" -> {"While"} [] OTHER -> {}

\* No statement is inside itself.
HeightStep(height, st) ==
    LET inner == UNION {{height[Parts(st)[j][i]] : i \in DOMAIN Parts(st)[j]} : j \in DOMAIN Parts(st)}
    IN  IF inner = {} THEN 0 ELSE 1 + CHOOSE n \in inner : \A k \in inner : k <= n
Height[st \in Statements] == HeightStep(Height, st)

ASSUME HeightAssumption ==
    \A st \in Statements :
        /\ Height[st] \in Nat
        /\ \A j \in DOMAIN Parts(st) : \A i \in DOMAIN Parts(st)[j] :
              Height[Parts(st)[j][i]] < Height[st]

-----------------------------------------------------------------------------
(* Codegen::genStmt: the arrays a statement declares, and its control, given *)
(* the loops around it in its procedure and the arrays known before it.      *)

ArraysStep(of, st) ==
    (IF st.s = "dim" /\ st.array THEN {st.x} ELSE {})
    \cup UNION {UNION {of[Parts(st)[j][i]] : i \in DOMAIN Parts(st)[j]} : j \in DOMAIN Parts(st)}
ArraysOf[st \in Statements] == ArraysStep(ArraysOf, st)
ArraysIn(b) == UNION {ArraysOf[b[i]] : i \in DOMAIN b}
ArraysBefore(b, i) == UNION {ArraysOf[b[j]] : j \in 1..(i - 1)}

ArrayNames == {st.x : st \in {d \in Statements : d.s = "dim" /\ d.array}}
Breakable == {"For", "Do", "While"}

\* The loops around the blocks of a statement.
\* Mutant: only the innermost loop can be left.
LoopsInnermost(loops, st) == IF LoopOf(st) = {} THEN loops ELSE LoopOf(st)
LoopsIn(loops, st) == loops \cup LoopOf(st)
genExit(what, loops) ==
    IF what \in {"Sub", "Function"} THEN <<"leave", what>>
    ELSE IF what \in loops THEN <<"break", what>> ELSE <<"throw", "EXIT">>

\* The expressions that are generated before the blocks of a statement, and
\* those that are between the block before the j-th and the j-th.
Spoken(st) ==
    CASE st.s = "dim"    -> IF st.array THEN ToSet(st.bounds) ELSE {}
      [] st.s = "redim"  -> ToSet(st.bounds)
      [] st.s = "assign" -> {st.index, st.e}
      [] st.s = "store"  -> {st.target, st.e}
      [] st.s = "print"  -> ToSet(st.args)
      [] st.s = "call"   -> {[k |-> "callstmt", on |-> st.on, x |-> st.x, args |-> st.args]}
      [] st.s = "for"    -> {st.from, st.to, st.step}
      [] st.s = "do"     -> {st.pre}
      [] st.s \in {"const", "retassign", "select", "while", "return", "yield"} -> {st.e}
      [] OTHER -> {}
SpokenAt(st, j) ==
    CASE st.s = "if" /\ j \in DOMAIN st.conds    -> {st.conds[j]}
      [] st.s = "select" /\ j \in DOMAIN st.arms -> ToSet(st.arms[j].matches)
      [] st.s = "do" /\ j = 2 -> {st.post}
      [] OTHER -> {}

\* genExpr looks up the arrays that UBOUND and LBOUND are asked of; REDIM and
\* a(i) = e look up theirs.
Asked(es) == UNION {BoundsIn(e) : e \in es \ {NoExpr}}
Indexes(st) == st.s = "redim" \/ (st.s = "assign" /\ st.index # NoExpr)
PartsArrays(st, j) == UNION {ArraysIn(Parts(st)[k]) : k \in 1..(j - 1)}
\* The arrays that are not there when the statement looks them up.
Missed(st, known) ==
    (((IF Indexes(st) THEN {st.x} ELSE {}) \cup Asked(Spoken(st))) \ known)
    \cup UNION {Asked(SpokenAt(st, j)) \ (known \cup PartsArrays(st, j)) :
                   j \in 1..(Len(Parts(st)) + 1)}

BlockStep(gen, b, loops, known) ==
    UNION {gen[b[i], loops, known \cup ArraysBefore(b, i)] : i \in DOMAIN b}
GenStep(gen, st, loops, known) ==
    {<<"throw", "array">> : x \in Missed(st, known)}
    \cup
    CASE st.s \in {"goto", "gosub", "label"} -> {<<st.s, st.x>>}
      [] st.s = "return" -> {<<"return", st.e # NoExpr>>}
      [] st.s = "exit"   -> {genExit(st.what, loops)}
      [] st.s \in {"proc", "type", "ns"} -> {<<"throw", st.s>>}
      [] OTHER -> UNION {BlockStep(gen, Parts(st)[j], LoopsIn(loops, st),
                                   known \cup PartsArrays(st, j)) : j \in DOMAIN Parts(st)}
genStmt[st \in Statements, loops \in SUBSET Breakable, known \in SUBSET ArrayNames] ==
    GenStep(genStmt, st, loops, known)
genBlock(b, known) == BlockStep(genStmt, b, {}, known)

-----------------------------------------------------------------------------
(* Codegen::generate, one top-level statement a step. *)

Unit(i) == IF i <= Len(module) THEN module[i] ELSE pending[i - Len(module)].st
KeyOf(i) == IF i <= Len(module) THEN <<module[i].owner, module[i].x>>
            ELSE <<None>> \o pending[i - Len(module)].key
Units == Len(module) + Len(pending)

At2(kinds) == stage = "generate" /\ pos <= Units /\ Unit(pos).s \in kinds

\* The output after a statement; an uncaught throw ends the program.
Emit(new, as) ==
    /\ out' = new
    /\ arrays' = as
    /\ pos' = pos + 1
    /\ UNCHANGED <<module, tables, scope, values, work, judged, diags, pending>>
Throws(tokens) == \E t \in tokens : t[1] = "throw"
Survives(tokens) == stage' = IF Throws(tokens) THEN "crashed" ELSE stage

\* The function of the span that is open, or main, gets what g has.
Into(tokens) == IF open # None THEN [out EXCEPT !.subs[open] = @ \cup tokens]
                ELSE [out EXCEPT !.main = @ \cup tokens]

\* Mutant: the statements after a target of GOSUB stay where they are.
GenLabelInline ==
    /\ At2({"label"})
    /\ open' = None
    /\ Emit([out EXCEPT !.main = @ \cup {<<"label", Unit(pos).x>>}], arrays)
    /\ UNCHANGED stage
GenLabel ==
    /\ At2({"label"})
    /\ LET x == Unit(pos).x
       IN  IF x \in T.gosubs
           THEN /\ open' = x
                /\ Emit([out EXCEPT !.subs = Bind(@, x, {})], arrays)
           ELSE /\ open' = None
                /\ Emit([out EXCEPT !.main = @ \cup {<<"label", x>>}], arrays)
    /\ UNCHANGED stage

\* What a global looks up counts as main's.
Globals == {"dim", "const", "enum"}
GenGlobal ==
    /\ At2(Globals)
    /\ LET tokens == genStmt[Unit(pos), {}, arrays]
       IN  /\ Emit([out EXCEPT !.main = @ \cup tokens], arrays \cup ArraysOf[Unit(pos)])
           /\ Survives(tokens)
    /\ UNCHANGED open

\* genProcedure and genMethodDefinition: the arrays of a body stay in it.
ProcTokens(st, known) == IF st.extern THEN {} ELSE genBlock(st.body, known)
GenProcedure ==
    /\ At2({"proc"})
    /\ LET st == Unit(pos)
           tokens == IF st.generic # None THEN {} ELSE ProcTokens(st, arrays)
       IN  /\ Emit(IF st.generic # None THEN out
                   ELSE [out EXCEPT !.procs = Bind(@, KeyOf(pos), tokens),
                                    !.inside = IF open = None THEN @ ELSE @ \cup {KeyOf(pos)}],
                   arrays)
           /\ Survives(tokens)
    /\ UNCHANGED open

\* The members in turn, each with the arrays of those before it.
GlobalTokens(b) ==
    UNION {genStmt[b[i], {}, arrays \cup ArraysBefore(b, i)] :
             i \in {j \in DOMAIN b : b[j].s \in Globals}}
GenNamespace ==
    /\ At2({"ns"})
    /\ LET ns == Unit(pos)
           procs == {i \in DOMAIN ns.body : ns.body[i].s = "proc"}
           Tokens(i) == ProcTokens(ns.body[i], arrays \cup ArraysBefore(ns.body, i))
           named(x) == {i \in procs : ns.body[i].x = x}
           tokens == GlobalTokens(ns.body)
       IN  /\ Emit([out EXCEPT !.main = @ \cup tokens,
                               !.procs = Merge([k \in {<<ns.x, ns.body[i].x>> : i \in procs} |->
                                                   UNION {Tokens(i) : i \in named(k[2])}], @)],
                   arrays \cup ArraysIn(ns.body))
           /\ Survives(tokens \cup UNION {Tokens(i) : i \in procs})
    /\ UNCHANGED open

GenType ==
    /\ At2({"type"})
    /\ Emit([out EXCEPT !.types = TypesAfter(module, T.structs, @, Unit(pos).x)], arrays)
    /\ UNCHANGED <<open, stage>>

GenStatement ==
    /\ At2({"redim", "assign", "store", "retassign", "print", "if", "select", "for", "do", "while",
            "goto", "gosub", "exit", "call", "return", "yield"})
    /\ LET tokens == genStmt[Unit(pos), {}, arrays]
       IN  /\ Emit(Into(tokens), arrays \cup ArraysOf[Unit(pos)])
           /\ Survives(tokens)
    /\ UNCHANGED open

GenEnd ==
    /\ stage = "generate" /\ pos > Units
    /\ stage' = "written"
    /\ open' = None
    /\ UNCHANGED <<module, tables, scope, values, work, judged, diags, pending, pos, arrays, out>>

CodegenNext == GenLabel \/ GenGlobal \/ GenProcedure \/ GenNamespace \/ GenType \/ GenStatement
               \/ GenEnd
Stages == {"collect", "collect types", "check", "generate", "written", "rejected", "crashed"}
Ended == stage \in {"written", "rejected", "crashed"}
\* Nothing follows the end; any other state without a step is a deadlock.
Terminated == Ended /\ UNCHANGED vars
Step(A) == A /\ UNCHANGED codegenVars
Next ==
    \/ Step(CollectNames) \/ Step(CollectTypes) \/ Step(CheckExpressions)
    \/ Step(Dim) \/ Step(Redim) \/ Step(Const) \/ Step(Enum) \/ Step(Assign) \/ Step(Store)
    \/ Step(ReturnAssign) \/ Step(PrintStmt) \/ Step(CallStmt) \/ Step(If) \/ Step(SelectCase) \/ Step(Arm)
    \/ Step(ForNext) \/ Step(DoLoop) \/ Step(LoopBody) \/ Step(LoopUntil) \/ Step(WhileWend)
    \/ Step(Goto) \/ Step(GoSub) \/ Step(Label) \/ Step(ExitLoop) \/ Step(Return) \/ Step(Yield)
    \/ Step(ProcDecl) \/ Step(SkipGeneric) \/ Step(instantiateGeneric) \/ Step(NamespaceDecl)
    \/ Step(StrayMember) \/ Step(TypeDecl) \/ Step(EndBlock)
    \/ CodegenNext \/ Terminated

Spec == Init /\ [][Next]_vars

-----------------------------------------------------------------------------
(* What the control of a program means, read off its text: a statement is   *)
(* judged by what it stands in.  Each line is one kind of statement.        *)

LoopKinds == {"For", "Do", "While", "Sub", "Function"}
\* The loops and procedures around; what a RETURN gives, and whether one may
\* stand here; whether this is the top level.
Contexts == [loops : SUBSET LoopKinds, gives : {"nothing", "a value", "yields"},
             returns : BOOLEAN, top : BOOLEAN]
AtTop(span) == [loops |-> {}, gives |-> "nothing", returns |-> span, top |-> TRUE]
InProc(st) == [loops |-> {IF st.fn THEN "Function" ELSE "Sub"},
               gives |-> IF ~st.fn THEN "nothing"
                         ELSE IF IsGenerator(st.t) THEN "yields" ELSE "a value",
               returns |-> TRUE, top |-> FALSE]
Inside(c, st) == [c EXCEPT !.top = FALSE, !.loops = @ \cup LoopOf(st)]

AllIn(legal, b, c) == \A i \in DOMAIN b : legal[b[i], c]
LegalStep(legal, st, c) ==
    /\ st.s = "exit"   => st.what \in c.loops
    /\ st.s = "yield"  => c.gives = "yields"
    /\ st.s = "return" => c.returns /\ (c.gives = "a value") = (st.e # NoExpr)
    /\ st.s \in {"goto", "gosub", "label", "type", "ns"} => c.top
    /\ st.s = "proc" /\ st.generic = None => c.top /\ AllIn(legal, st.body, InProc(st))
    /\ st.s = "ns" => \A i \in DOMAIN st.body :
                         st.body[i].s = "proc" => AllIn(legal, st.body[i].body, InProc(st.body[i]))
    /\ \A j \in DOMAIN Parts(st) : AllIn(legal, Parts(st)[j], Inside(c, st))
Legal[st \in Statements, c \in Contexts] == LegalStep(Legal, st, c)
AllLegal(b, c) == AllIn(Legal, b, c)

\* Does the last label before statement i start a span?
InSpan(i) == LET before == {j \in 1..(i - 1) : module[j].s = "label"}
             IN  before # {} /\ module[CHOOSE j \in before : \A k \in before : k <= j].x \in T.gosubs
ProgramLegal == \A i \in DOMAIN module : Legal[module[i], AtTop(InSpan(i))]
\* With these loops around it, as EXIT sees it.
InstanceLegal(st, loops) == AllLegal(st.body, [InProc(st) EXCEPT !.loops = @ \cup loops])
InstancesLegal(loops) == \A i \in DOMAIN pending : InstanceLegal(pending[i].st, loops)

ControlErrors == {"EXIT outside", "YIELD outside", "RETURN outside", "RETURN a value",
                  "RETURN no value", "GOTO nested", "GOSUB nested", "label nested",
                  "TYPE nested", "procedure nested", "namespace nested"}

\* The names that a statement declares outside procedures: a namespace those of
\* its members, under its own.
DeclaredInStep(of, st) ==
    (IF st.s \in {"dim", "const"} THEN {st.x} ELSE {})
    \cup (IF st.s = "enum" THEN {st.members[j].x : j \in DOMAIN st.members} ELSE {})
    \cup UNION {UNION {of[Parts(st)[j][i]] : i \in DOMAIN Parts(st)[j]} : j \in DOMAIN Parts(st)}
DeclaredIn[st \in Statements] == DeclaredInStep(DeclaredIn, st)
DeclaredBy(st) ==
    {<<x>> : x \in DeclaredIn[st]}
    \cup IF st.s # "ns" THEN {}
         ELSE UNION {{<<st.x, x>> : x \in DeclaredIn[st.body[i]]} :
                        i \in {j \in DOMAIN st.body : st.body[j].s \in InNamespace}}

-----------------------------------------------------------------------------
(* The recursive functions of statements are what their definitions say.     *)

ASSUME RecursionAssumption ==
    \A st \in Statements :
        /\ ArraysOf[st] = ArraysStep(ArraysOf, st)
        /\ DeclaredIn[st] = DeclaredInStep(DeclaredIn, st)
        /\ \A c \in Contexts : Legal[st, c] = LegalStep(Legal, st, c)
        /\ \A loops \in SUBSET Breakable, known \in SUBSET ArrayNames :
              genStmt[st, loops, known] = GenStep(genStmt, st, loops, known)

-----------------------------------------------------------------------------
(* Properties. *)

\* The scope is well formed and empty again when the walk is over (checkBlock
\* and its callers give back by hand what they took, sema.cpp:1047-1069), the
\* open span is a target of GOSUB, and no instance is appended twice.
ScopesEnd ==
    /\ stage \in Stages
    /\ scope.inProc \in BOOLEAN /\ scope.gosub \in BOOLEAN
    /\ \A k \in DOMAIN scope.locals : scope.inProc
    /\ stage \notin {"collect", "collect types", "check"} =>
         /\ work = <<>> /\ scope.locals = <<>> /\ scope.loops = <<>> /\ scope.prefix = <<>>
         /\ ~scope.inProc /\ scope.class = None /\ scope.ret = Unknown
    /\ open \in T.gosubs \cup {None}
    /\ \A i, j \in DOMAIN pending : pending[i].key = pending[j].key => i = j

\* Sema judges EXIT, RETURN, YIELD, GOTO, GOSUB, labels and nested declarations
\* as the text does, whatever was checked before and wherever an instance was
\* asked for, with the flags and the stack it keeps (sema.cpp:1662-2028); but
\* for an EXIT in a generic body, which also sees the loops around the call.
VerdictIsLexical ==
    Ended =>
      /\ diags \cap ControlErrors = {} => ProgramLegal /\ InstancesLegal(LoopKinds)
      /\ ProgramLegal /\ InstancesLegal({}) => diags \cap ControlErrors = {}

\* The global table holds what is declared outside procedures, and nothing of a
\* procedure's or an instance's, whatever was suspended to check an instance
\* (sema.cpp:1047-1069 saves and restores four fields by hand).
GlobalsAreGlobal ==
    Ended => DOMAIN scope.symbols =
               {k \in UNION {DeclaredBy(module[i]) : i \in DOMAIN module} :
                   k \notin DOMAIN T.procs /\ k \notin {<<n>> : n \in DOMAIN T.structs}}

\* What Sema accepts, the code generator puts where C++ allows it: no RETURN in
\* main, GOTO and GOSUB of main to what is defined, a RETURN with a value in
\* functions only.  Sema and Codegen compute the spans apart from each other
\* (insideGosubBody_ in sema.cpp:1681, insideGosub in codegen.cpp:1178).
JumpsLand ==
    stage = "written" =>
      /\ \A v \in BOOLEAN : <<"return", v>> \notin out.main
      /\ \A t \in out.main : t[1] = "goto" => <<"label", t[2]>> \in out.main
      /\ \A t \in out.main \cup UNION {out.subs[x] : x \in DOMAIN out.subs} :
            t[1] = "gosub" => t[2] \in DOMAIN out.subs
      /\ \A x \in DOMAIN out.subs : <<"return", TRUE>> \notin out.subs[x]
      /\ \A k \in DOMAIN out.procs : out.procs[k] \cap {<<"goto", x>> : x \in T.labels} = {}

\* UBOUND and LBOUND are asked of arrays only, wherever they stand in an
\* expression of a statement that Sema accepts (codegen.cpp:289-293: "Sema
\* already guaranteed the sole argument is a bare identifier naming an in-scope
\* array").
BoundsAreArrays ==
    judged.done /\ Turn =>
      \A i \in DOMAIN Evaluated(Now) :
         It(i).errs = {} => \A x \in BoundsIn(Evaluated(Now)[i]) : lookupSymbol(S, x).array

\* The code generator relies on Sema for what it does not check: its table has
\* every array that a statement or an expression looks up (codegen.cpp:298, 469,
\* 514), and a statement makes it throw only by an EXIT in the instance of a
\* generic and by a generic that is declared in a block (codegen.cpp:641-672).
\* Its other throws, for types (95, 171) and unknown kinds, are not modelled.
OnlyInstancesThrow ==
    stage = "crashed" =>
      /\ \A x \in {out.main} \cup {out.subs[s] : s \in DOMAIN out.subs} :
            \A t \in x : t[1] = "throw" => t[2] = "proc"
      /\ \A k \in DOMAIN out.procs : \A t \in out.procs[k] :
            t[1] = "throw" => t[2] = "proc" \/ (t[2] = "EXIT" /\ Len(k) > 2)

\* A TYPE is defined once, after the ones it holds and extends, unless it holds
\* itself by value, which Sema leaves to the C++ compiler (codegen.cpp:716-760).
Holds(n) == LET r == T.structs[n]
            IN  {m \in DOMAIN T.structs : m = r.base \/ m \in r.ifaces
                                          \/ \E x \in DOMAIN r.fields : r.fields[x] = User(m)}
HoldsItself(m) ==
    \E n \in 1..Cardinality(DOMAIN T.structs) : \E p \in [0..n -> DOMAIN T.structs] :
        p[0] = m /\ p[n] = m /\ \A i \in 1..n : p[i] \in Holds(p[i - 1])
TypesInOrder ==
    stage = "written" =>
      /\ ToSet(out.types) = DOMAIN T.structs /\ IsInjective(out.types)
      /\ \A i \in DOMAIN out.types : \A m \in Holds(out.types[i]) :
            \/ \E k \in 1..(i - 1) : out.types[k] = m
            \/ HoldsItself(m)

\* "sema should have caught this" (codegen.cpp:659): the generator never throws.
SemaCaughtIt == stage # "crashed"
=============================================================================
