---------------------------- MODULE Preprocessor ----------------------------
(***************************************************************************)
(* The preprocessor of ebc, compiler/src/preprocessor/preprocessor.cpp:    *)
(* expandSource reads a source line by line, keeps or blanks lines by      *)
(* #if chains, splices included files and expands #macro invocations by    *)
(* recursion, and writes a line map that later stages look their           *)
(* diagnostics up in.                                                      *)
(*                                                                         *)
(* A line is its directive, or what it does with macros; what the text     *)
(* says is left out.  A #macro definition is one line here, whatever the   *)
(* length of its body.  The recursion is an explicit stack.                *)
(***************************************************************************)
EXTENDS Naturals, Sequences, FiniteSets

CONSTANTS
    Files,      \* source files
    Main,       \* the one ebc is given
    NoFile,     \* an #include that leads nowhere
    Macros,     \* names of macros
    Programs,   \* what the files may be, [Files -> Seq(line)]
    MaxDepth    \* how many nested expansions the process' stack holds

(* A line is a record with its kind in k:                                    *)
(*   text                  no directive, every macro in it has one line      *)
(*   call m fits           nothing but m(...); does bindMacroArgs accept it? *)
(*   inline m fits         m(...) within more text                           *)
(*   define m, undef m     #define of m(...), in one line, and #undef        *)
(*   block m body as       #macro: "good", without a proper "header", or     *)
(*                         "open" to the end of the source, its last line    *)
(*   if c, elseif c        c = [is |-> "def" or "ndef", m |-> m],            *)
(*                         [is |-> "true", "false" or "bad"]                 *)
(*   else, endif                                                             *)
(*   include f once        f is what the path and the -I list lead to        *)
(*   error                 #error, an #assert that fails, a #define without  *)
(*                         a name                                            *)
(*   unknown               an unknown directive, #endmacro by itself         *)
(* #print, and an #assert that holds, do nothing here.                       *)

Conditions == [is : {"def", "ndef"}, m : Macros]
                 \cup [is : {"true", "false", "bad"}]

Directives ==
    [k : {"text", "else", "endif", "error", "unknown"}]
        \cup [k : {"call", "inline"}, m : Macros, fits : BOOLEAN]
        \cup [k : {"define", "undef"}, m : Macros]
        \cup [k : {"if", "elseif"}, c : Conditions]
        \cup [k : {"include"}, f : Files \cup {NoFile}, once : BOOLEAN]

\* The first #endmacro ends a body: a #macro in it is open to the body's end.
Blocks(lines, how) ==
    [k : {"block"}, m : Macros, body : Seq(lines), as : how]
BodyLines == Directives \cup Blocks(Directives, {"open"})
SourceLines == Directives \cup Blocks(BodyLines, {"good", "header", "open"})

ASSUME PreprocessorAssumption ==
    /\ Main \in Files /\ NoFile \notin Files /\ Files \cap Macros = {}
    /\ IsFiniteSet(Files) /\ IsFiniteSet(Macros)
    /\ MaxDepth \in Nat
    /\ Programs \subseteq [Files -> Seq(SourceLines)]

VARIABLES
    text,       \* which of Programs this is
    phase,      \* "run", "done", or "crashed" when the stack overflowed
    stack,      \* the calls of expandSource, main's first
    macros,     \* `state.macros`
    ever,       \* `state.everIncluded`
    out,        \* the flattened source: where each of its lines comes from
    lineMap,    \* `lineMap`: where diagnostics will say it comes from
    reports,    \* the errors: what, where, and where they come from
    inlined,    \* history: a #macro of several lines was used within text
    shown       \* history: the lines of text that files brought in, in order

vars == <<text, phase, stack, macros, ever, out, lineMap, reports, inlined,
          shown>>

\* One call of expandSource: for a file, or for the body of macro `of`
\* invoked at `site`.  `from` and `mapFrom` are where its output begins
\* (nestedOut, nestedLineMap).  held and kept are history: the conditions
\* that held when they were read, the lines that were not blanked.
NewFrame(of, file, lines, site) ==
    [of |-> of, file |-> file, lines |-> lines, at |-> 1, ifs |-> <<>>,
     site |-> site, from |-> Len(out), mapFrom |-> Len(lineMap),
     held |-> {}, kept |-> {}]

NoMacro == [is |-> "none", body |-> <<>>]

Top == stack[Len(stack)]
Line == Top.lines[Top.at]
IsFile(f) == f.of \in Files
At(file, n) == [file |-> file, line |-> n]

\* loc, and where the line comes from: inside macros, the invocation in the
\* file ("attributed to this invocation's own `loc`").
Loc == At(Top.file, Top.at)

InMacro == {n \in DOMAIN stack : ~IsFile(stack[n])}

Origin ==
    IF InMacro = {} THEN Loc
    ELSE stack[CHOOSE n \in InMacro : \A j \in InMacro : n <= j].site

\* The files on activeStack.
Open == {stack[n].file : n \in DOMAIN stack \ InMacro}

\* activeNow
Active == \A n \in DOMAIN Top.ifs : Top.ifs[n].active

Init ==
    /\ text \in Programs
    /\ phase = "run"
    /\ out = <<>> /\ lineMap = <<>>
    /\ stack = <<NewFrame(Main, Main, text[Main], At(Main, 0))>>
    /\ macros = [m \in Macros |-> NoMacro]
    /\ ever = {Main}
    /\ reports = {} /\ inlined = FALSE /\ shown = <<>>
-----------------------------------------------------------------------------
(* What every line leaves behind                                             *)

AtLine == phase = "run" /\ Top.at <= Len(Top.lines)
Is(kinds) == AtLine /\ Line.k \in kinds

\* `n` lines of output that come from here, and one line map entry each.
Copies(n, x) == [k \in 1..n |-> x]

Emit(n) ==
    /\ out' = out \o Copies(n, Origin)
    /\ lineMap' = lineMap \o Copies(n, Loc)

Report(what) ==
    reports' = reports \cup {[what |-> what, at |-> Loc, from |-> Origin]}

\* The current frame, one line on.
Passed(f) ==
    [f EXCEPT !.at = @ + 1,
              !.kept = IF Active THEN @ \cup {f.at} ELSE @]

ReplaceTop(f) == stack' = [stack EXCEPT ![Len(stack)] = f]
Pass == ReplaceTop(Passed(Top)) /\ UNCHANGED <<text, phase>>

\* Physical lines of a model line.
Height(l) ==
    IF l.k # "block" THEN 1
    ELSE IF l.as = "open" THEN Len(l.body) + 1 ELSE Len(l.body) + 2
-----------------------------------------------------------------------------
(* Conditions                                                                *)

\* evalIfCondition, or a look at the macro table; a condition is evaluated
\* even if its line is not active.
Holds(c) ==
    CASE c.is = "def"  -> macros[c.m].is # "none"
      [] c.is = "ndef" -> macros[c.m].is = "none"
      [] OTHER         -> c.is = "true"

ReportCondition ==
    IF Line.c.is = "bad" THEN Report("condition") ELSE UNCHANGED reports

Held(f) == IF Holds(Line.c) THEN [f EXCEPT !.held = @ \cup {f.at}] ELSE f
Next1(f) == [f EXCEPT !.at = @ + 1]

OpenChain ==
    /\ Is({"if"})
    /\ LET cond == Holds(Line.c)
       IN  ReplaceTop([Next1(Held(Top)) EXCEPT
              !.ifs = Append(@, [active |-> cond, taken |-> cond,
                                 sawElse |-> FALSE])])
    /\ ReportCondition /\ Emit(1)
    /\ UNCHANGED <<text, phase, macros, ever, inlined, shown>>

SetLast(f, new) == [f EXCEPT !.ifs[Len(f.ifs)] = new]
LastIf == Top.ifs[Len(Top.ifs)]

\* Mutants of the next two: a later condition that holds is taken too; the
\* #else branch is not remembered as taken.
ElseIfTakesAgain ==
    /\ Is({"elseif"}) /\ Top.ifs # <<>> /\ ~LastIf.sawElse
    /\ LET cond == Holds(Line.c)
       IN  ReplaceTop(SetLast(Next1(Held(Top)),
              [active |-> cond, taken |-> cond, sawElse |-> FALSE]))
    /\ ReportCondition /\ Emit(1)
    /\ UNCHANGED <<text, phase, macros, ever, inlined, shown>>

ElseIf ==
    /\ Is({"elseif"}) /\ Top.ifs # <<>> /\ ~LastIf.sawElse
    /\ LET cond == ~LastIf.taken /\ Holds(Line.c)
       IN  ReplaceTop(SetLast(Next1(Held(Top)),
              [active |-> cond, taken |-> LastIf.taken \/ cond,
               sawElse |-> FALSE]))
    /\ ReportCondition /\ Emit(1)
    /\ UNCHANGED <<text, phase, macros, ever, inlined, shown>>

Else ==
    /\ Is({"else"}) /\ Top.ifs # <<>>
    /\ ReplaceTop(SetLast(Next1(Top),
          [active |-> ~LastIf.taken, taken |-> TRUE, sawElse |-> TRUE]))
    /\ IF LastIf.sawElse THEN Report("after else") ELSE UNCHANGED reports
    /\ Emit(1)
    /\ UNCHANGED <<text, phase, macros, ever, inlined, shown>>

EndIf ==
    /\ Is({"endif"}) /\ Top.ifs # <<>>
    /\ ReplaceTop([Next1(Top) EXCEPT !.ifs = SubSeq(@, 1, Len(@) - 1)])
    /\ Emit(1)
    /\ UNCHANGED <<text, phase, macros, ever, reports, inlined, shown>>

\* #elseif after #else changes nothing; the others have no chain to be in.
Misplaced ==
    /\ \/ Is({"elseif", "else", "endif"}) /\ Top.ifs = <<>>
       \/ Is({"elseif"}) /\ Top.ifs # <<>> /\ LastIf.sawElse
    /\ ReplaceTop(Next1(Top))
    /\ reports' = reports
         \cup {[what |-> IF Top.ifs = <<>> THEN "stray" ELSE "after else",
                at |-> Loc, from |-> Origin]}
         \cup (IF Line.k = "elseif" /\ Line.c.is = "bad"
               THEN {[what |-> "condition", at |-> Loc, from |-> Origin]}
               ELSE {})
    /\ Emit(1)
    /\ UNCHANGED <<text, phase, macros, ever, inlined, shown>>
-----------------------------------------------------------------------------
(* Text and macros                                                           *)

\* A directive or text that is not active leaves a blank line.  (Mutant: and
\* the loop does not go on.)
SkipStays ==
    /\ Is({"text", "call", "inline", "define", "undef", "include", "error"})
    /\ ~Active
    /\ UNCHANGED vars

Skip ==
    /\ Is({"text", "call", "inline", "define", "undef", "include", "error"})
    /\ ~Active
    /\ Pass /\ Emit(1)
    /\ UNCHANGED <<macros, ever, reports, inlined, shown>>

Text ==
    /\ Is({"text"}) /\ Active
    /\ Pass /\ Emit(1)
    /\ shown' = IF IsFile(Top) THEN Append(shown, Loc) ELSE shown
    /\ UNCHANGED <<macros, ever, reports, inlined>>

Define ==
    /\ Is({"define", "undef"}) /\ Active
    /\ macros' = [macros EXCEPT ![Line.m] =
                     IF Line.k = "define" THEN [is |-> "line", body |-> <<>>]
                                          ELSE NoMacro]
    /\ Pass /\ Emit(1)
    /\ UNCHANGED <<ever, reports, inlined, shown>>

\* #macro ... #endmacro; a missing #endmacro takes the rest of the source.
Block ==
    /\ Is({"block"})
    /\ Pass
    /\ macros' = IF Active /\ Line.as = "good"
                 THEN [macros EXCEPT ![Line.m] =
                          [is |-> "block", body |-> Line.body]]
                 ELSE macros
    /\ IF Line.as = "good" THEN UNCHANGED reports ELSE Report(Line.as)
    /\ Emit(Height(Line))
    /\ UNCHANGED <<ever, inlined, shown>>

\* A use within text: expandText puts the lines of a #macro in the middle of
\* the line, expanded but not read as directives, and the line map gets one
\* entry.  A macro is not expanded within itself (activeNames), so `depth`
\* need not be more than there are macros.  (Bound: all uses in bodies fit.)
InlineHeight(l) ==
    LET height[depth \in 0..Cardinality(Macros)] ==
          [use \in Macros |-> [painted \in SUBSET Macros |->
             LET body == macros[use].body
                 Rows(x) == IF x.k \notin {"call", "inline"} THEN Height(x)
                            ELSE height[depth - 1][x.m][painted \cup {use}]
                 lines == UNION {{k} \X (1..Rows(body[k])) : k \in DOMAIN body}
             IN  IF /\ depth > 0 /\ macros[use].is = "block"
                    /\ use \notin painted /\ Cardinality(lines) > 1
                 THEN Cardinality(lines) ELSE 1]]
    IN  IF l.fits THEN height[Cardinality(Macros)][l.m][{}] ELSE 1

Inline ==
    /\ Active
    /\ \/ Is({"inline"})
       \/ Is({"call"}) /\ macros[Line.m].is # "block"
    /\ Pass
    /\ out' = out \o Copies(InlineHeight(Line), Origin)
    /\ lineMap' = Append(lineMap, Loc)
    /\ inlined' = (inlined \/ (InMacro = {} /\ InlineHeight(Line) > 1))
    /\ IF macros[Line.m].is # "none" /\ ~Line.fits
       THEN Report("arguments") ELSE UNCHANGED reports
    /\ UNCHANGED <<macros, ever, shown>>

\* A new call of expandSource, if the stack has room.
Push(f) ==
    IF Len(stack) < MaxDepth
    THEN stack' = Append([stack EXCEPT ![Len(stack)] = Passed(@)], f)
         /\ UNCHANGED <<text, phase>>
    ELSE phase' = "crashed" /\ UNCHANGED <<text, stack>>

\* tryExpandBlockMacroInvocation
Invoke ==
    /\ Is({"call"}) /\ Active /\ macros[Line.m].is = "block"
    /\ IF Line.fits
       THEN /\ Push(NewFrame(Line.m, Top.file, macros[Line.m].body, Loc))
            /\ UNCHANGED <<out, lineMap, reports>>
       ELSE Pass /\ Emit(1) /\ Report("arguments")
    /\ UNCHANGED <<macros, ever, inlined, shown>>

Complain ==
    /\ \/ Is({"error"}) /\ Active
       \/ Is({"unknown"})
    /\ Pass /\ Emit(1) /\ Report(Line.k)
    /\ UNCHANGED <<macros, ever, inlined, shown>>
-----------------------------------------------------------------------------
(* handleInclude                                                             *)

IncludeFails(what) == Pass /\ Report(what) /\ UNCHANGED ever

\* Mutants: #include once looks at the files that are open, not at all that
\* were; a file may be included into itself.
IncludeOnceOpen ==
    /\ Is({"include"}) /\ Active
    /\ Emit(1)
    /\ IF Line.f = NoFile THEN IncludeFails("include")
       ELSE IF Line.once /\ Line.f \in Open
       THEN Pass /\ UNCHANGED <<ever, reports>>
       ELSE IF Line.f \in Open THEN IncludeFails("circular")
       ELSE /\ Push([NewFrame(Line.f, Line.f, text[Line.f], At(Main, 0))
                        EXCEPT !.from = Len(out'), !.mapFrom = Len(lineMap')])
            /\ ever' = ever \cup {Line.f}
            /\ UNCHANGED reports
    /\ UNCHANGED <<macros, inlined, shown>>

IncludeCircular ==
    /\ Is({"include"}) /\ Active
    /\ Emit(1)
    /\ IF Line.f = NoFile THEN IncludeFails("include")
       ELSE IF Line.once /\ Line.f \in ever
       THEN Pass /\ UNCHANGED <<ever, reports>>
       ELSE /\ Push([NewFrame(Line.f, Line.f, text[Line.f], At(Main, 0))
                        EXCEPT !.from = Len(out'), !.mapFrom = Len(lineMap')])
            /\ ever' = ever \cup {Line.f}
            /\ UNCHANGED reports
    /\ UNCHANGED <<macros, inlined, shown>>

Include ==
    /\ Is({"include"}) /\ Active
    /\ Emit(1)
    /\ IF Line.f = NoFile THEN IncludeFails("include")
       ELSE IF Line.once /\ Line.f \in ever
       THEN Pass /\ UNCHANGED <<ever, reports>>
       ELSE IF Line.f \in Open THEN IncludeFails("circular")
       ELSE /\ Push([NewFrame(Line.f, Line.f, text[Line.f], At(Main, 0))
                        EXCEPT !.from = Len(out'), !.mapFrom = Len(lineMap')])
            /\ ever' = ever \cup {Line.f}
            /\ UNCHANGED reports
    /\ UNCHANGED <<macros, inlined, shown>>
-----------------------------------------------------------------------------
(* The end of a source                                                       *)

ReportOpenChain ==
    IF Top.ifs = <<>> THEN UNCHANGED reports ELSE Report("missing endif")

AtEnd == phase = "run" /\ Top.at > Len(Top.lines)

Leave ==
    IF Len(stack) = 1
    THEN phase' = "done" /\ UNCHANGED stack
    ELSE stack' = SubSeq(stack, 1, Len(stack) - 1) /\ UNCHANGED phase

EndFile ==
    /\ AtEnd /\ IsFile(Top)
    /\ ReportOpenChain /\ Leave
    /\ UNCHANGED <<text, macros, ever, out, lineMap, inlined, shown>>

\* Mutant: the entries made inside the macro are kept.
EndMacroAppends ==
    /\ AtEnd /\ ~IsFile(Top)
    /\ IF Len(out) = Top.from
       THEN out' = Append(out, Origin) /\ lineMap' = Append(lineMap, Top.site)
       ELSE UNCHANGED <<out, lineMap>>
    /\ ReportOpenChain /\ Leave
    /\ UNCHANGED <<text, macros, ever, inlined, shown>>

\* The lines of a macro get the invocation's line, one blank line if there
\* is none.
EndMacro ==
    /\ AtEnd /\ ~IsFile(Top)
    /\ out' = IF Len(out) = Top.from THEN Append(out, Origin) ELSE out
    /\ lineMap' = SubSeq(lineMap, 1, Top.mapFrom)
                     \o Copies(Len(out') - Top.from, Top.site)
    /\ ReportOpenChain /\ Leave
    /\ UNCHANGED <<text, macros, ever, inlined, shown>>

Step == \/ OpenChain \/ ElseIf \/ Else \/ EndIf \/ Misplaced
        \/ Skip \/ Text \/ Define \/ Block \/ Inline \/ Invoke \/ Complain
        \/ Include \/ EndFile \/ EndMacro

Finished == phase # "run" /\ UNCHANGED vars

Next == Step \/ Finished

Spec == Init /\ [][Next]_vars

\* One thread, which waits for nothing.
FairSpec == Spec /\ WF_vars(Step)
-----------------------------------------------------------------------------
\* "`lineMap` - and therefore diagnostics from later stages - always points
\* at a real source location" (preprocessor.hpp): it has one entry for every
\* line of the flattened source, the one the line comes from, or the
\* invocation for the lines of a macro - as long as no #macro of several
\* lines was used in the middle of a line.
LineMapTrue == InMacro = {} /\ ~inlined => lineMap = out

\* How deep line k is in chains, by the text alone; an #endif too many closes
\* nothing.
Ifs(ls, k) == Cardinality({j \in 1..(k - 1) : ls[j].k = "if"})
EndIfs(ls, k) == Cardinality({j \in 1..(k - 1) : ls[j].k = "endif"})

Surplus(ls, k) ==
    LET short == {EndIfs(ls, j) - Ifs(ls, j) :
                    j \in {j \in 1..k : EndIfs(ls, j) > Ifs(ls, j)}}
    IN  IF short = {} THEN 0 ELSE CHOOSE s \in short : \A t \in short : t <= s

Depth(ls, k) == Ifs(ls, k) + Surplus(ls, k) - EndIfs(ls, k)

\* The #if lines whose chain line k is in, and the lines of that chain up to
\* it at which a branch begins.
Openers(ls, k) ==
    {i \in 1..(k - 1) : /\ ls[i].k = "if"
                        /\ \A j \in (i + 1)..k : Depth(ls, j) > Depth(ls, i)}

Branches(ls, i, k) ==
    {i} \cup {j \in (i + 1)..(k - 1) : /\ ls[j].k \in {"elseif", "else"}
                                       /\ Depth(ls, j) = Depth(ls, i) + 1}

\* Line k is in the first branch of the chain whose condition held, or in
\* the #else of a chain with none.
Chosen(f, i, k) ==
    LET heads == Branches(f.lines, i, k)
        mine == CHOOSE h \in heads : \A j \in heads : j <= h
    IN  /\ mine \in f.held \/ f.lines[mine].k = "else"
        /\ \A j \in heads \ {mine} : j \notin f.held

\* No #elseif or second #else after the #else.
Proper(f) ==
    \A k \in 1..(f.at - 1) : \A i \in Openers(f.lines, k) :
        \A j, h \in Branches(f.lines, i, k + 1) : f.lines[j].k = "else" => h <= j

ChainKinds == {"if", "elseif", "else", "endif"}

\* "Exactly one branch of an #if/#elseif/.../#else chain ever runs, even if a
\* later condition would also be true" (docs/reference/preprocessor.md): the
\* lines that are kept are those in the chosen branches of all their chains,
\* whatever the nesting, in every file and macro body.
RightBranch ==
    \A n \in DOMAIN stack :
        LET f == stack[n]
        IN  Proper(f) =>
            f.kept = {k \in 1..(f.at - 1) :
                        /\ f.lines[k].k \notin ChainKinds
                        /\ \A i \in Openers(f.lines, k) : Chosen(f, i, k)}

\* The text of a file is in the output once at most if every #include of the
\* file says `once`, or if it has an include guard nobody takes away.
AllLines ==
    LET top == UNION {{text[f][k] : k \in DOMAIN text[f]} : f \in Files}
    IN  top \cup UNION {{l.body[k] : k \in DOMAIN l.body} :
                          l \in {l \in top : l.k = "block"}}

OnlyOnce(f) == \A l \in AllLines : l.k = "include" /\ l.f = f => l.once

Guarded(f) ==
    /\ Len(text[f]) > 2
    /\ text[f][1].k = "if" /\ text[f][1].c.is = "ndef"
    /\ text[f][2] = [k |-> "define", m |-> text[f][1].c.m]
    /\ text[f][Len(text[f])].k = "endif"
    /\ \A k \in 2..(Len(text[f]) - 1) : text[f][k].k \notin ChainKinds
    /\ [k |-> "undef", m |-> text[f][1].c.m] \notin AllLines

SplicedOnce ==
    \A f \in Files : OnlyOnce(f) \/ Guarded(f) =>
        \A j, k \in DOMAIN shown :
            shown[j] = shown[k] /\ shown[j].file = f => j = k

\* The process' stack is used up by macros that invoke themselves only (with
\* room for every file and macro once): includes alone never do, circular
\* ones neither.
OnlyMacrosOverflow ==
    phase = "crashed" =>
        \E j, k \in InMacro : j # k /\ stack[j].of = stack[k].of

\* Preprocessing ends.
Terminates == <>(phase # "run")
=============================================================================
