------------------------- MODULE Preprocessor_proofs -------------------------
(***************************************************************************)
(* Proofs about Preprocessor, for any files, macros and programs: includes *)
(* alone do not overflow the stack, the line map tells where every line    *)
(* comes from, a file that is to be there once is there once, and the      *)
(* lines that are kept are those of the branches that hold.                *)
(***************************************************************************)
EXTENDS Preprocessor, FiniteSetTheorems, SequenceTheorems,
        WellFoundedInduction, TLAPS

Places == [file : Files, line : Nat]
Branch == [active : BOOLEAN, taken : BOOLEAN, sawElse : BOOLEAN]
MacroDefs == [is : {"none", "line", "block"}, body : Seq(BodyLines)]

Frames == [of : Files \cup Macros, file : Files, lines : Seq(SourceLines),
           at : Nat \ {0}, ifs : Seq(Branch), site : Places, from : Nat,
           mapFrom : Nat, held : SUBSET Nat, kept : SUBSET Nat]

TypeOK ==
    /\ text \in Programs
    /\ phase \in {"run", "done", "crashed"}
    /\ stack \in Seq(Frames) /\ stack # <<>>
    /\ macros \in [Macros -> MacroDefs]
    /\ ever \in SUBSET Files
    /\ out \in Seq(Places) /\ lineMap \in Seq(Places)
    /\ inlined \in BOOLEAN
    /\ shown \in Seq(Places)

\* The calls of expandSource: a file is read in one of them at most, and it is
\* one of those that were included; when the stack is used up it is full.
StackInv ==
    /\ IsFile(stack[1])
    /\ \A k \in DOMAIN stack : IsFile(stack[k]) =>
          /\ stack[k].file = stack[k].of /\ stack[k].lines = text[stack[k].of]
          /\ stack[k].of \in ever
    /\ \A j, k \in DOMAIN stack :
          IsFile(stack[j]) /\ stack[j].of = stack[k].of => j = k
    /\ phase = "crashed" => Len(stack) >= MaxDepth

\* Output only grows, and the line map only shrinks to what it was when the
\* macro at the top began.
MapInv ==
    /\ \A k \in DOMAIN stack : stack[k].from <= Len(out)
                             /\ stack[k].mapFrom <= Len(lineMap)
    /\ \A j, k \in DOMAIN stack : j <= k => stack[j].mapFrom <= stack[k].mapFrom

\* Outside macros the line map is right; inside, it is up to the invocation in
\* the file, and all that was written since comes from there.
Mapped ==
    /\ InMacro = {} => lineMap = out
    /\ \A i \in InMacro : (\A j \in InMacro : i <= j) =>
          /\ stack[i].from = stack[i].mapFrom
          /\ \A k \in 1..stack[i].from : lineMap[k] = out[k]
          /\ \A k \in (stack[i].from + 1)..Len(out) : out[k] = stack[i].site

IInv == TypeOK /\ StackInv /\ MapInv /\ (inlined \/ Mapped)

\* All that is read stands in some file.
InSource ==
    /\ \A x \in Macros : \A k \in DOMAIN macros[x].body :
          macros[x].body[k] \in AllLines
    /\ \A i \in DOMAIN stack :
          /\ \A k \in DOMAIN stack[i].lines : stack[i].lines[k] \in AllLines
          /\ IsFile(stack[i]) \/ stack[i].lines \in Seq(BodyLines)

Distinct(file) ==
    \A j, k \in DOMAIN shown : shown[j] = shown[k] /\ shown[j].file = file => j = k

\* The lines of the file that are shown are above the one that is read.
Above(file, i) ==
    \A j \in DOMAIN shown : shown[j].file = file => shown[j].line < stack[i].at

Reading(file, i) == IsFile(stack[i]) /\ stack[i].of = file

\* A file that is only included once is not entered again once it was read.
EnteredOnce(file) ==
    /\ \A j \in DOMAIN shown : shown[j].file = file => file \in ever
    /\ \A i \in DOMAIN stack : Reading(file, i) => Above(file, i)

\* An include guard: its macro stays once it is defined, and only what was
\* read while it was not defined is active.
GuardMacro(file) == text[file][1].c.m
GuardSet(file) == macros[GuardMacro(file)].is # "none"

Fenced(file, i) ==
    \/ stack[i].at = 1 /\ stack[i].ifs = <<>>
    \/ stack[i].at > Len(text[file])
    \/ /\ stack[i].at \in 2..Len(text[file]) /\ Len(stack[i].ifs) = 1
       /\ (stack[i].at = 2 /\ stack[i].ifs[1].active) \/ GuardSet(file)
       /\ stack[i].ifs[1].active => Above(file, i)

GuardStands(file) ==
    /\ \A j \in DOMAIN shown : shown[j].file = file => GuardSet(file)
    /\ \A i \in DOMAIN stack : Reading(file, i) => Fenced(file, i)

OnceInv ==
    \A file \in Files :
        /\ OnlyOnce(file) => Distinct(file) /\ EnteredOnce(file)
        /\ Guarded(file) => Distinct(file) /\ GuardStands(file)
-----------------------------------------------------------------------------
(* Lines, and what a macro within text becomes.                              *)

LEMMA PreprocessorConstants ==
    /\ Main \in Files /\ NoFile \notin Files /\ Files \cap Macros = {}
    /\ IsFiniteSet(Files) /\ IsFiniteSet(Macros) /\ MaxDepth \in Nat
    /\ Programs \subseteq [Files -> Seq(SourceLines)]
BY PreprocessorAssumption, Zenon

LEMMA LeastNumber ==
    ASSUME NEW S, S \subseteq Nat, S # {}
    PROVE  \E x \in S : \A y \in S : x <= y
<1>1. \E x \in S : \A y \in S : ~(<<y, x>> \in OpToRel(<, Nat))
  BY NatLessThanWellFounded, WFMin, Zenon
<1>2. \A x, y \in Nat : y < x => <<y, x>> \in OpToRel(<, Nat)
  BY Zenon DEF OpToRel
<1>3. \E x \in S : \A y \in S : ~(y < x)
  BY <1>1, <1>2, Zenon
<1> QED BY <1>3, SMT

LEMMA BodyInSource == BodyLines \subseteq SourceLines
<1>1. Seq(Directives) \subseteq Seq(BodyLines)
  BY DEF BodyLines
<1> QED BY <1>1 DEF BodyLines, SourceLines, Blocks

\* What each kind of line has.
LEMMA LineType ==
    ASSUME NEW l \in SourceLines
    PROVE  /\ l.k \in {"call", "inline"} =>
                 l.m \in Macros /\ l.fits \in BOOLEAN
           /\ l.k \in {"define", "undef"} => l = [k |-> l.k, m |-> l.m]
                                             /\ l.m \in Macros
           /\ l.k \in {"if", "elseif"} => l.c \in Conditions
           /\ l.k = "include" => l.f \in Files \cup {NoFile}
                                 /\ l.once \in BOOLEAN
           /\ l.k = "block" => /\ l.m \in Macros /\ l.body \in Seq(BodyLines)
                               /\ l.as \in {"good", "header", "open"}
           /\ l.k \in {"text", "else", "endif", "error", "unknown", "call",
                       "inline", "define", "undef", "if", "elseif",
                       "include", "block"}
<1>1. l \in Directives \/ l \in Blocks(BodyLines, {"good", "header", "open"})
  BY DEF SourceLines
<1>2. CASE l \in Directives
  BY <1>2 DEF Directives
<1>3. CASE l \in Blocks(BodyLines, {"good", "header", "open"})
  BY <1>3 DEF Blocks
<1> QED BY <1>1, <1>2, <1>3

LEMMA HeightType ==
    ASSUME NEW l \in SourceLines
    PROVE  Height(l) \in Nat \ {0}
<1>1. CASE l.k = "block"
  <2>1. Len(l.body) \in Nat
    BY <1>1, LineType
  <2> QED BY <1>1, <2>1 DEF Height
<1>2. CASE l.k # "block"
  BY <1>2 DEF Height
<1> QED BY <1>1, <1>2

\* In a body no #macro is good.
LEMMA BodyBlocksOpen ==
    ASSUME NEW l \in BodyLines, l.k = "block"
    PROVE  l.as = "open"
<1>1. l \in Directives \/ l \in Blocks(Directives, {"open"})
  BY DEF BodyLines
<1>2. l \notin Directives
  BY DEF Directives
<1> QED BY <1>1, <1>2 DEF Blocks

\* All rows of a source.
LEMMA RowsCounted ==
    ASSUME NEW n \in Nat, NEW rows \in [1..n -> Nat]
    PROVE  Cardinality(UNION {{k} \X (1..rows[k]) : k \in 1..n}) \in Nat
<1> DEFINE parts == {{k} \X (1..rows[k]) : k \in 1..n}
           part == [k \in 1..n |-> {k} \X (1..rows[k])]
<1>1. part \in Surjection(1..n, parts)
  BY DEF Surjection
<1>2. IsFiniteSet(1..n)
  BY FS_Interval
<1>3. IsFiniteSet(parts)
  <2> HIDE DEF part, parts
  <2> QED BY <1>1, <1>2, FS_Surjection
<1>4. ASSUME NEW T \in parts PROVE IsFiniteSet(T)
  <2>1. PICK k \in 1..n : T = {k} \X (1..rows[k])
    OBVIOUS
  <2>2. IsFiniteSet({k}) /\ rows[k] \in Int
    <3>1. IsFiniteSet({k})
      BY FS_Singleton
    <3> QED BY <3>1
  <2>3. IsFiniteSet(1..rows[k])
    BY <2>2, FS_Interval
  <2> QED BY <2>1, <2>2, <2>3, FS_Product
<1>5. IsFiniteSet(UNION parts)
  <2> HIDE DEF parts
  <2> QED BY <1>3, <1>4, FS_UNION
<1> QED BY <1>5, FS_CardinalityType
-----------------------------------------------------------------------------
(* What a macro within text becomes.                                         *)

\* What InlineHeight's function is at one depth, with `below` for the depth
\* under it.
Expanded(below, depth, use, painted) ==
    LET body == macros[use].body
        Rows(x) == IF x.k \notin {"call", "inline"} THEN Height(x)
                   ELSE below[x.m][painted \cup {use}]
        lines == UNION {{k} \X (1..Rows(body[k])) : k \in DOMAIN body}
    IN  IF /\ depth > 0 /\ macros[use].is = "block"
           /\ use \notin painted /\ Cardinality(lines) > 1
        THEN Cardinality(lines) ELSE 1

Heights == [Macros -> [SUBSET Macros -> Nat \ {0}]]

LEMMA ExpandedType ==
    ASSUME macros \in [Macros -> MacroDefs], NEW below, NEW depth \in Nat,
           depth > 0 => below \in Heights,
           NEW use \in Macros, NEW painted \in SUBSET Macros
    PROVE  Expanded(below, depth, use, painted) \in Nat \ {0}
<1> DEFINE body == macros[use].body
           Rows(x) == IF x.k \notin {"call", "inline"} THEN Height(x)
                      ELSE below[x.m][painted \cup {use}]
           lines == UNION {{k} \X (1..Rows(body[k])) : k \in DOMAIN body}
<1>1. CASE depth > 0
  <2>1. body \in Seq(BodyLines)
    BY DEF MacroDefs
  <2>2. ASSUME NEW k \in DOMAIN body PROVE Rows(body[k]) \in Nat
    <3>1. body[k] \in SourceLines
      BY <2>1, BodyInSource
    <3>2. CASE body[k].k \notin {"call", "inline"}
      BY <3>1, <3>2, HeightType
    <3>3. CASE body[k].k \in {"call", "inline"}
      <4>1. body[k].m \in Macros /\ painted \cup {use} \in SUBSET Macros
        BY <3>1, <3>3, LineType
      <4> QED BY <1>1, <3>3, <4>1 DEF Heights
    <3> QED BY <3>2, <3>3
  <2> DEFINE rows == [k \in 1..Len(body) |-> Rows(body[k])]
  <2>3. Len(body) \in Nat /\ DOMAIN body = 1..Len(body)
    BY <2>1
  <2>4. rows \in [1..Len(body) -> Nat]
    <3> HIDE DEF Rows
    <3> QED BY <2>2, <2>3
  <2>5. Cardinality(UNION {{k} \X (1..rows[k]) : k \in 1..Len(body)}) \in Nat
    <3> HIDE DEF rows, body
    <3> QED BY <2>3, <2>4, RowsCounted
  <2>6. lines = UNION {{k} \X (1..rows[k]) : k \in 1..Len(body)}
    <3> HIDE DEF Rows, body
    <3> QED BY <2>3
  <2>7. Cardinality(lines) \in Nat
    <3> HIDE DEF lines, rows
    <3> QED BY <2>5, <2>6
  <2>8. \/ Expanded(below, depth, use, painted) = 1
        \/ /\ Expanded(below, depth, use, painted) = Cardinality(lines)
           /\ Cardinality(lines) > 1
    BY DEF Expanded
  <2> HIDE DEF lines
  <2> QED BY <2>7, <2>8
<1>2. CASE ~(depth > 0)
  BY <1>2 DEF Expanded
<1> QED BY <1>1, <1>2

Layer(h, depth) ==
    [use \in Macros |-> [painted \in SUBSET Macros |->
        Expanded(h[depth - 1], depth, use, painted)]]

LEMMA LayerType ==
    ASSUME macros \in [Macros -> MacroDefs], NEW h, NEW depth \in Nat,
           depth > 0 => h[depth - 1] \in Heights
    PROVE  Layer(h, depth) \in Heights
<1>1. \A use \in Macros : \A painted \in SUBSET Macros :
          Expanded(h[depth - 1], depth, use, painted) \in Nat \ {0}
  BY ExpandedType
<1> QED BY <1>1 DEF Layer, Heights

\* The recursion by itself: it has a solution, so the CHOOSE it stands for
\* is one.
LEMMA HeightsExist ==
    ASSUME macros \in [Macros -> MacroDefs], NEW n \in Nat
    PROVE  \E h : /\ h \in [0..n -> Heights]
                  /\ h = [depth \in 0..n |-> Layer(h, depth)]
<1> DEFINE Builds(h, m) == /\ h \in [0..m -> Heights]
                           /\ \A d \in 0..m : h[d] = Layer(h, d)
<1>1. \A m \in 0..n : \E h : Builds(h, m)
  <2> DEFINE S == {m \in 0..n : ~\E h : Builds(h, m)}
  <2> SUFFICES S = {}
    OBVIOUS
  <2> SUFFICES ASSUME S # {} PROVE FALSE
    OBVIOUS
  <2>1. S \subseteq Nat
    OBVIOUS
  <2>2. PICK m \in S : \A k \in S : m <= k
    <3> HIDE DEF S
    <3> QED BY <2>1, LeastNumber
  <2>3. m \in 0..n /\ ~\E h : Builds(h, m)
    OBVIOUS
  <2>4. CASE m = 0
    <3> DEFINE first == Layer(<<>>, 0)
               h == [d \in 0..0 |-> first]
    <3>1. first \in Heights
      BY LayerType
    <3>2. \A g : Layer(g, 0) = first
      <4> TAKE g
      <4>1. \A use \in Macros : \A painted \in SUBSET Macros :
               Expanded(g[0 - 1], 0, use, painted) = 1
                 /\ Expanded(<<>>[0 - 1], 0, use, painted) = 1
        BY DEF Expanded
      <4> QED BY <4>1 DEF Layer
    <3>3. Builds(h, 0)
      <4>1. \A d \in 0..0 : d = 0
        OBVIOUS
      <4>2. \A d \in 0..0 : h[d] = first /\ Layer(h, d) = first
        BY <3>2, <4>1
      <4>3. h \in [0..0 -> Heights]
        BY <3>1
      <4> HIDE DEF h, first
      <4> QED BY <4>2, <4>3
    <3> QED BY <2>3, <2>4, <3>3
  <2>5. CASE m # 0
    <3> DEFINE l == m - 1
    <3>1. l \in 0..n /\ ~(m <= l) /\ l \in 0..l
      BY <2>3, <2>5
    <3>2. l \notin S
      <4> HIDE DEF S, l
      <4> QED BY <2>2, <3>1
    <3>3. PICK h : Builds(h, l)
      BY <3>1, <3>2
    <3> DEFINE last == Layer(h, m)
               g == [d \in 0..m |-> IF d = m THEN last ELSE h[d]]
    <3>4. last \in Heights
      <4>1. h[m - 1] \in Heights
        BY <3>1, <3>3
      <4>2. m \in Nat
        BY <2>3
      <4> QED BY <4>1, <4>2, LayerType
    <3>5. \A d \in 0..m : d # m => d \in 0..l
      BY <2>3
    <3>6. g \in [0..m -> Heights]
      <4> HIDE DEF last
      <4> QED BY <3>3, <3>4, <3>5
    <3>7. \A d \in 0..m : d # 0 => d - 1 \in 0..m /\ d - 1 # m
      BY <2>3
    <3>8. ASSUME NEW d \in 0..m PROVE g[d] = Layer(g, d)
      <4>1. g[d] = Layer(h, d)
        BY <3>3, <3>5
      <4>2. CASE d # 0
        <5>1. g[d - 1] = h[d - 1]
          BY <3>7, <4>2
        <5> HIDE DEF g
        <5> QED BY <4>1, <5>1, Zenon DEF Layer
      <4>3. CASE d = 0
        <5>1. \A use \in Macros : \A painted \in SUBSET Macros :
                 Expanded(g[0 - 1], 0, use, painted) = 1
                   /\ Expanded(h[0 - 1], 0, use, painted) = 1
          <6> HIDE DEF g
          <6> QED BY DEF Expanded
        <5>2. Layer(g, 0) = Layer(h, 0)
          <6> HIDE DEF g
          <6> QED BY <5>1 DEF Layer
        <5> QED BY <4>1, <4>3, <5>2, Zenon
      <4> QED BY <4>2, <4>3
    <3>9. Builds(g, m)
      <4> HIDE DEF g
      <4> QED BY <3>6, <3>8
    <3> QED BY <2>3, <3>9
  <2> QED BY <2>4, <2>5
<1>2. PICK h : Builds(h, n)
  <2>1. n \in 0..n
    OBVIOUS
  <2> QED BY <1>1, <2>1
<1>3. h = [depth \in 0..n |-> Layer(h, depth)]
  BY <1>2
<1> QED BY <1>2, <1>3

\* A use becomes one line at least.
LEMMA InlineHeightType ==
    ASSUME macros \in [Macros -> MacroDefs],
           NEW l \in SourceLines, l.k \in {"call", "inline"}
    PROVE  InlineHeight(l) \in Nat \ {0}
<1> DEFINE n == Cardinality(Macros)
           height == CHOOSE h : h = [depth \in 0..n |-> Layer(h, depth)]
<1>1. n \in Nat
  BY PreprocessorConstants, FS_CardinalityType
<1>2. height = [depth \in 0..n |-> Layer(height, depth)]
  BY <1>1, HeightsExist
<1>3. InlineHeight(l) = IF l.fits THEN height[n][l.m][{}] ELSE 1
  BY Zenon DEF InlineHeight, Layer, Expanded
<1>4. l.m \in Macros /\ {} \in SUBSET Macros
  BY LineType
<1> HIDE DEF height
<1> DEFINE Typed(k) == height[k] \in Heights
<1>5. \A k \in 0..n : Typed(k)
  <2> DEFINE S == {k \in 0..n : ~Typed(k)}
  <2> SUFFICES S = {}
    OBVIOUS
  <2> SUFFICES ASSUME S # {} PROVE FALSE
    OBVIOUS
  <2>1. S \subseteq Nat
    OBVIOUS
  <2>2. PICK m \in S : \A k \in S : m <= k
    <3> HIDE DEF S
    <3> QED BY <2>1, LeastNumber
  <2>3. m \in 0..n /\ ~Typed(m)
    OBVIOUS
  <2>4. height[m] = Layer(height, m)
    BY <1>2, <2>3
  <2>5. m > 0 => height[m - 1] \in Heights
    <3> HAVE m > 0
    <3>1. m - 1 \in 0..n /\ ~(m <= m - 1)
      BY <1>1, <2>3
    <3> QED BY <2>2, <3>1
  <2>6. m \in Nat
    BY <2>3
  <2> QED BY <2>3, <2>4, <2>5, <2>6, LayerType
<1>6. height[n][l.m][{}] \in Nat \ {0}
  <2>1. n \in 0..n
    BY <1>1
  <2> QED BY <1>4, <1>5, <2>1 DEF Heights
<1> QED BY <1>3, <1>6
-----------------------------------------------------------------------------
(* Frames and places.                                                        *)

LEMMA CopiesType ==
    ASSUME NEW S, NEW n \in Nat, NEW x \in S
    PROVE  /\ Copies(n, x) \in Seq(S) /\ Len(Copies(n, x)) = n
           /\ \A k \in 1..n : Copies(n, x)[k] = x
BY DEF Copies

LEMMA TopType ==
    ASSUME TypeOK
    PROVE  /\ Len(stack) \in Nat \ {0} /\ Len(stack) \in DOMAIN stack
           /\ DOMAIN stack = 1..Len(stack)
           /\ Top = stack[Len(stack)] /\ Top \in Frames
           /\ \A k \in DOMAIN stack : stack[k] \in Frames
BY DEF TypeOK, Top

LEMMA LengthType ==
    ASSUME TypeOK
    PROVE  /\ out \in Seq(Places) /\ lineMap \in Seq(Places)
           /\ Len(out) \in Nat /\ Len(lineMap) \in Nat
BY DEF TypeOK

LEMMA LineInSource ==
    ASSUME TypeOK, AtLine
    PROVE  /\ Line \in SourceLines
           /\ Top.at \in DOMAIN Top.lines /\ Line = Top.lines[Top.at]
<1>1. Top.lines \in Seq(SourceLines) /\ Top.at \in Nat \ {0}
  BY TopType DEF Frames
<1>2. Top.at \in DOMAIN Top.lines
  BY <1>1 DEF AtLine
<1> QED BY <1>1, <1>2 DEF Line

LEMMA FirstMacro ==
    ASSUME TypeOK, InMacro # {}
    PROVE  \E n \in InMacro : /\ \A j \in InMacro : n <= j
                              /\ Origin = stack[n].site
<1>1. InMacro \subseteq Nat
  BY TopType DEF InMacro
<1> DEFINE first == CHOOSE n \in InMacro : \A j \in InMacro : n <= j
<1>2. first \in InMacro /\ \A j \in InMacro : first <= j
  BY <1>1, LeastNumber, Zenon
<1>3. Origin = stack[first].site
  BY Zenon DEF Origin
<1> QED BY <1>2, <1>3, Zenon

LEMMA PlacesType ==
    ASSUME TypeOK
    PROVE  Loc \in Places /\ Origin \in Places
<1>1. Loc \in Places
  BY TopType DEF Loc, At, Places, Frames
<1>2. CASE InMacro = {}
  BY <1>1, <1>2 DEF Origin
<1>3. CASE InMacro # {}
  <2>1. PICK n \in InMacro : Origin = stack[n].site
    BY <1>3, FirstMacro
  <2>2. stack[n] \in Frames
    BY TopType DEF InMacro
  <2> QED BY <1>1, <2>1, <2>2 DEF Frames
<1> QED BY <1>2, <1>3
-----------------------------------------------------------------------------
(* What a step is.                                                           *)

\* What a line does to the chain stack, and whether it is kept.
Turned(b, ifs) == [ifs EXCEPT ![Len(ifs)] = b]

Turns(f, kind, holds, g) ==
    LET last == f.ifs[Len(f.ifs)]
        now == IF holds THEN f.held \cup {f.at} ELSE f.held
        turn == ~last.taken /\ holds
    IN  \/ /\ kind \notin ChainKinds /\ g.ifs = f.ifs /\ g.held = f.held
           /\ g.kept = IF \A n \in DOMAIN f.ifs : f.ifs[n].active
                       THEN f.kept \cup {f.at} ELSE f.kept
        \/ /\ g.kept = f.kept
           /\ \/ /\ kind = "if" /\ g.held = now
                 /\ g.ifs = Append(f.ifs, [active |-> holds, taken |-> holds,
                                          sawElse |-> FALSE])
              \/ /\ kind = "elseif" /\ f.ifs # <<>> /\ ~last.sawElse
                 /\ g.held = now
                 /\ g.ifs = Turned([active |-> turn,
                                    taken |-> last.taken \/ turn,
                                    sawElse |-> FALSE], f.ifs)
              \/ /\ kind = "else" /\ f.ifs # <<>> /\ g.held = f.held
                 /\ g.ifs = Turned([active |-> ~last.taken, taken |-> TRUE,
                                    sawElse |-> TRUE], f.ifs)
              \/ /\ kind = "endif" /\ f.ifs # <<>> /\ g.held = f.held
                 /\ g.ifs = SubSeq(f.ifs, 1, Len(f.ifs) - 1)
              \/ /\ kind \in {"elseif", "else", "endif"}
                 /\ g.held = f.held /\ g.ifs = f.ifs
                 /\ \/ f.ifs = <<>>
                    \/ kind = "elseif" /\ f.ifs # <<>> /\ last.sawElse

\* The line is read: the frame is one line on.
Goes(g) ==
    /\ g \in Frames /\ g.at = Top.at + 1
    /\ g.of = Top.of /\ g.file = Top.file /\ g.lines = Top.lines
    /\ g.site = Top.site /\ g.from = Top.from /\ g.mapFrom = Top.mapFrom
    /\ Line.k \notin ChainKinds => g.ifs = Top.ifs
    /\ Line.k = "if" => \E b \in Branch : /\ b.active = Holds(Line.c)
                                          /\ g.ifs = Append(Top.ifs, b)
    /\ Turns(Top, Line.k, Holds(Line.c), g)

Written(i, j) ==
    /\ out' = out \o Copies(i, Origin)
    /\ lineMap' = lineMap \o Copies(j, Loc)

\* How the macros change: a #define, an #undef, a good #macro.
Redefined ==
    /\ macros' \in [Macros -> MacroDefs]
    /\ \A x \in Macros :
          \/ macros'[x] = macros[x]
          \/ Line.k = "define" /\ macros'[x] = [is |-> "line", body |-> <<>>]
          \/ Line = [k |-> "undef", m |-> x] /\ macros'[x] = NoMacro
          \/ /\ Line.k = "block" /\ Line.as = "good"
             /\ macros'[x] = [is |-> "block", body |-> Line.body]
    /\ Line.k = "define" /\ Active => macros'[Line.m].is = "line"

LineDone ==
    /\ AtLine /\ UNCHANGED <<text, phase, ever>> /\ Redefined
    /\ \E g : Goes(g) /\ stack' = [stack EXCEPT ![Len(stack)] = g]
    /\ \E i, j \in Nat \ {0} : /\ Written(i, j)
                               /\ i = j \/ InMacro # {} \/ inlined'
    /\ inlined' \in BOOLEAN /\ (inlined => inlined')
    /\ \/ shown' = shown
       \/ /\ IsFile(Top) /\ Line.k = "text" /\ Active
          /\ shown' = Append(shown, Loc)

Enters(f) ==
    /\ AtLine /\ Len(stack) < MaxDepth
    /\ Goes(Passed(Top)) /\ Line.k \in {"call", "include"}
    /\ f \in Frames /\ f.at = 1 /\ f.ifs = <<>> /\ f.held = {} /\ f.kept = {}
    /\ f.from = Len(out') /\ f.mapFrom = Len(lineMap')
    /\ stack' = Append([stack EXCEPT ![Len(stack)] = Passed(Top)], f)
    /\ UNCHANGED <<text, phase, macros, inlined, shown>>

MacroEntered(f) ==
    /\ Enters(f) /\ UNCHANGED <<out, lineMap, ever>>
    /\ Line.m \in Macros /\ macros[Line.m].is = "block"
    /\ f.of = Line.m /\ f.lines = macros[Line.m].body /\ f.site = Loc

FileEntered(f) ==
    /\ Enters(f) /\ Written(1, 1) /\ Line.k = "include"
    /\ f.of \in Files /\ f.file = f.of /\ f.lines = text[f.of]
    /\ f.of = Line.f /\ f.of \notin Open /\ (Line.once => f.of \notin ever)
    /\ ever' = ever \cup {f.of}

Overflowed ==
    /\ AtLine /\ Len(stack) >= MaxDepth /\ phase' = "crashed"
    /\ UNCHANGED <<text, stack, macros, inlined, shown>>
    /\ UNCHANGED <<out, lineMap>> \/ Written(1, 1)
    /\ ever' \in SUBSET Files /\ ever \subseteq ever'

Left ==
    /\ AtEnd /\ Leave
    /\ UNCHANGED <<text, macros, ever, inlined, shown>>
    /\ \/ IsFile(Top) /\ UNCHANGED <<out, lineMap>>
       \/ /\ ~IsFile(Top)
          /\ out' = IF Len(out) = Top.from THEN Append(out, Origin) ELSE out
          /\ lineMap' = SubSeq(lineMap, 1, Top.mapFrom)
                           \o Copies(Len(out') - Top.from, Top.site)
-----------------------------------------------------------------------------
\* A frame one line on, with its chain stack and histories.
Onward(f, ifs, held, kept) ==
    [f EXCEPT !.at = f.at + 1, !.ifs = ifs, !.held = held, !.kept = kept]

LEMMA FrameGoes ==
    ASSUME NEW f \in Frames, NEW held \in SUBSET Nat, NEW kept \in SUBSET Nat,
           NEW ifs \in Seq(Branch)
    PROVE  LET g == Onward(f, ifs, held, kept)
           IN  /\ g \in Frames /\ g.at = f.at + 1 /\ g.ifs = ifs
               /\ g.of = f.of /\ g.file = f.file /\ g.lines = f.lines
               /\ g.site = f.site /\ g.from = f.from
               /\ g.mapFrom = f.mapFrom /\ g.held = held /\ g.kept = kept
<1> DEFINE next == f.at + 1
           g == [f EXCEPT !.at = next, !.ifs = ifs, !.held = held,
                          !.kept = kept]
<1>1. next \in Nat \ {0}
  BY DEF Frames
<1> HIDE DEF next
<1>2. /\ g.at = next /\ g.ifs = ifs /\ g.held = held /\ g.kept = kept
      /\ g.of = f.of /\ g.file = f.file /\ g.lines = f.lines
      /\ g.site = f.site /\ g.from = f.from /\ g.mapFrom = f.mapFrom
  BY DEF Frames
<1>3. g \in Frames
  BY <1>1 DEF Frames
<1>4. Onward(f, ifs, held, kept) = g
  BY DEF Onward, next
<1> HIDE DEF g
<1> QED BY <1>2, <1>3, <1>4 DEF next

LEMMA PassedGoes ==
    ASSUME TypeOK, AtLine, Line.k \notin ChainKinds
    PROVE  Goes(Passed(Top))
<1>1. Top \in Frames /\ Line.k # "if"
  BY TopType DEF ChainKinds
<1> DEFINE keeps == IF Active THEN Top.kept \cup {Top.at} ELSE Top.kept
<1>2. keeps \in SUBSET Nat
  BY <1>1 DEF Frames
<1>3. Passed(Top) = [Top EXCEPT !.at = Top.at + 1, !.kept = keeps]
  BY <1>1 DEF Passed, Frames
<1> HIDE DEF keeps
<1> DEFINE next == Top.at + 1
<1>4. Top.ifs \in Seq(Branch) /\ Top.held \in SUBSET Nat
  BY <1>1 DEF Frames
<1>5. Passed(Top) = Onward(Top, Top.ifs, Top.held, keeps)
  <2> HIDE DEF next
  <2>1. Passed(Top) = [Top EXCEPT !.at = next, !.kept = keeps]
    BY <1>3 DEF next
  <2>2. Passed(Top) = [Top EXCEPT !.at = next, !.ifs = Top.ifs,
                                  !.held = Top.held, !.kept = keeps]
    BY <1>1, <2>1 DEF Frames
  <2> QED BY <2>2 DEF next, Onward
<1>6. /\ Passed(Top) \in Frames /\ Passed(Top).at = Top.at + 1
      /\ Passed(Top).of = Top.of /\ Passed(Top).file = Top.file
      /\ Passed(Top).lines = Top.lines /\ Passed(Top).site = Top.site
      /\ Passed(Top).from = Top.from /\ Passed(Top).mapFrom = Top.mapFrom
      /\ Passed(Top).ifs = Top.ifs /\ Passed(Top).held = Top.held
      /\ Passed(Top).kept = keeps
  BY <1>1, <1>2, <1>4, <1>5, FrameGoes
<1>7. Turns(Top, Line.k, Holds(Line.c), Passed(Top))
  BY <1>6, Zenon DEF Turns, keeps, Active
<1> QED BY <1>1, <1>6, <1>7, Zenon DEF Goes

\* A line that is passed, with `i` lines of output and `j` of line map.
LEMMA PassDone ==
    ASSUME TypeOK, AtLine, Pass, Line.k \notin ChainKinds, Redefined,
           NEW i \in Nat \ {0}, NEW j \in Nat \ {0}, Written(i, j),
           i = j \/ InMacro # {} \/ inlined',
           inlined' \in BOOLEAN, inlined => inlined', ever' = ever,
           \/ shown' = shown
           \/ /\ IsFile(Top) /\ Line.k = "text" /\ Active
              /\ shown' = Append(shown, Loc)
    PROVE  LineDone
<1>1. Goes(Passed(Top))
  BY PassedGoes
<1>2. stack' = [stack EXCEPT ![Len(stack)] = Passed(Top)]
      /\ UNCHANGED <<text, phase>>
  BY DEF Pass, ReplaceTop
<1>3. \E g : Goes(g) /\ stack' = [stack EXCEPT ![Len(stack)] = g]
  BY <1>1, <1>2, Zenon
<1> QED BY <1>2, <1>3, Zenon DEF LineDone

LEMMA SameMacros ==
    ASSUME TypeOK, macros' = macros, Line.k # "define"
    PROVE  Redefined
BY DEF Redefined, TypeOK

LEMMA ChainDone ==
    ASSUME TypeOK, AtLine, Line.k \in ChainKinds, NEW g, Goes(g),
           ReplaceTop(g), Emit(1),
           UNCHANGED <<text, phase, macros, ever, inlined, shown>>
    PROVE  LineDone
<1>1. Line.k # "define"
  BY DEF ChainKinds
<1>2. Redefined
  BY <1>1, SameMacros
<1>3. Written(1, 1)
  BY DEF Emit, Written
<1>4. inlined \in BOOLEAN
  BY DEF TypeOK
<1>5. \E i, j \in Nat \ {0} : Written(i, j) /\ i = j
  BY <1>3
<1>6. \E h : Goes(h) /\ stack' = [stack EXCEPT ![Len(stack)] = h]
  BY Zenon DEF ReplaceTop
<1> QED BY <1>2, <1>4, <1>5, <1>6, Zenon DEF LineDone
-----------------------------------------------------------------------------
(* The chain directives.                                                     *)

\* The top frame one line on, with this held and this chain stack.
OnTo(held, ifs) == Onward(Top, ifs, held, Top.kept)

LEMMA ChainGoes ==
    ASSUME TypeOK, AtLine, NEW g,
           NEW held \in SUBSET Nat, NEW ifs \in Seq(Branch),
           g = OnTo(held, ifs), Line.k \in ChainKinds,
           Line.k = "if" => \E b \in Branch : b.active = Holds(Line.c)
                                              /\ ifs = Append(Top.ifs, b),
           g.ifs = ifs /\ g.held = held /\ g.kept = Top.kept
              => Turns(Top, Line.k, Holds(Line.c), g)
    PROVE  Goes(g)
<1>1. Top \in Frames
  BY TopType
<1>2. /\ g \in Frames /\ g.at = Top.at + 1
      /\ g.of = Top.of /\ g.file = Top.file
      /\ g.lines = Top.lines /\ g.site = Top.site
      /\ g.from = Top.from /\ g.mapFrom = Top.mapFrom /\ g.ifs = ifs
      /\ g.held = held /\ g.kept = Top.kept
  <2>1. Top.kept \in SUBSET Nat
    BY <1>1 DEF Frames
  <2> QED BY <1>1, <2>1, FrameGoes DEF OnTo
<1> QED BY <1>2, Zenon DEF Goes

\* What the frame of an #if or #elseif holds once its condition is read.
NowHeld == IF Holds(Line.c) THEN Top.held \cup {Top.at} ELSE Top.held

LEMMA HeldAt ==
    ASSUME TypeOK, AtLine
    PROVE  /\ NowHeld \in SUBSET Nat /\ Top.held \in SUBSET Nat
           /\ Next1(Top) = OnTo(Top.held, Top.ifs)
           /\ Next1(Held(Top)) = OnTo(NowHeld, Top.ifs)
<1>1. Top \in Frames
  BY TopType
<1>2. NowHeld \in SUBSET Nat /\ Top.held \in SUBSET Nat
  BY <1>1 DEF NowHeld, Frames
<1> DEFINE next == Top.at + 1
<1> HIDE DEF next
<1>3. Held(Top) = [Top EXCEPT !.held = NowHeld]
  BY <1>1 DEF Held, NowHeld, Frames
<1>4. Next1(Top) = [Top EXCEPT !.at = next]
  BY <1>1 DEF Next1, Frames, next
<1>5. Next1(Held(Top)) = [Top EXCEPT !.at = next, !.held = NowHeld]
  BY <1>1, <1>3 DEF Next1, Frames, next
<1>6. Next1(Top) = [Top EXCEPT !.at = next, !.ifs = Top.ifs, !.held = Top.held,
                               !.kept = Top.kept]
  BY <1>1, <1>4 DEF Frames
<1>7. Next1(Held(Top)) = [Top EXCEPT !.at = next, !.ifs = Top.ifs,
                                     !.held = NowHeld, !.kept = Top.kept]
  BY <1>1, <1>5 DEF Frames
<1> QED BY <1>2, <1>6, <1>7 DEF OnTo, Onward, next

LEMMA OnToType ==
    ASSUME TypeOK, NEW held \in SUBSET Nat, NEW ifs \in Seq(Branch)
    PROVE  /\ OnTo(held, ifs) \in Frames /\ OnTo(held, ifs).ifs = ifs
           /\ \A s \in Seq(Branch) :
                 [OnTo(held, ifs) EXCEPT !.ifs = s] = OnTo(held, s)
<1>1. Top \in Frames /\ Top.kept \in SUBSET Nat
  BY TopType DEF Frames
<1>2. OnTo(held, ifs) \in Frames /\ OnTo(held, ifs).ifs = ifs
  BY <1>1, FrameGoes DEF OnTo
<1>3. ASSUME NEW s \in Seq(Branch)
      PROVE  [OnTo(held, ifs) EXCEPT !.ifs = s] = OnTo(held, s)
  <2> DEFINE next == Top.at + 1
  <2> HIDE DEF next
  <2>1. /\ OnTo(held, ifs) = [Top EXCEPT !.at = next, !.ifs = ifs,
                                         !.held = held, !.kept = Top.kept]
        /\ OnTo(held, s) = [Top EXCEPT !.at = next, !.ifs = s,
                                       !.held = held, !.kept = Top.kept]
    BY DEF OnTo, Onward, next
  <2> QED BY <1>1, <2>1 DEF Frames
<1> QED BY <1>2, <1>3

LEMMA LastIfType ==
    ASSUME TypeOK, Top.ifs # <<>>
    PROVE  LastIf \in Branch /\ Len(Top.ifs) \in DOMAIN Top.ifs
<1>1. Top.ifs \in Seq(Branch)
  BY TopType DEF Frames
<1> QED BY <1>1 DEF LastIf

\* Setting the last element of the chain stack.
LEMMA SetLastIs ==
    ASSUME TypeOK, Top.ifs # <<>>, NEW held \in SUBSET Nat, NEW b \in Branch
    PROVE  LET ifs == [Top.ifs EXCEPT ![Len(Top.ifs)] = b]
           IN  /\ ifs \in Seq(Branch)
               /\ SetLast(OnTo(held, Top.ifs), b) = OnTo(held, ifs)
<1>1. Top.ifs \in Seq(Branch)
  BY TopType DEF Frames
<1> DEFINE ifs == [Top.ifs EXCEPT ![Len(Top.ifs)] = b]
<1>2. ifs \in Seq(Branch)
  BY <1>1
<1>3. OnTo(held, Top.ifs) \in Frames /\ OnTo(held, Top.ifs).ifs = Top.ifs
  BY <1>1, OnToType
<1>4. SetLast(OnTo(held, Top.ifs), b) = [OnTo(held, Top.ifs) EXCEPT !.ifs = ifs]
  BY <1>3 DEF SetLast, Frames
<1> HIDE DEF ifs
<1>5. SetLast(OnTo(held, Top.ifs), b) = OnTo(held, ifs)
  BY <1>1, <1>2, <1>4, OnToType
<1> QED BY <1>2, <1>5 DEF ifs

LEMMA OpenChainDone ==
    ASSUME TypeOK, OpenChain
    PROVE  LineDone
<1>1. AtLine /\ Line.k = "if" /\ Line.k \in ChainKinds
  BY DEF OpenChain, Is, ChainKinds
<1>2. Top.ifs \in Seq(Branch)
  BY TopType DEF Frames
<1> DEFINE cond == Holds(Line.c)
           b == [active |-> cond, taken |-> cond, sawElse |-> FALSE]
           g == [Next1(Held(Top)) EXCEPT !.ifs = Append(@, b)]
<1>3. ReplaceTop(g) /\ Emit(1)
      /\ UNCHANGED <<text, phase, macros, ever, inlined, shown>>
  BY Zenon DEF OpenChain
<1>4. cond \in BOOLEAN
  BY Zenon DEF Holds
<1>5. b \in Branch /\ b.active = cond
  <2> HIDE DEF cond
  <2> QED BY <1>4 DEF Branch
<1>6. Next1(Held(Top)) = OnTo(NowHeld, Top.ifs) /\ NowHeld \in SUBSET Nat
  BY <1>1, HeldAt
<1> HIDE DEF b
<1> DEFINE s == Append(Top.ifs, b)
<1>7. s \in Seq(Branch) /\ s = Append(Top.ifs, b)
  BY <1>2, <1>5
<1>8. g = OnTo(NowHeld, s)
  <2>1. OnTo(NowHeld, Top.ifs) \in Frames /\ OnTo(NowHeld, Top.ifs).ifs = Top.ifs
    BY <1>2, <1>6, OnToType
  <2>2. g = [OnTo(NowHeld, Top.ifs) EXCEPT !.ifs = s]
    BY <1>6, <2>1 DEF Frames
  <2> HIDE DEF g, s
  <2>3. \A x \in Seq(Branch) :
           [OnTo(NowHeld, Top.ifs) EXCEPT !.ifs = x] = OnTo(NowHeld, x)
    BY <1>2, <1>6, OnToType
  <2>4. s \in Seq(Branch)
    BY <1>7
  <2> QED BY <2>2, <2>3, <2>4
<1> HIDE DEF g
<1>9. g.ifs = s /\ g.held = NowHeld /\ g.kept = Top.kept
         => Turns(Top, Line.k, Holds(Line.c), g)
  BY <1>1, Zenon DEF Turns, NowHeld, b
<1> HIDE DEF s
<1>10. Goes(g)
  BY <1>1, <1>5, <1>6, <1>7, <1>8, <1>9, ChainGoes
<1> QED BY <1>1, <1>3, <1>10, ChainDone

LEMMA ElseIfDone ==
    ASSUME TypeOK, ElseIf
    PROVE  LineDone
<1>1. /\ AtLine /\ Line.k = "elseif" /\ Line.k \in ChainKinds /\ Line.k # "if"
      /\ Top.ifs # <<>>
  BY DEF ElseIf, Is, ChainKinds
<1>2. Top.ifs \in Seq(Branch)
  BY TopType DEF Frames
<1> DEFINE cond == ~LastIf.taken /\ Holds(Line.c)
           b == [active |-> cond, taken |-> LastIf.taken \/ cond,
                 sawElse |-> FALSE]
           s == [Top.ifs EXCEPT ![Len(Top.ifs)] = b]
           g == SetLast(Next1(Held(Top)), b)
<1>3. ReplaceTop(g) /\ Emit(1)
      /\ UNCHANGED <<text, phase, macros, ever, inlined, shown>>
  BY Zenon DEF ElseIf
<1>4. b \in Branch
  <2>1. cond \in BOOLEAN /\ (LastIf.taken \/ cond) \in BOOLEAN
    BY Zenon
  <2> HIDE DEF cond
  <2> QED BY <2>1 DEF Branch
<1>5. Next1(Held(Top)) = OnTo(NowHeld, Top.ifs) /\ NowHeld \in SUBSET Nat
  BY <1>1, HeldAt
<1> HIDE DEF b
<1>6. s \in Seq(Branch) /\ g = OnTo(NowHeld, s)
  BY <1>1, <1>4, <1>5, SetLastIs
<1> HIDE DEF g
<1>7. g.ifs = s /\ g.held = NowHeld /\ g.kept = Top.kept
         => Turns(Top, Line.k, Holds(Line.c), g)
  <2>1. ~LastIf.sawElse
    BY DEF ElseIf
  <2> QED BY <1>1, <2>1, Zenon DEF Turns, Turned, NowHeld, LastIf, b
<1> HIDE DEF s
<1>8. Goes(g)
  BY <1>1, <1>5, <1>6, <1>7, ChainGoes
<1> QED BY <1>1, <1>3, <1>8, ChainDone

LEMMA ElseDone ==
    ASSUME TypeOK, Else
    PROVE  LineDone
<1>1. /\ AtLine /\ Line.k = "else" /\ Line.k \in ChainKinds /\ Line.k # "if"
      /\ Top.ifs # <<>>
  BY DEF Else, Is, ChainKinds
<1>2. Top.ifs \in Seq(Branch)
  BY TopType DEF Frames
<1> DEFINE b == [active |-> ~LastIf.taken, taken |-> TRUE, sawElse |-> TRUE]
           s == [Top.ifs EXCEPT ![Len(Top.ifs)] = b]
           g == SetLast(Next1(Top), b)
<1>3. ReplaceTop(g) /\ Emit(1)
      /\ UNCHANGED <<text, phase, macros, ever, inlined, shown>>
  BY Zenon DEF Else
<1>4. b \in Branch
  BY DEF Branch
<1>5. Next1(Top) = OnTo(Top.held, Top.ifs) /\ Top.held \in SUBSET Nat
  BY <1>1, HeldAt
<1> HIDE DEF b
<1>6. s \in Seq(Branch) /\ g = OnTo(Top.held, s)
  BY <1>1, <1>4, <1>5, SetLastIs
<1> HIDE DEF g
<1>7. g.ifs = s /\ g.held = Top.held /\ g.kept = Top.kept
         => Turns(Top, Line.k, Holds(Line.c), g)
  BY <1>1, Zenon DEF Turns, Turned, LastIf, b
<1> HIDE DEF s
<1>8. Goes(g)
  BY <1>1, <1>5, <1>6, <1>7, ChainGoes
<1> QED BY <1>1, <1>3, <1>8, ChainDone

LEMMA EndIfDone ==
    ASSUME TypeOK, EndIf
    PROVE  LineDone
<1>1. /\ AtLine /\ Line.k = "endif" /\ Line.k \in ChainKinds /\ Line.k # "if"
      /\ Top.ifs # <<>>
  BY DEF EndIf, Is, ChainKinds
<1>2. Top.ifs \in Seq(Branch)
  BY TopType DEF Frames
<1> DEFINE s == SubSeq(Top.ifs, 1, Len(Top.ifs) - 1)
           g == [Next1(Top) EXCEPT !.ifs = SubSeq(@, 1, Len(@) - 1)]
<1>3. ReplaceTop(g) /\ Emit(1)
      /\ UNCHANGED <<text, phase, macros, ever, inlined, shown>>
  BY Zenon DEF EndIf
<1>4. Next1(Top) = OnTo(Top.held, Top.ifs) /\ Top.held \in SUBSET Nat
  BY <1>1, HeldAt
<1>5. s \in Seq(Branch)
  BY <1>1, <1>2
<1>6. g = OnTo(Top.held, s)
  <2>1. OnTo(Top.held, Top.ifs) \in Frames
        /\ OnTo(Top.held, Top.ifs).ifs = Top.ifs
    BY <1>2, <1>4, OnToType
  <2>2. g = [OnTo(Top.held, Top.ifs) EXCEPT !.ifs = s]
    BY <1>4, <2>1 DEF Frames
  <2> HIDE DEF g, s
  <2> QED BY <1>2, <1>4, <1>5, <2>2, OnToType
<1> HIDE DEF g
<1>7. g.ifs = s /\ g.held = Top.held /\ g.kept = Top.kept
         => Turns(Top, Line.k, Holds(Line.c), g)
  BY <1>1, Zenon DEF Turns
<1> HIDE DEF s
<1>8. Goes(g)
  BY <1>1, <1>4, <1>5, <1>6, <1>7, ChainGoes
<1> QED BY <1>1, <1>3, <1>8, ChainDone

LEMMA MisplacedDone ==
    ASSUME TypeOK, Misplaced
    PROVE  LineDone
<1>1. AtLine /\ Line.k \in ChainKinds /\ Line.k # "if"
  BY DEF Misplaced, Is, ChainKinds
<1>2. Top.ifs \in Seq(Branch)
  BY TopType DEF Frames
<1>3. ReplaceTop(Next1(Top)) /\ Emit(1)
      /\ UNCHANGED <<text, phase, macros, ever, inlined, shown>>
  BY Zenon DEF Misplaced
<1>4. Next1(Top) = OnTo(Top.held, Top.ifs) /\ Top.held \in SUBSET Nat
  BY <1>1, HeldAt
<1> DEFINE g == Next1(Top)
<1> HIDE DEF g
<1>5. g.ifs = Top.ifs /\ g.held = Top.held /\ g.kept = Top.kept
         => Turns(Top, Line.k, Holds(Line.c), g)
  <2>1. /\ Line.k \in {"elseif", "else", "endif"}
        /\ \/ Top.ifs = <<>>
           \/ Line.k = "elseif" /\ Top.ifs # <<>> /\ LastIf.sawElse
    BY DEF Misplaced, Is
  <2> QED BY <2>1, Zenon DEF Turns, LastIf
<1>6. Goes(g)
  BY <1>1, <1>2, <1>4, <1>5, ChainGoes DEF g
<1> QED BY <1>1, <1>3, <1>6, ChainDone DEF g
-----------------------------------------------------------------------------
(* The other lines.                                                          *)

LEMMA OtherKinds ==
    {"text", "call", "inline", "define", "undef", "include", "error",
     "unknown", "block"} \cap ChainKinds = {}
BY DEF ChainKinds

LEMMA EmitWrites == \A n : Emit(n) <=> Written(n, n)
BY DEF Emit, Written

LEMMA PlainLine ==
    ASSUME TypeOK, AtLine, Line.k \notin ChainKinds, Pass,
           NEW n \in Nat \ {0}, Emit(n), Redefined,
           UNCHANGED <<ever, inlined, shown>>
    PROVE  LineDone
<1>1. Written(n, n) /\ inlined \in BOOLEAN
  BY EmitWrites DEF TypeOK
<1> QED BY <1>1, PassDone

LEMMA SkipDone ==
    ASSUME TypeOK, Skip
    PROVE  LineDone
<1>1. AtLine /\ Line.k \notin ChainKinds
  BY OtherKinds DEF Skip, Is
<1>2. Redefined
  BY DEF Skip, Redefined, TypeOK
<1> QED BY <1>1, <1>2, PlainLine DEF Skip

LEMMA TextDone ==
    ASSUME TypeOK, Text
    PROVE  LineDone
<1>1. AtLine /\ Line.k \notin ChainKinds /\ Line.k = "text" /\ Active /\ Pass
  BY OtherKinds DEF Text, Is
<1>2. Redefined
  BY <1>1, SameMacros DEF Text
<1>3. Written(1, 1) /\ inlined \in BOOLEAN /\ inlined' = inlined /\ ever' = ever
  BY EmitWrites DEF Text, TypeOK
<1>4. \/ shown' = shown
      \/ IsFile(Top) /\ shown' = Append(shown, Loc)
  BY DEF Text
<1> QED BY <1>1, <1>2, <1>3, <1>4, PassDone

LEMMA DefineDone ==
    ASSUME TypeOK, Define
    PROVE  LineDone
<1>1. /\ AtLine /\ Line.k \notin ChainKinds /\ Line.k \in {"define", "undef"}
      /\ Line.k # "block"
  BY OtherKinds DEF Define, Is
<1>2. Line = [k |-> Line.k, m |-> Line.m] /\ Line.m \in Macros
  BY <1>1, LineInSource, LineType
<1> DEFINE new == IF Line.k = "define" THEN [is |-> "line", body |-> <<>>]
                                       ELSE NoMacro
<1>3. macros' = [macros EXCEPT ![Line.m] = new]
  BY Zenon DEF Define
<1>4. new \in MacroDefs
  BY DEF MacroDefs, NoMacro
<1>5. macros \in [Macros -> MacroDefs]
  BY DEF TypeOK
<1>6. Redefined
  <2>1. macros' \in [Macros -> MacroDefs] /\ macros'[Line.m] = new
    <3> HIDE DEF new
    <3> QED BY <1>2, <1>3, <1>4, <1>5
  <2>2. \A x \in Macros : x # Line.m => macros'[x] = macros[x]
    <3> HIDE DEF new
    <3> QED BY <1>3, <1>5
  <2>3. Line.k = "define" => new = [is |-> "line", body |-> <<>>]
    OBVIOUS
  <2>4. Line.k # "define" => new = NoMacro /\ Line = [k |-> "undef", m |-> Line.m]
    BY <1>1, <1>2
  <2> HIDE DEF new
  <2> QED BY <2>1, <2>2, <2>3, <2>4 DEF Redefined
<1> QED BY <1>1, <1>6, PlainLine DEF Define

LEMMA BlockDone ==
    ASSUME TypeOK, Block
    PROVE  LineDone
<1>1. AtLine /\ Line.k \notin ChainKinds /\ Line.k = "block" /\ Line.k # "define"
  BY OtherKinds DEF Block, Is
<1>2. /\ Line \in SourceLines /\ Line.m \in Macros /\ Line.body \in Seq(BodyLines)
  BY <1>1, LineInSource, LineType
<1> DEFINE new == [is |-> "block", body |-> Line.body]
<1>3. new \in MacroDefs
  BY <1>2 DEF MacroDefs
<1>4. macros \in [Macros -> MacroDefs]
  BY DEF TypeOK
<1>5. \/ macros' = macros
      \/ Line.as = "good" /\ macros' = [macros EXCEPT ![Line.m] = new]
  BY Zenon DEF Block
<1>6. Redefined
  <2>1. CASE macros' = macros
    BY <1>1, <2>1, SameMacros
  <2>2. CASE Line.as = "good" /\ macros' = [macros EXCEPT ![Line.m] = new]
    <3>1. /\ macros' \in [Macros -> MacroDefs]
          /\ \A x \in Macros : macros'[x] = macros[x] \/ macros'[x] = new
      <4> HIDE DEF new
      <4> QED BY <1>2, <1>3, <1>4, <2>2
    <3> QED BY <1>1, <2>2, <3>1 DEF Redefined
  <2> QED BY <1>5, <2>1, <2>2
<1>7. Height(Line) \in Nat \ {0}
  BY <1>2, HeightType
<1> QED BY <1>1, <1>6, <1>7, PlainLine DEF Block

LEMMA InlineDone ==
    ASSUME TypeOK, Inline
    PROVE  LineDone
<1>1. /\ AtLine /\ Line.k \notin ChainKinds /\ Line.k \in {"call", "inline"}
      /\ Line.k # "define" /\ Pass
  BY OtherKinds DEF Inline, Is
<1>2. Redefined
  BY <1>1, SameMacros DEF Inline
<1> DEFINE n == InlineHeight(Line)
<1>3. n \in Nat \ {0}
  BY <1>1, LineInSource, InlineHeightType DEF TypeOK
<1>4. /\ out' = out \o Copies(n, Origin) /\ lineMap' = Append(lineMap, Loc)
      /\ inlined' = (inlined \/ (InMacro = {} /\ n > 1))
      /\ UNCHANGED <<macros, ever, shown>>
  BY DEF Inline
<1> HIDE DEF n
<1>5. Append(lineMap, Loc) = lineMap \o Copies(1, Loc)
  <2>1. Copies(1, Loc) = <<Loc>>
    BY DEF Copies
  <2>2. lineMap \in Seq(Places) /\ Loc \in Places
    BY PlacesType DEF TypeOK
  <2> QED BY <2>1, <2>2, AppendIsConcat
<1>6. Written(n, 1)
  BY <1>4, <1>5 DEF Written
<1>7. inlined' \in BOOLEAN /\ (inlined => inlined')
  BY <1>4, Zenon
<1>8. n = 1 \/ InMacro # {} \/ inlined'
  <2>1. n = 1 \/ n > 1
    BY <1>3
  <2>2. InMacro = {} /\ n > 1 => inlined'
    BY <1>4, Zenon
  <2> QED BY <2>1, <2>2, Zenon
<1> QED BY <1>1, <1>2, <1>3, <1>4, <1>6, <1>7, <1>8, PassDone

LEMMA ComplainDone ==
    ASSUME TypeOK, Complain
    PROVE  LineDone
<1>1. AtLine /\ Line.k \notin ChainKinds /\ Line.k # "define"
  BY OtherKinds DEF Complain, Is
<1>2. Redefined
  BY <1>1, SameMacros DEF Complain
<1> QED BY <1>1, <1>2, PlainLine DEF Complain
-----------------------------------------------------------------------------
(* Calls and returns of expandSource.                                        *)

LEMMA NewFrameType ==
    ASSUME NEW of \in Files \cup Macros, NEW file \in Files,
           NEW lines \in Seq(SourceLines), NEW site \in Places,
           NEW from \in Nat, NEW mapFrom \in Nat, NEW f,
           f = [of |-> of, file |-> file, lines |-> lines, at |-> 1,
                ifs |-> <<>>, site |-> site, from |-> from,
                mapFrom |-> mapFrom, held |-> {}, kept |-> {}]
    PROVE  /\ f \in Frames /\ f.at = 1 /\ f.ifs = <<>> /\ f.held = {}
           /\ f.of = of /\ f.file = file /\ f.lines = lines /\ f.site = site
           /\ f.from = from /\ f.mapFrom = mapFrom /\ f.kept = {}
BY DEF Frames

\* The frame of a file, whose output begins behind the #include.
FrameOf(n, lines, site, from, mapFrom) ==
    [of |-> n, file |-> n, lines |-> lines, at |-> 1, ifs |-> <<>>,
     site |-> site, from |-> from, mapFrom |-> mapFrom,
     held |-> {}, kept |-> {}]

PutBehind(r, from, mapFrom) == [r EXCEPT !.from = from, !.mapFrom = mapFrom]

LEMMA FrameFrom ==
    ASSUME NEW n, NEW lines, NEW site, NEW before, NEW mapBefore,
           NEW size, NEW mapSize,
           NEW r, r = FrameOf(n, lines, site, before, mapBefore)
    PROVE  PutBehind(r, size, mapSize) = FrameOf(n, lines, site, size, mapSize)
<1> DEFINE s == FrameOf(n, lines, site, size, mapSize)
<1>1. /\ s.of = r.of /\ s.file = r.file /\ s.lines = r.lines /\ s.at = r.at
      /\ s.ifs = r.ifs /\ s.site = r.site /\ s.from = size
      /\ s.mapFrom = mapSize /\ s.held = r.held /\ s.kept = r.kept
  BY DEF FrameOf
<1>2. DOMAIN s = DOMAIN r
  BY DEF FrameOf
<1>3. s = [of |-> n, file |-> n, lines |-> lines, at |-> 1, ifs |-> <<>>,
           site |-> site, from |-> size, mapFrom |-> mapSize,
           held |-> {}, kept |-> {}]
      /\ r = [of |-> n, file |-> n, lines |-> lines, at |-> 1, ifs |-> <<>>,
              site |-> site, from |-> before, mapFrom |-> mapBefore,
              held |-> {}, kept |-> {}]
  BY DEF FrameOf
<1> HIDE DEF s
<1>4. [r EXCEPT !.from = size, !.mapFrom = mapSize] = s
  BY <1>1, <1>2, <1>3
<1> QED BY <1>4 DEF s, PutBehind

\* A Push with room for the frame.
LEMMA PushEnters ==
    ASSUME TypeOK, AtLine, Line.k \in {"call", "include"}, NEW f \in Frames,
           f.at = 1, f.ifs = <<>>, f.held = {}, f.kept = {},
           f.from = Len(out'), f.mapFrom = Len(lineMap'),
           Push(f), UNCHANGED <<macros, inlined, shown>>
    PROVE  \/ Enters(f)
           \/ /\ Len(stack) >= MaxDepth /\ phase' = "crashed"
              /\ UNCHANGED <<text, stack>>
<1>1. Len(stack) \in Nat /\ MaxDepth \in Nat
  BY TopType, PreprocessorConstants
<1>2. CASE Len(stack) < MaxDepth
  <2>1. Line.k \notin ChainKinds
    BY DEF ChainKinds
  <2>2. Goes(Passed(Top))
    BY <2>1, PassedGoes
  <2>3. /\ stack' = Append([stack EXCEPT ![Len(stack)] = Passed(@)], f)
        /\ UNCHANGED <<text, phase>>
    BY <1>2, Zenon DEF Push
  <2>4. [stack EXCEPT ![Len(stack)] = Passed(@)]
          = [stack EXCEPT ![Len(stack)] = Passed(Top)]
    BY DEF Top
  <2> QED BY <1>2, <2>2, <2>3, <2>4 DEF Enters
<1>3. CASE ~(Len(stack) < MaxDepth)
  <2>1. Len(stack) >= MaxDepth
    BY <1>1, <1>3
  <2> QED BY <1>3, <2>1, Zenon DEF Push
<1> QED BY <1>2, <1>3

LEMMA InvokeDone ==
    ASSUME TypeOK, Invoke
    PROVE  LineDone \/ (\E f : MacroEntered(f)) \/ Overflowed
<1>1. /\ AtLine /\ Line.k = "call" /\ macros[Line.m].is = "block"
      /\ Line.k \notin ChainKinds /\ Line.k # "define"
      /\ UNCHANGED <<macros, ever, inlined, shown>>
  BY DEF Invoke, Is, ChainKinds
<1>2. Line.m \in Macros
  BY <1>1, LineInSource, LineType
<1>3. CASE ~Line.fits
  <2>1. Redefined
    BY <1>1, SameMacros
  <2> QED BY <1>1, <1>3, <2>1, PlainLine DEF Invoke
<1>4. CASE Line.fits
  <2> DEFINE f == NewFrame(Line.m, Top.file, macros[Line.m].body, Loc)
  <2>1. Push(f) /\ UNCHANGED <<out, lineMap, reports>>
    BY <1>4, Zenon DEF Invoke
  <2>2. macros[Line.m].body \in Seq(SourceLines)
    <3>1. macros[Line.m].body \in Seq(BodyLines)
      BY <1>2 DEF TypeOK, MacroDefs
    <3> QED BY <3>1, BodyInSource
  <2>3. /\ Top.file \in Files /\ Loc \in Places
        /\ Len(out) \in Nat /\ Len(lineMap) \in Nat
    <3>1. Top.file \in Files
      BY TopType DEF Frames
    <3> QED BY <3>1, PlacesType, LengthType
  <2>4. /\ f \in Frames /\ f.at = 1 /\ f.ifs = <<>>
        /\ f.held = {} /\ f.kept = {}
        /\ f.of = Line.m /\ f.lines = macros[Line.m].body /\ f.site = Loc
        /\ f.from = Len(out) /\ f.mapFrom = Len(lineMap)
    BY <1>2, <2>2, <2>3, NewFrameType DEF NewFrame
  <2> HIDE DEF f
  <2>5. \/ Enters(f)
        \/ /\ Len(stack) >= MaxDepth /\ phase' = "crashed"
           /\ UNCHANGED <<text, stack>>
    BY <1>1, <2>1, <2>4, PushEnters
  <2>6. CASE Enters(f)
    BY <1>1, <1>2, <2>1, <2>4, <2>6 DEF MacroEntered
  <2>7. CASE /\ Len(stack) >= MaxDepth /\ phase' = "crashed"
             /\ UNCHANGED <<text, stack>>
    BY <1>1, <2>1, <2>7 DEF Overflowed, TypeOK
  <2> QED BY <2>5, <2>6, <2>7
<1> QED BY <1>3, <1>4

LEMMA IncludeDone ==
    ASSUME TypeOK, Include
    PROVE  LineDone \/ (\E f : FileEntered(f)) \/ Overflowed
<1>1. /\ AtLine /\ Line.k = "include" /\ Emit(1)
      /\ Line.k \notin ChainKinds /\ Line.k # "define"
      /\ UNCHANGED <<macros, inlined, shown>>
  BY DEF Include, Is, ChainKinds
<1>2. Line.f \in Files \cup {NoFile}
  BY <1>1, LineInSource, LineType
<1> DEFINE n == Line.f
           f == [NewFrame(n, n, text[n], At(Main, 0))
                    EXCEPT !.from = Len(out'), !.mapFrom = Len(lineMap')]
<1>3. \/ Pass /\ UNCHANGED ever
      \/ /\ n # NoFile /\ n \notin Open /\ (Line.once => n \notin ever)
         /\ Push(f) /\ ever' = ever \cup {n}
  BY Zenon DEF Include, IncludeFails
<1>4. CASE Pass /\ UNCHANGED ever
  <2>1. Redefined
    BY <1>1, SameMacros
  <2> QED BY <1>1, <1>4, <2>1, PlainLine
<1>5. CASE /\ n # NoFile /\ n \notin Open /\ (Line.once => n \notin ever)
           /\ Push(f) /\ ever' = ever \cup {n}
  <2>1. n \in Files
    BY <1>2, <1>5
  <2>2. Written(1, 1)
    BY <1>1, EmitWrites
  <2>3. Len(out') \in Nat /\ Len(lineMap') \in Nat
    <3>1. out \in Seq(Places) /\ lineMap \in Seq(Places)
      BY DEF TypeOK
    <3>2. Copies(1, Origin) \in Seq(Places) /\ Copies(1, Loc) \in Seq(Places)
      BY PlacesType, CopiesType
    <3>3. out' \in Seq(Places) /\ lineMap' \in Seq(Places)
      BY <2>2, <3>1, <3>2 DEF Written
    <3> QED BY <3>3
  <2>4. text[n] \in Seq(SourceLines) /\ At(Main, 0) \in Places
    BY <2>1, PreprocessorConstants DEF TypeOK, At, Places
  <2>5. f = [of |-> n, file |-> n, lines |-> text[n], at |-> 1,
             ifs |-> <<>>, site |-> At(Main, 0), from |-> Len(out'),
             mapFrom |-> Len(lineMap'), held |-> {}, kept |-> {}]
    <3> DEFINE new == NewFrame(n, n, text[n], At(Main, 0))
    <3>1. new = FrameOf(n, text[n], At(Main, 0), Len(out), Len(lineMap))
      BY DEF NewFrame, FrameOf
    <3> HIDE DEF new
    <3>2. PutBehind(new, Len(out'), Len(lineMap'))
            = FrameOf(n, text[n], At(Main, 0), Len(out'), Len(lineMap'))
      BY <3>1, FrameFrom
    <3> QED BY <3>2, Zenon DEF new, FrameOf, PutBehind
  <2> HIDE DEF f
  <2>6. /\ f \in Frames /\ f.at = 1 /\ f.ifs = <<>>
        /\ f.held = {} /\ f.kept = {}
        /\ f.of = n /\ f.file = n /\ f.lines = text[n]
        /\ f.from = Len(out') /\ f.mapFrom = Len(lineMap')
    BY <2>1, <2>3, <2>4, <2>5, NewFrameType
  <2>7. \/ Enters(f)
        \/ /\ Len(stack) >= MaxDepth /\ phase' = "crashed"
           /\ UNCHANGED <<text, stack>>
    BY <1>1, <1>5, <2>6, PushEnters
  <2>8. CASE Enters(f)
    BY <1>1, <1>5, <2>1, <2>2, <2>6, <2>8 DEF FileEntered
  <2>9. CASE /\ Len(stack) >= MaxDepth /\ phase' = "crashed"
             /\ UNCHANGED <<text, stack>>
    BY <1>1, <1>5, <2>1, <2>2, <2>9 DEF Overflowed, TypeOK
  <2> QED BY <2>7, <2>8, <2>9
<1> QED BY <1>3, <1>4, <1>5

LEMMA LeaveDone ==
    ASSUME TypeOK, EndFile \/ EndMacro
    PROVE  Left
BY DEF EndFile, EndMacro, Left

LEMMA StepIs ==
    ASSUME TypeOK, Step
    PROVE  \/ LineDone \/ Overflowed \/ Left
           \/ \E f : MacroEntered(f) \/ FileEntered(f)
BY OpenChainDone, ElseIfDone, ElseDone, EndIfDone, MisplacedDone, SkipDone,
   TextDone, DefineDone, BlockDone, InlineDone, InvokeDone, ComplainDone,
   IncludeDone, LeaveDone DEF Step
-----------------------------------------------------------------------------
(* Types                                                                     *)

\* The stack of a line that is done, and of a call.
LEMMA LineStack ==
    ASSUME TypeOK, NEW g \in Frames, stack' = [stack EXCEPT ![Len(stack)] = g]
    PROVE  /\ stack' \in Seq(Frames) /\ Len(stack') = Len(stack)
           /\ DOMAIN stack' = DOMAIN stack /\ Len(stack) \in DOMAIN stack
           /\ stack'[Len(stack)] = g
           /\ \A k \in DOMAIN stack : k # Len(stack) => stack'[k] = stack[k]
<1>1. stack \in Seq(Frames) /\ stack # <<>>
  BY DEF TypeOK
<1> QED BY <1>1

LEMMA CallStack ==
    ASSUME TypeOK, NEW f, Enters(f)
    PROVE  /\ stack' \in Seq(Frames) /\ Len(stack') = Len(stack) + 1
           /\ Len(stack) \in Nat \ {0} /\ DOMAIN stack = 1..Len(stack)
           /\ DOMAIN stack' = DOMAIN stack \cup {Len(stack) + 1}
           /\ Len(stack) + 1 \notin DOMAIN stack /\ Len(stack) \in DOMAIN stack
           /\ stack'[Len(stack)] = Passed(Top) /\ stack'[Len(stack) + 1] = f
           /\ \A k \in DOMAIN stack : k # Len(stack) => stack'[k] = stack[k]
<1>1. stack \in Seq(Frames) /\ stack # <<>> /\ f \in Frames
      /\ Passed(Top) \in Frames
  BY DEF TypeOK, Enters, Goes
<1> DEFINE t == [stack EXCEPT ![Len(stack)] = Passed(Top)]
<1>2. /\ t \in Seq(Frames) /\ Len(t) = Len(stack) /\ Len(stack) \in Nat \ {0}
      /\ t[Len(stack)] = Passed(Top) /\ DOMAIN t = DOMAIN stack
      /\ DOMAIN stack = 1..Len(stack)
      /\ \A k \in DOMAIN stack : k # Len(stack) => t[k] = stack[k]
  BY <1>1
<1>3. stack' = Append(t, f)
  BY DEF Enters
<1> HIDE DEF t
<1>4. /\ stack' \in Seq(Frames) /\ Len(stack') = Len(stack) + 1
      /\ stack'[Len(stack) + 1] = f
      /\ \A k \in 1..Len(stack) : stack'[k] = t[k]
  BY <1>1, <1>2, <1>3
<1>5. DOMAIN stack' = 1..(Len(stack) + 1)
  BY <1>4
<1> QED BY <1>2, <1>4, <1>5

LEMMA LeaveStack ==
    ASSUME TypeOK, Leave
    PROVE  /\ stack' \in Seq(Frames) /\ stack' # <<>>
           /\ phase' \in {"run", "done", "crashed"}
           /\ DOMAIN stack' \subseteq DOMAIN stack
           /\ \A k \in DOMAIN stack' : stack'[k] = stack[k]
           /\ \/ Len(stack) = 1 /\ phase' = "done" /\ stack' = stack
              \/ /\ Len(stack) > 1 /\ phase' = phase
                 /\ DOMAIN stack = DOMAIN stack' \cup {Len(stack)}
                 /\ Len(stack) \notin DOMAIN stack'
<1>1. /\ stack \in Seq(Frames) /\ Len(stack) \in Nat \ {0}
      /\ DOMAIN stack = 1..Len(stack) /\ stack # <<>>
  BY TopType DEF TypeOK
<1>2. phase \in {"run", "done", "crashed"}
  BY DEF TypeOK
<1>3. CASE Len(stack) = 1
  BY <1>1, <1>3 DEF Leave
<1>4. CASE Len(stack) # 1
  <2>1. stack' = SubSeq(stack, 1, Len(stack) - 1) /\ phase' = phase
    BY <1>4 DEF Leave
  <2>2. /\ stack' \in Seq(Frames) /\ Len(stack') = Len(stack) - 1
        /\ \A k \in 1..(Len(stack) - 1) : stack'[k] = stack[k]
    BY <1>1, <1>4, <2>1
  <2>3. DOMAIN stack' = 1..(Len(stack) - 1) /\ Len(stack) > 1
    BY <1>1, <1>4, <2>2
  <2>4. stack' # <<>>
    BY <1>1, <1>4, <2>2
  <2>5. /\ DOMAIN stack = DOMAIN stack' \cup {Len(stack)}
        /\ Len(stack) \notin DOMAIN stack'
    BY <1>1, <2>3
  <2>6. \A k \in DOMAIN stack' : stack'[k] = stack[k]
    BY <2>2, <2>3
  <2> QED BY <1>2, <2>1, <2>2, <2>3, <2>4, <2>5, <2>6
<1> QED BY <1>3, <1>4

LEMMA Concatenated ==
    ASSUME NEW S, NEW s \in Seq(S), NEW t \in Seq(S)
    PROVE  /\ s \o t \in Seq(S) /\ Len(s \o t) = Len(s) + Len(t)
           /\ Len(s) \in Nat /\ Len(t) \in Nat
           /\ \A i \in 1..Len(s) : (s \o t)[i] = s[i]
           /\ \A i \in (Len(s) + 1)..(Len(s) + Len(t)) :
                 (s \o t)[i] = t[i - Len(s)]
OBVIOUS

LEMMA Behind ==
    ASSUME NEW n \in Nat, NEW m \in Nat
    PROVE  \A k \in (n + 1)..(n + m) : k - n \in 1..m
OBVIOUS

LEMMA WrittenType ==
    ASSUME TypeOK, NEW i \in Nat, NEW j \in Nat, Written(i, j)
    PROVE  /\ out' \in Seq(Places) /\ lineMap' \in Seq(Places)
           /\ Len(out') = Len(out) + i /\ Len(lineMap') = Len(lineMap) + j
           /\ \A k \in 1..Len(out) : out'[k] = out[k]
           /\ \A k \in 1..Len(lineMap) : lineMap'[k] = lineMap[k]
           /\ \A k \in (Len(out) + 1)..(Len(out) + i) : out'[k] = Origin
<1>1. out \in Seq(Places) /\ lineMap \in Seq(Places)
  BY DEF TypeOK
<1> DEFINE a == Copies(i, Origin)
           b == Copies(j, Loc)
<1>2. /\ a \in Seq(Places) /\ b \in Seq(Places) /\ Len(a) = i /\ Len(b) = j
      /\ \A k \in 1..i : a[k] = Origin
  BY PlacesType, CopiesType
<1>3. out' = out \o a /\ lineMap' = lineMap \o b
  BY DEF Written
<1> HIDE DEF a, b
<1>4. /\ out' \in Seq(Places) /\ Len(out') = Len(out) + i
      /\ Len(out) \in Nat
      /\ \A k \in 1..Len(out) : out'[k] = out[k]
      /\ \A k \in (Len(out) + 1)..(Len(out) + i) : out'[k] = a[k - Len(out)]
  <2>1. /\ out \o a \in Seq(Places) /\ Len(out \o a) = Len(out) + Len(a)
        /\ Len(out) \in Nat
        /\ \A k \in 1..Len(out) : (out \o a)[k] = out[k]
        /\ \A k \in (Len(out) + 1)..(Len(out) + Len(a)) :
              (out \o a)[k] = a[k - Len(out)]
    BY <1>1, <1>2, Concatenated, Zenon
  <2> QED BY <1>2, <1>3, <2>1, Zenon
<1>5. /\ lineMap' \in Seq(Places) /\ Len(lineMap') = Len(lineMap) + j
      /\ \A k \in 1..Len(lineMap) : lineMap'[k] = lineMap[k]
  BY <1>1, <1>2, <1>3, Concatenated, Zenon
<1>6. \A k \in (Len(out) + 1)..(Len(out) + i) : k - Len(out) \in 1..i
  BY <1>4, Behind
<1> QED BY <1>2, <1>4, <1>5, <1>6, Zenon

\* EndMacro; what is written is inside the output, the line map cut back.
LEMMA MacroLeft ==
    ASSUME TypeOK, Top.from <= Len(out), Top.mapFrom <= Len(lineMap),
           out' = (IF Len(out) = Top.from THEN Append(out, Origin) ELSE out),
           lineMap' = SubSeq(lineMap, 1, Top.mapFrom)
                         \o Copies(Len(out') - Top.from, Top.site)
    PROVE  /\ out' \in Seq(Places) /\ lineMap' \in Seq(Places)
           /\ Len(out') >= Len(out) /\ Len(out') > Top.from
           /\ \A k \in 1..Len(out) : out'[k] = out[k]
           /\ \A k \in (Len(out) + 1)..Len(out') : out'[k] = Origin
           /\ Len(lineMap') = Top.mapFrom + (Len(out') - Top.from)
           /\ \A k \in 1..Top.mapFrom : lineMap'[k] = lineMap[k]
           /\ \A k \in (Top.mapFrom + 1)..Len(lineMap') : lineMap'[k] = Top.site
<1>1. /\ out \in Seq(Places) /\ lineMap \in Seq(Places)
      /\ Top.from \in Nat /\ Top.mapFrom \in Nat /\ Top.site \in Places
      /\ Origin \in Places
  BY TopType, PlacesType DEF TypeOK, Frames
<1>2. /\ out' \in Seq(Places) /\ Len(out') >= Len(out) /\ Len(out') > Top.from
      /\ \A k \in 1..Len(out) : out'[k] = out[k]
      /\ \A k \in (Len(out) + 1)..Len(out') : out'[k] = Origin
  <2>1. CASE Len(out) = Top.from
    <3>1. out' = Append(out, Origin)
      BY <2>1
    <3> QED BY <1>1, <2>1, <3>1
  <2>2. CASE Len(out) # Top.from
    <3>1. out' = out
      BY <2>2
    <3> QED BY <1>1, <2>2, <3>1
  <2> QED BY <2>1, <2>2
<1> DEFINE n == Len(out') - Top.from
           a == SubSeq(lineMap, 1, Top.mapFrom)
           b == Copies(n, Top.site)
<1>3. n \in Nat
  BY <1>1, <1>2
<1>4. /\ a \in Seq(Places) /\ Len(a) = Top.mapFrom
      /\ \A k \in 1..Top.mapFrom : a[k] = lineMap[k]
  BY <1>1
<1>5. /\ b \in Seq(Places) /\ Len(b) = n /\ \A k \in 1..n : b[k] = Top.site
  <2> HIDE DEF n
  <2>1. n \in Nat /\ Top.site \in Places
    BY <1>1, <1>3
  <2> QED BY <2>1, CopiesType
<1> HIDE DEF a, b
<1>6. lineMap' = a \o b
  BY DEF a, b
<1>7. n = Len(out') - Top.from
  OBVIOUS
<1> HIDE DEF n
<1>8. /\ lineMap' \in Seq(Places) /\ Len(lineMap') = Top.mapFrom + n
      /\ \A k \in 1..Top.mapFrom : lineMap'[k] = a[k]
      /\ \A k \in (Top.mapFrom + 1)..(Top.mapFrom + n) :
            lineMap'[k] = b[k - Top.mapFrom]
  <2>1. /\ a \o b \in Seq(Places) /\ Len(a \o b) = Len(a) + Len(b)
        /\ \A k \in 1..Len(a) : (a \o b)[k] = a[k]
        /\ \A k \in (Len(a) + 1)..(Len(a) + Len(b)) :
              (a \o b)[k] = b[k - Len(a)]
    <3>1. a \in Seq(Places) /\ b \in Seq(Places)
      BY <1>4, <1>5
    <3> QED BY <3>1, Concatenated, Zenon
  <2>2. Len(a) = Top.mapFrom /\ Len(b) = n
    BY <1>4, <1>5
  <2> QED BY <1>6, <2>1, <2>2
<1>9. \A k \in (Top.mapFrom + 1)..(Top.mapFrom + n) : k - Top.mapFrom \in 1..n
  BY <1>1, <1>3, Behind
<1>10. \A k \in (Top.mapFrom + 1)..Len(lineMap') : lineMap'[k] = Top.site
  <2> TAKE k \in (Top.mapFrom + 1)..Len(lineMap')
  <2>1. lineMap'[k] = b[k - Top.mapFrom] /\ k - Top.mapFrom \in 1..n
    BY <1>8, <1>9, Zenon
  <2>2. \A i \in 1..n : b[i] = Top.site
    BY <1>5, Zenon
  <2> QED BY <2>1, <2>2, Zenon
<1> QED BY <1>2, <1>4, <1>7, <1>8, <1>10, Zenon

LEMMA TypeInit ==
    ASSUME Init
    PROVE  TypeOK
<1> DEFINE f == FrameOf(Main, text[Main], At(Main, 0), 0, 0)
<1>1. stack = <<f>>
  BY DEF Init, NewFrame, FrameOf
<1>2. text[Main] \in Seq(SourceLines) /\ At(Main, 0) \in Places /\ Main \in Files
  BY PreprocessorConstants DEF Init, At, Places
<1>3. f \in Frames
  BY <1>2, NewFrameType DEF FrameOf
<1> HIDE DEF f
<1>4. stack \in Seq(Frames) /\ stack # <<>>
  BY <1>1, <1>3
<1>5. macros \in [Macros -> MacroDefs]
  BY DEF Init, MacroDefs, NoMacro
<1>6. /\ text \in Programs /\ phase = "run" /\ out = <<>> /\ lineMap = <<>>
      /\ ever = {Main} /\ inlined = FALSE /\ shown = <<>>
  BY DEF Init
<1>7. out \in Seq(Places) /\ lineMap \in Seq(Places) /\ shown \in Seq(Places)
  BY <1>6
<1>8. ever \in SUBSET Files
  BY <1>2, <1>6
<1> QED BY <1>4, <1>5, <1>6, <1>7, <1>8, Zenon DEF TypeOK

LEMMA TypeStep ==
    ASSUME TypeOK, \A k \in DOMAIN stack : stack[k].from <= Len(out)
                                        /\ stack[k].mapFrom <= Len(lineMap),
           Step
    PROVE  TypeOK'
<1> USE DEF TypeOK
<1>1. CASE LineDone
  <2>1. PICK g : Goes(g) /\ stack' = [stack EXCEPT ![Len(stack)] = g]
    BY <1>1 DEF LineDone
  <2>2. g \in Frames
    BY <2>1 DEF Goes
  <2>3. stack' \in Seq(Frames) /\ stack' # <<>>
    BY <2>1, <2>2
  <2>4. PICK i, j \in Nat \ {0} : Written(i, j)
    BY <1>1 DEF LineDone
  <2>5. out' \in Seq(Places) /\ lineMap' \in Seq(Places)
    BY <2>4, WrittenType
  <2>6. shown' \in Seq(Places)
    <3>1. Loc \in Places
      BY PlacesType
    <3>2. shown' = shown \/ shown' = Append(shown, Loc)
      BY <1>1 DEF LineDone
    <3>3. shown \in Seq(Places)
      OBVIOUS
    <3> HIDE DEF TypeOK
    <3> QED BY <3>1, <3>2, <3>3
  <2> QED BY <1>1, <2>3, <2>5, <2>6 DEF LineDone, Redefined
<1>2. CASE Overflowed
  <2>1. out' \in Seq(Places) /\ lineMap' \in Seq(Places)
    BY <1>2, WrittenType DEF Overflowed
  <2> QED BY <1>2, <2>1 DEF Overflowed
<1>3. CASE Left
  <2>1. /\ stack' \in Seq(Frames) /\ stack' # <<>>
        /\ phase' \in {"run", "done", "crashed"}
    BY <1>3, LeaveStack DEF Left
  <2>2. Top.from <= Len(out) /\ Top.mapFrom <= Len(lineMap)
    BY TopType
  <2>3. out' \in Seq(Places) /\ lineMap' \in Seq(Places)
    <3>1. CASE UNCHANGED <<out, lineMap>>
      BY <3>1
    <3>2. CASE ~UNCHANGED <<out, lineMap>>
      BY <1>3, <2>2, <3>2, MacroLeft DEF Left
    <3> QED BY <3>1, <3>2
  <2> QED BY <1>3, <2>1, <2>3 DEF Left
<1>4. ASSUME NEW f, MacroEntered(f) PROVE TypeOK'
  <2>1. Enters(f)
    BY <1>4 DEF MacroEntered
  <2>2. stack' \in Seq(Frames) /\ stack' # <<>>
    BY <2>1, CallStack
  <2> QED BY <1>4, <2>1, <2>2 DEF MacroEntered, Enters
<1>5. ASSUME NEW f, FileEntered(f) PROVE TypeOK'
  <2>1. Enters(f)
    BY <1>5 DEF FileEntered
  <2>2. stack' \in Seq(Frames) /\ stack' # <<>>
    BY <2>1, CallStack
  <2>3. out' \in Seq(Places) /\ lineMap' \in Seq(Places)
    BY <1>5, WrittenType DEF FileEntered
  <2>4. ever' \in SUBSET Files
    BY <1>5 DEF FileEntered
  <2> QED BY <1>5, <2>1, <2>2, <2>3, <2>4 DEF FileEntered, Enters
<1> QED BY <1>1, <1>2, <1>3, <1>4, <1>5, StepIs
-----------------------------------------------------------------------------
(* What stays of the calls.                                                  *)

SameCall(k) ==
    /\ k \in DOMAIN stack' /\ stack'[k].of = stack[k].of
    /\ stack'[k].file = stack[k].file /\ stack'[k].lines = stack[k].lines
    /\ stack'[k].site = stack[k].site /\ stack'[k].from = stack[k].from
    /\ stack'[k].mapFrom = stack[k].mapFrom

LEMMA LineCalls ==
    ASSUME TypeOK, LineDone
    PROVE  /\ DOMAIN stack' = DOMAIN stack /\ Len(stack') = Len(stack)
           /\ \A k \in DOMAIN stack : SameCall(k)
<1>1. PICK g : Goes(g) /\ stack' = [stack EXCEPT ![Len(stack)] = g]
  BY DEF LineDone
<1>2. g \in Frames
  BY <1>1 DEF Goes
<1>3. /\ Len(stack') = Len(stack) /\ DOMAIN stack' = DOMAIN stack
      /\ stack'[Len(stack)] = g
      /\ \A k \in DOMAIN stack : k # Len(stack) => stack'[k] = stack[k]
  BY <1>1, <1>2, LineStack
<1>4. SameCall(Len(stack))
  BY <1>1, <1>3, TopType, Zenon DEF SameCall, Goes
<1>5. \A k \in DOMAIN stack : k # Len(stack) => SameCall(k)
  BY <1>3, Zenon DEF SameCall
<1> QED BY <1>3, <1>4, <1>5

LEMMA CallCalls ==
    ASSUME TypeOK, NEW f, Enters(f)
    PROVE  /\ \A k \in DOMAIN stack : SameCall(k)
           /\ DOMAIN stack' = DOMAIN stack \cup {Len(stack) + 1}
           /\ Len(stack) + 1 \notin DOMAIN stack
           /\ stack'[Len(stack) + 1] = f
<1>1. /\ Len(stack) \in DOMAIN stack
      /\ DOMAIN stack' = DOMAIN stack \cup {Len(stack) + 1}
      /\ Len(stack) + 1 \notin DOMAIN stack
      /\ stack'[Len(stack)] = Passed(Top) /\ stack'[Len(stack) + 1] = f
      /\ \A k \in DOMAIN stack : k # Len(stack) => stack'[k] = stack[k]
  BY CallStack
<1>2. Goes(Passed(Top))
  BY DEF Enters
<1>3. SameCall(Len(stack))
  BY <1>1, <1>2, TopType, Zenon DEF SameCall, Goes
<1>4. \A k \in DOMAIN stack : k # Len(stack) => SameCall(k)
  BY <1>1, Zenon DEF SameCall
<1> QED BY <1>1, <1>3, <1>4
-----------------------------------------------------------------------------
(* The calls of expandSource                                                 *)

LEMMA StackInit ==
    ASSUME Init
    PROVE  StackInv
<1>1. stack = <<FrameOf(Main, text[Main], At(Main, 0), 0, 0)>>
  BY DEF Init, NewFrame, FrameOf
<1>2. /\ DOMAIN stack = {1} /\ stack[1].of = Main /\ stack[1].file = Main
      /\ stack[1].lines = text[Main]
  BY <1>1 DEF FrameOf
<1>3. Main \in Files /\ Main \in ever /\ phase # "crashed"
  BY PreprocessorConstants DEF Init
<1> QED BY <1>2, <1>3 DEF StackInv, IsFile

\* A call of a file that is on no frame, or of a macro.
LEMMA StackCalled ==
    ASSUME TypeOK, StackInv, NEW f, Enters(f), phase = "run",
           ever \subseteq ever',
           \/ f.of \in Macros
           \/ /\ f.of \in Files /\ f.of \notin Open /\ f.of \in ever'
              /\ f.file = f.of /\ f.lines = text[f.of]
    PROVE  StackInv'
<1>1. /\ \A k \in DOMAIN stack : SameCall(k)
      /\ DOMAIN stack' = DOMAIN stack \cup {Len(stack) + 1}
      /\ Len(stack) + 1 \notin DOMAIN stack
      /\ stack'[Len(stack) + 1] = f
  BY CallCalls
<1>2. text' = text /\ phase' = phase /\ 1 \in DOMAIN stack
  BY TopType DEF Enters
<1>3. f.of \in Macros => ~IsFile(f)
  BY PreprocessorConstants DEF IsFile
<1>4. \A k \in DOMAIN stack : (f.of \in Files /\ f.of \notin Open) =>
          ~(IsFile(stack[k]) /\ stack[k].of = f.of)
  BY DEF Open, InMacro, StackInv
<1>5. \A k \in DOMAIN stack : f.of \in Macros =>
          ~(IsFile(stack[k]) /\ stack[k].of = f.of)
  BY <1>3 DEF IsFile
<1>6. \A k \in DOMAIN stack : IsFile(stack'[k]) <=> IsFile(stack[k])
  BY <1>1 DEF SameCall, IsFile
<1>7. IsFile(stack'[1])
  BY <1>2, <1>6 DEF StackInv
<1>8. \A k \in DOMAIN stack' : IsFile(stack'[k]) =>
          /\ stack'[k].file = stack'[k].of
          /\ stack'[k].lines = text'[stack'[k].of] /\ stack'[k].of \in ever'
  <2> TAKE k \in DOMAIN stack'
  <2>1. CASE k \in DOMAIN stack
    BY <1>1, <1>2, <1>6, <2>1 DEF StackInv, SameCall
  <2>2. CASE k = Len(stack) + 1
    BY <1>1, <1>2, <1>3, <2>2
  <2> QED BY <1>1, <2>1, <2>2
<1>9. \A j, k \in DOMAIN stack' :
          IsFile(stack'[j]) /\ stack'[j].of = stack'[k].of => j = k
  <2> TAKE j, k \in DOMAIN stack'
  <2>1. CASE j \in DOMAIN stack /\ k \in DOMAIN stack
    BY <1>1, <1>6, <2>1 DEF StackInv, SameCall
  <2>2. CASE j \in DOMAIN stack /\ k = Len(stack) + 1
    BY <1>1, <1>4, <1>5, <1>6, <2>2 DEF SameCall
  <2>3. CASE j = Len(stack) + 1 /\ k \in DOMAIN stack
    <3>1. IsFile(f) /\ stack[k].of = f.of => IsFile(stack[k])
      BY DEF IsFile
    <3> QED BY <1>1, <1>4, <1>5, <2>3, <3>1 DEF SameCall
  <2> QED BY <1>1, <2>1, <2>2, <2>3
<1> QED BY <1>2, <1>7, <1>8, <1>9 DEF StackInv, IsFile

LEMMA StackStep ==
    ASSUME TypeOK, StackInv, Step, phase = "run"
    PROVE  StackInv'
<1>1. CASE LineDone
  <2>1. /\ DOMAIN stack' = DOMAIN stack
        /\ \A k \in DOMAIN stack : SameCall(k)
    BY <1>1, LineCalls
  <2>2. text' = text /\ ever' = ever /\ phase' = phase /\ 1 \in DOMAIN stack
    BY <1>1, TopType DEF LineDone
  <2> QED BY <2>1, <2>2 DEF StackInv, SameCall, IsFile
<1>2. CASE Overflowed
  BY <1>2 DEF Overflowed, StackInv
<1>3. CASE Left
  <2>1. /\ DOMAIN stack' \subseteq DOMAIN stack
        /\ \A k \in DOMAIN stack' : stack'[k] = stack[k]
        /\ stack' \in Seq(Frames) /\ stack' # <<>>
        /\ phase' # "crashed"
    BY <1>3, LeaveStack DEF Left
  <2>2. 1 \in DOMAIN stack' /\ text' = text /\ ever' = ever
    BY <1>3, <2>1 DEF Left
  <2> QED BY <2>1, <2>2 DEF StackInv, IsFile
<1>4. ASSUME NEW f, MacroEntered(f) PROVE StackInv'
  BY <1>4, StackCalled DEF MacroEntered
<1>5. ASSUME NEW f, FileEntered(f) PROVE StackInv'
  BY <1>5, StackCalled DEF FileEntered
<1> QED BY <1>1, <1>2, <1>3, <1>4, <1>5, StepIs
-----------------------------------------------------------------------------
(* The line map                                                              *)

LEMMA MapInit ==
    ASSUME Init
    PROVE  MapInv /\ Mapped
<1>1. stack = <<FrameOf(Main, text[Main], At(Main, 0), 0, 0)>>
  BY DEF Init, NewFrame, FrameOf
<1>2. /\ DOMAIN stack = {1} /\ stack[1].of = Main /\ stack[1].from = 0
      /\ stack[1].mapFrom = 0
  BY <1>1 DEF FrameOf
<1>3. Main \in Files /\ out = <<>> /\ lineMap = <<>>
  BY PreprocessorConstants DEF Init
<1>4. InMacro = {}
  BY <1>2, <1>3 DEF InMacro, IsFile
<1> QED BY <1>2, <1>3, <1>4 DEF MapInv, Mapped

LEMMA FirstIs ==
    ASSUME TypeOK, NEW i \in InMacro, \A j \in InMacro : i <= j
    PROVE  Origin = stack[i].site /\ i \in DOMAIN stack /\ i \in Nat
<1>1. InMacro \subseteq Nat /\ InMacro \subseteq DOMAIN stack
  BY TopType DEF InMacro
<1>2. PICK n \in InMacro : /\ \A j \in InMacro : n <= j
                           /\ Origin = stack[n].site
  BY FirstMacro
<1>3. n = i
  BY <1>1, <1>2
<1> QED BY <1>1, <1>2, <1>3

\* Output, and the line map with it, become longer at the end.
LEMMA MappedWrites ==
    ASSUME TypeOK, MapInv, Mapped, NEW i \in Nat, NEW j \in Nat, Written(i, j),
           i = j \/ InMacro # {}, InMacro' = InMacro,
           \A k \in InMacro : SameCall(k)
    PROVE  Mapped'
<1>1. /\ Len(out) \in Nat /\ Len(lineMap) \in Nat /\ Len(out') = Len(out) + i
      /\ \A k \in 1..Len(out) : out'[k] = out[k]
      /\ \A k \in 1..Len(lineMap) : lineMap'[k] = lineMap[k]
      /\ \A k \in (Len(out) + 1)..(Len(out) + i) : out'[k] = Origin
  BY WrittenType, LengthType, Zenon
<1>2. InMacro = {} => lineMap' = out'
  <2> HAVE InMacro = {}
  <2>1. lineMap = out /\ Origin = Loc /\ i = j
    BY DEF Mapped, Origin
  <2> QED BY <2>1 DEF Written
<1>3. ASSUME NEW m \in InMacro, \A k \in InMacro : m <= k
      PROVE  /\ stack'[m].from = stack'[m].mapFrom
             /\ \A k \in 1..stack'[m].from : lineMap'[k] = out'[k]
             /\ \A k \in (stack'[m].from + 1)..Len(out') :
                   out'[k] = stack'[m].site
  <2>1. Origin = stack[m].site /\ m \in DOMAIN stack /\ stack[m] \in Frames
    BY <1>3, FirstIs, TopType
  <2>2. /\ stack[m].from = stack[m].mapFrom
        /\ \A k \in 1..stack[m].from : lineMap[k] = out[k]
        /\ \A k \in (stack[m].from + 1)..Len(out) : out[k] = stack[m].site
    BY <1>3 DEF Mapped
  <2>3. /\ stack[m].from <= Len(out) /\ stack[m].mapFrom <= Len(lineMap)
        /\ stack[m].from \in Nat
    BY <2>1 DEF MapInv, Frames
  <2>4. /\ stack'[m].from = stack[m].from /\ stack'[m].site = stack[m].site
        /\ stack'[m].mapFrom = stack[m].mapFrom
    BY DEF SameCall
  <2> DEFINE a == stack[m].from
  <2>5. \A k \in 1..a : k \in 1..Len(out) /\ k \in 1..Len(lineMap)
    BY <1>1, <2>2, <2>3
  <2>6. \A k \in 1..a : lineMap'[k] = out'[k]
    BY <1>1, <2>2, <2>5
  <2>7. \A k \in (a + 1)..Len(out') :
           \/ k \in (a + 1)..Len(out) /\ k \in 1..Len(out)
           \/ k \in (Len(out) + 1)..(Len(out) + i)
    BY <1>1, <2>3
  <2>8. \A k \in (a + 1)..Len(out') : out'[k] = stack[m].site
    BY <1>1, <2>1, <2>2, <2>7
  <2> QED BY <2>2, <2>4, <2>6, <2>8
<1> QED BY <1>2, <1>3 DEF Mapped

LEMMA SameMacroCalls ==
    ASSUME TypeOK, \A k \in DOMAIN stack : SameCall(k)
    PROVE  \A k \in DOMAIN stack : k \in InMacro' <=> k \in InMacro
BY DEF SameCall, InMacro, IsFile

LEMMA MapInvGrows ==
    ASSUME TypeOK, MapInv, \A k \in DOMAIN stack : SameCall(k),
           DOMAIN stack' = DOMAIN stack, Len(out') \in Nat, Len(lineMap') \in Nat,
           Len(out') >= Len(out), Len(lineMap') >= Len(lineMap)
    PROVE  MapInv'
<1>1. Len(out) \in Nat /\ Len(lineMap) \in Nat
  BY DEF TypeOK
<1>2. \A k \in DOMAIN stack : stack[k].from \in Nat /\ stack[k].mapFrom \in Nat
  BY TopType DEF Frames
<1>3. \A k \in DOMAIN stack : /\ stack'[k].from <= Len(out')
                              /\ stack'[k].mapFrom <= Len(lineMap')
  BY <1>1, <1>2 DEF MapInv, SameCall
<1>4. \A j, k \in DOMAIN stack : j <= k => stack'[j].mapFrom <= stack'[k].mapFrom
  BY DEF MapInv, SameCall
<1> QED BY <1>3, <1>4 DEF MapInv

LEMMA MapInvCalled ==
    ASSUME TypeOK, MapInv, NEW f, Enters(f), Len(out') \in Nat,
           Len(lineMap') \in Nat, Len(out') >= Len(out),
           Len(lineMap') >= Len(lineMap)
    PROVE  MapInv'
<1>1. /\ \A k \in DOMAIN stack : SameCall(k)
      /\ DOMAIN stack' = DOMAIN stack \cup {Len(stack) + 1}
      /\ Len(stack) + 1 \notin DOMAIN stack
      /\ stack'[Len(stack) + 1] = f
  BY CallCalls
<1>2. Len(out) \in Nat /\ Len(lineMap) \in Nat
  BY DEF TypeOK
<1>3. \A k \in DOMAIN stack : /\ stack[k].from \in Nat /\ stack[k].mapFrom \in Nat
                              /\ k \in Nat /\ k < Len(stack) + 1
  <2>1. \A k \in DOMAIN stack : k \in Nat /\ k < Len(stack) + 1
    BY TopType
  <2>2. \A k \in DOMAIN stack : stack[k] \in Frames
    BY TopType
  <2> QED BY <2>1, <2>2 DEF Frames
<1>4. f.from = Len(out') /\ f.mapFrom = Len(lineMap')
  BY DEF Enters
<1>5. \A k \in DOMAIN stack : /\ stack'[k].from <= Len(out')
                              /\ stack'[k].mapFrom <= Len(lineMap')
  BY <1>1, <1>2, <1>3 DEF MapInv, SameCall
<1>6. \A j, k \in DOMAIN stack : j <= k => stack'[j].mapFrom <= stack'[k].mapFrom
  BY <1>1 DEF MapInv, SameCall
<1>7. \A k \in DOMAIN stack' : stack'[k].from <= Len(out')
                            /\ stack'[k].mapFrom <= Len(lineMap')
  BY <1>1, <1>4, <1>5
<1>8. Len(stack) \in Nat
  BY TopType
<1>9. \A j, k \in DOMAIN stack' : j <= k => stack'[j].mapFrom <= stack'[k].mapFrom
  <2> TAKE j, k \in DOMAIN stack'
  <2>1. CASE j \in DOMAIN stack /\ k \in DOMAIN stack
    BY <1>6, <2>1
  <2>2. CASE k = Len(stack) + 1
    BY <1>1, <1>4, <1>7, <2>2
  <2>3. CASE j = Len(stack) + 1 /\ k \in DOMAIN stack
    BY <1>3, <1>8, <2>3
  <2> QED BY <1>1, <2>1, <2>2, <2>3
<1> QED BY <1>7, <1>9 DEF MapInv

\* A macro is left: what is new in the line map is where it was invoked.
LEMMA MapMacroLeft ==
    ASSUME TypeOK, StackInv, MapInv, Left, ~IsFile(Top)
    PROVE  /\ MapInv'
           /\ Mapped => Mapped'
<1> DEFINE top == Len(stack)
           a == Top.from
           b == Top.mapFrom
<1>1. /\ top \in DOMAIN stack /\ Top = stack[top] /\ Top \in Frames
      /\ top \in Nat \ {0} /\ DOMAIN stack = 1..top
  BY TopType
<1>2. top \in InMacro
  BY <1>1 DEF InMacro
<1>3. top # 1
  BY <1>1 DEF StackInv
<1>4. /\ DOMAIN stack = DOMAIN stack' \cup {top} /\ top \notin DOMAIN stack'
      /\ \A k \in DOMAIN stack' : stack'[k] = stack[k]
  BY <1>3, LeaveStack DEF Left
<1>5. a \in Nat /\ b \in Nat /\ a <= Len(out) /\ b <= Len(lineMap)
  BY <1>1 DEF Frames, MapInv
<1>6. /\ out' \in Seq(Places) /\ lineMap' \in Seq(Places)
      /\ Len(out') >= Len(out) /\ Len(out') > a
      /\ \A k \in 1..Len(out) : out'[k] = out[k]
      /\ \A k \in (Len(out) + 1)..Len(out') : out'[k] = Origin
      /\ Len(lineMap') = b + (Len(out') - a)
      /\ \A k \in 1..b : lineMap'[k] = lineMap[k]
      /\ \A k \in (b + 1)..Len(lineMap') : lineMap'[k] = Top.site
  <2>1. /\ out' = (IF Len(out) = Top.from THEN Append(out, Origin) ELSE out)
        /\ lineMap' = SubSeq(lineMap, 1, Top.mapFrom)
                         \o Copies(Len(out') - Top.from, Top.site)
    BY Zenon DEF Left
  <2> QED BY <1>5, <2>1, MacroLeft
<1>7. Len(out) \in Nat /\ Len(out') \in Nat /\ Len(lineMap') \in Nat
  BY <1>6 DEF TypeOK
<1>8. InMacro = InMacro' \cup {top} /\ InMacro' \subseteq DOMAIN stack'
  BY <1>2, <1>4 DEF InMacro, IsFile
<1>9. MapInv'
  <2>1. \A k \in DOMAIN stack' : /\ stack[k].from \in Nat
                                 /\ stack[k].mapFrom \in Nat /\ k <= top
    <3> TAKE k \in DOMAIN stack'
    <3>1. k \in DOMAIN stack /\ stack[k] \in Frames
      BY <1>4, TopType
    <3>2. k <= top
      BY <1>1, <3>1
    <3> QED BY <3>1, <3>2 DEF Frames
  <2>2. \A k \in DOMAIN stack' : stack[k].from <= Len(out')
    <3>1. \A k \in DOMAIN stack' : stack[k].from <= Len(out)
      BY <1>4 DEF MapInv
    <3> QED BY <1>6, <1>7, <2>1, <3>1
  <2>3. \A k \in DOMAIN stack' : stack[k].mapFrom <= b
    BY <1>1, <1>4, <2>1 DEF MapInv
  <2>4. b <= Len(lineMap')
    BY <1>5, <1>6, <1>7
  <2>5. \A k \in DOMAIN stack' : stack[k].mapFrom <= Len(lineMap')
    BY <1>5, <1>7, <2>1, <2>3, <2>4
  <2> QED BY <1>4, <2>2, <2>5 DEF MapInv
<1>10. ASSUME Mapped PROVE InMacro' = {} => lineMap' = out'
  <2> HAVE InMacro' = {}
  <2>1. \A j \in InMacro : top <= j
    BY <1>1, <1>8
  <2>2. /\ a = b /\ \A k \in 1..a : lineMap[k] = out[k]
        /\ \A k \in (a + 1)..Len(out) : out[k] = Top.site
    BY <1>1, <1>2, <1>10, <2>1 DEF Mapped
  <2>3. Origin = Top.site
    BY <1>1, <1>2, <2>1, FirstIs
  <2>4. Len(lineMap') = Len(out')
    BY <1>5, <1>6, <1>7, <2>2
  <2>5. \A k \in 1..Len(out') : lineMap'[k] = out'[k]
    <3> TAKE k \in 1..Len(out')
    <3>1. CASE k <= a
      <4>1. k \in 1..a /\ k \in 1..b /\ k \in 1..Len(out)
        BY <1>5, <1>7, <2>2, <3>1
      <4> QED BY <1>6, <2>2, <4>1
    <3>2. CASE k > a
      <4>1. k \in (b + 1)..Len(lineMap')
        BY <1>5, <1>7, <2>2, <2>4, <3>2
      <4>2. \/ k \in (a + 1)..Len(out) /\ k \in 1..Len(out)
            \/ k \in (Len(out) + 1)..Len(out')
        BY <1>5, <1>7, <3>2
      <4> QED BY <1>6, <2>2, <2>3, <4>1, <4>2
    <3> QED BY <1>5, <3>1, <3>2
  <2> DEFINE s == lineMap'
             t == out'
  <2>6. s \in Seq(Places) /\ t \in Seq(Places) /\ Len(s) = Len(t)
        /\ \A k \in 1..Len(t) : s[k] = t[k]
    BY <1>6, <2>4, <2>5
  <2> HIDE DEF s, t
  <2>7. s = t
    BY <2>6
  <2> QED BY <2>7 DEF s, t
<1>11. ASSUME Mapped, NEW m \in InMacro', \A k \in InMacro' : m <= k
       PROVE  /\ stack'[m].from = stack'[m].mapFrom
              /\ \A k \in 1..stack'[m].from : lineMap'[k] = out'[k]
              /\ \A k \in (stack'[m].from + 1)..Len(out') :
                    out'[k] = stack'[m].site
  <2>1. m \in InMacro /\ m \in DOMAIN stack /\ m \in DOMAIN stack'
    BY <1>4, <1>8
  <2>2. m <= top /\ \A k \in InMacro : m <= k
    BY <1>1, <1>8, <1>11, <2>1
  <2> DEFINE c == stack[m].from
  <2>3. /\ c = stack[m].mapFrom /\ \A k \in 1..c : lineMap[k] = out[k]
        /\ \A k \in (c + 1)..Len(out) : out[k] = stack[m].site
    BY <1>11, <2>1, <2>2 DEF Mapped
  <2>4. Origin = stack[m].site
    BY <2>1, <2>2, FirstIs
  <2>5. c \in Nat /\ c <= b /\ c <= Len(out)
    <3>1. stack[m] \in Frames /\ stack[m].mapFrom <= stack[top].mapFrom
      BY <1>1, <2>1, <2>2, TopType DEF MapInv
    <3> QED BY <1>1, <2>1, <2>3, <3>1 DEF Frames, MapInv
  <2>6. \A k \in 1..c : lineMap'[k] = out'[k]
    <3>1. \A k \in 1..c : k \in 1..b /\ k \in 1..Len(out)
      BY <1>5, <1>7, <2>5
    <3> QED BY <1>6, <2>3, <3>1
  <2>7. \A k \in (c + 1)..Len(out') : out'[k] = stack[m].site
    <3>1. \A k \in (c + 1)..Len(out') :
             \/ k \in (c + 1)..Len(out) /\ k \in 1..Len(out)
             \/ k \in (Len(out) + 1)..Len(out')
      BY <1>7, <2>5
    <3> QED BY <1>6, <2>3, <2>4, <3>1
  <2>8. stack'[m] = stack[m]
    BY <1>4, <2>1
  <2> QED BY <2>3, <2>6, <2>7, <2>8
<1> QED BY <1>9, <1>10, <1>11 DEF Mapped

LEMMA LongerByOne ==
    ASSUME TypeOK, Written(1, 1)
    PROVE  /\ Len(out') \in Nat /\ Len(lineMap') \in Nat
           /\ Len(out') >= Len(out) /\ Len(lineMap') >= Len(lineMap)
<1>1. Len(out') = Len(out) + 1 /\ Len(lineMap') = Len(lineMap) + 1
  <2>1. 1 \in Nat
    OBVIOUS
  <2> QED BY <2>1, WrittenType
<1>2. Len(out) \in Nat /\ Len(lineMap) \in Nat
  BY DEF TypeOK
<1> QED BY <1>1, <1>2

LEMMA MapStep ==
    ASSUME TypeOK, StackInv, MapInv, inlined \/ Mapped, Step
    PROVE  MapInv' /\ (inlined' \/ Mapped')
<1>0. inlined \in BOOLEAN
  BY DEF TypeOK
<1>1. CASE LineDone
  <2>1. PICK i, j \in Nat \ {0} : Written(i, j) /\ (i = j \/ InMacro # {} \/ inlined')
    BY <1>1 DEF LineDone
  <2>2. /\ DOMAIN stack' = DOMAIN stack
        /\ \A k \in DOMAIN stack : SameCall(k)
    BY <1>1, LineCalls
  <2>3. InMacro' = InMacro
    <3>1. InMacro' \subseteq DOMAIN stack' /\ InMacro \subseteq DOMAIN stack
      BY DEF InMacro
    <3> QED BY <2>2, <3>1, SameMacroCalls
  <2>4. /\ Len(out') \in Nat /\ Len(lineMap') \in Nat
        /\ Len(out') >= Len(out) /\ Len(lineMap') >= Len(lineMap)
    <3>1. /\ Len(out') = Len(out) + i /\ Len(lineMap') = Len(lineMap) + j
          /\ Len(out) \in Nat /\ Len(lineMap) \in Nat
      BY <2>1, WrittenType, LengthType
    <3> QED BY <3>1
  <2>5. MapInv'
    BY <2>2, <2>4, MapInvGrows
  <2>6. ASSUME ~inlined' PROVE Mapped'
    <3>1. ~inlined
      BY <1>1, <2>6 DEF LineDone
    <3>2. Mapped /\ (i = j \/ InMacro # {})
      BY <2>1, <2>6, <3>1
    <3>3. \A k \in InMacro : SameCall(k)
      BY <2>2 DEF InMacro
    <3> QED BY <2>1, <2>3, <3>2, <3>3, MappedWrites
  <2> QED BY <2>5, <2>6
<1>2. CASE Overflowed
  <2>1. stack' = stack /\ inlined' = inlined
    BY <1>2 DEF Overflowed
  <2>2. \A k \in DOMAIN stack : SameCall(k)
    BY <2>1 DEF SameCall
  <2>3. InMacro' = InMacro
    BY <2>1 DEF InMacro, IsFile
  <2>4. CASE UNCHANGED <<out, lineMap>>
    BY <1>0, <2>1, <2>3, <2>4 DEF MapInv, Mapped
  <2>5. CASE Written(1, 1)
    <3>1. /\ Len(out') \in Nat /\ Len(lineMap') \in Nat
          /\ Len(out') >= Len(out) /\ Len(lineMap') >= Len(lineMap)
      BY <2>5, LongerByOne
    <3>2. MapInv'
      BY <2>1, <2>2, <3>1, MapInvGrows
    <3>3. Mapped => Mapped'
      <4>1. \A k \in InMacro : SameCall(k)
        BY <2>2 DEF InMacro
      <4> QED BY <2>3, <2>5, <4>1, MappedWrites
    <3> QED BY <1>0, <2>1, <3>2, <3>3
  <2> QED BY <1>2, <2>4, <2>5 DEF Overflowed
<1>3. CASE Left
  <2>1. inlined' = inlined
    BY <1>3 DEF Left
  <2>2. CASE ~IsFile(Top)
    BY <1>0, <1>3, <2>1, <2>2, MapMacroLeft
  <2>3. CASE IsFile(Top)
    <3>1. UNCHANGED <<out, lineMap>>
      BY <1>3, <2>3 DEF Left
    <3>2. /\ DOMAIN stack' \subseteq DOMAIN stack
          /\ \A k \in DOMAIN stack' : stack'[k] = stack[k]
          /\ DOMAIN stack = DOMAIN stack' \cup {Len(stack)}
               \/ DOMAIN stack = DOMAIN stack'
      BY <1>3, LeaveStack DEF Left
    <3>3. Len(stack) \notin InMacro
      BY <2>3, TopType DEF InMacro
    <3>4. InMacro' = InMacro
      BY <3>2, <3>3 DEF InMacro, IsFile
    <3>5. MapInv'
      BY <3>1, <3>2 DEF MapInv
    <3>6. Mapped => Mapped'
      <4>1. \A k \in InMacro : stack'[k] = stack[k]
        BY <3>2, <3>4 DEF InMacro
      <4> QED BY <3>1, <3>4, <4>1 DEF Mapped
    <3> QED BY <1>0, <2>1, <3>5, <3>6
  <2> QED BY <2>2, <2>3
<1>4. ASSUME NEW f, MacroEntered(f) PROVE MapInv' /\ (inlined' \/ Mapped')
  <2>1. Enters(f) /\ UNCHANGED <<out, lineMap>> /\ inlined' = inlined
        /\ ~IsFile(f)
    BY <1>4, PreprocessorConstants DEF MacroEntered, Enters, IsFile
  <2>2. Len(out) \in Nat /\ Len(lineMap) \in Nat
    BY DEF TypeOK
  <2>3. MapInv'
    BY <2>1, <2>2, MapInvCalled
  <2>4. /\ \A k \in DOMAIN stack : SameCall(k)
        /\ DOMAIN stack' = DOMAIN stack \cup {Len(stack) + 1}
        /\ Len(stack) + 1 \notin DOMAIN stack
        /\ stack'[Len(stack) + 1] = f
    BY <2>1, CallCalls
  <2>5. InMacro' = InMacro \cup {Len(stack) + 1}
    BY <2>1, <2>4, SameMacroCalls DEF InMacro
  <2>6. ASSUME Mapped PROVE Mapped'
    <3>1. ASSUME NEW m \in InMacro', \A k \in InMacro' : m <= k
          PROVE  /\ stack'[m].from = stack'[m].mapFrom
                 /\ \A k \in 1..stack'[m].from : lineMap'[k] = out'[k]
                 /\ \A k \in (stack'[m].from + 1)..Len(out') :
                       out'[k] = stack'[m].site
      <4>1. CASE m \in InMacro
        <5>1. SameCall(m) /\ \A k \in InMacro : m <= k
          BY <2>4, <2>5, <3>1, <4>1 DEF InMacro
        <5> QED BY <2>1, <2>6, <4>1, <5>1 DEF Mapped, SameCall
      <4>2. CASE m \notin InMacro
        <5>1. m = Len(stack) + 1
          BY <2>5, <4>2
        <5>2. InMacro = {}
          <6>1. \A k \in InMacro : k \in Nat /\ k < Len(stack) + 1
            BY TopType DEF InMacro
          <6>2. Len(stack) \in Nat
            BY TopType
          <6> QED BY <2>5, <3>1, <5>1, <6>1, <6>2
        <5>3. lineMap = out
          BY <2>6, <5>2 DEF Mapped
        <5>4. f.from = Len(out) /\ f.mapFrom = Len(out)
          BY <2>1, <5>3 DEF Enters
        <5> QED BY <2>1, <2>2, <2>4, <5>1, <5>3, <5>4
      <4> QED BY <4>1, <4>2
    <3>2. InMacro' # {}
      BY <2>5
    <3> QED BY <3>1, <3>2 DEF Mapped
  <2> QED BY <1>0, <2>1, <2>3, <2>6
<1>5. ASSUME NEW f, FileEntered(f) PROVE MapInv' /\ (inlined' \/ Mapped')
  <2>1. Enters(f) /\ Written(1, 1) /\ inlined' = inlined /\ IsFile(f)
    BY <1>5 DEF FileEntered, Enters, IsFile
  <2>2. /\ Len(out') \in Nat /\ Len(lineMap') \in Nat
        /\ Len(out') >= Len(out) /\ Len(lineMap') >= Len(lineMap)
    BY <2>1, LongerByOne
  <2>3. MapInv'
    BY <2>1, <2>2, MapInvCalled
  <2>4. /\ \A k \in DOMAIN stack : SameCall(k)
        /\ DOMAIN stack' = DOMAIN stack \cup {Len(stack) + 1}
        /\ Len(stack) + 1 \notin DOMAIN stack
        /\ stack'[Len(stack) + 1] = f
    BY <2>1, CallCalls
  <2>5. InMacro' = InMacro
    BY <2>1, <2>4, SameMacroCalls DEF InMacro
  <2>6. Mapped => Mapped'
    <3>1. \A k \in InMacro : SameCall(k)
      BY <2>4 DEF InMacro
    <3> QED BY <2>1, <2>5, <3>1, MappedWrites
  <2> QED BY <1>0, <2>1, <2>3, <2>6
<1> QED BY <1>1, <1>2, <1>3, <1>4, <1>5, StepIs
-----------------------------------------------------------------------------
(* The theorems                                                              *)

LEMMA IInvStep ==
    ASSUME IInv, [Next]_vars
    PROVE  IInv'
<1>1. CASE Step
  <2>1. phase = "run"
    BY <1>1 DEF Step, OpenChain, ElseIf, Else, EndIf, Misplaced, Skip, Text,
                Define, Block, Inline, Invoke, Complain, Include, EndFile,
                EndMacro, Is, AtLine, AtEnd
  <2>2. \A k \in DOMAIN stack : stack[k].from <= Len(out)
                             /\ stack[k].mapFrom <= Len(lineMap)
    BY DEF IInv, MapInv
  <2> QED BY <1>1, <2>1, <2>2, TypeStep, StackStep, MapStep DEF IInv
<1>2. CASE UNCHANGED vars
  BY <1>2 DEF vars, IInv, TypeOK, StackInv, MapInv, Mapped, InMacro, IsFile
<1> QED BY <1>1, <1>2 DEF Next, Finished

\* The state is what the declarations of ExpandState, IfFrame and MacroDef say,
\* at every line of every source and macro.
THEOREM TypeCorrect == Spec => []TypeOK
<1>1. Init => IInv
  BY TypeInit, StackInit, MapInit DEF IInv
<1>2. IInv => TypeOK
  BY DEF IInv
<1> QED BY <1>1, <1>2, IInvStep, PTL DEF Spec

\* Whatever the files include and the macros expand to, the line map has one
\* entry for every line of the flattened source, the one the line comes from,
\* as long as no macro of several lines was used in the middle of a line.
THEOREM LineMapCorrect == Spec => []LineMapTrue
<1>1. Init => IInv
  BY TypeInit, StackInit, MapInit DEF IInv
<1>2. IInv => LineMapTrue
  BY DEF IInv, LineMapTrue, Mapped
<1> QED BY <1>1, <1>2, IInvStep, PTL DEF Spec

\* A process whose stack has room for every file and every macro once runs out
\* of it only while a macro is being expanded within itself: includes, circular
\* ones too, never use it up.
THEOREM OverflowCorrect ==
    ASSUME MaxDepth > Cardinality(Files) + Cardinality(Macros)
    PROVE  Spec => []OnlyMacrosOverflow
<1>1. Init => IInv
  BY TypeInit, StackInit, MapInit DEF IInv
<1>2. ASSUME IInv, phase = "crashed"
      PROVE  \E j, k \in InMacro : j # k /\ stack[j].of = stack[k].of
  <2> DEFINE names == Files \cup Macros
             of == [k \in 1..Len(stack) |-> stack[k].of]
  <2>1. /\ Len(stack) \in Nat /\ DOMAIN stack = 1..Len(stack)
        /\ \A k \in DOMAIN stack : stack[k] \in Frames
    BY <1>2, TopType DEF IInv
  <2>2. of \in [1..Len(stack) -> names]
    BY <2>1 DEF Frames
  <2>3. IsFiniteSet(names)
    BY PreprocessorConstants, FS_Union
  <2>4. Cardinality(names) = Cardinality(Files) + Cardinality(Macros)
    <3>1. Cardinality(names) = Cardinality(Files) + Cardinality(Macros)
                                  - Cardinality(Files \cap Macros)
      BY PreprocessorConstants, FS_Union
    <3>2. Cardinality(Files \cap Macros) = 0
      BY PreprocessorConstants, FS_EmptySet
    <3>3. Cardinality(Files) \in Nat /\ Cardinality(Macros) \in Nat
      BY PreprocessorConstants, FS_CardinalityType
    <3> QED BY <3>1, <3>2, <3>3
  <2>5. IsFiniteSet(1..Len(stack)) /\ Cardinality(1..Len(stack)) = Len(stack)
    <3>1. 1 \in Int /\ Len(stack) \in Int /\ ~(1 > Len(stack))
      BY <1>2, TopType DEF IInv
    <3>2. /\ IsFiniteSet(1..Len(stack))
          /\ Cardinality(1..Len(stack)) = Len(stack) - 1 + 1
      BY <3>1, FS_Interval
    <3> QED BY <3>1, <3>2
  <2>6. Cardinality(names) < Cardinality(1..Len(stack))
    <3>1. Len(stack) >= MaxDepth
      BY <1>2 DEF IInv, StackInv
    <3>2. MaxDepth \in Nat /\ Cardinality(names) \in Nat
      BY <2>3, PreprocessorConstants, FS_CardinalityType
    <3> QED BY <2>1, <2>4, <2>5, <3>1, <3>2
  <2>7. PICK j, k \in 1..Len(stack) : j # k /\ of[j] = of[k]
    <3> HIDE DEF of, names
    <3> QED BY <2>2, <2>3, <2>5, <2>6, FS_PigeonHole
  <2>8. j \in DOMAIN stack /\ k \in DOMAIN stack /\ stack[j].of = stack[k].of
    BY <2>1, <2>7
  <2>9. ~IsFile(stack[j])
    BY <1>2, <2>7, <2>8 DEF IInv, StackInv
  <2> QED BY <2>7, <2>8, <2>9 DEF InMacro, IsFile
<1>3. IInv => OnlyMacrosOverflow
  BY <1>2 DEF OnlyMacrosOverflow
<1> QED BY <1>1, <1>3, IInvStep, PTL DEF Spec
-----------------------------------------------------------------------------
(* What is read stands in some file.                                         *)

LEMMA LineInAll ==
    ASSUME TypeOK, InSource, AtLine
    PROVE  Line \in AllLines
BY LineInSource, TopType DEF InSource

LEMMA SameLines ==
    ASSUME text' = text
    PROVE  AllLines' = AllLines
BY DEF AllLines

LEMMA TextInAll ==
    ASSUME NEW file \in Files, NEW k \in DOMAIN text[file]
    PROVE  text[file][k] \in AllLines
BY DEF AllLines

\* A good #macro stands in a file, and so does its body.
LEMMA BodyInAll ==
    ASSUME TypeOK, StackInv, InSource, AtLine, Line.k = "block", Line.as = "good"
    PROVE  \A k \in DOMAIN Line.body : Line.body[k] \in AllLines
<1>1. /\ Top.at \in DOMAIN Top.lines /\ Line = Top.lines[Top.at]
      /\ Len(stack) \in DOMAIN stack /\ Top = stack[Len(stack)]
  BY LineInSource, TopType
<1>2. IsFile(Top)
  <2> SUFFICES ASSUME ~IsFile(Top) PROVE FALSE
    OBVIOUS
  <2>1. Top.lines \in Seq(BodyLines)
    BY <1>1 DEF InSource
  <2>2. Line \in BodyLines
    BY <1>1, <2>1
  <2> QED BY <2>2, BodyBlocksOpen
<1>3. Top.lines = text[Top.of] /\ Top.of \in Files
  BY <1>1, <1>2 DEF StackInv, IsFile
<1> DEFINE lines == UNION {{text[f][k] : k \in DOMAIN text[f]} : f \in Files}
<1>4. Line \in {text[Top.of][k] : k \in DOMAIN text[Top.of]}
  BY <1>1, <1>3
<1>5. Line \in lines
  BY <1>3, <1>4, Zenon
<1>6. AllLines = lines \cup UNION {{l.body[k] : k \in DOMAIN l.body} :
                                   l \in {l \in lines : l.k = "block"}}
  BY Zenon DEF AllLines
<1> HIDE DEF lines
<1>7. Line \in {l \in lines : l.k = "block"}
  BY <1>5
<1>8. ASSUME NEW k \in DOMAIN Line.body PROVE Line.body[k] \in AllLines
  <2>1. Line.body[k] \in {Line.body[i] : i \in DOMAIN Line.body}
    OBVIOUS
  <2> QED BY <1>6, <1>7, <2>1, Zenon
<1> QED BY <1>8

LEMMA InSourceInit ==
    ASSUME Init
    PROVE  InSource
<1>1. stack = <<FrameOf(Main, text[Main], At(Main, 0), 0, 0)>>
  BY DEF Init, NewFrame, FrameOf
<1>2. DOMAIN stack = {1} /\ stack[1].of = Main /\ stack[1].lines = text[Main]
  BY <1>1 DEF FrameOf
<1>3. Main \in Files
  BY PreprocessorConstants
<1>4. \A x \in Macros : DOMAIN macros[x].body = {}
  BY DEF Init, NoMacro
<1> QED BY <1>2, <1>3, <1>4, TextInAll DEF InSource, IsFile

LEMMA InSourceMacros ==
    ASSUME TypeOK, StackInv, InSource, AtLine, Redefined, text' = text
    PROVE  \A x \in Macros : \A k \in DOMAIN macros'[x].body :
               macros'[x].body[k] \in AllLines'
<1>1. AllLines' = AllLines
  BY SameLines
<1> TAKE x \in Macros
<1>2. CASE macros'[x] = macros[x]
  BY <1>1, <1>2 DEF InSource
<1>3. CASE macros'[x].body = <<>>
  <2>1. DOMAIN macros'[x].body = {}
    BY <1>3
  <2> QED BY <2>1
<1>4. CASE /\ Line.k = "block" /\ Line.as = "good"
           /\ macros'[x] = [is |-> "block", body |-> Line.body]
  <2>1. macros'[x].body = Line.body
    BY <1>4
  <2> QED BY <1>1, <1>4, <2>1, BodyInAll
<1>5. \/ macros'[x] = macros[x] \/ macros'[x].body = <<>>
      \/ /\ Line.k = "block" /\ Line.as = "good"
         /\ macros'[x] = [is |-> "block", body |-> Line.body]
  BY DEF Redefined, NoMacro
<1> QED BY <1>2, <1>3, <1>4, <1>5

LEMMA InSourceStep ==
    ASSUME TypeOK, StackInv, InSource, Step
    PROVE  InSource'
<1>1. ASSUME text' = text PROVE AllLines' = AllLines
  BY <1>1, SameLines
<1>2. CASE LineDone
  <2>1. /\ DOMAIN stack' = DOMAIN stack
        /\ \A k \in DOMAIN stack : SameCall(k)
    BY <1>2, LineCalls
  <2>2. text' = text /\ Redefined /\ AtLine
    BY <1>2 DEF LineDone
  <2>3. \A x \in Macros : \A k \in DOMAIN macros'[x].body :
               macros'[x].body[k] \in AllLines'
    BY <2>2, InSourceMacros
  <2>4. AllLines' = AllLines
    BY <1>1, <2>2
  <2> QED BY <2>1, <2>3, <2>4 DEF InSource, SameCall, IsFile
<1>3. CASE Overflowed
  <2>1. UNCHANGED <<text, stack, macros>>
    BY <1>3 DEF Overflowed
  <2> QED BY <1>1, <2>1 DEF InSource, IsFile
<1>4. CASE Left
  <2>1. /\ DOMAIN stack' \subseteq DOMAIN stack
        /\ \A k \in DOMAIN stack' : stack'[k] = stack[k]
        /\ UNCHANGED <<text, macros>>
    BY <1>4, LeaveStack DEF Left
  <2> QED BY <1>1, <2>1 DEF InSource, IsFile
<1>5. ASSUME NEW f, Enters(f),
             \A k \in DOMAIN f.lines : f.lines[k] \in AllLines,
             IsFile(f) \/ f.lines \in Seq(BodyLines)
      PROVE  InSource'
  <2>1. /\ \A k \in DOMAIN stack : SameCall(k)
        /\ DOMAIN stack' = DOMAIN stack \cup {Len(stack) + 1}
        /\ stack'[Len(stack) + 1] = f
    BY <1>5, CallCalls
  <2>2. UNCHANGED <<text, macros>>
    BY <1>5 DEF Enters
  <2>3. AllLines' = AllLines
    BY <1>1, <2>2
  <2>4. \A i \in DOMAIN stack :
          /\ \A k \in DOMAIN stack'[i].lines : stack'[i].lines[k] \in AllLines
          /\ IsFile(stack'[i]) \/ stack'[i].lines \in Seq(BodyLines)
    BY <2>1 DEF InSource, SameCall, IsFile
  <2> QED BY <1>5, <2>1, <2>2, <2>3, <2>4 DEF InSource, IsFile
<1>6. ASSUME NEW f, MacroEntered(f) PROVE InSource'
  <2>1. Enters(f) /\ Line.m \in Macros /\ f.lines = macros[Line.m].body
    BY <1>6 DEF MacroEntered
  <2>2. f.lines \in Seq(BodyLines)
    BY <2>1 DEF TypeOK, MacroDefs
  <2>3. \A k \in DOMAIN f.lines : f.lines[k] \in AllLines
    BY <2>1 DEF InSource
  <2> QED BY <1>5, <2>1, <2>2, <2>3
<1>7. ASSUME NEW f, FileEntered(f) PROVE InSource'
  <2>1. Enters(f) /\ IsFile(f) /\ f.of \in Files /\ f.lines = text[f.of]
    BY <1>7 DEF FileEntered, IsFile
  <2> QED BY <1>5, <2>1, TextInAll
<1> QED BY <1>2, <1>3, <1>4, <1>6, <1>7, StepIs
-----------------------------------------------------------------------------
(* A file that is to be there once is there once.                            *)

\* A line is read, by the frame at the top; a new frame may be on it.
Reads(g) ==
    /\ AtLine /\ Goes(g) /\ text' = text /\ ever \subseteq ever' /\ Redefined
    /\ DOMAIN stack \subseteq DOMAIN stack' /\ stack'[Len(stack)] = g
    /\ \A k \in DOMAIN stack : k # Len(stack) => stack'[k] = stack[k]
    /\ \/ shown' = shown
       \/ /\ IsFile(Top) /\ Line.k = "text" /\ Active
          /\ shown' = Append(shown, Loc)

LEMMA LineReads ==
    ASSUME TypeOK, LineDone
    PROVE  (\E g : Reads(g)) /\ DOMAIN stack' = DOMAIN stack
<1>1. PICK g : Goes(g) /\ stack' = [stack EXCEPT ![Len(stack)] = g]
  BY DEF LineDone
<1>2. g \in Frames
  BY <1>1 DEF Goes
<1>3. /\ DOMAIN stack' = DOMAIN stack /\ stack'[Len(stack)] = g
      /\ \A k \in DOMAIN stack : k # Len(stack) => stack'[k] = stack[k]
  BY <1>1, <1>2, LineStack
<1>4. /\ AtLine /\ text' = text /\ ever' = ever /\ Redefined
      /\ \/ shown' = shown
         \/ /\ IsFile(Top) /\ Line.k = "text" /\ Active
            /\ shown' = Append(shown, Loc)
  BY DEF LineDone
<1>5. Reads(g)
  BY <1>1, <1>3, <1>4 DEF Reads
<1> QED BY <1>3, <1>5

LEMMA CallReads ==
    ASSUME TypeOK, NEW f, Enters(f), ever \subseteq ever'
    PROVE  /\ Reads(Passed(Top))
           /\ DOMAIN stack' = DOMAIN stack \cup {Len(stack) + 1}
           /\ stack'[Len(stack) + 1] = f /\ f.at = 1 /\ f.ifs = <<>>
           /\ f.held = {} /\ f.kept = {}
<1>1. Redefined
  BY SameMacros DEF Enters
<1> QED BY <1>1, CallStack DEF Reads, Enters

\* What was shown, and what is.
LEMMA ShownIs ==
    ASSUME TypeOK, NEW g, Reads(g)
    PROVE  /\ \A j \in DOMAIN shown : j \in DOMAIN shown' /\ shown'[j] = shown[j]
           /\ \A j \in DOMAIN shown' :
                 \/ j \in DOMAIN shown
                 \/ /\ j = Len(shown) + 1 /\ shown'[j] = Loc
                    /\ IsFile(Top) /\ Line.k = "text" /\ Active
           /\ \A j \in DOMAIN shown' : shown'[j] \in Places
<1>1. shown \in Seq(Places) /\ Loc \in Places
  BY PlacesType DEF TypeOK
<1>2. CASE shown' = shown
  BY <1>1, <1>2
<1>3. CASE /\ IsFile(Top) /\ Line.k = "text" /\ Active
           /\ shown' = Append(shown, Loc)
  <2> DEFINE s == Append(shown, Loc)
  <2>1. /\ s \in Seq(Places) /\ Len(s) = Len(shown) + 1
        /\ s[Len(shown) + 1] = Loc /\ Len(shown) \in Nat
        /\ \A j \in 1..Len(shown) : s[j] = shown[j]
    BY <1>1
  <2> HIDE DEF s
  <2>2. DOMAIN s = 1..(Len(shown) + 1) /\ DOMAIN shown = 1..Len(shown)
    BY <1>1, <2>1
  <2>3. \A j \in DOMAIN s : j \in DOMAIN shown \/ j = Len(shown) + 1
    BY <2>1, <2>2
  <2>4. \A j \in DOMAIN shown : j \in DOMAIN s
    BY <2>1, <2>2
  <2>5. \A j \in DOMAIN s : s[j] \in Places
    BY <2>1
  <2>6. shown' = s
    BY <1>3 DEF s
  <2> QED BY <1>3, <2>1, <2>2, <2>3, <2>4, <2>5, <2>6
<1> QED BY <1>2, <1>3 DEF Reads

\* A line of the file is shown by the frame that reads the file.
LEMMA ShownByReader ==
    ASSUME TypeOK, StackInv, NEW file, IsFile(Top), Loc.file = file
    PROVE  /\ Reading(file, Len(stack)) /\ Loc.line = Top.at
           /\ Len(stack) \in DOMAIN stack /\ Top = stack[Len(stack)]
           /\ file \in ever
BY TopType DEF StackInv, Reading, Loc, At

LEMMA OneReader ==
    ASSUME StackInv, NEW file, NEW i \in DOMAIN stack, NEW k \in DOMAIN stack,
           Reading(file, i), Reading(file, k)
    PROVE  i = k
BY DEF StackInv, Reading

\* While the lines shown are above what is read, no line is shown twice.
LEMMA DistinctStays ==
    ASSUME TypeOK, StackInv, NEW file, NEW g, Reads(g), Distinct(file),
           IsFile(Top) /\ Loc.file = file /\ Line.k = "text" /\ Active =>
               Above(file, Len(stack))
    PROVE  Distinct(file)'
<1> SUFFICES ASSUME NEW j \in DOMAIN shown', NEW k \in DOMAIN shown',
                    shown'[j] = shown'[k], shown'[j].file = file
             PROVE  j = k
  BY DEF Distinct
<1>1. ASSUME NEW i \in DOMAIN shown, NEW h \in DOMAIN shown', h = Len(shown) + 1,
             shown'[h] = Loc, IsFile(Top), Line.k = "text", Active,
             shown'[i] = shown'[h], shown'[h].file = file
      PROVE  FALSE
  <2>1. Loc.file = file /\ shown[i] = Loc
    BY <1>1, ShownIs
  <2>2. Loc.line = Top.at /\ Top = stack[Len(stack)] /\ Top \in Frames
    BY <1>1, <2>1, ShownByReader, TopType
  <2>3. shown[i].line < Top.at
    BY <1>1, <2>1, <2>2 DEF Above
  <2> QED BY <2>1, <2>2, <2>3 DEF Frames
<1>2. CASE j \in DOMAIN shown /\ k \in DOMAIN shown
  BY <1>2, ShownIs DEF Distinct
<1>3. CASE j \in DOMAIN shown /\ k \notin DOMAIN shown
  BY <1>1, <1>3, ShownIs
<1>4. CASE j \notin DOMAIN shown /\ k \in DOMAIN shown
  BY <1>1, <1>4, ShownIs
<1>5. CASE j \notin DOMAIN shown /\ k \notin DOMAIN shown
  BY <1>5, ShownIs
<1> QED BY <1>2, <1>3, <1>4, <1>5

\* And they stay above it.
LEMMA AboveStays ==
    ASSUME TypeOK, StackInv, NEW file, NEW g, Reads(g),
           NEW i \in DOMAIN stack, Reading(file, i), Above(file, i)
    PROVE  Above(file, i)'
<1>1. ASSUME NEW j \in DOMAIN shown', shown'[j].file = file
      PROVE  shown'[j].line < stack'[i].at
  <2>1. stack[i] \in Frames /\ stack[i].at \in Nat
    BY TopType DEF Frames
  <2>2. \/ stack'[i] = stack[i]
        \/ i = Len(stack) /\ stack'[i].at = stack[i].at + 1
    BY TopType DEF Reads, Goes
  <2>3. CASE j \in DOMAIN shown
    <3>1. shown'[j] = shown[j] /\ shown[j].line < stack[i].at
      BY <1>1, <2>3, ShownIs DEF Above
    <3>2. shown[j].line \in Nat
      <4>1. shown[j] \in Places
        BY <2>3 DEF TypeOK
      <4> QED BY <4>1 DEF Places
    <3> QED BY <2>1, <2>2, <3>1, <3>2
  <2>4. CASE j \notin DOMAIN shown
    <3>1. shown'[j] = Loc /\ IsFile(Top)
      BY <1>1, <2>4, ShownIs
    <3>2. /\ Reading(file, Len(stack)) /\ Loc.line = Top.at
          /\ Len(stack) \in DOMAIN stack /\ Top = stack[Len(stack)]
      BY <1>1, <3>1, ShownByReader
    <3>3. i = Len(stack)
      BY <3>2, OneReader
    <3>4. stack'[i].at = Top.at + 1
      BY <3>3 DEF Reads, Goes
    <3> QED BY <2>1, <3>1, <3>2, <3>3, <3>4
  <2> QED BY <2>3, <2>4
<1> QED BY <1>1 DEF Above

\* The frames that read a file are those that did, or the new one.
LEMMA ReadersAre ==
    ASSUME TypeOK, NEW g, Reads(g), NEW file
    PROVE  \A i \in DOMAIN stack : Reading(file, i)' <=> Reading(file, i)
<1> TAKE i \in DOMAIN stack
<1>1. stack'[i].of = stack[i].of
  BY TopType DEF Reads, Goes
<1> QED BY <1>1 DEF Reading, IsFile

\* Files that are only included once.
LEMMA EnteredOnceReads ==
    ASSUME TypeOK, StackInv, NEW file, NEW g, Reads(g),
           Distinct(file), EnteredOnce(file)
    PROVE  /\ Distinct(file)'
           /\ \A j \in DOMAIN shown' : shown'[j].file = file => file \in ever'
           /\ \A i \in DOMAIN stack : Reading(file, i)' => Above(file, i)'
<1>1. IsFile(Top) /\ Loc.file = file => Above(file, Len(stack))
  BY ShownByReader DEF EnteredOnce
<1>2. Distinct(file)'
  BY <1>1, DistinctStays
<1>3. ever \subseteq ever'
  BY DEF Reads
<1>4. \A j \in DOMAIN shown' : shown'[j].file = file => file \in ever'
  <2> TAKE j \in DOMAIN shown'
  <2>1. CASE j \in DOMAIN shown
    BY <1>3, <2>1, ShownIs DEF EnteredOnce
  <2>2. CASE j \notin DOMAIN shown
    BY <1>3, <2>2, ShownIs, ShownByReader
  <2> QED BY <2>1, <2>2
<1>5. \A i \in DOMAIN stack : Reading(file, i)' => Above(file, i)'
  BY ReadersAre, AboveStays DEF EnteredOnce
<1> QED BY <1>2, <1>4, <1>5

LEMMA OnlyOnceStep ==
    ASSUME TypeOK, StackInv, InSource, Step, NEW file \in Files, OnlyOnce(file),
           Distinct(file), EnteredOnce(file)
    PROVE  Distinct(file)' /\ EnteredOnce(file)'
<1>1. CASE LineDone
  <2>1. PICK g : Reads(g)
    BY <1>1, LineReads
  <2>2. DOMAIN stack' = DOMAIN stack
    BY <1>1, LineReads
  <2> QED BY <2>1, <2>2, EnteredOnceReads DEF EnteredOnce
<1>2. CASE Overflowed
  BY <1>2 DEF Overflowed, Distinct, EnteredOnce, Reading, Above, IsFile
<1>3. CASE Left
  <2>1. /\ DOMAIN stack' \subseteq DOMAIN stack
        /\ \A k \in DOMAIN stack' : stack'[k] = stack[k]
        /\ UNCHANGED <<ever, shown>>
    BY <1>3, LeaveStack DEF Left
  <2> QED BY <2>1 DEF Distinct, EnteredOnce, Reading, Above, IsFile
<1>4. ASSUME NEW f, Enters(f), ever \subseteq ever',
             f.of = file => file \notin ever
      PROVE  Distinct(file)' /\ EnteredOnce(file)'
  <2>1. /\ Reads(Passed(Top))
        /\ DOMAIN stack' = DOMAIN stack \cup {Len(stack) + 1}
        /\ stack'[Len(stack) + 1] = f
    BY <1>4, CallReads
  <2>2. /\ Distinct(file)'
        /\ \A j \in DOMAIN shown' : shown'[j].file = file => file \in ever'
        /\ \A i \in DOMAIN stack : Reading(file, i)' => Above(file, i)'
    BY <2>1, EnteredOnceReads
  <2>3. ASSUME NEW i \in DOMAIN stack', i = Len(stack) + 1, Reading(file, i)'
        PROVE  Above(file, i)'
    <3>1. shown' = shown
      BY <1>4 DEF Enters
    <3>2. file \notin ever
      BY <1>4, <2>1, <2>3 DEF Reading
    <3>3. \A j \in DOMAIN shown : shown[j].file # file
      BY <3>2 DEF EnteredOnce
    <3> QED BY <3>1, <3>3 DEF Above
  <2>4. \A i \in DOMAIN stack' : i \in DOMAIN stack \/ i = Len(stack) + 1
    BY <2>1
  <2>5. \A i \in DOMAIN stack' : Reading(file, i)' => Above(file, i)'
    BY <2>2, <2>3, <2>4
  <2> QED BY <2>2, <2>5 DEF EnteredOnce
<1>5. ASSUME NEW f, MacroEntered(f) PROVE Distinct(file)' /\ EnteredOnce(file)'
  <2>1. Enters(f) /\ ever' = ever /\ f.of # file
    BY <1>5, PreprocessorConstants DEF MacroEntered
  <2> QED BY <1>4, <2>1
<1>6. ASSUME NEW f, FileEntered(f) PROVE Distinct(file)' /\ EnteredOnce(file)'
  <2>1. /\ Enters(f) /\ ever \subseteq ever' /\ AtLine /\ Line.k = "include"
        /\ Line.f = f.of /\ (Line.once => f.of \notin ever)
    BY <1>6 DEF FileEntered, Enters
  <2>2. Line \in AllLines
    BY <2>1, LineInAll
  <2>3. f.of = file => Line.once
    BY <2>1, <2>2 DEF OnlyOnce
  <2> QED BY <1>4, <2>1, <2>3
<1> QED BY <1>1, <1>2, <1>3, <1>5, <1>6, StepIs

\* What an include guard is made of.
LEMMA GuardIs ==
    ASSUME TypeOK, NEW file \in Files, Guarded(file)
    PROVE  /\ text[file] \in Seq(SourceLines)
           /\ Len(text[file]) \in Nat /\ Len(text[file]) > 2
           /\ GuardMacro(file) \in Macros
           /\ text[file][1].k = "if" /\ text[file][1].c.is = "ndef"
           /\ text[file][2].k = "define" /\ text[file][2].m = GuardMacro(file)
           /\ text[file][Len(text[file])].k = "endif"
           /\ \A k \in 2..(Len(text[file]) - 1) : text[file][k].k \notin ChainKinds
           /\ [k |-> "undef", m |-> GuardMacro(file)] \notin AllLines
<1>1. text[file] \in Seq(SourceLines) /\ Len(text[file]) > 2
  BY PreprocessorConstants DEF TypeOK, Guarded
<1>2. text[file][1] \in SourceLines /\ text[file][1].k = "if"
      /\ text[file][1].c.is = "ndef"
  BY <1>1 DEF Guarded
<1>3. text[file][1].c \in Conditions
  BY <1>2, LineType
<1>4. text[file][1].c.m \in Macros
  BY <1>2, <1>3 DEF Conditions
<1> QED BY <1>1, <1>2, <1>4 DEF Guarded, GuardMacro

\* Nothing takes the guard away.
LEMMA GuardStays ==
    ASSUME TypeOK, InSource, NEW file \in Files, Guarded(file),
           AtLine, Redefined, text' = text, GuardSet(file)
    PROVE  GuardSet(file)'
<1> DEFINE m == GuardMacro(file)
<1>1. m \in Macros /\ [k |-> "undef", m |-> m] \notin AllLines
  BY GuardIs
<1>2. Line \in AllLines
  BY LineInAll
<1>3. m' = m
  BY DEF GuardMacro
<1>4. macros'[m].is # "none"
  <2> HIDE DEF m
  <2>1. \/ macros'[m] = macros[m]
        \/ macros'[m] = [is |-> "line", body |-> <<>>]
        \/ macros'[m] = [is |-> "block", body |-> Line.body]
    BY <1>1, <1>2 DEF Redefined
  <2>2. macros[m].is # "none"
    BY DEF GuardSet, m
  <2> QED BY <2>1, <2>2
<1> QED BY <1>3, <1>4 DEF GuardSet

\* What the reader of a guarded file is at: the #ifndef, a line between, or the
\* #endif.
LEMMA FencedLine ==
    ASSUME TypeOK, StackInv, AtLine, NEW file \in Files, Guarded(file),
           Reading(file, Len(stack)), Fenced(file, Len(stack))
    PROVE  /\ Top.at \in 1..Len(text[file]) /\ Line = text[file][Top.at]
           /\ Top.at = 1 => Line.k = "if" /\ Top.ifs = <<>>
           /\ Top.at # 1 =>
                 /\ Len(Top.ifs) = 1
                 /\ (Top.at = 2 /\ Top.ifs[1].active) \/ GuardSet(file)
                 /\ Top.ifs[1].active => Above(file, Len(stack))
                 /\ Active <=> Top.ifs[1].active
           /\ Top.at = 2 => Line.k = "define" /\ Line.m = GuardMacro(file)
           /\ Top.at = Len(text[file]) => Line.k = "endif"
           /\ Top.at \in 2..(Len(text[file]) - 1) => Line.k \notin ChainKinds
<1>1. /\ Len(stack) \in DOMAIN stack /\ Top = stack[Len(stack)] /\ Top \in Frames
      /\ Top.at \in Nat \ {0} /\ Top.ifs \in Seq(Branch)
  BY TopType DEF Frames
<1>2. Top.lines = text[file]
  BY <1>1 DEF StackInv, Reading
<1>3. text[file] \in Seq(SourceLines) /\ Len(text[file]) \in Nat
      /\ Len(text[file]) > 2
  BY GuardIs
<1>4. Top.at \in 1..Len(text[file]) /\ Line = text[file][Top.at]
  BY <1>1, <1>2, <1>3 DEF AtLine, Line
<1>5. \/ Top.at = 1 /\ Top.ifs = <<>>
      \/ /\ Top.at \in 2..Len(text[file]) /\ Len(Top.ifs) = 1
         /\ (Top.at = 2 /\ Top.ifs[1].active) \/ GuardSet(file)
         /\ Top.ifs[1].active => Above(file, Len(stack))
  BY <1>1, <1>3, <1>4 DEF Fenced
<1>6. Len(Top.ifs) = 1 => (Active <=> Top.ifs[1].active)
  <2> HAVE Len(Top.ifs) = 1
  <2>1. DOMAIN Top.ifs = {1}
    BY <1>1
  <2> QED BY <2>1 DEF Active
<1>7. /\ Top.at = 1 => Line.k = "if"
      /\ Top.at = 2 => Line.k = "define" /\ Line.m = GuardMacro(file)
      /\ Top.at = Len(text[file]) => Line.k = "endif"
      /\ Top.at \in 2..(Len(text[file]) - 1) => Line.k \notin ChainKinds
  BY <1>4, GuardIs
<1> QED BY <1>4, <1>5, <1>6, <1>7

\* A line of the file is only shown where the guard is set, below all that was.
LEMMA FencedText ==
    ASSUME TypeOK, StackInv, NEW file \in Files, Guarded(file), GuardStands(file),
           AtLine, IsFile(Top), Loc.file = file, Line.k = "text", Active
    PROVE  GuardSet(file) /\ Above(file, Len(stack))
<1>1. Reading(file, Len(stack)) /\ Len(stack) \in DOMAIN stack
  BY ShownByReader
<1>2. Fenced(file, Len(stack))
  BY <1>1 DEF GuardStands
<1> QED BY <1>1, <1>2, FencedLine

\* The reader of the file, one line on.
LEMMA FencedGoes ==
    ASSUME TypeOK, StackInv, InSource, NEW file \in Files, Guarded(file),
           GuardStands(file), NEW g, Reads(g), Reading(file, Len(stack)),
           NEW i, i = Len(stack)
    PROVE  Fenced(file, i)'
<1> DEFINE n == Len(text[file])
<1>1. AtLine /\ text' = text /\ Redefined /\ Goes(g) /\ stack'[i] = g
  BY DEF Reads
<1>2. i \in DOMAIN stack /\ Top = stack[i] /\ Top \in Frames
      /\ Top.ifs \in Seq(Branch)
  BY TopType DEF Frames
<1>3. Fenced(file, i)
  BY <1>2 DEF GuardStands
<1>4. n \in Nat /\ n > 2
  BY GuardIs
<1>5. g.at = Top.at + 1
  BY <1>1 DEF Goes
<1>6. GuardSet(file) => GuardSet(file)'
  BY <1>1, GuardStays
<1>7. Above(file, i) => Above(file, i)'
  BY <1>2, AboveStays
<1>8. CASE Top.at = 1
  <2>1. /\ Line = text[file][1] /\ Line.k = "if" /\ Line.c.is = "ndef"
        /\ Top.ifs = <<>>
    BY <1>1, <1>3, <1>8, FencedLine, GuardIs
  <2>2. PICK b \in Branch : b.active = Holds(Line.c) /\ g.ifs = Append(<<>>, b)
    BY <1>1, <2>1 DEF Goes
  <2>3. Len(g.ifs) = 1 /\ g.ifs[1] = b
    BY <2>2
  <2>4. b.active <=> ~GuardSet(file)
    BY <2>1, <2>2 DEF Holds, GuardSet, GuardMacro
  <2>5. b.active => Above(file, i)
    BY <2>4 DEF GuardStands, Above
  <2>6. stack'[i].at = 2 /\ 2 \in 2..n
    BY <1>1, <1>4, <1>5, <1>8
  <2> QED BY <1>1, <1>6, <1>7, <2>3, <2>4, <2>5, <2>6 DEF Fenced
<1>9. CASE Top.at = n
  <2>1. stack'[i].at > n
    BY <1>1, <1>4, <1>5, <1>9
  <2> QED BY <1>1, <2>1 DEF Fenced
<1>10. CASE Top.at # 1 /\ Top.at # n
  <2>1. /\ Top.at \in 1..n /\ Line = text[file][Top.at]
        /\ Len(Top.ifs) = 1
        /\ (Top.at = 2 /\ Top.ifs[1].active) \/ GuardSet(file)
        /\ Top.ifs[1].active => Above(file, i)
        /\ Active <=> Top.ifs[1].active
        /\ Top.at = 2 => Line.k = "define" /\ Line.m = GuardMacro(file)
        /\ Top.at \in 2..(n - 1) => Line.k \notin ChainKinds
    BY <1>1, <1>3, <1>10, FencedLine
  <2>2. Top.at \in 2..(n - 1) /\ stack'[i].at \in 2..n
    BY <1>1, <1>4, <1>5, <1>10, <2>1
  <2>3. stack'[i].ifs = Top.ifs
    BY <1>1, <2>1, <2>2 DEF Goes
  <2>4. GuardSet(file)'
    <3>1. CASE Top.at = 2 /\ Top.ifs[1].active
      <4>1. macros'[GuardMacro(file)].is = "line"
        BY <1>1, <2>1, <3>1 DEF Redefined
      <4> QED BY <1>1, <4>1 DEF GuardSet, GuardMacro
    <3> QED BY <1>6, <2>1, <3>1
  <2> QED BY <1>1, <1>7, <2>1, <2>2, <2>3, <2>4 DEF Fenced
<1> QED BY <1>8, <1>9, <1>10

LEMMA GuardReads ==
    ASSUME TypeOK, StackInv, InSource, NEW file \in Files, Guarded(file),
           Distinct(file), GuardStands(file), NEW g, Reads(g)
    PROVE  /\ Distinct(file)'
           /\ \A j \in DOMAIN shown' : shown'[j].file = file => GuardSet(file)'
           /\ \A i \in DOMAIN stack : Reading(file, i)' => Fenced(file, i)'
<1>1. AtLine /\ text' = text /\ Redefined
  BY DEF Reads
<1>2. Distinct(file)'
  BY <1>1, FencedText, DistinctStays
<1>3. GuardSet(file) => GuardSet(file)'
  BY <1>1, GuardStays
<1>4. \A j \in DOMAIN shown' : shown'[j].file = file => GuardSet(file)'
  <2> TAKE j \in DOMAIN shown'
  <2>1. CASE j \in DOMAIN shown
    BY <1>3, <2>1, ShownIs DEF GuardStands
  <2>2. CASE j \notin DOMAIN shown
    BY <1>1, <1>3, <2>2, ShownIs, FencedText
  <2> QED BY <2>1, <2>2
<1>5. ASSUME NEW i \in DOMAIN stack, Reading(file, i)' PROVE Fenced(file, i)'
  <2>1. Reading(file, i)
    BY <1>5, ReadersAre
  <2>2. CASE i = Len(stack)
    BY <2>1, <2>2, FencedGoes
  <2>3. CASE i # Len(stack)
    <3>1. stack'[i] = stack[i] /\ Fenced(file, i)
      BY <2>1, <2>3 DEF Reads, GuardStands
    <3>2. Above(file, i) => Above(file, i)'
      BY <2>1, AboveStays
    <3> QED BY <1>1, <1>3, <3>1, <3>2 DEF Fenced
  <2> QED BY <2>2, <2>3
<1> QED BY <1>2, <1>4, <1>5

LEMMA GuardStep ==
    ASSUME TypeOK, StackInv, InSource, Step, NEW file \in Files, Guarded(file),
           Distinct(file), GuardStands(file)
    PROVE  Distinct(file)' /\ GuardStands(file)'
<1>1. CASE LineDone
  <2>1. PICK g : Reads(g)
    BY <1>1, LineReads
  <2>2. DOMAIN stack' = DOMAIN stack
    BY <1>1, LineReads
  <2> QED BY <2>1, <2>2, GuardReads DEF GuardStands
<1>2. CASE Overflowed
  <2>1. UNCHANGED <<text, stack, macros, shown>>
    BY <1>2 DEF Overflowed
  <2> QED BY <2>1 DEF Distinct, GuardStands, GuardSet, GuardMacro, Reading,
                      Fenced, Above, IsFile
<1>3. CASE Left
  <2>1. /\ DOMAIN stack' \subseteq DOMAIN stack
        /\ \A k \in DOMAIN stack' : stack'[k] = stack[k]
        /\ UNCHANGED <<text, macros, shown>>
    BY <1>3, LeaveStack DEF Left
  <2> QED BY <2>1 DEF Distinct, GuardStands, GuardSet, GuardMacro, Reading,
                      Fenced, Above, IsFile
<1>4. ASSUME NEW f, Enters(f), ever \subseteq ever'
      PROVE  Distinct(file)' /\ GuardStands(file)'
  <2>1. /\ Reads(Passed(Top))
        /\ DOMAIN stack' = DOMAIN stack \cup {Len(stack) + 1}
        /\ stack'[Len(stack) + 1] = f /\ f.at = 1 /\ f.ifs = <<>>
    BY <1>4, CallReads
  <2>2. /\ Distinct(file)'
        /\ \A j \in DOMAIN shown' : shown'[j].file = file => GuardSet(file)'
        /\ \A i \in DOMAIN stack : Reading(file, i)' => Fenced(file, i)'
    BY <2>1, GuardReads
  <2>3. ASSUME NEW i \in DOMAIN stack', i = Len(stack) + 1 PROVE Fenced(file, i)'
    BY <2>1, <2>3 DEF Fenced
  <2>4. \A i \in DOMAIN stack' : i \in DOMAIN stack \/ i = Len(stack) + 1
    BY <2>1
  <2>5. \A i \in DOMAIN stack' : Reading(file, i)' => Fenced(file, i)'
    BY <2>2, <2>3, <2>4
  <2> QED BY <2>2, <2>5 DEF GuardStands
<1>5. ASSUME NEW f, MacroEntered(f) PROVE Distinct(file)' /\ GuardStands(file)'
  BY <1>4, <1>5 DEF MacroEntered
<1>6. ASSUME NEW f, FileEntered(f) PROVE Distinct(file)' /\ GuardStands(file)'
  BY <1>4, <1>6 DEF FileEntered
<1> QED BY <1>1, <1>2, <1>3, <1>5, <1>6, StepIs

LEMMA OnceInit ==
    ASSUME Init
    PROVE  OnceInv
<1>1. stack = <<FrameOf(Main, text[Main], At(Main, 0), 0, 0)>>
  BY DEF Init, NewFrame, FrameOf
<1>2. DOMAIN stack = {1} /\ stack[1].at = 1 /\ stack[1].ifs = <<>>
  BY <1>1 DEF FrameOf
<1>3. DOMAIN shown = {}
  BY DEF Init
<1> QED BY <1>2, <1>3 DEF OnceInv, Distinct, EnteredOnce, GuardStands, Fenced,
                          Above

LEMMA OnceStep ==
    ASSUME TypeOK, StackInv, InSource, OnceInv, Step
    PROVE  OnceInv'
<1>1. text' = text
  BY StepIs DEF LineDone, Overflowed, Left, MacroEntered, FileEntered, Enters
<1>2. AllLines' = AllLines
  BY <1>1, SameLines
<1> SUFFICES ASSUME NEW file \in Files
             PROVE  /\ OnlyOnce(file)' => Distinct(file)' /\ EnteredOnce(file)'
                    /\ Guarded(file)' => Distinct(file)' /\ GuardStands(file)'
  BY DEF OnceInv
<1>3. OnlyOnce(file)' => OnlyOnce(file)
  BY <1>2 DEF OnlyOnce
<1>4. Guarded(file)' => Guarded(file)
  BY <1>1, <1>2 DEF Guarded
<1>5. OnlyOnce(file) => Distinct(file)' /\ EnteredOnce(file)'
  BY OnlyOnceStep DEF OnceInv
<1>6. Guarded(file) => Distinct(file)' /\ GuardStands(file)'
  BY GuardStep DEF OnceInv
<1> QED BY <1>3, <1>4, <1>5, <1>6

\* A file every #include of which says `once`, or which has an include guard
\* that nothing takes away, has each of its lines in the flattened source once
\* at most, whatever else is included and whatever the macros do.
THEOREM SplicedOnceCorrect == Spec => []SplicedOnce
<1> DEFINE Inv == IInv /\ InSource /\ OnceInv
<1>1. Init => Inv
  BY TypeInit, StackInit, MapInit, InSourceInit, OnceInit DEF IInv
<1>2. Inv /\ [Next]_vars => Inv'
  <2> SUFFICES ASSUME Inv, [Next]_vars PROVE Inv'
    OBVIOUS
  <2>1. IInv'
    BY IInvStep
  <2>2. CASE Step
    BY <2>1, <2>2, InSourceStep, OnceStep DEF IInv
  <2>3. CASE UNCHANGED vars
    <3>1. UNCHANGED <<text, stack, macros, ever, shown>>
      BY <2>3 DEF vars
    <3>2. AllLines' = AllLines
      BY <3>1, SameLines
    <3>3. InSource'
      BY <3>1, <3>2 DEF InSource, IsFile
    <3>4. OnceInv'
      BY <3>1, <3>2 DEF OnceInv, OnlyOnce, Guarded, Distinct, EnteredOnce,
                        GuardStands, GuardSet, GuardMacro, Fenced, Above,
                        Reading, IsFile
    <3> QED BY <2>1, <3>3, <3>4
  <2> QED BY <2>2, <2>3 DEF Next, Finished
<1>3. Inv => SplicedOnce
  BY DEF OnceInv, SplicedOnce, Distinct
<1> HIDE DEF Inv
<1> QED BY <1>1, <1>2, <1>3, PTL DEF Spec
-----------------------------------------------------------------------------
(* How deep a line is in chains.                                             *)

LEMMA GreatestNumber ==
    ASSUME NEW S, S \subseteq Nat, S # {}, NEW b \in Nat, \A x \in S : x <= b
    PROVE  \E x \in S : \A y \in S : y <= x
<1> DEFINE T == {n \in Nat : \A y \in S : y <= n}
<1>1. T \subseteq Nat /\ b \in T
  OBVIOUS
<1>2. PICK x \in T : \A y \in T : x <= y
  <2> HIDE DEF T
  <2> QED BY <1>1, LeastNumber
<1>3. x \in Nat /\ \A y \in S : y <= x
  BY <1>2
<1>4. x \in S
  <2> SUFFICES ASSUME x \notin S PROVE FALSE
    OBVIOUS
  <2>1. \A y \in S : y \in Nat /\ y < x
    BY <1>3
  <2>2. x # 0
    <3>1. PICK y \in S : TRUE
      OBVIOUS
    <3>2. y \in Nat /\ y < x
      BY <2>1
    <3> QED BY <3>2
  <2>3. x - 1 \in Nat /\ \A y \in S : y <= x - 1
    BY <1>3, <2>1, <2>2
  <2>4. x - 1 \in T
    BY <2>3
  <2>5. x <= x - 1
    BY <1>2, <2>4
  <2> QED BY <1>3, <2>5
<1> QED BY <1>3, <1>4

\* Counting the lines of a kind.
Counted(ls, kind, k) == Cardinality({j \in 1..(k - 1) : ls[j].k = kind})

LEMMA KindsCounted ==
    ASSUME NEW ls, NEW kind, NEW k \in Nat \ {0}
    PROVE  /\ Counted(ls, kind, k) \in 0..(k - 1)
           /\ Counted(ls, kind, k + 1) =
                 Counted(ls, kind, k) + (IF ls[k].k = kind THEN 1 ELSE 0)
<1> DEFINE S == {j \in 1..(k - 1) : ls[j].k = kind}
           T == {j \in 1..((k + 1) - 1) : ls[j].k = kind}
<1>1. IsFiniteSet(1..(k - 1)) /\ Cardinality(1..(k - 1)) = k - 1
  <2>1. 1 \in Int /\ k - 1 \in Int
    OBVIOUS
  <2>2. /\ IsFiniteSet(1..(k - 1))
        /\ Cardinality(1..(k - 1)) = IF 1 > k - 1 THEN 0 ELSE k - 1 - 1 + 1
    BY <2>1, FS_Interval
  <2> QED BY <2>2
<1>2. S \in SUBSET (1..(k - 1))
  OBVIOUS
<1>3. IsFiniteSet(S) /\ Cardinality(S) <= k - 1
  <2> HIDE DEF S
  <2> QED BY <1>1, <1>2, FS_Subset
<1>4. Cardinality(S) \in Nat
  <2> HIDE DEF S
  <2> QED BY <1>3, FS_CardinalityType
<1>5. CASE ls[k].k = kind
  <2>1. T = S \cup {k} /\ k \notin S
    BY <1>5
  <2>2. Cardinality(S \cup {k}) = Cardinality(S) + 1
    <3> HIDE DEF S
    <3> QED BY <1>3, <2>1, FS_AddElement
  <2> HIDE DEF S, T
  <2>3. Cardinality(T) = Cardinality(S) + (IF ls[k].k = kind THEN 1 ELSE 0)
    BY <1>5, <2>1, <2>2
  <2>4. Cardinality(S) \in 0..(k - 1)
    BY <1>3, <1>4
  <2> QED BY <2>3, <2>4 DEF S, T, Counted
<1>6. CASE ls[k].k # kind
  <2>1. T = S
    BY <1>6
  <2> HIDE DEF S, T
  <2>2. Cardinality(T) = Cardinality(S) + (IF ls[k].k = kind THEN 1 ELSE 0)
    BY <1>4, <1>6, <2>1
  <2>3. Cardinality(S) \in 0..(k - 1)
    BY <1>3, <1>4
  <2> QED BY <2>2, <2>3 DEF S, T, Counted
<1> QED BY <1>5, <1>6

LEMMA IfsCounted ==
    ASSUME NEW ls, NEW k \in Nat \ {0}
    PROVE  /\ Ifs(ls, k) \in 0..(k - 1) /\ EndIfs(ls, k) \in 0..(k - 1)
           /\ Ifs(ls, k + 1) = Ifs(ls, k) + (IF ls[k].k = "if" THEN 1 ELSE 0)
           /\ EndIfs(ls, k + 1) =
                 EndIfs(ls, k) + (IF ls[k].k = "endif" THEN 1 ELSE 0)
<1>1. /\ Ifs(ls, k) = Counted(ls, "if", k)
      /\ Ifs(ls, k + 1) = Counted(ls, "if", k + 1)
  BY DEF Ifs, Counted
<1>2. /\ EndIfs(ls, k) = Counted(ls, "endif", k)
      /\ EndIfs(ls, k + 1) = Counted(ls, "endif", k + 1)
  BY DEF EndIfs, Counted
<1> QED BY <1>1, <1>2, KindsCounted

LEMMA SurplusIs ==
    ASSUME NEW ls, NEW k \in Nat \ {0}
    PROVE  /\ Surplus(ls, k) \in Nat
           /\ \A j \in 1..k : EndIfs(ls, j) - Ifs(ls, j) <= Surplus(ls, k)
           /\ \/ Surplus(ls, k) = 0
              \/ \E j \in 1..k : Surplus(ls, k) = EndIfs(ls, j) - Ifs(ls, j)
<1> DEFINE short == {EndIfs(ls, j) - Ifs(ls, j) :
                       j \in {j \in 1..k : EndIfs(ls, j) > Ifs(ls, j)}}
           most == CHOOSE s \in short : \A t \in short : t <= s
<1>1. \A j \in 1..k : EndIfs(ls, j) \in 0..(j - 1) /\ Ifs(ls, j) \in 0..(j - 1)
  BY IfsCounted
<1>2. \A s \in short : s \in Nat /\ s <= k
  BY <1>1
<1>3. Surplus(ls, k) = IF short = {} THEN 0 ELSE most
  BY Zenon DEF Surplus
<1>4. CASE short = {}
  <2>1. \A j \in 1..k : ~(EndIfs(ls, j) > Ifs(ls, j))
    <3> TAKE j \in 1..k
    <3> SUFFICES ASSUME EndIfs(ls, j) > Ifs(ls, j) PROVE FALSE
      OBVIOUS
    <3>1. EndIfs(ls, j) - Ifs(ls, j) \in short
      OBVIOUS
    <3> QED BY <1>4, <3>1
  <2>2. Surplus(ls, k) = 0
    BY <1>3, <1>4
  <2> QED BY <1>1, <2>1, <2>2
<1>5. CASE short # {}
  <2>1. \E s \in short : \A t \in short : t <= s
    <3> HIDE DEF short
    <3> QED BY <1>2, <1>5, GreatestNumber
  <2>2. most \in short /\ \A t \in short : t <= most
    <3> HIDE DEF short
    <3> QED BY <2>1, Zenon
  <2>3. Surplus(ls, k) = most
    BY <1>3, <1>5
  <2> HIDE DEF most
  <2>4. \A j \in 1..k : EndIfs(ls, j) - Ifs(ls, j) <= most
    <3> TAKE j \in 1..k
    <3>1. CASE EndIfs(ls, j) > Ifs(ls, j)
      BY <2>2, <3>1
    <3>2. CASE ~(EndIfs(ls, j) > Ifs(ls, j))
      <4>1. most \in Nat
        BY <1>2, <2>2
      <4> HIDE DEF short
      <4> QED BY <1>1, <3>2, <4>1
    <3> QED BY <3>1, <3>2
  <2>5. \E j \in 1..k : most = EndIfs(ls, j) - Ifs(ls, j)
    BY <2>2
  <2>6. most \in Nat
    BY <1>2, <2>2
  <2> QED BY <2>3, <2>4, <2>5, <2>6
<1> QED BY <1>4, <1>5

LEMMA SurplusNext ==
    ASSUME NEW ls, NEW k \in Nat \ {0}
    PROVE  LET more == EndIfs(ls, k + 1) - Ifs(ls, k + 1)
           IN  Surplus(ls, k + 1) =
                   IF more > Surplus(ls, k) THEN more ELSE Surplus(ls, k)
<1> DEFINE s == Surplus(ls, k)
           t == Surplus(ls, k + 1)
           x == EndIfs(ls, k + 1) - Ifs(ls, k + 1)
<1>0. k + 1 \in Nat \ {0}
  OBVIOUS
<1>1. s \in Nat /\ t \in Nat
  BY <1>0, SurplusIs
<1>2. x \in Int
  BY <1>0, IfsCounted
<1>3. /\ \A j \in 1..k : EndIfs(ls, j) - Ifs(ls, j) <= s
      /\ s = 0 \/ \E j \in 1..k : s = EndIfs(ls, j) - Ifs(ls, j)
  BY SurplusIs
<1>4. /\ \A j \in 1..(k + 1) : EndIfs(ls, j) - Ifs(ls, j) <= t
      /\ t = 0 \/ \E j \in 1..(k + 1) : t = EndIfs(ls, j) - Ifs(ls, j)
  BY <1>0, SurplusIs
<1> HIDE DEF s, t
<1>5. \A j \in 1..(k + 1) : j \in 1..k \/ j = k + 1
  OBVIOUS
<1>6. x <= t /\ s <= t
  <2>1. k + 1 \in 1..(k + 1) /\ \A j \in 1..k : j \in 1..(k + 1)
    OBVIOUS
  <2> QED BY <1>1, <1>3, <1>4, <2>1
<1>7. t = 0 \/ t <= s \/ t = x
  BY <1>3, <1>4, <1>5
<1> HIDE DEF x
<1>8. t = IF x > s THEN x ELSE s
  BY <1>1, <1>2, <1>6, <1>7
<1> QED BY <1>8 DEF s, t, x

\* #if goes one deeper, #endif one back, and not below 0.
LEMMA DepthNext ==
    ASSUME NEW ls, NEW k \in Nat \ {0}
    PROVE  /\ Depth(ls, k) \in Nat
           /\ ls[k].k = "if" => Depth(ls, k + 1) = Depth(ls, k) + 1
           /\ ls[k].k = "endif" /\ Depth(ls, k) # 0
                 => Depth(ls, k + 1) = Depth(ls, k) - 1
           /\ ls[k].k = "endif" /\ Depth(ls, k) = 0 => Depth(ls, k + 1) = 0
           /\ ls[k].k \notin {"if", "endif"} => Depth(ls, k + 1) = Depth(ls, k)
<1> DEFINE i == Ifs(ls, k)
           e == EndIfs(ls, k)
           s == Surplus(ls, k)
           more == EndIfs(ls, k + 1) - Ifs(ls, k + 1)
           t == Surplus(ls, k + 1)
<1>1. /\ i \in Nat /\ e \in Nat
      /\ Ifs(ls, k + 1) = i + (IF ls[k].k = "if" THEN 1 ELSE 0)
      /\ EndIfs(ls, k + 1) = e + (IF ls[k].k = "endif" THEN 1 ELSE 0)
  BY IfsCounted
<1>2. s \in Nat /\ e - i <= s
  <2>1. k \in 1..k
    OBVIOUS
  <2> QED BY <2>1, SurplusIs
<1>3. t = IF more > s THEN more ELSE s
  BY SurplusNext
<1>4. Depth(ls, k) = i + s - e
  BY DEF Depth
<1>5. Depth(ls, k + 1) = Ifs(ls, k + 1) + t - EndIfs(ls, k + 1)
  BY DEF Depth
<1>6. more = EndIfs(ls, k + 1) - Ifs(ls, k + 1)
  OBVIOUS
<1> HIDE DEF i, e, s, t, more
<1>7. CASE ls[k].k = "if"
  <2>1. more = e - (i + 1) /\ Depth(ls, k + 1) = (i + 1) + t - e
    BY <1>1, <1>5, <1>6, <1>7
  <2> QED BY <1>1, <1>2, <1>3, <1>4, <1>7, <2>1
<1>8. CASE ls[k].k = "endif"
  <2>1. more = (e + 1) - i /\ Depth(ls, k + 1) = i + t - (e + 1)
    BY <1>1, <1>5, <1>6, <1>8
  <2> QED BY <1>1, <1>2, <1>3, <1>4, <1>8, <2>1
<1>9. CASE ls[k].k \notin {"if", "endif"}
  <2>1. more = e - i /\ Depth(ls, k + 1) = i + t - e
    BY <1>1, <1>5, <1>6, <1>9
  <2> QED BY <1>1, <1>2, <1>3, <1>4, <1>9, <2>1
<1> QED BY <1>7, <1>8, <1>9

LEMMA DepthOne ==
    ASSUME NEW ls
    PROVE  Depth(ls, 1) = 0
<1>1. 1 \in Nat \ {0} /\ 1 - 1 = 0
  OBVIOUS
<1>2. Ifs(ls, 1) = 0 /\ EndIfs(ls, 1) = 0
  BY <1>1, IfsCounted
<1>3. /\ Surplus(ls, 1) = 0
         \/ \E j \in 1..1 : Surplus(ls, 1) = EndIfs(ls, j) - Ifs(ls, j)
      /\ \A j \in 1..1 : j = 1
  BY <1>1, SurplusIs
<1>4. Surplus(ls, 1) = 0
  BY <1>2, <1>3
<1> QED BY <1>2, <1>4 DEF Depth
-----------------------------------------------------------------------------
(* The chains a line is in.                                                  *)

LEMMA OpenersIn ==
    ASSUME NEW ls, NEW k \in Nat \ {0}, NEW i \in Openers(ls, k)
    PROVE  /\ i \in 1..(k - 1) /\ ls[i].k = "if"
           /\ Depth(ls, i) \in Nat /\ Depth(ls, i) < Depth(ls, k)
<1>1. i \in 1..(k - 1) /\ ls[i].k = "if"
      /\ \A j \in (i + 1)..k : Depth(ls, j) > Depth(ls, i)
  BY DEF Openers
<1>2. k \in (i + 1)..k /\ i \in Nat \ {0}
  BY <1>1
<1>3. Depth(ls, i) \in Nat /\ Depth(ls, k) \in Nat
  BY <1>2, DepthNext
<1> QED BY <1>1, <1>2, <1>3

LEMMA OneAtEachDepth ==
    ASSUME NEW ls, NEW k \in Nat \ {0}, NEW i \in Openers(ls, k),
           NEW j \in Openers(ls, k), Depth(ls, i) = Depth(ls, j)
    PROVE  i = j
<1>1. ASSUME NEW a \in Openers(ls, k), NEW b \in Openers(ls, k), a < b
      PROVE  Depth(ls, b) > Depth(ls, a)
  <2>1. a \in 1..(k - 1) /\ b \in 1..(k - 1)
    BY OpenersIn
  <2>2. b \in (a + 1)..k
    BY <1>1, <2>1
  <2> QED BY <2>2 DEF Openers
<1>2. i \in 1..(k - 1) /\ j \in 1..(k - 1)
  BY OpenersIn
<1>3. Depth(ls, i) \in Nat /\ Depth(ls, j) \in Nat
  BY OpenersIn
<1>4. CASE i < j
  BY <1>1, <1>3, <1>4
<1>5. CASE j < i
  BY <1>1, <1>3, <1>5
<1> QED BY <1>2, <1>4, <1>5

LEMMA OpenersNext ==
    ASSUME NEW ls, NEW k \in Nat \ {0}, NEW i
    PROVE  i \in Openers(ls, k + 1) <=>
              \/ i \in Openers(ls, k) /\ Depth(ls, k + 1) > Depth(ls, i)
              \/ i = k /\ ls[k].k = "if"
<1>1. ASSUME i \in Openers(ls, k + 1)
      PROVE  \/ i \in Openers(ls, k) /\ Depth(ls, k + 1) > Depth(ls, i)
             \/ i = k /\ ls[k].k = "if"
  <2>1. /\ i \in 1..((k + 1) - 1) /\ ls[i].k = "if"
        /\ \A j \in (i + 1)..(k + 1) : Depth(ls, j) > Depth(ls, i)
    BY <1>1 DEF Openers
  <2>2. CASE i = k
    BY <2>1, <2>2
  <2>3. CASE i # k
    <3>1. i \in 1..(k - 1) /\ k + 1 \in (i + 1)..(k + 1)
      BY <2>1, <2>3
    <3>2. \A j \in (i + 1)..k : j \in (i + 1)..(k + 1)
      BY <3>1
    <3> QED BY <2>1, <3>1, <3>2 DEF Openers
  <2> QED BY <2>2, <2>3
<1>2. ASSUME i \in Openers(ls, k), Depth(ls, k + 1) > Depth(ls, i)
      PROVE  i \in Openers(ls, k + 1)
  <2>1. /\ i \in 1..(k - 1) /\ ls[i].k = "if"
        /\ \A j \in (i + 1)..k : Depth(ls, j) > Depth(ls, i)
    BY <1>2 DEF Openers
  <2>2. i \in 1..((k + 1) - 1)
        /\ \A j \in (i + 1)..(k + 1) : j \in (i + 1)..k \/ j = k + 1
    BY <2>1
  <2> QED BY <1>2, <2>1, <2>2 DEF Openers
<1>3. ASSUME i = k, ls[k].k = "if"
      PROVE  i \in Openers(ls, k + 1)
  <2>1. k \in 1..((k + 1) - 1) /\ \A j \in (k + 1)..(k + 1) : j = k + 1
    OBVIOUS
  <2>2. Depth(ls, k + 1) > Depth(ls, k)
    <3>1. Depth(ls, k + 1) = Depth(ls, k) + 1 /\ Depth(ls, k) \in Nat
      BY <1>3, DepthNext
    <3> QED BY <3>1
  <2> QED BY <1>3, <2>1, <2>2 DEF Openers
<1> QED BY <1>1, <1>2, <1>3

LEMMA BranchesIn ==
    ASSUME NEW ls, NEW k \in Nat \ {0}, NEW i \in Openers(ls, k)
    PROVE  /\ i \in Branches(ls, i, k)
           /\ \A h \in Branches(ls, i, k) : h \in 1..(k - 1)
<1>1. i \in 1..(k - 1)
  BY OpenersIn
<1> QED BY <1>1 DEF Branches

LEMMA BranchesNext ==
    ASSUME NEW ls, NEW k \in Nat \ {0}, NEW i \in Openers(ls, k), NEW h
    PROVE  h \in Branches(ls, i, k + 1) <=>
              \/ h \in Branches(ls, i, k)
              \/ /\ h = k /\ ls[k].k \in {"elseif", "else"}
                 /\ Depth(ls, k) = Depth(ls, i) + 1
<1>1. i \in 1..(k - 1)
  BY OpenersIn
<1>2. h \in (i + 1)..((k + 1) - 1) <=> h \in (i + 1)..(k - 1) \/ h = k
  BY <1>1
<1> QED BY <1>2 DEF Branches

LEMMA BranchesFirst ==
    ASSUME NEW ls, NEW k \in Nat \ {0}
    PROVE  Branches(ls, k, k + 1) = {k}
<1>1. (k + 1)..((k + 1) - 1) = {}
  OBVIOUS
<1> QED BY <1>1 DEF Branches

LEMMA LastBranch ==
    ASSUME NEW ls, NEW k \in Nat \ {0}, NEW i \in Openers(ls, k)
    PROVE  \E h \in Branches(ls, i, k) : \A j \in Branches(ls, i, k) : j <= h
<1> DEFINE heads == Branches(ls, i, k)
<1>1. heads # {} /\ \A h \in heads : h \in 1..(k - 1)
  BY BranchesIn
<1>2. heads \subseteq Nat /\ k \in Nat /\ \A h \in heads : h <= k
  BY <1>1
<1> HIDE DEF heads
<1>3. \E h \in heads : \A j \in heads : j <= h
  BY <1>1, <1>2, GreatestNumber
<1> QED BY <1>3 DEF heads

\* The branch a line is in is the last one that begins before it.
LEMMA ChosenIs ==
    ASSUME NEW f, NEW i, NEW k, NEW h \in Branches(f.lines, i, k),
           \A j \in Branches(f.lines, i, k) : j \in Nat /\ j <= h
    PROVE  Chosen(f, i, k) <=>
              /\ h \in f.held \/ f.lines[h].k = "else"
              /\ \A j \in Branches(f.lines, i, k) : j # h => j \notin f.held
<1> DEFINE heads == Branches(f.lines, i, k)
           mine == CHOOSE x \in heads : \A j \in heads : j <= x
<1>1. mine \in heads /\ \A j \in heads : j <= mine
  <2> HIDE DEF heads
  <2>1. \E x \in heads : \A j \in heads : j <= x
    BY DEF heads
  <2> QED BY <2>1, Zenon
<1>2. Chosen(f, i, k) <=>
         /\ mine \in f.held \/ f.lines[mine].k = "else"
         /\ \A j \in heads \ {mine} : j \notin f.held
  BY Zenon DEF Chosen
<1> HIDE DEF mine
<1>3. mine = h
  BY <1>1
<1> QED BY <1>2, <1>3

\* It depends on the branches and what held at them.
LEMMA ChosenSame ==
    ASSUME NEW f, NEW g, g.lines = f.lines, NEW i, NEW k \in Nat \ {0},
           NEW l \in Nat \ {0}, i \in Openers(f.lines, k),
           Branches(f.lines, i, l) = Branches(f.lines, i, k),
           \A h \in Branches(f.lines, i, k) : h \in g.held <=> h \in f.held
    PROVE  Chosen(g, i, l) <=> Chosen(f, i, k)
<1>1. PICK h \in Branches(f.lines, i, k) :
          \A j \in Branches(f.lines, i, k) : j <= h
  BY LastBranch
<1>2. \A j \in Branches(f.lines, i, k) : j \in Nat
  BY BranchesIn
<1>3. Chosen(f, i, k) <=>
         /\ h \in f.held \/ f.lines[h].k = "else"
         /\ \A j \in Branches(f.lines, i, k) : j # h => j \notin f.held
  BY <1>1, <1>2, ChosenIs
<1>4. Chosen(g, i, l) <=>
         /\ h \in g.held \/ g.lines[h].k = "else"
         /\ \A j \in Branches(g.lines, i, l) : j # h => j \notin g.held
  BY <1>1, <1>2, ChosenIs
<1> QED BY <1>1, <1>3, <1>4
-----------------------------------------------------------------------------
(* A frame, one line on.                                                     *)

\* The lines of a frame that should have been kept.
Right(f) == {k \in 1..(f.at - 1) :
               /\ f.lines[k].k \notin ChainKinds
               /\ \A i \in Openers(f.lines, k) : Chosen(f, i, k)}

\* The chain stack has an entry for every chain the line is in,
Nested(f) ==
    /\ f.at \in Nat \ {0} /\ f.ifs \in Seq(Branch)
    /\ Len(f.ifs) = Depth(f.lines, f.at)
    /\ \A d \in DOMAIN f.ifs :
          \E i \in Openers(f.lines, f.at) : Depth(f.lines, i) = d - 1
    /\ f.held \subseteq 1..(f.at - 1)

\* which says what the text does.
Judged(f, i, b) ==
    /\ b.active <=> Chosen(f, i, f.at)
    /\ b.taken <=> \E h \in Branches(f.lines, i, f.at) :
                      h \in f.held \/ f.lines[h].k = "else"
    /\ b.sawElse <=> \E h \in Branches(f.lines, i, f.at) :
                        f.lines[h].k = "else"

Told(f) ==
    /\ \A i \in Openers(f.lines, f.at) :
          Judged(f, i, f.ifs[Depth(f.lines, i) + 1])
    /\ f.kept = Right(f)

Chained(f) == Nested(f) /\ (Proper(f) => Told(f))

OneOn(f, g) ==
    /\ g.lines = f.lines /\ g.at = f.at + 1
    /\ g.held = f.held \/ g.held = f.held \cup {f.at}

LEMMA HeldBefore ==
    ASSUME NEW f, NEW g, Nested(f), OneOn(f, g)
    PROVE  /\ \A h \in 1..(f.at - 1) : h \in g.held <=> h \in f.held
           /\ g.held \subseteq 1..(g.at - 1)
           /\ f.at \notin f.held
           /\ f.at \in Nat \ {0} /\ g.at \in Nat \ {0} /\ g.at - 1 = f.at
BY DEF Nested, OneOn

LEMMA JudgedStays ==
    ASSUME NEW f, NEW g, Nested(f), OneOn(f, g),
           NEW i \in Openers(f.lines, f.at), NEW b, Judged(f, i, b),
           ~ /\ f.lines[f.at].k \in {"elseif", "else"}
             /\ Depth(f.lines, f.at) = Depth(f.lines, i) + 1
    PROVE  Judged(g, i, b)
<1> DEFINE heads == Branches(f.lines, i, f.at)
<1>1. g.lines = f.lines /\ g.at = f.at + 1
  BY DEF OneOn
<1>2. f.at \in Nat \ {0} /\ g.at \in Nat \ {0}
  BY HeldBefore
<1>3. \A h : h \in Branches(f.lines, i, f.at + 1) <=> h \in heads
  BY <1>2, BranchesNext
<1>4. Branches(f.lines, i, g.at) = heads
  <2> HIDE DEF heads
  <2> QED BY <1>1, <1>3
<1>5. \A h \in heads : h \in g.held <=> h \in f.held
  BY <1>2, BranchesIn, HeldBefore
<1>6. Chosen(g, i, g.at) <=> Chosen(f, i, f.at)
  BY <1>1, <1>2, <1>4, <1>5, ChosenSame
<1> QED BY <1>1, <1>4, <1>5, <1>6 DEF Judged

LEMMA RightNext ==
    ASSUME NEW f, NEW g, Nested(f), OneOn(f, g), NEW j
    PROVE  j \in Right(g) <=>
              \/ j \in Right(f)
              \/ /\ j = f.at /\ f.lines[j].k \notin ChainKinds
                 /\ \A i \in Openers(f.lines, f.at) : Chosen(f, i, f.at)
<1>1. g.lines = f.lines /\ f.at \in Nat \ {0} /\ g.at - 1 = f.at
  BY HeldBefore DEF OneOn
<1>2. ASSUME NEW k \in 1..f.at, NEW i \in Openers(f.lines, k)
      PROVE  Chosen(g, i, k) <=> Chosen(f, i, k)
  <2>1. k \in Nat \ {0}
    BY <1>1
  <2>2. \A h \in Branches(f.lines, i, k) : h \in 1..(k - 1)
    BY <2>1, BranchesIn
  <2>3. \A h \in 1..(k - 1) : h \in 1..(f.at - 1)
    BY <1>1
  <2>4. \A h \in Branches(f.lines, i, k) : h \in g.held <=> h \in f.held
    BY <2>2, <2>3, HeldBefore
  <2> QED BY <1>1, <2>1, <2>4, ChosenSame
<1>3. j \in 1..f.at <=> j \in 1..(f.at - 1) \/ j = f.at
  BY <1>1
<1>4. f.at \in 1..f.at
  BY <1>1
<1>5. j \in Right(g) <=> /\ j \in 1..f.at /\ f.lines[j].k \notin ChainKinds
                         /\ \A i \in Openers(f.lines, j) : Chosen(f, i, j)
  BY <1>1, <1>2 DEF Right
<1> QED BY <1>3, <1>4, <1>5 DEF Right

LEMMA ProperBefore ==
    ASSUME NEW f, NEW g, Nested(f), OneOn(f, g), Proper(g)
    PROVE  Proper(f)
<1>1. g.lines = f.lines /\ f.at \in Nat \ {0} /\ g.at - 1 = f.at
  BY HeldBefore DEF OneOn
<1>2. \A k \in 1..(f.at - 1) : k \in 1..(g.at - 1)
  BY <1>1
<1> QED BY <1>1, <1>2 DEF Proper

\* Where a line is active, all its chains are in the branch that is chosen.
LEMMA ActiveIsChosen ==
    ASSUME NEW f, Nested(f), Told(f)
    PROVE  (\A n \in DOMAIN f.ifs : f.ifs[n].active) <=>
              \A i \in Openers(f.lines, f.at) : Chosen(f, i, f.at)
<1>1. /\ f.at \in Nat \ {0} /\ DOMAIN f.ifs = 1..Len(f.ifs)
      /\ Len(f.ifs) = Depth(f.lines, f.at) /\ Len(f.ifs) \in Nat
  BY DEF Nested
<1>2. \A i \in Openers(f.lines, f.at) :
         /\ Depth(f.lines, i) + 1 \in DOMAIN f.ifs
         /\ f.ifs[Depth(f.lines, i) + 1].active <=> Chosen(f, i, f.at)
  <2> TAKE i \in Openers(f.lines, f.at)
  <2>1. Depth(f.lines, i) \in Nat /\ Depth(f.lines, i) < Depth(f.lines, f.at)
    BY <1>1, OpenersIn
  <2>2. Judged(f, i, f.ifs[Depth(f.lines, i) + 1])
    BY DEF Told
  <2> QED BY <1>1, <2>1, <2>2 DEF Judged
<1>3. \A n \in DOMAIN f.ifs : \E i \in Openers(f.lines, f.at) :
         n = Depth(f.lines, i) + 1
  <2> TAKE n \in DOMAIN f.ifs
  <2>1. PICK i \in Openers(f.lines, f.at) : Depth(f.lines, i) = n - 1
    BY DEF Nested
  <2>2. n = Depth(f.lines, i) + 1
    BY <1>1, <2>1
  <2> QED BY <2>2
<1> QED BY <1>2, <1>3

\* Chains neither begin nor end with the line.
LEMMA SameNest ==
    ASSUME NEW f, NEW g, Nested(f), OneOn(f, g), g.ifs \in Seq(Branch),
           Len(g.ifs) = Len(f.ifs),
           \/ f.lines[f.at].k \notin {"if", "endif"}
           \/ f.lines[f.at].k = "endif" /\ f.ifs = <<>>
    PROVE  /\ Nested(g)
           /\ \A i : i \in Openers(g.lines, g.at) <=> i \in Openers(f.lines, f.at)
<1>1. g.lines = f.lines /\ f.at \in Nat \ {0} /\ g.at = f.at + 1
      /\ g.at \in Nat \ {0}
  BY HeldBefore DEF OneOn
<1>2. Depth(f.lines, f.at + 1) = Depth(f.lines, f.at)
  <2>1. f.ifs = <<>> => Depth(f.lines, f.at) = 0
    BY DEF Nested
  <2> QED BY <1>1, <2>1, DepthNext
<1>3. ASSUME NEW i
      PROVE  i \in Openers(g.lines, g.at) <=> i \in Openers(f.lines, f.at)
  <2>1. i \in Openers(f.lines, f.at) =>
           Depth(f.lines, f.at) > Depth(f.lines, i)
    <3> HAVE i \in Openers(f.lines, f.at)
    <3>1. /\ Depth(f.lines, i) \in Nat
          /\ Depth(f.lines, i) < Depth(f.lines, f.at)
      BY <1>1, OpenersIn
    <3>2. Depth(f.lines, f.at) \in Nat
      BY <1>1, DepthNext
    <3> QED BY <3>1, <3>2
  <2>2. i \in Openers(f.lines, f.at + 1) <=>
           \/ /\ i \in Openers(f.lines, f.at)
              /\ Depth(f.lines, f.at + 1) > Depth(f.lines, i)
           \/ i = f.at /\ f.lines[f.at].k = "if"
    BY <1>1, OpenersNext
  <2> QED BY <1>1, <1>2, <2>1, <2>2
<1>4. DOMAIN g.ifs = DOMAIN f.ifs
  BY DEF Nested
<1>5. g.held \subseteq 1..(g.at - 1)
  BY HeldBefore
<1> QED BY <1>1, <1>2, <1>3, <1>4, <1>5 DEF Nested
LEMMA NestedType ==
    ASSUME NEW f, Nested(f)
    PROVE  /\ f.at \in Nat \ {0} /\ DOMAIN f.ifs = 1..Len(f.ifs)
           /\ Len(f.ifs) \in Nat /\ Len(f.ifs) = Depth(f.lines, f.at)
           /\ f.ifs = <<>> <=> Len(f.ifs) = 0
           /\ \A i \in Openers(f.lines, f.at) :
                 /\ Depth(f.lines, i) \in Nat
                 /\ Depth(f.lines, i) + 1 \in 1..Len(f.ifs)
<1>1. /\ f.at \in Nat \ {0} /\ DOMAIN f.ifs = 1..Len(f.ifs)
      /\ Len(f.ifs) \in Nat /\ Len(f.ifs) = Depth(f.lines, f.at)
      /\ f.ifs = <<>> <=> Len(f.ifs) = 0
  BY DEF Nested
<1>2. ASSUME NEW i \in Openers(f.lines, f.at)
      PROVE  /\ Depth(f.lines, i) \in Nat
             /\ Depth(f.lines, i) + 1 \in 1..Len(f.ifs)
  <2>1. /\ Depth(f.lines, i) \in Nat
        /\ Depth(f.lines, i) < Depth(f.lines, f.at)
    BY <1>1, OpenersIn
  <2> QED BY <1>1, <2>1
<1> QED BY <1>1, <1>2

\* A directive of a chain is not kept.
LEMMA RightSame ==
    ASSUME NEW f, NEW g, Nested(f), OneOn(f, g),
           f.lines[f.at].k \in ChainKinds
    PROVE  Right(g) = Right(f)
<1>1. \A j : j \in Right(g) <=> j \in Right(f)
  BY RightNext
<1> QED BY <1>1

LEMMA TurnPlain ==
    ASSUME NEW f, NEW g, Chained(f), OneOn(f, g),
           f.lines[f.at].k \notin ChainKinds, g.ifs = f.ifs,
           g.kept = IF \A n \in DOMAIN f.ifs : f.ifs[n].active
                    THEN f.kept \cup {f.at} ELSE f.kept
    PROVE  Chained(g)
<1>1. /\ Nested(f) /\ f.ifs \in Seq(Branch) /\ g.lines = f.lines
      /\ f.lines[f.at].k \notin {"if", "elseif", "else", "endif"}
  BY DEF Chained, Nested, OneOn, ChainKinds
<1>2. /\ Nested(g)
      /\ \A i : i \in Openers(g.lines, g.at) <=> i \in Openers(f.lines, f.at)
  BY <1>1, SameNest
<1>3. ASSUME Proper(g)
      PROVE  Told(g)
  <2>1. Told(f)
    BY <1>1, <1>3, ProperBefore DEF Chained
  <2>2. ASSUME NEW i \in Openers(g.lines, g.at)
        PROVE  Judged(g, i, g.ifs[Depth(g.lines, i) + 1])
    <3>1. i \in Openers(f.lines, f.at)
      BY <1>2
    <3>2. Judged(f, i, f.ifs[Depth(f.lines, i) + 1])
      BY <2>1, <3>1 DEF Told
    <3>3. Judged(g, i, f.ifs[Depth(f.lines, i) + 1])
      BY <1>1, <3>1, <3>2, JudgedStays
    <3> QED BY <1>1, <3>3
  <2>3. \A j : j \in g.kept <=> j \in Right(g)
    <3> TAKE j
    <3>1. j \in Right(g) <=>
             \/ j \in Right(f)
             \/ /\ j = f.at
                /\ \A i \in Openers(f.lines, f.at) : Chosen(f, i, f.at)
      BY <1>1, RightNext
    <3>2. f.kept = Right(f)
      BY <2>1 DEF Told
    <3>3. (\A n \in DOMAIN f.ifs : f.ifs[n].active) <=>
             \A i \in Openers(f.lines, f.at) : Chosen(f, i, f.at)
      BY <1>1, <2>1, ActiveIsChosen
    <3>4. CASE \A n \in DOMAIN f.ifs : f.ifs[n].active
      BY <3>1, <3>2, <3>3, <3>4
    <3>5. CASE ~ \A n \in DOMAIN f.ifs : f.ifs[n].active
      BY <3>1, <3>2, <3>3, <3>5
    <3> QED BY <3>4, <3>5
  <2>4. g.kept = Right(g)
    <3>1. \A j \in g.kept : j \in Right(g)
      BY <2>3
    <3>2. g.kept \subseteq Right(g) /\ Right(g) \subseteq g.kept
      BY <2>3
    <3> QED BY <3>2
  <2> QED BY <2>2, <2>4 DEF Told
<1> QED BY <1>2, <1>3 DEF Chained

LEMMA TurnIf ==
    ASSUME NEW f, NEW g, Chained(f), OneOn(f, g), f.lines[f.at].k = "if",
           NEW b \in Branch, g.ifs = Append(f.ifs, b), g.kept = f.kept,
           b.active <=> f.at \in g.held, b.taken <=> f.at \in g.held, ~b.sawElse
    PROVE  Chained(g)
<1>1. /\ Nested(f) /\ f.ifs \in Seq(Branch)
      /\ g.lines = f.lines /\ g.at = f.at + 1
  BY DEF Chained, Nested, OneOn
<1>2. /\ f.at \in Nat \ {0} /\ g.at \in Nat \ {0}
      /\ g.held \subseteq 1..(g.at - 1)
  BY <1>1, HeldBefore
<1>3. /\ DOMAIN f.ifs = 1..Len(f.ifs) /\ Len(f.ifs) \in Nat
      /\ Len(f.ifs) = Depth(f.lines, f.at)
      /\ \A i \in Openers(f.lines, f.at) :
            /\ Depth(f.lines, i) \in Nat
            /\ Depth(f.lines, i) + 1 \in 1..Len(f.ifs)
  BY <1>1, NestedType
<1>4. Depth(f.lines, g.at) = Len(f.ifs) + 1
  BY <1>1, <1>2, <1>3, DepthNext
<1>5. /\ g.ifs \in Seq(Branch) /\ Len(g.ifs) = Len(f.ifs) + 1
      /\ DOMAIN g.ifs = 1..(Len(f.ifs) + 1) /\ g.ifs[Len(f.ifs) + 1] = b
      /\ \A d \in 1..Len(f.ifs) : g.ifs[d] = f.ifs[d]
  BY <1>1
<1>6. \A i : i \in Openers(g.lines, g.at) <=>
                i \in Openers(f.lines, f.at) \/ i = f.at
  <2> TAKE i
  <2>1. i \in Openers(f.lines, f.at) => Depth(f.lines, g.at) > Depth(f.lines, i)
    BY <1>3, <1>4
  <2>2. i \in Openers(f.lines, f.at + 1) <=>
           \/ /\ i \in Openers(f.lines, f.at)
              /\ Depth(f.lines, f.at + 1) > Depth(f.lines, i)
           \/ i = f.at /\ f.lines[f.at].k = "if"
    BY <1>2, OpenersNext
  <2> QED BY <1>1, <2>1, <2>2
<1>7. Nested(g)
  <2>1. ASSUME NEW d \in DOMAIN g.ifs
        PROVE  \E i \in Openers(g.lines, g.at) : Depth(g.lines, i) = d - 1
    <3>1. CASE d = Len(f.ifs) + 1
      <4>1. Depth(g.lines, f.at) = d - 1
        BY <1>1, <1>3, <3>1
      <4> QED BY <1>6, <4>1
    <3>2. CASE d # Len(f.ifs) + 1
      <4>1. d \in DOMAIN f.ifs
        BY <1>3, <1>5, <3>2
      <4>2. PICK i \in Openers(f.lines, f.at) : Depth(f.lines, i) = d - 1
        BY <1>1, <4>1 DEF Nested
      <4> QED BY <1>1, <1>6, <4>2
    <3> QED BY <3>1, <3>2
  <2>2. Len(g.ifs) = Depth(g.lines, g.at)
    BY <1>1, <1>4, <1>5
  <2> QED BY <1>2, <1>5, <2>1, <2>2 DEF Nested
<1>8. ASSUME Proper(g)
      PROVE  Told(g)
  <2>1. Told(f)
    BY <1>1, <1>8, ProperBefore DEF Chained
  <2>2. Judged(g, f.at, b)
    <3>1. Branches(g.lines, f.at, g.at) = {f.at}
      BY <1>1, <1>2, BranchesFirst
    <3>2. Chosen(g, f.at, g.at) <=> f.at \in g.held
      <4>1. f.at \in Branches(g.lines, f.at, g.at)
        BY <3>1
      <4>2. \A j \in Branches(g.lines, f.at, g.at) : j \in Nat /\ j <= f.at
        BY <1>2, <3>1
      <4>3. Chosen(g, f.at, g.at) <=>
               /\ f.at \in g.held \/ g.lines[f.at].k = "else"
               /\ \A j \in Branches(g.lines, f.at, g.at) :
                     j # f.at => j \notin g.held
        BY <4>1, <4>2, ChosenIs
      <4> QED BY <1>1, <3>1, <4>3
    <3>3. g.lines[f.at].k # "else"
      BY <1>1
    <3> QED BY <3>1, <3>2, <3>3 DEF Judged
  <2>3. ASSUME NEW i \in Openers(f.lines, f.at)
        PROVE  Judged(g, i, g.ifs[Depth(g.lines, i) + 1])
    <3>1. Judged(f, i, f.ifs[Depth(f.lines, i) + 1])
      BY <2>1 DEF Told
    <3>2. Judged(g, i, f.ifs[Depth(f.lines, i) + 1])
      BY <1>1, <3>1, JudgedStays
    <3> QED BY <1>1, <1>3, <1>5, <3>2
  <2>4. Judged(g, f.at, g.ifs[Depth(g.lines, f.at) + 1])
    BY <1>1, <1>3, <1>5, <2>2
  <2>5. g.kept = Right(g)
    BY <1>1, <2>1, RightSame DEF ChainKinds, Told
  <2> QED BY <1>6, <2>3, <2>4, <2>5 DEF Told
<1> QED BY <1>7, <1>8 DEF Chained

LEMMA TurnEndIf ==
    ASSUME NEW f, NEW g, Chained(f), OneOn(f, g), f.lines[f.at].k = "endif",
           f.ifs # <<>>, g.ifs = SubSeq(f.ifs, 1, Len(f.ifs) - 1),
           g.kept = f.kept
    PROVE  Chained(g)
<1>1. /\ Nested(f) /\ f.ifs \in Seq(Branch)
      /\ g.lines = f.lines /\ g.at = f.at + 1
  BY DEF Chained, Nested, OneOn
<1>2. /\ f.at \in Nat \ {0} /\ g.at \in Nat \ {0}
      /\ g.held \subseteq 1..(g.at - 1)
  BY <1>1, HeldBefore
<1>3. /\ DOMAIN f.ifs = 1..Len(f.ifs) /\ Len(f.ifs) \in Nat /\ Len(f.ifs) # 0
      /\ Len(f.ifs) = Depth(f.lines, f.at)
      /\ \A i \in Openers(f.lines, f.at) :
            /\ Depth(f.lines, i) \in Nat
            /\ Depth(f.lines, i) + 1 \in 1..Len(f.ifs)
  BY <1>1, NestedType
<1>4. Depth(f.lines, g.at) = Len(f.ifs) - 1
  BY <1>1, <1>2, <1>3, DepthNext
<1>5. /\ g.ifs \in Seq(Branch) /\ Len(g.ifs) = Len(f.ifs) - 1
      /\ DOMAIN g.ifs = 1..(Len(f.ifs) - 1)
      /\ \A d \in 1..(Len(f.ifs) - 1) : g.ifs[d] = f.ifs[d]
  BY <1>1, <1>3
<1>6. \A i : i \in Openers(g.lines, g.at) <=>
                /\ i \in Openers(f.lines, f.at)
                /\ Depth(f.lines, i) + 1 <= Len(f.ifs) - 1
  <2> TAKE i
  <2>1. i \in Openers(f.lines, f.at) =>
           (Depth(f.lines, g.at) > Depth(f.lines, i)
              <=> Depth(f.lines, i) + 1 <= Len(f.ifs) - 1)
    BY <1>3, <1>4
  <2>2. i \in Openers(f.lines, f.at + 1) <=>
           \/ /\ i \in Openers(f.lines, f.at)
              /\ Depth(f.lines, f.at + 1) > Depth(f.lines, i)
           \/ i = f.at /\ f.lines[f.at].k = "if"
    BY <1>2, OpenersNext
  <2> QED BY <1>1, <2>1, <2>2
<1>7. Nested(g)
  <2>1. ASSUME NEW d \in DOMAIN g.ifs
        PROVE  \E i \in Openers(g.lines, g.at) : Depth(g.lines, i) = d - 1
    <3>1. d \in DOMAIN f.ifs /\ d <= Len(f.ifs) - 1 /\ d \in Nat
      BY <1>3, <1>5
    <3>2. PICK i \in Openers(f.lines, f.at) : Depth(f.lines, i) = d - 1
      BY <1>1, <3>1 DEF Nested
    <3>3. Depth(f.lines, i) + 1 <= Len(f.ifs) - 1
      BY <3>1, <3>2
    <3> QED BY <1>1, <1>6, <3>2, <3>3
  <2>2. Len(g.ifs) = Depth(g.lines, g.at)
    BY <1>1, <1>4, <1>5
  <2> QED BY <1>2, <1>5, <2>1, <2>2 DEF Nested
<1>8. ASSUME Proper(g)
      PROVE  Told(g)
  <2>1. Told(f)
    BY <1>1, <1>8, ProperBefore DEF Chained
  <2>2. ASSUME NEW i \in Openers(g.lines, g.at)
        PROVE  Judged(g, i, g.ifs[Depth(g.lines, i) + 1])
    <3>1. /\ i \in Openers(f.lines, f.at)
          /\ Depth(f.lines, i) + 1 <= Len(f.ifs) - 1
      BY <1>6
    <3>2. Judged(f, i, f.ifs[Depth(f.lines, i) + 1])
      BY <2>1, <3>1 DEF Told
    <3>3. Judged(g, i, f.ifs[Depth(f.lines, i) + 1])
      BY <1>1, <3>1, <3>2, JudgedStays
    <3>4. Depth(f.lines, i) + 1 \in 1..(Len(f.ifs) - 1)
      BY <1>3, <3>1
    <3> QED BY <1>1, <1>5, <3>3, <3>4
  <2>3. g.kept = Right(g)
    BY <1>1, <2>1, RightSame DEF ChainKinds, Told
  <2> QED BY <2>2, <2>3 DEF Told
<1> QED BY <1>7, <1>8 DEF Chained

\* The innermost chain, at a directive that begins a branch of it.
LEMMA NewBranch ==
    ASSUME NEW f, NEW g, Nested(f), OneOn(f, g),
           f.lines[f.at].k \in {"elseif", "else"},
           NEW i \in Openers(f.lines, f.at),
           Depth(f.lines, f.at) = Depth(f.lines, i) + 1
    PROVE  /\ f.at \in Branches(g.lines, i, g.at)
           /\ \A h \in Branches(f.lines, i, f.at) :
                 /\ h \in Branches(g.lines, i, g.at) /\ h < f.at
                 /\ h \in g.held <=> h \in f.held
           /\ \A h \in Branches(g.lines, i, g.at) :
                 h \in Branches(f.lines, i, f.at) \/ h = f.at
           /\ Chosen(g, i, g.at) <=>
                 /\ f.at \in g.held \/ f.lines[f.at].k = "else"
                 /\ \A h \in Branches(f.lines, i, f.at) : h \notin f.held
<1>1. g.lines = f.lines /\ g.at = f.at + 1
  BY DEF OneOn
<1>2. f.at \in Nat \ {0}
  BY HeldBefore
<1>3. \A h : h \in Branches(g.lines, i, g.at) <=>
                h \in Branches(f.lines, i, f.at) \/ h = f.at
  BY <1>1, <1>2, BranchesNext
<1>4. \A h \in Branches(f.lines, i, f.at) : h \in 1..(f.at - 1)
  BY <1>2, BranchesIn
<1>5. \A h \in Branches(f.lines, i, f.at) :
         h < f.at /\ (h \in g.held <=> h \in f.held)
  BY <1>2, <1>4, HeldBefore
<1>6. \A h \in Branches(g.lines, i, g.at) : h \in Nat /\ h <= f.at
  BY <1>2, <1>3, <1>4
<1>7. f.at \in Branches(g.lines, i, g.at)
  BY <1>3
<1>8. Chosen(g, i, g.at) <=>
         /\ f.at \in g.held \/ g.lines[f.at].k = "else"
         /\ \A h \in Branches(g.lines, i, g.at) : h # f.at => h \notin g.held
  BY <1>6, <1>7, ChosenIs
<1>9. (\A h \in Branches(g.lines, i, g.at) : h # f.at => h \notin g.held) <=>
         \A h \in Branches(f.lines, i, f.at) : h \notin f.held
  <2>1. \A h \in Branches(f.lines, i, f.at) : h # f.at
    BY <1>2, <1>4
  <2> QED BY <1>3, <1>5, <2>1
<1> QED BY <1>1, <1>3, <1>5, <1>7, <1>8, <1>9

LEMMA TurnBranch ==
    ASSUME NEW f, NEW g, Chained(f), OneOn(f, g),
           f.lines[f.at].k \in {"elseif", "else"}, f.ifs # <<>>,
           NEW b \in Branch, g.ifs = [f.ifs EXCEPT ![Len(f.ifs)] = b],
           g.kept = f.kept,
           \A i \in Openers(f.lines, f.at) :
              /\ Depth(f.lines, f.at) = Depth(f.lines, i) + 1
              /\ Judged(f, i, f.ifs[Len(f.ifs)]) /\ Proper(g)
              => Judged(g, i, b)
    PROVE  Chained(g)
<1>1. /\ Nested(f) /\ f.ifs \in Seq(Branch) /\ g.lines = f.lines
  BY DEF Chained, Nested, OneOn
<1>2. /\ DOMAIN f.ifs = 1..Len(f.ifs) /\ Len(f.ifs) \in Nat
      /\ Len(f.ifs) = Depth(f.lines, f.at) /\ f.at \in Nat \ {0}
      /\ \A i \in Openers(f.lines, f.at) :
            /\ Depth(f.lines, i) \in Nat
            /\ Depth(f.lines, i) + 1 \in 1..Len(f.ifs)
  BY <1>1, NestedType
<1>3. /\ g.ifs \in Seq(Branch) /\ Len(g.ifs) = Len(f.ifs)
      /\ g.ifs[Len(f.ifs)] = b
      /\ \A d \in 1..Len(f.ifs) : d # Len(f.ifs) => g.ifs[d] = f.ifs[d]
  BY <1>1
<1>4. /\ Nested(g)
      /\ \A i : i \in Openers(g.lines, g.at) <=> i \in Openers(f.lines, f.at)
  BY <1>1, <1>3, SameNest
<1>5. ASSUME Proper(g)
      PROVE  Told(g)
  <2>1. Told(f)
    BY <1>1, <1>5, ProperBefore DEF Chained
  <2>2. ASSUME NEW i \in Openers(g.lines, g.at)
        PROVE  Judged(g, i, g.ifs[Depth(g.lines, i) + 1])
    <3>1. i \in Openers(f.lines, f.at)
      BY <1>4
    <3>2. Judged(f, i, f.ifs[Depth(f.lines, i) + 1])
      BY <2>1, <3>1 DEF Told
    <3>3. CASE Depth(f.lines, f.at) = Depth(f.lines, i) + 1
      BY <1>1, <1>2, <1>3, <1>5, <3>1, <3>2, <3>3
    <3>4. CASE Depth(f.lines, f.at) # Depth(f.lines, i) + 1
      <4>1. Judged(g, i, f.ifs[Depth(f.lines, i) + 1])
        BY <1>1, <3>1, <3>2, <3>4, JudgedStays
      <4> QED BY <1>1, <1>2, <1>3, <3>1, <3>4, <4>1
    <3> QED BY <3>3, <3>4
  <2>3. g.kept = Right(g)
    BY <1>1, <2>1, RightSame DEF ChainKinds, Told
  <2> QED BY <2>2, <2>3 DEF Told
<1> QED BY <1>4, <1>5 DEF Chained

LEMMA TurnElseIf ==
    ASSUME NEW f, NEW g, Chained(f), OneOn(f, g), f.lines[f.at].k = "elseif",
           f.ifs # <<>>, NEW last, last = f.ifs[Len(f.ifs)], ~last.sawElse,
           NEW b \in Branch, g.ifs = [f.ifs EXCEPT ![Len(f.ifs)] = b],
           g.kept = f.kept, b.active <=> ~last.taken /\ f.at \in g.held,
           b.taken <=> last.taken \/ b.active, ~b.sawElse
    PROVE  Chained(g)
<1>1. Nested(f) /\ g.lines = f.lines
  BY DEF Chained, OneOn
<1>2. ASSUME NEW i \in Openers(f.lines, f.at),
             Depth(f.lines, f.at) = Depth(f.lines, i) + 1, Judged(f, i, last)
      PROVE  Judged(g, i, b)
  <2>1. /\ f.at \in Branches(g.lines, i, g.at)
        /\ \A h \in Branches(f.lines, i, f.at) :
              /\ h \in Branches(g.lines, i, g.at)
              /\ h \in g.held <=> h \in f.held
        /\ \A h \in Branches(g.lines, i, g.at) :
              h \in Branches(f.lines, i, f.at) \/ h = f.at
        /\ Chosen(g, i, g.at) <=>
              /\ f.at \in g.held
              /\ \A h \in Branches(f.lines, i, f.at) : h \notin f.held
    BY <1>1, <1>2, NewBranch
  <2>2. /\ last.taken <=> \E h \in Branches(f.lines, i, f.at) :
                             h \in f.held \/ f.lines[h].k = "else"
        /\ \A h \in Branches(f.lines, i, f.at) : f.lines[h].k # "else"
    BY <1>2 DEF Judged
  <2>3. b.active <=> Chosen(g, i, g.at)
    BY <2>1, <2>2
  <2>4. b.taken <=> \E h \in Branches(g.lines, i, g.at) :
                       h \in g.held \/ g.lines[h].k = "else"
    BY <1>1, <2>1, <2>2
  <2>5. ~ \E h \in Branches(g.lines, i, g.at) : g.lines[h].k = "else"
    BY <1>1, <2>1, <2>2
  <2> QED BY <2>3, <2>4, <2>5 DEF Judged
<1> QED BY <1>2, TurnBranch

LEMMA TurnElse ==
    ASSUME NEW f, NEW g, Chained(f), OneOn(f, g), f.lines[f.at].k = "else",
           f.ifs # <<>>, NEW last, last = f.ifs[Len(f.ifs)],
           NEW b \in Branch, g.ifs = [f.ifs EXCEPT ![Len(f.ifs)] = b],
           g.kept = f.kept, b.active <=> ~last.taken, b.taken, b.sawElse
    PROVE  Chained(g)
<1>1. Nested(f) /\ g.lines = f.lines /\ f.at \in Nat \ {0} /\ g.at = f.at + 1
  BY DEF Chained, Nested, OneOn
<1>2. ASSUME NEW i \in Openers(f.lines, f.at), Proper(g),
             Depth(f.lines, f.at) = Depth(f.lines, i) + 1, Judged(f, i, last)
      PROVE  Judged(g, i, b)
  <2>1. /\ f.at \in Branches(g.lines, i, g.at)
        /\ \A h \in Branches(f.lines, i, f.at) :
              h \in Branches(g.lines, i, g.at) /\ h < f.at
        /\ Chosen(g, i, g.at) <=>
              \A h \in Branches(f.lines, i, f.at) : h \notin f.held
    BY <1>1, <1>2, NewBranch
  <2>2. \A h \in Branches(f.lines, i, f.at) : f.lines[h].k # "else"
    <3>1. f.at \in 1..(g.at - 1)
      BY <1>1
    <3>2. \A j, h \in Branches(g.lines, i, f.at + 1) :
             g.lines[j].k = "else" => h <= j
      BY <1>1, <1>2, <3>1 DEF Proper
    <3>3. \A h \in Branches(f.lines, i, f.at) : h \in Nat
      BY <1>1, BranchesIn
    <3> QED BY <1>1, <2>1, <3>2, <3>3
  <2>3. last.taken <=> \E h \in Branches(f.lines, i, f.at) : h \in f.held
    BY <1>2, <2>2 DEF Judged
  <2> QED BY <1>1, <2>1, <2>3 DEF Judged
<1> QED BY <1>2, TurnBranch

\* A directive that is out of place: Proper no more, or in no chain at all.
LEMMA TurnMisplaced ==
    ASSUME NEW f, NEW g, Chained(f), OneOn(f, g), g.ifs = f.ifs,
           g.kept = f.kept,
           \/ f.lines[f.at].k \in {"elseif", "else", "endif"} /\ f.ifs = <<>>
           \/ /\ f.lines[f.at].k = "elseif" /\ f.ifs # <<>>
              /\ f.ifs[Len(f.ifs)].sawElse
    PROVE  Chained(g)
<1>1. Nested(f) /\ g.lines = f.lines /\ g.at = f.at + 1 /\ f.ifs \in Seq(Branch)
  BY DEF Chained, Nested, OneOn
<1>2. /\ DOMAIN f.ifs = 1..Len(f.ifs) /\ Len(f.ifs) \in Nat
      /\ f.ifs = <<>> <=> Len(f.ifs) = 0
      /\ Len(f.ifs) = Depth(f.lines, f.at) /\ f.at \in Nat \ {0}
      /\ \A i \in Openers(f.lines, f.at) :
            /\ Depth(f.lines, i) \in Nat
            /\ Depth(f.lines, i) + 1 \in 1..Len(f.ifs)
  BY <1>1, NestedType
<1>3. /\ Nested(g)
      /\ \A i : i \in Openers(g.lines, g.at) <=> i \in Openers(f.lines, f.at)
  BY <1>1, SameNest
<1>4. ASSUME Proper(g)
      PROVE  Told(g)
  <2>1. Told(f)
    BY <1>1, <1>4, ProperBefore DEF Chained
  <2>2. f.ifs = <<>>
    <3> SUFFICES ASSUME f.lines[f.at].k = "elseif", f.ifs # <<>>,
                        f.ifs[Len(f.ifs)].sawElse
                 PROVE  FALSE
      OBVIOUS
    <3>1. Len(f.ifs) \in DOMAIN f.ifs
      BY <1>2
    <3>2. PICK i \in Openers(f.lines, f.at) :
             Depth(f.lines, i) = Len(f.ifs) - 1
      BY <1>1, <3>1 DEF Nested
    <3>3. Depth(f.lines, i) + 1 = Len(f.ifs)
      BY <1>2, <3>2
    <3>4. Judged(f, i, f.ifs[Len(f.ifs)])
      BY <2>1, <3>3 DEF Told
    <3>5. PICK j \in Branches(f.lines, i, f.at) : f.lines[j].k = "else"
      BY <3>4 DEF Judged
    <3>6. /\ f.at \in Branches(g.lines, i, g.at)
          /\ j \in Branches(g.lines, i, g.at) /\ j < f.at
      BY <1>1, <1>2, <3>3, NewBranch
    <3>7. f.at \in 1..(g.at - 1) /\ j \in Nat
      BY <1>1, <1>2, BranchesIn
    <3>8. f.at <= j
      BY <1>1, <1>4, <3>5, <3>6, <3>7 DEF Proper
    <3> QED BY <1>2, <3>6, <3>7, <3>8
  <2>3. \A i : i \notin Openers(g.lines, g.at)
    BY <1>2, <1>3, <2>2
  <2>4. g.kept = Right(g)
    BY <1>1, <2>1, <2>2, RightSame DEF ChainKinds, Told
  <2> QED BY <2>3, <2>4 DEF Told
<1> QED BY <1>3, <1>4 DEF Chained

LEMMA NewChained ==
    ASSUME NEW f, f.at = 1, f.ifs = <<>>, f.held = {}, f.kept = {}
    PROVE  Chained(f)
<1>1. 1 \in Nat \ {0} /\ 1 - 1 = 0 /\ 1..0 = {}
  OBVIOUS
<1>2. Openers(f.lines, 1) = {}
  <2>1. \A i : i \notin Openers(f.lines, 1)
    BY <1>1, OpenersIn
  <2> QED BY <2>1
<1>3. <<>> \in Seq(Branch) /\ Len(<<>>) = 0 /\ DOMAIN <<>> = {}
  OBVIOUS
<1>4. Nested(f)
  BY <1>1, <1>3, DepthOne DEF Nested
<1>5. Right(f) = {}
  BY <1>1 DEF Right
<1> QED BY <1>2, <1>4, <1>5 DEF Chained, Told
-----------------------------------------------------------------------------
(* The right branch.                                                         *)

BranchInv == \A n \in DOMAIN stack : Chained(stack[n])

LEMMA GoesOn ==
    ASSUME TypeOK, AtLine, Chained(Top), NEW g, Goes(g)
    PROVE  Chained(g)
<1> DEFINE f == Top
           holds == Holds(Line.c)
           last == f.ifs[Len(f.ifs)]
           now == IF holds THEN f.held \cup {f.at} ELSE f.held
           turn == ~last.taken /\ holds
<1>1. /\ f \in Frames /\ g \in Frames /\ g.lines = f.lines /\ g.at = f.at + 1
      /\ Line = f.lines[f.at] /\ Chained(f) /\ Nested(f)
      /\ Turns(f, Line.k, holds, g)
  BY TopType DEF Goes, Line, Chained
<1>2. f.ifs \in Seq(Branch) /\ f.at \notin f.held
  BY <1>1 DEF Nested
<1>3. holds \in BOOLEAN
  BY Zenon DEF Holds
<1> HIDE DEF f, holds
<1>4. f.at \in now <=> holds
  BY <1>2
<1>5. f.ifs # <<>> => last \in Branch
  BY <1>2
<1>6. g.held = f.held \/ g.held = now => OneOn(f, g)
  BY <1>1 DEF OneOn
<1>7. CASE /\ Line.k \notin ChainKinds /\ g.ifs = f.ifs /\ g.held = f.held
           /\ g.kept = IF \A n \in DOMAIN f.ifs : f.ifs[n].active
                       THEN f.kept \cup {f.at} ELSE f.kept
  BY <1>1, <1>6, <1>7, TurnPlain
<1>8. CASE /\ g.kept = f.kept /\ Line.k = "if" /\ g.held = now
           /\ g.ifs = Append(f.ifs, [active |-> holds, taken |-> holds,
                                     sawElse |-> FALSE])
  <2> DEFINE b == [active |-> holds, taken |-> holds, sawElse |-> FALSE]
  <2>1. b \in Branch /\ b.active = holds /\ b.taken = holds /\ ~b.sawElse
    BY <1>3 DEF Branch
  <2> HIDE DEF now
  <2>2. g.ifs = Append(f.ifs, b)
    BY <1>8
  <2> HIDE DEF b
  <2> QED BY <1>1, <1>4, <1>6, <1>8, <2>1, <2>2, TurnIf
<1>9. CASE /\ g.kept = f.kept /\ Line.k = "elseif" /\ f.ifs # <<>>
           /\ ~last.sawElse /\ g.held = now
           /\ g.ifs = Turned([active |-> turn, taken |-> last.taken \/ turn,
                              sawElse |-> FALSE], f.ifs)
  <2> DEFINE b == [active |-> turn, taken |-> last.taken \/ turn,
                   sawElse |-> FALSE]
  <2>1. turn \in BOOLEAN /\ (last.taken \/ turn) \in BOOLEAN
    BY Zenon
  <2>2. turn <=> ~last.taken /\ f.at \in g.held
    BY <1>4, <1>9
  <2> HIDE DEF turn, now
  <2>3. /\ b \in Branch /\ b.active = turn /\ b.taken = (last.taken \/ turn)
        /\ ~b.sawElse
    BY <2>1 DEF Branch
  <2>4. g.ifs = [f.ifs EXCEPT ![Len(f.ifs)] = b]
    BY <1>9 DEF Turned
  <2>5. b.active <=> ~last.taken /\ f.at \in g.held
    BY <2>2, <2>3
  <2>6. b.taken <=> last.taken \/ b.active
    BY <2>3
  <2> HIDE DEF b, last
  <2>7. last = f.ifs[Len(f.ifs)]
    BY DEF last
  <2> QED BY <1>1, <1>6, <1>9, <2>3, <2>4, <2>5, <2>6, <2>7, TurnElseIf
<1>10. CASE /\ g.kept = f.kept /\ Line.k = "else" /\ f.ifs # <<>>
            /\ g.held = f.held
            /\ g.ifs = Turned([active |-> ~last.taken, taken |-> TRUE,
                               sawElse |-> TRUE], f.ifs)
  <2> DEFINE b == [active |-> ~last.taken, taken |-> TRUE, sawElse |-> TRUE]
  <2>1. b \in Branch /\ b.active = ~last.taken /\ b.taken /\ b.sawElse
    BY DEF Branch
  <2>2. g.ifs = [f.ifs EXCEPT ![Len(f.ifs)] = b]
    BY <1>10 DEF Turned
  <2> HIDE DEF b, last
  <2>3. last = f.ifs[Len(f.ifs)]
    BY DEF last
  <2>4. b.active <=> ~last.taken
    BY <2>1
  <2> QED BY <1>1, <1>6, <1>10, <2>1, <2>2, <2>3, <2>4, TurnElse
<1>11. CASE /\ g.kept = f.kept /\ Line.k = "endif" /\ f.ifs # <<>>
            /\ g.held = f.held /\ g.ifs = SubSeq(f.ifs, 1, Len(f.ifs) - 1)
  BY <1>1, <1>6, <1>11, TurnEndIf
<1>12. CASE /\ g.kept = f.kept /\ Line.k \in {"elseif", "else", "endif"}
            /\ g.held = f.held /\ g.ifs = f.ifs
            /\ \/ f.ifs = <<>>
               \/ Line.k = "elseif" /\ f.ifs # <<>> /\ last.sawElse
  BY <1>1, <1>6, <1>12, TurnMisplaced
<1> QED BY <1>1, <1>7, <1>8, <1>9, <1>10, <1>11, <1>12, Zenon DEF Turns

LEMMA BranchInit ==
    ASSUME Init
    PROVE  BranchInv
<1>1. stack = <<FrameOf(Main, text[Main], At(Main, 0), 0, 0)>>
  BY DEF Init, NewFrame, FrameOf
<1>2. /\ DOMAIN stack = {1} /\ stack[1].at = 1 /\ stack[1].ifs = <<>>
      /\ stack[1].held = {} /\ stack[1].kept = {}
  BY <1>1 DEF FrameOf
<1> QED BY <1>2, NewChained DEF BranchInv

LEMMA BranchReads ==
    ASSUME TypeOK, BranchInv, NEW g, Reads(g)
    PROVE  \A n \in DOMAIN stack : Chained(stack'[n])
<1>1. /\ AtLine /\ Goes(g) /\ stack'[Len(stack)] = g
      /\ \A k \in DOMAIN stack : k # Len(stack) => stack'[k] = stack[k]
  BY DEF Reads
<1>2. Chained(Top)
  BY TopType DEF BranchInv
<1>3. Chained(g)
  BY <1>1, <1>2, GoesOn
<1> QED BY <1>1, <1>3 DEF BranchInv

LEMMA BranchStep ==
    ASSUME TypeOK, BranchInv, Step
    PROVE  BranchInv'
<1>1. CASE LineDone
  <2>1. PICK g : Reads(g)
    BY <1>1, LineReads
  <2>2. DOMAIN stack' = DOMAIN stack
    BY <1>1, LineReads
  <2> QED BY <2>1, <2>2, BranchReads DEF BranchInv
<1>2. CASE Overflowed
  BY <1>2 DEF Overflowed, BranchInv
<1>3. CASE Left
  <2>1. /\ DOMAIN stack' \subseteq DOMAIN stack
        /\ \A k \in DOMAIN stack' : stack'[k] = stack[k]
    BY <1>3, LeaveStack DEF Left
  <2> QED BY <2>1 DEF BranchInv
<1>4. ASSUME NEW f, Enters(f), ever \subseteq ever'
      PROVE  BranchInv'
  <2>1. /\ Reads(Passed(Top))
        /\ DOMAIN stack' = DOMAIN stack \cup {Len(stack) + 1}
        /\ stack'[Len(stack) + 1] = f /\ f.at = 1 /\ f.ifs = <<>>
        /\ f.held = {} /\ f.kept = {}
    BY <1>4, CallReads
  <2>2. \A n \in DOMAIN stack : Chained(stack'[n])
    BY <2>1, BranchReads
  <2>3. Chained(f)
    BY <2>1, NewChained
  <2> QED BY <2>1, <2>2, <2>3 DEF BranchInv
<1>5. ASSUME NEW f, MacroEntered(f) PROVE BranchInv'
  BY <1>4, <1>5 DEF MacroEntered
<1>6. ASSUME NEW f, FileEntered(f) PROVE BranchInv'
  BY <1>4, <1>6 DEF FileEntered
<1> QED BY <1>1, <1>2, <1>3, <1>5, <1>6, StepIs

\* Exactly one branch of an #if chain is kept, the first whose condition held
\* when it was read or else the #else, however chains are nested, in every file
\* and every macro body, and whatever #elseif, #else or #endif stands where no
\* chain is open.
THEOREM RightBranchCorrect == Spec => []RightBranch
<1> DEFINE Inv == IInv /\ BranchInv
<1>1. Init => Inv
  BY TypeInit, StackInit, MapInit, BranchInit DEF IInv
<1>2. Inv /\ [Next]_vars => Inv'
  <2> SUFFICES ASSUME Inv, [Next]_vars PROVE Inv'
    OBVIOUS
  <2>1. IInv'
    BY IInvStep
  <2>2. CASE Step
    BY <2>1, <2>2, BranchStep DEF IInv
  <2>3. CASE UNCHANGED vars
    <3>1. stack' = stack
      BY <2>3 DEF vars
    <3> QED BY <2>1, <3>1 DEF BranchInv
  <2> QED BY <2>2, <2>3 DEF Next, Finished
<1>3. Inv => RightBranch
  BY DEF BranchInv, Chained, Told, Right, RightBranch
<1> HIDE DEF Inv
<1> QED BY <1>1, <1>2, <1>3, PTL DEF Spec
=============================================================================
