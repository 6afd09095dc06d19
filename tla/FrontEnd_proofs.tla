--------------------------- MODULE FrontEnd_proofs ---------------------------
(***************************************************************************)
(* Proofs about FrontEnd, for any program, any types and whatever is made  *)
(* of expressions.                                                         *)
(*                                                                         *)
(* The blocks being checked are numbered from the bottom of the stack: at  *)
(* level 1 the module, at the last one the block at hand.  Each is looked  *)
(* at with its view: the scope as it is in that block, which is the one    *)
(* put aside by the block above it, and for the last one the scope itself. *)
(* What a step of the walk does is one of a few things (Takes), and every  *)
(* invariant is proved for these.                                          *)
(***************************************************************************)
EXTENDS FrontEnd, SequenceTheorems, WellFoundedInduction, TLAPS

Level(w, d) == w[Len(w) + 1 - d]
View(s, w, d) == IF d = Len(w) THEN s ELSE Level(w, d + 1).saved

-----------------------------------------------------------------------------
(* The stack and its blocks. *)

IsScope(s) ==
    /\ s = [symbols |-> s.symbols, locals |-> s.locals, prefix |-> s.prefix, class |-> s.class,
            inProc |-> s.inProc, ret |-> s.ret, loops |-> s.loops, gosub |-> s.gosub]
    /\ s.loops \in Seq(LoopKinds)
    /\ s.prefix = <<>> \/ s.prefix = <<s.prefix[1]>>
    /\ s.inProc \in BOOLEAN /\ s.gosub \in BOOLEAN
    /\ ~s.inProc => s.locals = <<>>

\* What a block takes from the one around it.
Statics(s) == <<s.prefix, s.inProc, s.class, s.ret>>

IsTask(t) ==
    \/ t \in Statements
    \/ t.s \in {"arm", "round"} /\ t.body \in Seq(Statements)
    \/ t.s = "post"

IsFrame(f) ==
    /\ f = [todo |-> f.todo, top |-> f.top, ends |-> f.ends, saved |-> f.saved,
            key |-> f.key, st |-> f.st]
    /\ IsSeq(f.todo) /\ \A i \in DOMAIN f.todo : IsTask(f.todo[i])
    /\ f.ends \in {"module", "namespace", "block", "loop", "body", "instance"}
    /\ f.top = (f.ends \in {"module", "namespace"})
    /\ f.ends = "instance" => f.st \in Statements /\ f.st.s = "proc" /\ f.st.generic = None

\* A frame and the scope in it.
Linked(f, v) ==
    /\ f.top => v.loops = <<>> /\ ~v.inProc /\ v.class = None /\ v.ret = Unknown
    /\ f.ends = "module" => v.prefix = <<>>
    /\ f.ends = "namespace" => v.prefix # <<>> /\ f.saved.prefix = <<>>
    /\ f.ends = "block" => v.loops = f.saved.loops /\ Statics(v) = Statics(f.saved)
    /\ f.ends = "loop" => /\ \E k \in Breakable : v.loops = Append(f.saved.loops, k)
                          /\ Statics(v) = Statics(f.saved)
    /\ f.ends \in {"body", "instance"} =>
          /\ \E k \in {"Sub", "Function"} : v.loops = Append(f.saved.loops, k)
          /\ v.prefix = f.saved.prefix /\ v.inProc

StackInv ==
    /\ IsSeq(work) /\ work # <<>>
    /\ \A d \in 1..Len(work) :
          /\ IsFrame(Level(work, d)) /\ IsScope(View(scope, work, d))
          /\ Linked(Level(work, d), View(scope, work, d))
          /\ Level(work, d).ends = "module" <=> d = 1
          /\ Level(work, d).ends = "namespace" => d = 2

Bare(s) == s.loops = <<>> /\ s.prefix = <<>> /\ ~s.inProc /\ s.class = None /\ s.ret = Unknown

Collecting == {"collect", "collect types"}
TypeInv ==
    /\ module \in Programs /\ stage \in Stages
    /\ tables = [labels |-> T.labels, gosubs |-> T.gosubs, procs |-> T.procs,
                 generics |-> T.generics, structs |-> T.structs, ops |-> T.ops,
                 namespaces |-> T.namespaces]
    /\ stage # "collect" => T.labels = NamesOf(module, "label") /\ T.gosubs = NamesOf(module, "gosub")
    /\ \A k \in DOMAIN T.generics : /\ T.generics[k] \in Statements
                                    /\ T.generics[k].s = "proc" /\ T.generics[k].generic # None
    /\ IsScope(scope)
    /\ IsSeq(pending)
    /\ \A i \in DOMAIN pending : /\ pending[i].st \in Statements
                                 /\ pending[i].st.s = "proc" /\ pending[i].st.generic = None
    /\ stage \in Collecting => scope = EmptyScope /\ work = <<>> /\ pending = <<>>
    /\ stage = "check" => StackInv
    /\ stage \notin Collecting \cup {"check"} => work = <<>> /\ Bare(scope)

-----------------------------------------------------------------------------
(* What a step that takes the next statement does.                           *)

F == Head(work)
InSpace == F.ends = "namespace"

\* The text allows the statement where it stands, as far as Sema knows.
CtlOK ==
    ~InSpace =>
      /\ Now.s = "exit" => \E i \in DOMAIN S.loops : S.loops[i] = Now.what
      /\ Now.s = "yield" => Around = "Function" /\ IsGenerator(S.ret)
      /\ Now.s = "return" =>
            /\ Around # "none" \/ S.gosub
            /\ (Around = "Function" /\ ~IsGenerator(S.ret)) <=> Now.e # NoExpr
      /\ Now.s \in {"goto", "gosub", "label", "type", "ns"} => F.top
      /\ Now.s = "proc" => Now.generic # None \/ F.top

Clean(E) == E \cap ControlErrors = {}

\* The names a statement declares itself, and those of arrays.
OwnNames(st) == (IF st.s \in {"dim", "const"} THEN {st.x} ELSE {})
                \cup (IF st.s = "enum" THEN {st.members[j].x : j \in DOMAIN st.members} ELSE {})
OwnArrays(st) == IF st.s = "dim" /\ st.array THEN {st.x} ELSE {}
Good(k) == k \notin DOMAIN T.procs /\ k \notin {<<n>> : n \in DOMAIN T.structs}
GArr(s) == {k[Len(k)] : k \in {j \in DOMAIN s.symbols : s.symbols[j].array}}
LArr(s) == {k[Len(k)] : k \in {j \in DOMAIN s.locals : s.locals[j].array}}

IndexOK == ~InSpace /\ Indexes(Now) => lookupSymbol(S, Now.x).array
TargetOK == ~InSpace /\ Now.s \in {"goto", "gosub"} => Now.x \in T.labels
Effects ==
    /\ Busy
    /\ UNCHANGED <<module, tables, pending, stage, pos, open, arrays, out>>
    /\ diags \subseteq diags'
    /\ Clean(diags') <=> Clean(diags) /\ CtlOK
    /\ diags' = {} => IndexOK /\ TargetOK
    /\ scope'.gosub = IF ~InSpace /\ Now.s = "label" THEN Now.x \in T.gosubs ELSE S.gosub
    /\ S.inProc => scope'.symbols = S.symbols
    /\ ~S.inProc =>
          DOMAIN scope'.symbols =
            DOMAIN S.symbols \cup {k \in {qualifiedKey(S, x) : x \in OwnNames(Now)} : Good(k)}
    /\ GArr(scope') \subseteq GArr(S) \cup (IF S.inProc THEN {} ELSE OwnArrays(Now))
    /\ LArr(scope') \subseteq LArr(S) \cup OwnArrays(Now)
    /\ IsScope(scope')

\* What becomes of the blocks.
Plain(st) == \/ st.s \in Leaves \cup {"post"}
             \/ st.s = "proc" /\ ~InSpace /\ (st.generic # None \/ ~F.top)
             \/ st.s = "ns" /\ ~F.top
             \/ InSpace /\ st.s \notin InNamespace
LeafShape ==
    /\ work' = Rest /\ Plain(Now)
    /\ scope'.loops = S.loops /\ Statics(scope') = Statics(S)

BlockTasks(st, todo) ==
    \/ /\ st.s \in {"if", "select"} /\ IsSeq(todo) /\ Len(todo) = Len(Parts(st))
       /\ \A i \in DOMAIN todo : todo[i].s = "arm" /\ todo[i].body = Parts(st)[i]
       /\ st.s = "select" => \A i \in DOMAIN todo : todo[i].matches = st.arms[i].matches
    \/ st.s = "arm" /\ todo = st.body
    \/ st.s = "do" /\ todo = <<[s |-> "round", body |-> st.body], [s |-> "post", e |-> st.post]>>
LoopTask(st, kind) ==
    \/ st.s = "for" /\ kind = "For"
    \/ st.s = "while" /\ kind = "While"
    \/ st.s = "round" /\ kind = "Do"
BlockShape(todo) ==
    /\ work' = <<Frame(todo, FALSE, "block")>> \o Rest
    /\ ~InSpace /\ BlockTasks(Now, todo)
    /\ scope' = S
LoopShape(kind) ==
    /\ work' = <<Frame(Now.body, FALSE, "loop")>> \o Rest
    /\ ~InSpace /\ LoopTask(Now, kind)
    /\ scope' = [S EXCEPT !.loops = Append(@, kind)]
BodyRet(st) == IF st.fn THEN st.t ELSE IF st.async THEN Task(Null) ELSE Unknown
BodyShape ==
    /\ work' = <<Frame(Now.body, FALSE, "body")>> \o Rest
    /\ Now.s = "proc" /\ F.top /\ (InSpace \/ Now.generic = None)
    /\ scope' = Body(Now.params, BodyRet(Now), Now.owner, Now.fn)
SpaceShape ==
    /\ work' = <<Frame(Now.body, TRUE, "namespace")>> \o Rest
    /\ Now.s = "ns" /\ F.top /\ ~InSpace
    /\ scope' = [S EXCEPT !.prefix = Append(@, Now.x)]
Shape == \/ LeafShape \/ \E todo : BlockShape(todo) \/ \E kind \in Breakable : LoopShape(kind)
         \/ BodyShape \/ SpaceShape
Takes == Effects /\ Shape

-----------------------------------------------------------------------------
(* Sequences. *)

LEMMA ConsProps ==
    ASSUME NEW w, IsSeq(w), NEW f
    PROVE  /\ IsSeq(<<f>> \o w)
           /\ Len(<<f>> \o w) = Len(w) + 1
           /\ (<<f>> \o w)[1] = f
           /\ \A i \in 1..Len(w) : (<<f>> \o w)[i + 1] = w[i]
<1>1. w \in Seq({w[i] : i \in DOMAIN w} \cup {f})
  BY DEF IsSeq
<1>2. <<f>> \in Seq({w[i] : i \in DOMAIN w} \cup {f})
  OBVIOUS
<1> DEFINE q == <<f>> \o w
<1>3. q \in Seq({w[i] : i \in DOMAIN w} \cup {f}) /\ Len(q) = Len(w) + 1
  BY <1>1, <1>2
<1>4. q[1] = f /\ \A i \in 1..Len(w) : q[i + 1] = w[i]
  BY <1>1, <1>2
<1>5. q \in Seq({q[i] : i \in DOMAIN q})
  <2> HIDE DEF q
  <2> QED BY <1>3
<1> QED BY <1>3, <1>4, <1>5 DEF IsSeq

LEMMA TailProps ==
    ASSUME NEW w, IsSeq(w), w # <<>>
    PROVE  /\ IsSeq(Tail(w)) /\ Len(w) \in Nat /\ Len(w) > 0
           /\ Head(w) = w[1]
           /\ Len(Tail(w)) = Len(w) - 1
           /\ \A i \in 1..(Len(w) - 1) : Tail(w)[i] = w[i + 1]
<1> DEFINE q == Tail(w)
<1>1. w \in Seq({w[i] : i \in DOMAIN w})
  BY DEF IsSeq
<1>2. q \in Seq({w[i] : i \in DOMAIN w}) /\ Len(q) = Len(w) - 1 /\ Len(w) \in Nat /\ Len(w) > 0
      /\ Head(w) = w[1]
  BY <1>1
<1>3. \A i \in 1..(Len(w) - 1) : q[i] = w[i + 1]
  BY <1>1
<1>4. q \in Seq({q[i] : i \in DOMAIN q})
  <2> HIDE DEF q
  <2> QED BY <1>2
<1> QED BY <1>2, <1>3, <1>4 DEF IsSeq

LEMMA SeqOfMore ==
    ASSUME NEW A, NEW B, A \subseteq B, NEW q \in Seq(A)
    PROVE  q \in Seq(B)
OBVIOUS

LEMMA SeqIsSeq ==
    ASSUME NEW A, NEW q \in Seq(A)
    PROVE  IsSeq(q) /\ \A i \in DOMAIN q : q[i] \in A
BY DEF IsSeq

-----------------------------------------------------------------------------
(* The levels after the top frame is replaced, one is pushed, one popped.    *)

LEMMA Replaced ==
    ASSUME NEW w, IsSeq(w), w # <<>>, NEW g, g.saved = Head(w).saved
    PROVE  /\ IsSeq(<<g>> \o Tail(w)) /\ <<g>> \o Tail(w) # <<>>
           /\ Len(<<g>> \o Tail(w)) = Len(w) /\ Len(w) \in Nat /\ Len(w) > 0
           /\ Level(<<g>> \o Tail(w), Len(w)) = g /\ Level(w, Len(w)) = Head(w)
           /\ \A d \in 1..(Len(w) - 1) : Level(<<g>> \o Tail(w), d) = Level(w, d)
           /\ \A s : View(s, <<g>> \o Tail(w), Len(w)) = s
           /\ \A s, s0 : \A d \in 1..(Len(w) - 1) :
                 View(s, <<g>> \o Tail(w), d) = View(s0, w, d)
<1> DEFINE w2 == <<g>> \o Tail(w)
           n == Len(w)
           q == Tail(w)
<1>1. IsSeq(q) /\ n \in Nat /\ n > 0 /\ Len(q) = n - 1 /\ Head(w) = w[1]
      /\ \A i \in 1..(n - 1) : q[i] = w[i + 1]
  BY TailProps
<1>2. IsSeq(w2) /\ Len(w2) = n /\ w2[1] = g /\ \A i \in 1..(n - 1) : w2[i + 1] = w[i + 1]
  <2> HIDE DEF q, n
  <2>1. IsSeq(<<g>> \o q) /\ Len(<<g>> \o q) = n /\ (<<g>> \o q)[1] = g
        /\ \A i \in 1..(n - 1) : (<<g>> \o q)[i + 1] = w[i + 1]
    BY <1>1, ConsProps
  <2> QED BY <2>1 DEF q
<1> HIDE DEF w2, n
<1>3. w2 # <<>>
  BY <1>1, <1>2 DEF IsSeq
<1>5. Level(w2, n) = g /\ Level(w, n) = Head(w)
  BY <1>1, <1>2 DEF Level, n
<1>6. ASSUME NEW d \in 1..(n - 1) PROVE Level(w2, d) = Level(w, d)
  <2>1. n + 1 - d = (n - d) + 1 /\ n - d \in 1..(n - 1)
    BY <1>1
  <2>2. w2[(n - d) + 1] = w[(n - d) + 1]
    BY <1>2, <2>1
  <2> QED BY <1>2, <2>1, <2>2 DEF Level, n
<1>7. \A s : View(s, w2, n) = s
  BY <1>2 DEF View, n
<1>8. ASSUME NEW d \in 1..(n - 1), NEW s, NEW s0 PROVE View(s, w2, d) = View(s0, w, d)
  <2>1. d # n /\ d + 1 \in 1..n
    BY <1>1
  <2>2. View(s, w2, d) = Level(w2, d + 1).saved /\ View(s0, w, d) = Level(w, d + 1).saved
    BY <1>2, <2>1 DEF View, n
  <2>3. CASE d + 1 = n
    BY <1>5, <2>2, <2>3
  <2>4. CASE d + 1 # n
    BY <1>1, <1>6, <2>1, <2>2, <2>4
  <2> QED BY <2>3, <2>4
<1> QED BY <1>1, <1>2, <1>3, <1>5, <1>6, <1>7, <1>8 DEF w2, n

LEMMA Pushed ==
    ASSUME NEW w, IsSeq(w), w # <<>>, NEW g
    PROVE  /\ IsSeq(<<g>> \o w) /\ <<g>> \o w # <<>>
           /\ Len(<<g>> \o w) = Len(w) + 1 /\ Len(w) \in Nat /\ Len(w) > 0
           /\ Level(<<g>> \o w, Len(w) + 1) = g
           /\ \A s : View(s, <<g>> \o w, Len(w) + 1) = s
           /\ \A d \in 1..Len(w) : Level(<<g>> \o w, d) = Level(w, d)
           /\ \A s : \A d \in 1..Len(w) : View(s, <<g>> \o w, d) = View(g.saved, w, d)
<1> DEFINE w2 == <<g>> \o w
           n == Len(w)
<1>1. n \in Nat /\ n > 0
  BY TailProps
<1>2. IsSeq(w2) /\ Len(w2) = n + 1 /\ w2[1] = g /\ \A i \in 1..n : w2[i + 1] = w[i]
  BY ConsProps
<1> HIDE DEF w2, n
<1>3. w2 # <<>>
  BY <1>1, <1>2 DEF IsSeq
<1>4. Level(w2, n + 1) = g /\ \A s : View(s, w2, n + 1) = s
  BY <1>1, <1>2 DEF Level, View
<1>5. ASSUME NEW d \in 1..n PROVE Level(w2, d) = Level(w, d)
  <2>1. n + 2 - d = (n + 1 - d) + 1 /\ n + 1 - d \in 1..n
    BY <1>1
  <2> QED BY <1>1, <1>2, <2>1 DEF Level, n
<1>6. ASSUME NEW d \in 1..n, NEW s PROVE View(s, w2, d) = View(g.saved, w, d)
  <2>1. CASE d = n
    BY <1>1, <1>2, <1>4, <2>1 DEF View, n
  <2>2. CASE d # n
    BY <1>1, <1>2, <1>5, <2>2 DEF View, n
  <2> QED BY <2>1, <2>2
<1> QED BY <1>1, <1>2, <1>3, <1>4, <1>5, <1>6 DEF w2, n

LEMMA Popped ==
    ASSUME NEW w, IsSeq(w), w # <<>>
    PROVE  /\ IsSeq(Tail(w)) /\ Len(Tail(w)) = Len(w) - 1 /\ Len(w) \in Nat /\ Len(w) > 0
           /\ Level(w, Len(w)) = Head(w) /\ \A s : View(s, w, Len(w)) = s
           /\ Len(w) > 1 => /\ Tail(w) # <<>>
                            /\ \A s : /\ View(s, Tail(w), Len(w) - 1) = s
                                      /\ View(s, w, Len(w) - 1) = Head(w).saved
           /\ Len(w) = 1 => Tail(w) = <<>>
           /\ \A d \in 1..(Len(w) - 1) : Level(Tail(w), d) = Level(w, d)
           /\ \A s, s0 : \A d \in 1..(Len(w) - 2) : View(s, Tail(w), d) = View(s0, w, d)
<1> DEFINE w2 == Tail(w)
           n == Len(w)
<1>1. IsSeq(w2) /\ n \in Nat /\ n > 0 /\ Len(w2) = n - 1 /\ Head(w) = w[1]
      /\ \A i \in 1..(n - 1) : w2[i] = w[i + 1]
  BY TailProps
<1> HIDE DEF w2, n
<1>2. Level(w, n) = Head(w) /\ \A s : View(s, w, n) = s
  BY <1>1 DEF Level, View, n
<1>3. ASSUME NEW d \in 1..(n - 1) PROVE Level(w2, d) = Level(w, d)
  <2>1. n + 1 - d = (n - d) + 1 /\ n - d \in 1..(n - 1)
    BY <1>1
  <2> QED BY <1>1, <2>1 DEF Level, n
<1>4. n > 1 => w2 # <<>> /\ \A s : View(s, w2, n - 1) = s /\ View(s, w, n - 1) = Head(w).saved
  BY <1>1, <1>2 DEF View, n, IsSeq
<1>5. n = 1 => w2 = <<>>
  BY <1>1 DEF IsSeq
<1>6. ASSUME NEW d \in 1..(n - 2), NEW s, NEW s0 PROVE View(s, w2, d) = View(s0, w, d)
  BY <1>1, <1>3 DEF View, n
<1> QED BY <1>1, <1>2, <1>3, <1>4, <1>5, <1>6 DEF w2, n

-----------------------------------------------------------------------------
(* Errors that are not about control.                                        *)

LEMMA HarmlessErrors ==
    /\ \A ok : /\ Clean(Check(ok, "expression")) /\ Clean(Check(ok, "type mismatch"))
               /\ Clean(Check(ok, "condition type")) /\ Clean(Check(ok, "bound type"))
               /\ Clean(Check(ok, "index type")) /\ Clean(Check(ok, "CASE type"))
    /\ \A r : Clean(Faulty(r)) /\ \A t : Clean(Fits(t, r))
    /\ \A e, r : Clean(checkCondition(e, r))
    /\ \A rs : Clean(WholeNumbers(rs, "bound type")) /\ Clean(WholeNumbers(rs, "index type"))
    /\ Clean(AllErrors)
    /\ \A A, B : Clean(A \cup B) <=> Clean(A) /\ Clean(B)
    /\ Clean({})
<1>1. \A ok : /\ Clean(Check(ok, "expression")) /\ Clean(Check(ok, "type mismatch"))
              /\ Clean(Check(ok, "condition type")) /\ Clean(Check(ok, "bound type"))
              /\ Clean(Check(ok, "index type")) /\ Clean(Check(ok, "CASE type"))
  BY DEF Clean, Check, ControlErrors
<1>2. \A r : Clean(Faulty(r)) /\ \A t : Clean(Fits(t, r))
  BY <1>1 DEF Faulty, Fits
<1>3. \A A, B : Clean(A \cup B) <=> Clean(A) /\ Clean(B)
  BY DEF Clean
<1>4. \A e, r : Clean(checkCondition(e, r))
  BY <1>1, <1>2, <1>3 DEF checkCondition, Clean
<1>5. ASSUME NEW rs
      PROVE  Clean(WholeNumbers(rs, "bound type")) /\ Clean(WholeNumbers(rs, "index type"))
  <2>1. \A i : /\ Clean(Faulty(rs[i]) \cup Check(isIntegerFamily(rs[i].t), "bound type"))
               /\ Clean(Faulty(rs[i]) \cup Check(isIntegerFamily(rs[i].t), "index type"))
    BY <1>1, <1>2, <1>3
  <2> QED BY <2>1 DEF WholeNumbers, Clean
<1>6. Clean(AllErrors)
  BY <1>2 DEF AllErrors, Clean
<1>7. Clean({})
  BY DEF Clean
<1> QED BY <1>1, <1>2, <1>3, <1>4, <1>5, <1>6, <1>7

-----------------------------------------------------------------------------
(* The statement at hand, and the stack after a step that takes it.          *)

LEMMA NowFacts ==
    ASSUME TypeInv, Busy
    PROVE  /\ stage = "check" /\ StackInv /\ Len(work) \in Nat /\ Len(work) > 0
           /\ Level(work, Len(work)) = F /\ View(scope, work, Len(work)) = scope
           /\ IsFrame(F) /\ IsScope(scope) /\ Linked(F, scope)
           /\ IsSeq(F.todo) /\ F.todo # <<>> /\ Now = F.todo[1] /\ IsTask(Now)
           /\ (F.ends = "module") = (Len(work) = 1) /\ (InSpace => Len(work) = 2)
<1>1. stage = "check" /\ work # <<>> /\ F.todo # <<>> /\ Now = Head(F.todo)
  BY DEF Busy, F, Now
<1>2. StackInv /\ IsSeq(work)
  BY <1>1 DEF TypeInv, StackInv
<1> DEFINE n == Len(work)
<1>3. n \in Nat /\ n > 0 /\ Level(work, n) = F /\ View(scope, work, n) = scope
  BY <1>1, <1>2, Popped DEF F
<1> HIDE DEF n
<1>4. n \in 1..n
  BY <1>3
<1>5. IsFrame(F) /\ IsScope(scope) /\ Linked(F, scope) /\ (F.ends = "module") = (n = 1)
      /\ (F.ends = "namespace" => n = 2)
  BY <1>2, <1>3, <1>4 DEF StackInv, n
<1>6. IsSeq(F.todo) /\ Now = F.todo[1] /\ IsTask(Now)
  <2>1. IsSeq(F.todo) /\ \A i \in DOMAIN F.todo : IsTask(F.todo[i])
    BY <1>5 DEF IsFrame
  <2>2. F.todo \in Seq({F.todo[i] : i \in DOMAIN F.todo})
    BY <2>1 DEF IsSeq
  <2>3. 1 \in DOMAIN F.todo /\ Head(F.todo) = F.todo[1]
    BY <1>1, <2>2
  <2> QED BY <1>1, <2>1, <2>3
<1> QED BY <1>1, <1>2, <1>3, <1>5, <1>6 DEF n, InSpace

\* A statement is done, and the scope is as it was.
LEMMA DoneTakes ==
    ASSUME TypeInv, Busy, NEW errs, Done(errs, S), UNCHANGED codegenVars,
           Clean(errs) <=> CtlOK, errs = {} => IndexOK /\ TargetOK,
           ~InSpace => Now.s # "label", Plain(Now),
           \A x \in OwnNames(Now) : Taken(T, S, x)
    PROVE  Takes
<1>1. /\ diags' = diags \cup errs /\ scope' = scope /\ work' = Rest
      /\ UNCHANGED <<module, tables, values, pending, stage, pos, open, arrays, out>>
  BY DEF Done, codegenVars, S
<1>2. Clean(diags') <=> Clean(diags) /\ CtlOK
  BY <1>1 DEF Clean
<1>3. diags \subseteq diags' /\ (diags' = {} => IndexOK /\ TargetOK)
  BY <1>1
<1>4. ~S.inProc =>
        DOMAIN S.symbols = DOMAIN S.symbols \cup {k \in {qualifiedKey(S, x) : x \in OwnNames(Now)} : Good(k)}
  BY DEF Taken, Good, ScopeKey
<1>5. IsScope(scope)
  BY NowFacts
<1>6. Effects
  BY <1>1, <1>2, <1>3, <1>4, <1>5 DEF Effects, S
<1>7. LeafShape
  BY <1>1 DEF LeafShape, S
<1> QED BY <1>6, <1>7 DEF Takes, Shape

LEMMA AtFacts ==
    ASSUME NEW kind, At(kind)
    PROVE  /\ Busy /\ Now.s = kind /\ (InSpace => kind \in InNamespace)
           /\ kind = "proc" /\ ~InSpace => Now.generic = None
BY DEF At, Turn, Skipped, Stray, InSpace, F

LEMMA RedimTakes == ASSUME TypeInv, Step(Redim) PROVE Takes
<1>0. At("redim")
  BY DEF Step, Redim
<1>1. Busy /\ Now.s = "redim" /\ ~InSpace
  BY <1>0, AtFacts DEF InNamespace
<1> DEFINE var == lookupSymbol(S, Now.x)
           errs == IF var = NoSymbol THEN {"not declared"}
                   ELSE IF ~var.array THEN {"not an array"}
                   ELSE Check(var.dynamic, "fixed array")
                        \cup Check(Now.t # Unknown => Assignable(T.structs, Now.t, var.t),
                                   "type mismatch")
                        \cup WholeNumbers(judged.of, "bound type")
<1>2. Done(errs, S) /\ UNCHANGED codegenVars
  BY DEF Step, Redim
<1>3. Clean(errs)
  <2>1. Clean({"not declared"}) /\ Clean({"not an array"}) /\ \A ok : Clean(Check(ok, "fixed array"))
    BY DEF Clean, Check, ControlErrors
  <2>2. Clean(WholeNumbers(judged.of, "bound type"))
    BY HarmlessErrors
  <2>3. Clean(Check(Now.t # Unknown => Assignable(T.structs, Now.t, var.t), "type mismatch"))
    BY HarmlessErrors
  <2>4. \A A, B : Clean(A \cup B) <=> Clean(A) /\ Clean(B)
    BY HarmlessErrors
  <2> QED BY <2>1, <2>2, <2>3, <2>4
<1>4. CtlOK /\ OwnNames(Now) = {} /\ Plain(Now)
  BY <1>1 DEF CtlOK, OwnNames, Plain, Leaves
<1>5. errs = {} => IndexOK /\ TargetOK
  <2>1. NoSymbol.array = FALSE
    BY DEF NoSymbol
  <2> QED BY <1>1, <2>1 DEF IndexOK, TargetOK
<1> HIDE DEF errs
<1> QED BY <1>1, <1>2, <1>3, <1>4, <1>5, DoneTakes

LEMMA AssignTakes == ASSUME TypeInv, Step(Assign) PROVE Takes
<1>0. At("assign")
  BY DEF Step, Assign
<1>1. Busy /\ Now.s = "assign" /\ ~InSpace
  BY <1>0, AtFacts DEF InNamespace
<1> DEFINE var == lookupSymbol(S, Now.x)
           field == FieldOf(T.structs, S.class, Now.x)
           errs == IF var = NoSymbol
                   THEN IF Now.index = NoExpr /\ IsField(Now.x)
                        THEN Faulty(It(2)) \cup Fits(field, It(2)) ELSE {"not declared"}
                   ELSE IF var.const THEN {"constant"}
                   ELSE (IF Now.index # NoExpr
                         THEN Check(var.array, "not an array") \cup WholeNumbers(<<It(1)>>, "index type")
                         ELSE Check(~var.array, "array without index"))
                        \cup Faulty(It(2)) \cup Fits(var.t, It(2))
<1>2. Done(errs, S) /\ UNCHANGED codegenVars
  BY DEF Step, Assign
<1> HIDE DEF field
<1>3. Clean(errs)
  <2>1. Clean({"not declared"}) /\ Clean({"constant"}) 
        /\ \A ok : Clean(Check(ok, "not an array")) /\ Clean(Check(ok, "array without index"))
    BY DEF Clean, Check, ControlErrors
  <2>2. Clean(WholeNumbers(<<It(1)>>, "index type"))
    BY HarmlessErrors
  <2>3. Clean(Faulty(It(2))) /\ Clean(Fits(field, It(2))) /\ Clean(Fits(var.t, It(2)))
    BY HarmlessErrors
  <2>4. \A A, B : Clean(A \cup B) <=> Clean(A) /\ Clean(B)
    BY HarmlessErrors
  <2> QED BY <2>1, <2>2, <2>3, <2>4
<1>4. CtlOK /\ OwnNames(Now) = {} /\ Plain(Now)
  BY <1>1 DEF CtlOK, OwnNames, Plain, Leaves
<1>5. errs = {} => IndexOK /\ TargetOK
  <2> HIDE DEF var
  <2>1. Indexes(Now) => Now.index # NoExpr
    BY <1>1 DEF Indexes
  <2>2. Check(var.array, "not an array") = {} => var.array
    BY DEF Check
  <2>3. errs = {} /\ Indexes(Now) => var.array
    BY <2>1, <2>2
  <2> QED BY <1>1, <2>3 DEF IndexOK, TargetOK, var
<1> HIDE DEF errs
<1> QED BY <1>1, <1>2, <1>3, <1>4, <1>5, DoneTakes

\* The statements of which only expressions are checked.
LEMMA PlainTakes ==
    ASSUME TypeInv, Step(Store) \/ Step(ReturnAssign) \/ Step(PrintStmt) \/ Step(CallStmt)
                    \/ Step(LoopUntil)
    PROVE  Takes
<1> DEFINE kinds == {"store", "retassign", "print", "call", "post"}
<1>1. PICK errs : Done(errs, S) /\ Clean(errs)
  <2>0. \A A, B : Clean(A \cup B) <=> Clean(A) /\ Clean(B)
    BY HarmlessErrors
  <2>1. CASE Step(Store)
    <3>1. Clean(AllErrors \cup Fits(It(1).t, It(2)))
      BY <2>0, HarmlessErrors
    <3> QED BY <2>1, <3>1 DEF Step, Store
  <2>2. CASE Step(ReturnAssign)
    <3>1. Clean(Fits(S.ret, It(1))) /\ Clean({"Async assigns its name"}) /\ Clean(AllErrors)
      BY HarmlessErrors DEF Clean, ControlErrors
    <3>2. Clean(AllErrors \cup (IF S.ret.k = "Coroutine" THEN {"Async assigns its name"}
                                ELSE Fits(S.ret, It(1))))
      BY <2>0, <3>1
    <3> QED BY <2>2, <3>2 DEF Step, ReturnAssign
  <2>3. CASE Step(PrintStmt) \/ Step(CallStmt)
    BY <2>3, HarmlessErrors DEF Step, PrintStmt, CallStmt
  <2>4. CASE Step(LoopUntil)
    <3>1. Clean(checkCondition(Now.e, It(1)))
      BY HarmlessErrors
    <3> QED BY <2>4, <3>1 DEF Step, LoopUntil
  <2> QED BY <2>1, <2>2, <2>3, <2>4
<1>2. \E kind \in kinds : At(kind)
  BY DEF Step, Store, ReturnAssign, PrintStmt, CallStmt, LoopUntil
<1>3. Busy /\ Now.s \in kinds /\ ~InSpace
  BY <1>2, AtFacts DEF InNamespace
<1>4. CtlOK /\ OwnNames(Now) = {} /\ Plain(Now) /\ IndexOK /\ TargetOK
  BY <1>3 DEF CtlOK, OwnNames, Plain, Leaves, IndexOK, TargetOK, Indexes
<1>5. UNCHANGED codegenVars
  BY DEF Step
<1> QED BY <1>1, <1>3, <1>4, <1>5, DoneTakes

LEMMA JumpTakes == ASSUME TypeInv, Step(Goto) \/ Step(GoSub) PROVE Takes
<1>1. PICK kind \in {"goto", "gosub"}, what \in {"GOTO nested", "GOSUB nested"} :
         At(kind) /\ Done(Check(Top, what) \cup Check(Now.x \in T.labels, "no label"), S)
  BY DEF Step, Goto, GoSub
<1>2. Busy /\ Now.s = kind /\ ~InSpace
  BY <1>1, AtFacts DEF InNamespace
<1> DEFINE errs == Check(Top, what) \cup Check(Now.x \in T.labels, "no label")
<1>3. Clean(errs) <=> F.top
  <2>1. Clean(Check(Top, what)) <=> F.top
    BY DEF Clean, Check, ControlErrors, Top, F
  <2>2. Clean(Check(Now.x \in T.labels, "no label"))
    BY DEF Clean, Check, ControlErrors
  <2> QED BY <2>1, <2>2, HarmlessErrors
<1>4. CtlOK <=> F.top
  BY <1>2 DEF CtlOK
<1>5. OwnNames(Now) = {} /\ Plain(Now) /\ IndexOK
  BY <1>2 DEF OwnNames, Plain, Leaves, IndexOK, Indexes
<1>6. errs = {} => TargetOK
  BY DEF TargetOK, Check
<1>7. Done(errs, S) /\ UNCHANGED codegenVars
  BY <1>1 DEF Step
<1>8. Now.s # "label"
  BY <1>2
<1> HIDE DEF errs
<1> QED BY <1>2, <1>3, <1>4, <1>5, <1>6, <1>7, <1>8, DoneTakes

LEMMA ExitTakes == ASSUME TypeInv, Step(ExitLoop) PROVE Takes
<1>0. At("exit")
  BY DEF Step, ExitLoop
<1>1. Busy /\ Now.s = "exit" /\ ~InSpace
  BY <1>0, AtFacts DEF InNamespace
<1> DEFINE ok == \E i \in DOMAIN S.loops : S.loops[i] = Now.what
           errs == Check(ok, "EXIT outside")
<1>2. Done(errs, S) /\ UNCHANGED codegenVars
  BY DEF Step, ExitLoop
<1>3. CtlOK <=> ok
  BY <1>1 DEF CtlOK
<1> HIDE DEF ok
<1>4. Clean(errs) <=> ok
  BY DEF Clean, Check, ControlErrors
<1>5. OwnNames(Now) = {} /\ Plain(Now) /\ IndexOK /\ TargetOK /\ Now.s # "label"
  BY <1>1 DEF OwnNames, Plain, Leaves, IndexOK, Indexes, TargetOK
<1> HIDE DEF errs
<1> QED BY <1>1, <1>2, <1>3, <1>4, <1>5, DoneTakes

LEMMA ReturnTakes == ASSUME TypeInv, Step(Return) PROVE Takes
<1>0. At("return")
  BY DEF Step, Return
<1>1. Busy /\ Now.s = "return" /\ ~InSpace
  BY <1>0, AtFacts DEF InNamespace
<1> DEFINE fits == AllErrors \cup Fits(Given(S.ret), It(1))
           errs == IF Around = "none" /\ ~S.gosub THEN {"RETURN outside"} \cup AllErrors
                   ELSE IF Around # "Function" \/ IsGenerator(S.ret)
                   THEN Check(Now.e = NoExpr, "RETURN a value")
                   ELSE IF Now.e = NoExpr THEN {"RETURN no value"}
                   ELSE fits
<1>2. Done(errs, S) /\ UNCHANGED codegenVars
  BY DEF Step, Return
<1>3. CtlOK <=> /\ Around # "none" \/ S.gosub
                /\ (Around = "Function" /\ ~IsGenerator(S.ret)) <=> Now.e # NoExpr
  BY <1>1 DEF CtlOK
<1>4. Clean(errs) <=> CtlOK
  <2>1. Clean(fits) /\ ~Clean({"RETURN outside"} \cup AllErrors) /\ ~Clean({"RETURN no value"})
    BY HarmlessErrors DEF Clean, ControlErrors
  <2>2. Clean(Check(Now.e = NoExpr, "RETURN a value")) <=> Now.e = NoExpr
    BY DEF Clean, Check, ControlErrors
  <2> HIDE DEF fits
  <2> QED BY <1>3, <2>1, <2>2
<1>5. OwnNames(Now) = {} /\ Plain(Now) /\ IndexOK /\ TargetOK /\ Now.s # "label"
  BY <1>1 DEF OwnNames, Plain, Leaves, IndexOK, Indexes, TargetOK
<1> HIDE DEF errs
<1> QED BY <1>1, <1>2, <1>4, <1>5, DoneTakes

LEMMA YieldTakes == ASSUME TypeInv, Step(Yield) PROVE Takes
<1>0. At("yield")
  BY DEF Step, Yield
<1>1. Busy /\ Now.s = "yield" /\ ~InSpace
  BY <1>0, AtFacts DEF InNamespace
<1> DEFINE ok == Around = "Function" /\ IsGenerator(S.ret)
           errs == AllErrors \cup (IF ok THEN Fits(Given(S.ret), It(1)) ELSE {"YIELD outside"})
<1>2. Done(errs, S) /\ UNCHANGED codegenVars
  BY DEF Step, Yield
<1>3. CtlOK <=> ok
  BY <1>1 DEF CtlOK
<1> HIDE DEF ok
<1>4. Clean(errs) <=> ok
  <2>1. Clean(AllErrors) /\ Clean(Fits(Given(S.ret), It(1))) /\ ~Clean({"YIELD outside"})
        /\ \A A, B : Clean(A \cup B) <=> Clean(A) /\ Clean(B)
    BY HarmlessErrors DEF Clean, ControlErrors
  <2> QED BY <2>1
<1>5. OwnNames(Now) = {} /\ Plain(Now) /\ IndexOK /\ TargetOK /\ Now.s # "label"
  BY <1>1 DEF OwnNames, Plain, Leaves, IndexOK, Indexes, TargetOK
<1> HIDE DEF errs
<1> QED BY <1>1, <1>2, <1>3, <1>4, <1>5, DoneTakes

LEMMA DeclTakes ==
    ASSUME TypeInv, Step(TypeDecl) \/ Step(StrayMember) \/ Step(SkipGeneric)
    PROVE  Takes
<1>1. CASE Step(TypeDecl)
  <2>a. At("type")
    BY <1>1 DEF Step, TypeDecl
  <2>0. Done(Check(Top, "TYPE nested"), S) /\ UNCHANGED codegenVars
    BY <1>1 DEF Step, TypeDecl
  <2>1. Busy /\ Now.s = "type" /\ ~InSpace
    BY <2>a, AtFacts DEF InNamespace
  <2>2. Clean(Check(Top, "TYPE nested")) <=> CtlOK
    BY <2>1 DEF Clean, Check, ControlErrors, Top, F, CtlOK
  <2>3. OwnNames(Now) = {} /\ Plain(Now) /\ IndexOK /\ TargetOK /\ Now.s # "label"
    BY <2>1 DEF OwnNames, Plain, Leaves, IndexOK, Indexes, TargetOK
  <2> QED BY <2>0, <2>1, <2>2, <2>3, DoneTakes
<1>2. CASE Step(StrayMember)
  <2>1. Busy /\ Now.s \notin InNamespace /\ InSpace /\ Done({"namespace member"}, S)
        /\ UNCHANGED codegenVars
    BY <1>2 DEF Step, StrayMember, Stray, InSpace, F
  <2>2. Clean({"namespace member"}) /\ CtlOK
    BY <2>1 DEF Clean, ControlErrors, CtlOK
  <2>3. OwnNames(Now) = {} /\ Plain(Now) /\ IndexOK /\ TargetOK
    BY <2>1 DEF OwnNames, Plain, InNamespace, IndexOK, TargetOK
  <2> QED BY <2>1, <2>2, <2>3, DoneTakes
<1>3. CASE Step(SkipGeneric)
  <2>1. Busy /\ Now.s = "proc" /\ Now.generic # None /\ ~InSpace /\ Done({}, S)
        /\ UNCHANGED codegenVars
    BY <1>3 DEF Step, SkipGeneric, Skipped, InSpace, F
  <2>2. Clean({}) /\ CtlOK
    BY <2>1 DEF Clean, CtlOK
  <2>3. OwnNames(Now) = {} /\ Plain(Now) /\ IndexOK /\ TargetOK /\ Now.s # "label"
    BY <2>1 DEF OwnNames, Plain, IndexOK, Indexes, TargetOK
  <2> QED BY <2>1, <2>2, <2>3, DoneTakes
<1> QED BY <1>1, <1>2, <1>3

LEMMA LabelTakes == ASSUME TypeInv, Step(Label) PROVE Takes
<1>a. At("label")
  BY DEF Step, Label
<1>0. /\ UNCHANGED codegenVars
      /\ Done(Check(Top, "label nested"), [S EXCEPT !.gosub = Now.x \in T.gosubs])
  BY DEF Step, Label
<1>1. Busy /\ Now.s = "label" /\ ~InSpace
  BY <1>a, AtFacts DEF InNamespace
<1>2. IsScope(S)
  BY <1>1, NowFacts DEF S
<1> DEFINE s == [S EXCEPT !.gosub = Now.x \in T.gosubs]
<1>3. /\ s.gosub = (Now.x \in T.gosubs) /\ s.symbols = S.symbols /\ s.locals = S.locals
      /\ s.loops = S.loops /\ s.prefix = S.prefix /\ s.inProc = S.inProc
      /\ s.class = S.class /\ s.ret = S.ret
      /\ s = [symbols |-> s.symbols, locals |-> s.locals, prefix |-> s.prefix, class |-> s.class,
              inProc |-> s.inProc, ret |-> s.ret, loops |-> s.loops, gosub |-> s.gosub]
  BY <1>2 DEF IsScope
<1>4. /\ diags' = diags \cup Check(Top, "label nested") /\ scope' = s /\ work' = Rest
      /\ UNCHANGED <<module, tables, values, pending, stage, pos, open, arrays, out>>
  BY <1>0 DEF Done, codegenVars
<1> HIDE DEF s
<1>5. IsScope(s)
  BY <1>2, <1>3 DEF IsScope
<1>6. GArr(s) = GArr(S) /\ LArr(s) = LArr(S) /\ Statics(s) = Statics(S)
  BY <1>3 DEF GArr, LArr, Statics
<1>7. Clean(Check(Top, "label nested")) <=> CtlOK
  BY <1>1 DEF Clean, Check, ControlErrors, Top, F, CtlOK
<1>8. Clean(diags') <=> Clean(diags) /\ CtlOK
  BY <1>4, <1>7, HarmlessErrors
<1>9. OwnNames(Now) = {} /\ Plain(Now) /\ IndexOK /\ TargetOK
  BY <1>1 DEF OwnNames, Plain, Leaves, IndexOK, Indexes, TargetOK
<1>10. DOMAIN S.symbols = DOMAIN S.symbols \cup {k \in {qualifiedKey(S, x) : x \in OwnNames(Now)} : Good(k)}
  BY <1>9
<1>11. Effects
  BY <1>1, <1>3, <1>4, <1>5, <1>6, <1>8, <1>9, <1>10 DEF Effects
<1> QED BY <1>3, <1>4, <1>6, <1>9, <1>11 DEF Takes, Shape, LeafShape

\* A statement is done, and a block of its own is entered.
LEMMA EnterTakes ==
    ASSUME TypeInv, Busy, NEW errs, NEW s, NEW frame, Enter(errs, s, frame), UNCHANGED codegenVars,
           Clean(errs), CtlOK, OwnNames(Now) = {}, ~Indexes(Now),
           Now.s \notin {"label", "goto", "gosub"},
           IsScope(s), s.symbols = S.symbols, s.gosub = S.gosub, LArr(s) \subseteq LArr(S)
    PROVE  Effects /\ work' = <<frame>> \o Rest /\ scope' = s
<1>1. /\ diags' = diags \cup errs /\ scope' = s /\ work' = <<frame>> \o Rest
      /\ UNCHANGED <<module, tables, values, pending, stage, pos, open, arrays, out>>
  BY DEF Enter, codegenVars
<1>2. Clean(diags') <=> Clean(diags) /\ CtlOK
  BY <1>1, HarmlessErrors
<1>3. DOMAIN S.symbols = DOMAIN S.symbols \cup {k \in {qualifiedKey(S, x) : x \in OwnNames(Now)} : Good(k)}
  OBVIOUS
<1>4. GArr(s) = GArr(S)
  BY DEF GArr
<1>5. IndexOK /\ TargetOK
  BY DEF IndexOK, TargetOK
<1> QED BY <1>1, <1>2, <1>3, <1>4, <1>5 DEF Effects

LEMMA TaskStatement ==
    ASSUME NEW t, IsTask(t)
    PROVE  /\ t.s \notin {"arm", "round", "post"} => t \in Statements /\ WellFormed(t)
           /\ t.s \in {"arm", "round"} => t.body \in Seq(Statements)
<1>1. t \in Statements => WellFormed(t)
  BY StatementsAssumption
<1>2. WellFormed(t) => t.s \notin {"arm", "round", "post"}
  BY DEF WellFormed, Leaves, Nests
<1> QED BY <1>1, <1>2 DEF IsTask

\* What is in a statement, as sequences.
LEMMA PartsType ==
    ASSUME NEW st \in Statements
    PROVE  /\ Parts(st) \in Seq(Seq(Statements))
           /\ st.s \in {"if", "select"} =>
                 \A todo : /\ DOMAIN todo = DOMAIN (IF st.s = "if" THEN st.blocks ELSE st.arms)
                           /\ todo = [i \in DOMAIN todo |-> todo[i]]
                           => IsSeq(todo) /\ Len(todo) = Len(Parts(st))
<1>1. WellFormed(st)
  BY StatementsAssumption
<1>2. CASE st.s = "if"
  <2>1. Parts(st) = st.blocks /\ st.blocks \in Seq(Seq(Statements))
    BY <1>1, <1>2 DEF Parts, WellFormed
  <2>2. DOMAIN st.blocks = 1..Len(st.blocks) /\ Len(st.blocks) \in Nat
    BY <2>1
  <2>3. ASSUME NEW todo, DOMAIN todo = DOMAIN st.blocks, todo = [i \in DOMAIN todo |-> todo[i]]
        PROVE  IsSeq(todo) /\ Len(todo) = Len(st.blocks)
    <3>1. DOMAIN todo = 1..Len(st.blocks)
      BY <2>2, <2>3
    <3>2. todo \in Seq({todo[i] : i \in DOMAIN todo})
      BY <2>2, <2>3, <3>1, IsASeq
    <3> QED BY <2>2, <3>1, <3>2, LenProperties DEF IsSeq
  <2> QED BY <1>2, <2>1, <2>3
<1>3. CASE st.s = "select"
  <2>1. Parts(st) = [i \in DOMAIN st.arms |-> st.arms[i].body] /\ IsSeq(st.arms)
        /\ \A i \in DOMAIN st.arms : st.arms[i].body \in Seq(Statements)
    BY <1>1, <1>3 DEF Parts, WellFormed
  <2>2. st.arms \in Seq({st.arms[i] : i \in DOMAIN st.arms})
    BY <2>1 DEF IsSeq
  <2>3. DOMAIN st.arms = 1..Len(st.arms) /\ Len(st.arms) \in Nat
    BY <2>2
  <2>4. Parts(st) \in Seq(Seq(Statements)) /\ Len(Parts(st)) = Len(st.arms)
    BY <2>1, <2>3, IsASeq, LenProperties
  <2>5. ASSUME NEW todo, DOMAIN todo = DOMAIN st.arms, todo = [i \in DOMAIN todo |-> todo[i]]
        PROVE  IsSeq(todo) /\ Len(todo) = Len(st.arms)
    <3>1. DOMAIN todo = 1..Len(st.arms)
      BY <2>3, <2>5
    <3>2. todo \in Seq({todo[i] : i \in DOMAIN todo})
      BY <2>3, <2>5, <3>1, IsASeq
    <3> QED BY <2>3, <3>1, <3>2, LenProperties DEF IsSeq
  <2> QED BY <1>3, <2>4, <2>5
<1>4. CASE st.s \in {"for", "do", "while"}
  BY <1>1, <1>4 DEF Parts, WellFormed
<1>5. CASE st.s \notin {"if", "select", "for", "do", "while"}
  BY <1>5 DEF Parts
<1> QED BY <1>2, <1>3, <1>4, <1>5

LEMMA BlockTakes ==
    ASSUME TypeInv, Step(If) \/ Step(SelectCase) \/ Step(Arm) \/ Step(DoLoop)
    PROVE  Takes
<1> DEFINE kinds == {"if", "select", "arm", "do"}
       EntersAs(kind, errs, todo) ==
         /\ At(kind) /\ Enter(errs, S, Frame(todo, FALSE, "block"))
         /\ Clean(errs)
         /\ kind = "if" => todo = [i \in DOMAIN Now.blocks |-> ArmOf(Unknown, <<>>, Now.blocks[i], FALSE)]
         /\ kind = "select" => todo = [i \in DOMAIN Now.arms |->
                                 ArmOf(It(1).t, Now.arms[i].matches, Now.arms[i].body,
                                       Now.arms[i].else /\ i # Len(Now.arms))]
         /\ kind = "arm" => todo = Now.body
         /\ kind = "do" => todo = <<[s |-> "round", body |-> Now.body], [s |-> "post", e |-> Now.post]>>
<1>0. PICK kind \in kinds : \E errs, todo : EntersAs(kind, errs, todo)
  <2>1. CASE Step(If)
    <3>a. \A i : Clean(checkCondition(Now.conds[i], It(i)))
      BY HarmlessErrors
    <3>1. Clean(UNION {checkCondition(Now.conds[i], It(i)) : i \in DOMAIN Now.conds})
      BY <3>a DEF Clean
    <3> QED BY <2>1, <3>1 DEF Step, If, Inner
  <2>2. CASE Step(SelectCase)
    BY <2>2, HarmlessErrors DEF Step, SelectCase, Inner
  <2>3. CASE Step(Arm)
    <3> DEFINE errs == Check(~Now.early, "CASE ELSE not last")
                       \cup UNION {Faulty(It(i)) \cup Check(isCaseCompatible(Now.sel, It(i).t), "CASE type")
                                   : i \in DOMAIN Now.matches}
    <3>1. Clean(Check(~Now.early, "CASE ELSE not last"))
      BY DEF Clean, Check, ControlErrors
    <3>2. \A i : Clean(Faulty(It(i)) \cup Check(isCaseCompatible(Now.sel, It(i).t), "CASE type"))
      BY HarmlessErrors
    <3>3. Clean(UNION {Faulty(It(i)) \cup Check(isCaseCompatible(Now.sel, It(i).t), "CASE type")
                       : i \in DOMAIN Now.matches})
      BY <3>2 DEF Clean
    <3>4. Clean(errs)
      BY <3>1, <3>3, HarmlessErrors
    <3>5. At("arm") /\ Enter(errs, S, Frame(Now.body, FALSE, "block"))
      BY <2>3 DEF Step, Arm, Inner
    <3> HIDE DEF errs
    <3> QED BY <3>4, <3>5
  <2>4. CASE Step(DoLoop)
    <3>1. Clean(checkCondition(Now.pre, It(1)))
      BY HarmlessErrors
    <3> QED BY <2>4, <3>1 DEF Step, DoLoop, Inner
  <2> QED BY <2>1, <2>2, <2>3, <2>4
<1>1. PICK errs, todo : EntersAs(kind, errs, todo)
  BY <1>0
<1>2. Busy /\ Now.s = kind /\ ~InSpace
  BY <1>1, AtFacts DEF InNamespace
<1>3. IsTask(Now) /\ IsScope(S)
  BY <1>2, NowFacts DEF S
<1>4. BlockTasks(Now, todo)
  <2>1. CASE kind = "if"
    <3>1. Now \in Statements /\ Parts(Now) = Now.blocks
      BY <1>2, <1>3, <2>1, TaskStatement DEF Parts
    <3>2. DOMAIN todo = DOMAIN Now.blocks /\ todo = [i \in DOMAIN todo |-> todo[i]]
      BY <1>1, <2>1
    <3>3. IsSeq(todo) /\ Len(todo) = Len(Parts(Now))
      BY <1>2, <2>1, <3>1, <3>2, PartsType
    <3>4. \A i \in DOMAIN todo : todo[i].s = "arm" /\ todo[i].body = Parts(Now)[i]
      BY <1>1, <2>1, <3>1, <3>2 DEF ArmOf
    <3> QED BY <1>2, <2>1, <3>3, <3>4 DEF BlockTasks
  <2>2. CASE kind = "select"
    <3>1. Now \in Statements /\ Parts(Now) = [i \in DOMAIN Now.arms |-> Now.arms[i].body]
      BY <1>2, <1>3, <2>2, TaskStatement DEF Parts
    <3>2. DOMAIN todo = DOMAIN Now.arms /\ todo = [i \in DOMAIN todo |-> todo[i]]
      BY <1>1, <2>2
    <3>3. IsSeq(todo) /\ Len(todo) = Len(Parts(Now))
      BY <1>2, <2>2, <3>1, <3>2, PartsType
    <3>4. \A i \in DOMAIN todo : /\ todo[i].s = "arm" /\ todo[i].body = Parts(Now)[i]
                                 /\ todo[i].matches = Now.arms[i].matches
      BY <1>1, <2>2, <3>1, <3>2 DEF ArmOf
    <3> QED BY <1>2, <2>2, <3>3, <3>4 DEF BlockTasks
  <2>3. CASE kind \in {"arm", "do"}
    BY <1>1, <1>2, <2>3 DEF BlockTasks
  <2> QED BY <2>1, <2>2, <2>3
<1>5. CtlOK /\ OwnNames(Now) = {} /\ ~Indexes(Now) /\ Now.s \notin {"label", "goto", "gosub"}
  BY <1>2 DEF CtlOK, OwnNames, Indexes
<1>6. UNCHANGED codegenVars
  BY DEF Step
<1>7. Effects /\ work' = <<Frame(todo, FALSE, "block")>> \o Rest /\ scope' = S
  BY <1>1, <1>2, <1>3, <1>5, <1>6, EnterTakes
<1> QED BY <1>2, <1>4, <1>7 DEF Takes, Shape, BlockShape

LEMMA LoopTakes ==
    ASSUME TypeInv, Step(ForNext) \/ Step(WhileWend) \/ Step(LoopBody)
    PROVE  Takes
<1> DEFINE EntersAs(loop, errs) ==
         /\ Now.s \in {"for", "while", "round"} /\ LoopTask(Now, loop) /\ Busy /\ ~InSpace
         /\ Enter(errs, InLoop(loop), Frame(Now.body, FALSE, "loop"))
         /\ Clean(errs)
<1>0. PICK loop \in Breakable : \E errs : EntersAs(loop, errs)
  <2>1. CASE Step(ForNext)
    <3> DEFINE var == lookupSymbol(S, Now.x)
               errs == Check(var # NoSymbol, "not declared")
                       \cup Check(var = NoSymbol \/ (~var.const /\ ~var.array /\ isNumericType(var.t)),
                                  "FOR variable")
                       \cup checkCondition(Now.from, It(1)) \cup checkCondition(Now.to, It(2))
                       \cup checkCondition(Now.step, It(3))
    <3>1. /\ Clean(Check(var # NoSymbol, "not declared"))
          /\ Clean(Check(var = NoSymbol \/ (~var.const /\ ~var.array /\ isNumericType(var.t)),
                         "FOR variable"))
      BY DEF Clean, Check, ControlErrors
    <3>2. /\ Clean(checkCondition(Now.from, It(1))) /\ Clean(checkCondition(Now.to, It(2)))
          /\ Clean(checkCondition(Now.step, It(3)))
      BY HarmlessErrors
    <3>3. \A A, B : Clean(A \cup B) <=> Clean(A) /\ Clean(B)
      BY HarmlessErrors
    <3>4. Clean(errs)
      BY <3>1, <3>2, <3>3
    <3>a. At("for")
      BY <2>1 DEF Step, ForNext
    <3>5. Enter(errs, InLoop("For"), Frame(Now.body, FALSE, "loop"))
      BY <2>1 DEF Step, ForNext, Loop
    <3>6. Now.s = "for" /\ Busy /\ ~InSpace
      BY <3>a, AtFacts DEF InNamespace
    <3>7. LoopTask(Now, "For") /\ "For" \in Breakable
      BY <3>6 DEF LoopTask, Breakable
    <3> HIDE DEF errs
    <3> QED BY <3>4, <3>5, <3>6, <3>7
  <2>2. CASE Step(WhileWend)
    <3>1. Clean(checkCondition(Now.e, It(1)))
      BY HarmlessErrors
    <3>2. At("while") /\ Enter(checkCondition(Now.e, It(1)), InLoop("While"), Frame(Now.body, FALSE, "loop"))
      BY <2>2 DEF Step, WhileWend, Loop
    <3>3. Now.s = "while" /\ Busy /\ ~InSpace
      BY <3>2, AtFacts DEF InNamespace
    <3>4. LoopTask(Now, "While") /\ "While" \in Breakable
      BY <3>3 DEF LoopTask, Breakable
    <3> QED BY <3>1, <3>2, <3>3, <3>4
  <2>3. CASE Step(LoopBody)
    <3>1. Clean({})
      BY HarmlessErrors
    <3>2. At("round") /\ Enter({}, InLoop("Do"), Frame(Now.body, FALSE, "loop"))
      BY <2>3 DEF Step, LoopBody, Loop
    <3>3. Now.s = "round" /\ Busy /\ ~InSpace
      BY <3>2, AtFacts DEF InNamespace
    <3>4. LoopTask(Now, "Do") /\ "Do" \in Breakable
      BY <3>3 DEF LoopTask, Breakable
    <3> QED BY <3>1, <3>2, <3>3, <3>4
  <2> QED BY <2>1, <2>2, <2>3
<1>1. PICK errs : EntersAs(loop, errs)
  BY <1>0
<1>3. IsScope(S)
  BY <1>1, NowFacts DEF S
<1> DEFINE s == InLoop(loop)
<1>4. /\ s.gosub = S.gosub /\ s.symbols = S.symbols /\ s.locals = S.locals
      /\ s.loops = Append(S.loops, loop) /\ s.prefix = S.prefix /\ s.inProc = S.inProc
      /\ s.class = S.class /\ s.ret = S.ret
      /\ s = [symbols |-> s.symbols, locals |-> s.locals, prefix |-> s.prefix, class |-> s.class,
              inProc |-> s.inProc, ret |-> s.ret, loops |-> s.loops, gosub |-> s.gosub]
  <2>1. S = [symbols |-> S.symbols, locals |-> S.locals, prefix |-> S.prefix, class |-> S.class,
             inProc |-> S.inProc, ret |-> S.ret, loops |-> S.loops, gosub |-> S.gosub]
    BY <1>3 DEF IsScope
  <2> QED BY <2>1 DEF InLoop
<1>5. s = [S EXCEPT !.loops = Append(@, loop)]
  BY DEF InLoop
<1> HIDE DEF s
<1>6. Append(S.loops, loop) \in Seq(LoopKinds)
  <2>1. S.loops \in Seq(LoopKinds) /\ loop \in LoopKinds
    BY <1>3 DEF IsScope, Breakable, LoopKinds
  <2> QED BY <2>1
<1>7. IsScope(s) /\ LArr(s) = LArr(S)
  BY <1>3, <1>4, <1>6 DEF IsScope, LArr
<1>8. CtlOK /\ OwnNames(Now) = {} /\ ~Indexes(Now) /\ Now.s \notin {"label", "goto", "gosub"}
  BY <1>1 DEF CtlOK, OwnNames, Indexes
<1>9. Effects /\ work' = <<Frame(Now.body, FALSE, "loop")>> \o Rest /\ scope' = s
  <2>1. Enter(errs, s, Frame(Now.body, FALSE, "loop"))
    BY <1>1 DEF s
  <2>2. UNCHANGED codegenVars
    BY DEF Step
  <2> QED BY <1>1, <1>4, <1>7, <1>8, <2>1, <2>2, EnterTakes
<1> QED BY <1>1, <1>5, <1>9 DEF Takes, Shape, LoopShape

LEMMA BodyScope ==
    ASSUME IsScope(S), NEW params, NEW ret, NEW class, NEW fn
    PROVE  /\ IsScope(Body(params, ret, class, fn))
           /\ LArr(Body(params, ret, class, fn)) = {}
           /\ Body(params, ret, class, fn).symbols = S.symbols
           /\ Body(params, ret, class, fn).gosub = S.gosub
           /\ Body(params, ret, class, fn).loops =
                 Append(S.loops, IF fn THEN "Function" ELSE "Sub")
           /\ Body(params, ret, class, fn).prefix = S.prefix
           /\ Body(params, ret, class, fn).inProc
           /\ Body(params, ret, class, fn).ret = ret
           /\ Body(params, ret, class, fn).class = class
<1> DEFINE s == Body(params, ret, class, fn)
           new == [k \in {<<params[i].x>> : i \in DOMAIN params} |->
                     Symbol(params[CHOOSE i \in DOMAIN params : <<params[i].x>> = k].t,
                            FALSE, FALSE, FALSE)]
           kind == IF fn THEN "Function" ELSE "Sub"
<1>1. S = [symbols |-> S.symbols, locals |-> S.locals, prefix |-> S.prefix, class |-> S.class,
           inProc |-> S.inProc, ret |-> S.ret, loops |-> S.loops, gosub |-> S.gosub]
  BY DEF IsScope
<1>2. \A k \in DOMAIN new : ~new[k].array
  BY DEF Symbol
<1>3. s = [S EXCEPT !.locals = new, !.inProc = TRUE, !.ret = ret, !.class = class,
                    !.loops = Append(@, kind)]
  BY DEF Body
<1> HIDE DEF s, new, kind
<1>4. s = [symbols |-> S.symbols, locals |-> new, prefix |-> S.prefix, class |-> class,
           inProc |-> TRUE, ret |-> ret, loops |-> Append(S.loops, kind), gosub |-> S.gosub]
  BY <1>1, <1>3
<1>5. Append(S.loops, kind) \in Seq(LoopKinds)
  <2>1. S.loops \in Seq(LoopKinds) /\ kind \in LoopKinds
    BY DEF IsScope, LoopKinds, kind
  <2> QED BY <2>1
<1>6. /\ s.symbols = S.symbols /\ s.gosub = S.gosub /\ s.locals = new
      /\ s.loops = Append(S.loops, kind)
      /\ s.prefix = S.prefix /\ s.inProc = TRUE /\ s.ret = ret /\ s.class = class
  BY <1>4
<1>7. IsScope(s)
  BY <1>4, <1>5, <1>6 DEF IsScope
<1>8. LArr(s) = {}
  BY <1>2, <1>6 DEF LArr
<1> QED BY <1>6, <1>7, <1>8 DEF s, kind

LEMMA ProcTakes == ASSUME TypeInv, Step(ProcDecl) PROVE Takes
<1>0. At("proc")
  BY DEF Step, ProcDecl
<1>1. Busy /\ Now.s = "proc" /\ (InSpace \/ Now.generic = None)
  BY <1>0, AtFacts
<1>2. IsScope(S) /\ IsFrame(F)
  BY <1>1, NowFacts DEF S
<1>3. InSpace => F.top
  BY <1>2 DEF InSpace, IsFrame
<1>4. OwnNames(Now) = {} /\ ~Indexes(Now) /\ Now.s \notin {"label", "goto", "gosub"}
  BY <1>1 DEF OwnNames, Indexes
<1>5. UNCHANGED codegenVars
  BY DEF Step
<1>6. CASE ~Top
  <2>1. Done({"procedure nested"}, S)
    BY <1>6 DEF Step, ProcDecl
  <2>2. ~F.top /\ ~InSpace
    BY <1>3, <1>6 DEF Top, F
  <2>3. ~CtlOK /\ ~Clean({"procedure nested"})
    BY <1>1, <2>2 DEF CtlOK, Clean, ControlErrors
  <2>4. Plain(Now) /\ {"procedure nested"} # {}
    BY <1>1, <2>2 DEF Plain
  <2> QED BY <1>1, <1>4, <1>5, <2>1, <2>2, <2>3, <2>4, DoneTakes
<1>7. CASE Top
  <2> DEFINE errs == Check(Now.fn => Now.async = (Now.t.k = "Coroutine"), "Async")
                     \cup Check(Repeats(Now.params, DOMAIN Now.params, SameName) = {}, "parameter twice")
             s == Body(Now.params, BodyRet(Now), Now.owner, Now.fn)
             frame == Frame(Now.body, FALSE, "body")
  <2>1. Enter(errs, s, frame)
    BY <1>7 DEF Step, ProcDecl, BodyRet
  <2>2. Clean(errs)
    <3>1. /\ Clean(Check(Now.fn => Now.async = (Now.t.k = "Coroutine"), "Async"))
          /\ Clean(Check(Repeats(Now.params, DOMAIN Now.params, SameName) = {}, "parameter twice"))
      BY DEF Clean, Check, ControlErrors
    <3> QED BY <3>1, HarmlessErrors
  <2>3. CtlOK
    BY <1>1, <1>7 DEF CtlOK, Top, F
  <2>4. IsScope(s) /\ s.symbols = S.symbols /\ s.gosub = S.gosub /\ LArr(s) = {}
    BY <1>2, BodyScope
  <2> HIDE DEF errs, s, frame
  <2>5. Effects /\ work' = <<frame>> \o Rest /\ scope' = s
    BY <1>1, <1>4, <1>5, <2>1, <2>2, <2>3, <2>4, EnterTakes
  <2>6. BodyShape
    BY <1>1, <1>7, <2>5 DEF BodyShape, s, frame, Top, F
  <2> QED BY <2>5, <2>6 DEF Takes, Shape
<1> QED BY <1>6, <1>7

LEMMA SpaceTakes == ASSUME TypeInv, Step(NamespaceDecl) PROVE Takes
<1>0. At("ns")
  BY DEF Step, NamespaceDecl
<1>1. Busy /\ Now.s = "ns" /\ ~InSpace
  BY <1>0, AtFacts DEF InNamespace
<1>2. IsScope(S) /\ IsFrame(F) /\ Linked(F, S)
  BY <1>1, NowFacts DEF S
<1>4. OwnNames(Now) = {} /\ ~Indexes(Now) /\ Now.s \notin {"label", "goto", "gosub"}
  BY <1>1 DEF OwnNames, Indexes
<1>5. UNCHANGED codegenVars
  BY DEF Step
<1>6. CASE ~Top
  <2>1. Done({"namespace nested"}, S)
    BY <1>6 DEF Step, NamespaceDecl
  <2>2. ~F.top
    BY <1>6 DEF Top, F
  <2>3. ~CtlOK /\ ~Clean({"namespace nested"})
    BY <1>1, <2>2 DEF CtlOK, Clean, ControlErrors
  <2>4. Plain(Now) /\ {"namespace nested"} # {}
    BY <1>1, <2>2 DEF Plain
  <2> QED BY <1>1, <1>4, <1>5, <2>1, <2>3, <2>4, DoneTakes
<1>7. CASE Top
  <2> DEFINE s == [S EXCEPT !.prefix = Append(@, Now.x)]
             frame == Frame(Now.body, TRUE, "namespace")
  <2>1. Enter({}, s, frame)
    BY <1>7 DEF Step, NamespaceDecl
  <2>2. Clean({})
    BY HarmlessErrors
  <2>3. CtlOK /\ F.top
    BY <1>1, <1>7 DEF CtlOK, Top, F
  <2>4. S.prefix = <<>>
    BY <1>1, <1>2, <2>3 DEF Linked, IsFrame, InSpace
  <2>5. S = [symbols |-> S.symbols, locals |-> S.locals, prefix |-> S.prefix, class |-> S.class,
             inProc |-> S.inProc, ret |-> S.ret, loops |-> S.loops, gosub |-> S.gosub]
    BY <1>2 DEF IsScope
  <2>6. s = [symbols |-> S.symbols, locals |-> S.locals, prefix |-> <<Now.x>>, class |-> S.class,
             inProc |-> S.inProc, ret |-> S.ret, loops |-> S.loops, gosub |-> S.gosub]
    <3>1. Append(<<>>, Now.x) = <<Now.x>>
      OBVIOUS
    <3> QED BY <2>4, <2>5, <3>1
  <2> HIDE DEF s, frame
  <2>7. IsScope(s)
    BY <1>2, <2>6 DEF IsScope
  <2>8. s.symbols = S.symbols /\ s.gosub = S.gosub /\ LArr(s) = LArr(S)
    BY <2>6 DEF LArr
  <2>9. Effects /\ work' = <<frame>> \o Rest /\ scope' = s
    BY <1>1, <1>4, <1>5, <2>1, <2>2, <2>3, <2>7, <2>8, EnterTakes
  <2>10. SpaceShape
    BY <1>1, <2>3, <2>9 DEF SpaceShape, s, frame
  <2> QED BY <2>9, <2>10 DEF Takes, Shape
<1> QED BY <1>6, <1>7

\* A statement that declares names.
LEMMA DeclareTakes ==
    ASSUME TypeInv, Busy, NEW errs, NEW syms,
           Now.s \in {"dim", "const", "enum"}, Clean(errs),
           diags' = diags \cup errs, scope' = Declared(S, syms), work' = Rest,
           UNCHANGED <<module, tables, pending, stage, pos, open, arrays, out>>,
           DOMAIN syms = {ScopeKey(S, x) : x \in {y \in OwnNames(Now) : ~Taken(T, S, y)}},
           \A k \in DOMAIN syms :
              syms[k].array => Now.s = "dim" /\ Now.array /\ k = ScopeKey(S, Now.x)
    PROVE  Takes
<1> DEFINE s == Declared(S, syms)
<1>1. IsScope(S)
  BY NowFacts DEF S
<1>2. S = [symbols |-> S.symbols, locals |-> S.locals, prefix |-> S.prefix, class |-> S.class,
           inProc |-> S.inProc, ret |-> S.ret, loops |-> S.loops, gosub |-> S.gosub]
      /\ S.inProc \in BOOLEAN
  BY <1>1 DEF IsScope
<1>3. S.inProc => s = [symbols |-> S.symbols, locals |-> Merge(syms, S.locals), prefix |-> S.prefix,
                       class |-> S.class, inProc |-> S.inProc, ret |-> S.ret, loops |-> S.loops,
                       gosub |-> S.gosub]
  BY <1>2 DEF Declared
<1>4. ~S.inProc => s = [symbols |-> Merge(syms, S.symbols), locals |-> S.locals, prefix |-> S.prefix,
                        class |-> S.class, inProc |-> S.inProc, ret |-> S.ret, loops |-> S.loops,
                        gosub |-> S.gosub]
  BY <1>2 DEF Declared
<1> HIDE DEF s
<1>5. /\ s.prefix = S.prefix /\ s.class = S.class /\ s.inProc = S.inProc /\ s.ret = S.ret
      /\ s.loops = S.loops /\ s.gosub = S.gosub
      /\ S.inProc => s.symbols = S.symbols /\ s.locals = Merge(syms, S.locals)
      /\ ~S.inProc => s.symbols = Merge(syms, S.symbols) /\ s.locals = S.locals
      /\ s = [symbols |-> s.symbols, locals |-> s.locals, prefix |-> s.prefix, class |-> s.class,
              inProc |-> s.inProc, ret |-> s.ret, loops |-> s.loops, gosub |-> s.gosub]
  BY <1>2, <1>3, <1>4
<1>6. IsScope(s) /\ Statics(s) = Statics(S)
  BY <1>1, <1>5 DEF IsScope, Statics
<1>7. /\ DOMAIN Merge(syms, S.symbols) = DOMAIN syms \cup DOMAIN S.symbols
      /\ \A k \in DOMAIN Merge(syms, S.symbols) :
            Merge(syms, S.symbols)[k] = IF k \in DOMAIN syms THEN syms[k] ELSE S.symbols[k]
      /\ DOMAIN Merge(syms, S.locals) = DOMAIN syms \cup DOMAIN S.locals
      /\ \A k \in DOMAIN Merge(syms, S.locals) :
            Merge(syms, S.locals)[k] = IF k \in DOMAIN syms THEN syms[k] ELSE S.locals[k]
  BY DEF Merge
<1>8. ~S.inProc => DOMAIN s.symbols =
            DOMAIN S.symbols \cup {k \in {qualifiedKey(S, x) : x \in OwnNames(Now)} : Good(k)}
  <2>1. ASSUME ~S.inProc
        PROVE  \A x : Taken(T, S, x) <=> qualifiedKey(S, x) \in DOMAIN S.symbols
                                         \/ ~Good(qualifiedKey(S, x))
    BY <2>1 DEF Taken, Good, ScopeKey
  <2>2. ~S.inProc => \A x : ScopeKey(S, x) = qualifiedKey(S, x)
    BY DEF ScopeKey
  <2> QED BY <1>5, <1>7, <2>1, <2>2
<1>9. GArr(s) \subseteq GArr(S) \cup (IF S.inProc THEN {} ELSE OwnArrays(Now))
  <2>1. CASE S.inProc
    BY <1>5, <2>1 DEF GArr
  <2>2. CASE ~S.inProc
    <3> SUFFICES ASSUME NEW x \in GArr(s) PROVE x \in GArr(S) \cup OwnArrays(Now)
      BY <2>2
    <3>1. PICK k \in DOMAIN s.symbols : s.symbols[k].array /\ x = k[Len(k)]
      BY DEF GArr
    <3>2. CASE k \notin DOMAIN syms
      <4>1. k \in DOMAIN S.symbols /\ s.symbols[k] = S.symbols[k]
        BY <1>5, <1>7, <2>2, <3>1, <3>2
      <4> QED BY <3>1, <4>1 DEF GArr
    <3>3. CASE k \in DOMAIN syms
      <4>1. syms[k].array
        BY <1>5, <1>7, <2>2, <3>1, <3>3
      <4>2. Now.s = "dim" /\ Now.array /\ k = Append(S.prefix, Now.x)
        BY <2>2, <3>3, <4>1 DEF ScopeKey, qualifiedKey
      <4>3. k[Len(k)] = Now.x
        BY <1>1, <4>2 DEF IsScope
      <4> QED BY <3>1, <4>2, <4>3 DEF OwnArrays
    <3> QED BY <3>2, <3>3
  <2> QED BY <2>1, <2>2
<1>10. LArr(s) \subseteq LArr(S) \cup OwnArrays(Now)
  <2>1. CASE ~S.inProc
    BY <1>5, <2>1 DEF LArr
  <2>2. CASE S.inProc
    <3> SUFFICES ASSUME NEW x \in LArr(s) PROVE x \in LArr(S) \cup OwnArrays(Now)
      OBVIOUS
    <3>1. PICK k \in DOMAIN s.locals : s.locals[k].array /\ x = k[Len(k)]
      BY DEF LArr
    <3>2. CASE k \notin DOMAIN syms
      <4>1. k \in DOMAIN S.locals /\ s.locals[k] = S.locals[k]
        BY <1>5, <1>7, <2>2, <3>1, <3>2
      <4> QED BY <3>1, <4>1 DEF LArr
    <3>3. CASE k \in DOMAIN syms
      <4>1. syms[k].array
        BY <1>5, <1>7, <2>2, <3>1, <3>3
      <4>2. Now.s = "dim" /\ Now.array /\ k = <<Now.x>>
        BY <2>2, <3>3, <4>1 DEF ScopeKey
      <4>3. k[Len(k)] = Now.x
        BY <4>2
      <4> QED BY <3>1, <4>2, <4>3 DEF OwnArrays
    <3> QED BY <3>2, <3>3
  <2> QED BY <2>1, <2>2
<1>11. Clean(diags') <=> Clean(diags) /\ CtlOK
  <2>1. CtlOK
    BY DEF CtlOK
  <2> QED BY <2>1, HarmlessErrors
<1>12. IndexOK /\ TargetOK /\ Plain(Now)
  BY DEF IndexOK, TargetOK, Indexes, Plain, Leaves
<1>13. scope' = s /\ diags \subseteq diags' /\ Now.s # "label"
  BY DEF s
<1>14. Effects
  BY <1>5, <1>6, <1>8, <1>9, <1>10, <1>11, <1>12, <1>13 DEF Effects
<1>15. LeafShape
  BY <1>5, <1>6, <1>12, <1>13 DEF LeafShape
<1> QED BY <1>14, <1>15 DEF Takes, Shape

LEMMA DimTakes == ASSUME TypeInv, Step(Dim) PROVE Takes
<1>0. At("dim")
  BY DEF Step, Dim
<1>1. Busy /\ Now.s = "dim"
  BY <1>0, AtFacts
<1> DEFINE st == Now
           known == IsUser(st.t) => st.t.name \in DOMAIN T.structs
           errs == Check(known, "unknown TYPE")
                   \cup Check(IsUser(st.t) /\ known => ~T.structs[st.t.name].opaque, "opaque TYPE")
                   \cup (IF st.array THEN WholeNumbers(judged.of, "bound type") ELSE {})
           syms == One(st.x, Symbol(st.t, FALSE, st.array, st.array /\ st.bounds = <<>>))
<1>2. /\ Taken(T, S, Now.x) => Done({"declared twice"}, S)
      /\ ~Taken(T, S, Now.x) => Done(errs, Declared(S, syms))
      /\ UNCHANGED codegenVars
  BY DEF Step, Dim
<1>3. Clean(errs) /\ Clean({"declared twice"})
  <2>1. /\ Clean(Check(known, "unknown TYPE")) /\ Clean({}) /\ Clean({"declared twice"})
        /\ Clean(Check(IsUser(st.t) /\ known => ~T.structs[st.t.name].opaque, "opaque TYPE"))
    BY DEF Clean, Check, ControlErrors
  <2>2. Clean(WholeNumbers(judged.of, "bound type"))
    BY HarmlessErrors
  <2>3. \A A, B : Clean(A \cup B) <=> Clean(A) /\ Clean(B)
    BY HarmlessErrors
  <2> QED BY <2>1, <2>2, <2>3
<1>4. OwnNames(Now) = {Now.x} /\ Plain(Now) /\ CtlOK /\ IndexOK /\ TargetOK
  BY <1>1 DEF OwnNames, Plain, Leaves, CtlOK, IndexOK, TargetOK, Indexes
<1>5. /\ DOMAIN syms = {ScopeKey(S, Now.x)}
      /\ \A k \in DOMAIN syms : syms[k].array => Now.array /\ k = ScopeKey(S, Now.x)
  BY DEF One, Symbol
<1> HIDE DEF errs, syms
<1>6. CASE Taken(T, S, Now.x)
  BY <1>1, <1>2, <1>3, <1>4, <1>6, DoneTakes
<1>7. CASE ~Taken(T, S, Now.x)
  <2>1. /\ diags' = diags \cup errs /\ scope' = Declared(S, syms) /\ work' = Rest
        /\ UNCHANGED <<module, tables, pending, stage, pos, open, arrays, out>>
    BY <1>2, <1>7 DEF Done, codegenVars
  <2>2. DOMAIN syms = {ScopeKey(S, x) : x \in {y \in OwnNames(Now) : ~Taken(T, S, y)}}
    BY <1>4, <1>5, <1>7
  <2>3. \A k \in DOMAIN syms : syms[k].array => Now.s = "dim" /\ Now.array /\ k = ScopeKey(S, Now.x)
    BY <1>1, <1>5
  <2>4. Now.s \in {"dim", "const", "enum"} /\ Clean(errs)
    BY <1>1, <1>3
  <2> QED BY <1>1, <2>1, <2>2, <2>3, <2>4, DeclareTakes
<1> QED BY <1>6, <1>7

LEMMA ConstTakes == ASSUME TypeInv, Step(Const) PROVE Takes
<1>0. At("const")
  BY DEF Step, Const
<1>1. Busy /\ Now.s = "const"
  BY <1>0, AtFacts
<1> DEFINE t == IF Now.t # Unknown THEN Now.t ELSE It(1).t
           errs == Faulty(It(1)) \cup Fits(t, It(1)) \cup Check(IsConstant(S, Now.e), "not constant")
           syms == One(Now.x, Symbol(t, TRUE, FALSE, FALSE))
<1>2. /\ Taken(T, S, Now.x) => Done({"declared twice"}, S)
      /\ ~Taken(T, S, Now.x) => Done(errs, Declared(S, syms))
      /\ UNCHANGED codegenVars
  BY DEF Step, Const
<1>3. Clean(errs) /\ Clean({"declared twice"})
  <2>1. Clean(Check(IsConstant(S, Now.e), "not constant")) /\ Clean({"declared twice"})
    BY DEF Clean, Check, ControlErrors
  <2>2. Clean(Faulty(It(1))) /\ Clean(Fits(t, It(1)))
    BY HarmlessErrors
  <2>3. \A A, B : Clean(A \cup B) <=> Clean(A) /\ Clean(B)
    BY HarmlessErrors
  <2> QED BY <2>1, <2>2, <2>3
<1>4. OwnNames(Now) = {Now.x} /\ Plain(Now) /\ CtlOK /\ IndexOK /\ TargetOK
  BY <1>1 DEF OwnNames, Plain, Leaves, CtlOK, IndexOK, TargetOK, Indexes
<1>5. DOMAIN syms = {ScopeKey(S, Now.x)} /\ \A k \in DOMAIN syms : ~syms[k].array
  BY DEF One, Symbol
<1> HIDE DEF errs, syms
<1>6. CASE Taken(T, S, Now.x)
  BY <1>1, <1>2, <1>3, <1>4, <1>6, DoneTakes
<1>7. CASE ~Taken(T, S, Now.x)
  <2>1. /\ diags' = diags \cup errs /\ scope' = Declared(S, syms) /\ work' = Rest
        /\ UNCHANGED <<module, tables, pending, stage, pos, open, arrays, out>>
    BY <1>2, <1>7 DEF Done, codegenVars
  <2>2. DOMAIN syms = {ScopeKey(S, x) : x \in {y \in OwnNames(Now) : ~Taken(T, S, y)}}
    BY <1>4, <1>5, <1>7
  <2>3. \A k \in DOMAIN syms : syms[k].array => Now.s = "dim" /\ Now.array /\ k = ScopeKey(S, Now.x)
    BY <1>1, <1>5
  <2>4. Now.s \in {"dim", "const", "enum"} /\ Clean(errs)
    BY <1>1, <1>3
  <2> QED BY <1>1, <2>1, <2>2, <2>3, <2>4, DeclareTakes
<1> QED BY <1>6, <1>7

LEMMA LeastNumber ==
    ASSUME NEW N, N \subseteq Nat, N # {}
    PROVE  \E x \in N : \A y \in N : x <= y
<1>1. \E x \in N : \A y \in N : ~(<<y, x>> \in OpToRel(<, Nat))
  BY NatLessThanWellFounded, WFMin, Zenon
<1>2. \A x, y \in Nat : y < x => <<y, x>> \in OpToRel(<, Nat)
  BY Zenon DEF OpToRel
<1>3. \E x \in N : \A y \in N : ~(y < x)
  BY <1>1, <1>2, Zenon
<1> QED BY <1>3, SMT

LEMMA EnumTakes == ASSUME TypeInv, Step(Enum) PROVE Takes
<1>0. At("enum")
  BY DEF Step, Enum
<1>1. Busy /\ Now.s = "enum"
  BY <1>0, AtFacts
<1> DEFINE members == Now.members
           ok == EnumValues(members).ok
           errs == Check(ok, "not constant") \cup Check(Fresh(members) = DOMAIN members, "declared twice")
           syms == [k \in {ScopeKey(S, members[i].x) : i \in Fresh(members)} |->
                      Symbol(Integer, TRUE, FALSE, FALSE)]
<1>2. /\ diags' = diags \cup errs /\ scope' = Declared(S, syms) /\ work' = Rest
      /\ UNCHANGED <<module, tables, pending, stage, pos, open, arrays, out>>
  BY DEF Step, Enum, codegenVars
<1>3. Clean(errs)
  <2> HIDE DEF ok
  <2>1. Clean(Check(ok, "not constant")) /\ Clean(Check(Fresh(members) = DOMAIN members, "declared twice"))
    BY DEF Clean, Check, ControlErrors
  <2> QED BY <2>1, HarmlessErrors
<1>4. OwnNames(Now) = {members[j].x : j \in DOMAIN members}
  BY <1>1 DEF OwnNames
<1>5. IsSeq(members)
  <2>1. IsTask(Now)
    BY <1>1, NowFacts
  <2>2. WellFormed(Now)
    BY <1>1, <2>1, TaskStatement
  <2> QED BY <1>1, <2>2 DEF WellFormed
<1> HIDE DEF members, errs
<1>6. DOMAIN members \subseteq Nat /\ \A j \in DOMAIN members : 1..(j - 1) \subseteq DOMAIN members
  BY <1>5 DEF IsSeq
<1>7. DOMAIN syms = {ScopeKey(S, x) : x \in {y \in OwnNames(Now) : ~Taken(T, S, y)}}
  <2>1. DOMAIN syms = {ScopeKey(S, members[i].x) : i \in Fresh(members)}
    OBVIOUS
  <2>2. ASSUME NEW i \in Fresh(members)
        PROVE  members[i].x \in OwnNames(Now) /\ ~Taken(T, S, members[i].x)
    BY <1>4 DEF Fresh
  <2>3. ASSUME NEW y \in OwnNames(Now), ~Taken(T, S, y)
        PROVE  \E i \in Fresh(members) : members[i].x = y
    <3> DEFINE same == {j \in DOMAIN members : members[j].x = y}
    <3>1. same # {} /\ same \subseteq Nat
      BY <1>4, <1>6, <2>3
    <3>2. PICK i \in same : \A j \in same : i <= j
      BY <3>1, LeastNumber
    <3>3. \A j \in 1..(i - 1) : members[j].x # members[i].x
      BY <1>6, <3>1, <3>2
    <3> QED BY <2>3, <3>2, <3>3 DEF Fresh
  <2> QED BY <2>1, <2>2, <2>3
<1>8. \A k \in DOMAIN syms : ~syms[k].array
  BY DEF Symbol
<1> HIDE DEF syms
<1> QED BY <1>1, <1>2, <1>3, <1>7, <1>8, DeclareTakes

-----------------------------------------------------------------------------
(* Every step of the walk is one of four.                                    *)

\* The results for the expressions at hand are there; or nothing happens.
Same == UNCHANGED <<module, tables, scope, work, diags, pending, stage, pos, open, arrays, out>>

IsInstanceKey(key) == IsSeq(key) /\ Len(key) > 2
InstFrame(key, st) == [Frame(st.body, FALSE, "instance") EXCEPT !.key = key, !.st = st]
Requests(key, st) ==
    /\ Busy /\ IsInstanceKey(key) /\ key \notin DOMAIN T.procs
    /\ st \in Statements /\ st.s = "proc" /\ st.generic = None
    /\ tables' = [tables EXCEPT !.procs = Bind(@, key, [Signature(st) EXCEPT !.extern = FALSE])]
    /\ scope' = Body(st.params, IF st.fn THEN st.t ELSE Unknown, None, st.fn)
    /\ work' = <<InstFrame(key, st)>> \o work
    /\ UNCHANGED <<module, diags, pending, stage, pos, open, arrays, out>>

Ends ==
    /\ stage = "check" /\ work # <<>> /\ F.todo = <<>>
    /\ scope' = Restored(F.ends, F.saved)
    /\ pending' = IF F.ends = "instance" THEN Append(pending, [key |-> F.key, st |-> F.st])
                  ELSE pending
    /\ stage' = IF F.ends # "module" THEN stage
                ELSE IF diags = {} THEN "generate" ELSE "rejected"
    /\ work' = Tail(work)
    /\ UNCHANGED <<module, tables, diags, pos, open, arrays, out>>

LEMMA InstanceStep ==
    ASSUME TypeInv, Step(instantiateGeneric)
    PROVE  \E key, st : Requests(key, st)
<1>1. PICK r \in HeadOf(RequestsOf(T, S, Evaluated(Now))) :
         /\ <<r.x>> \in DOMAIN T.generics /\ r.t \in ArgTypes
         /\ InstanceKey(r.x, SuffixOf(r.t)) \notin DOMAIN T.procs
         /\ Instantiate(InstanceKey(r.x, SuffixOf(r.t)), Instance(T.generics[<<r.x>>], r.t))
  BY DEF Step, instantiateGeneric
<1> DEFINE g == T.generics[<<r.x>>]
           st == Instance(g, r.t)
           suffix == SuffixOf(r.t)
           key == InstanceKey(r.x, suffix)
<1>2. g \in Statements /\ g.s = "proc" /\ g.generic # None
  BY <1>1 DEF TypeInv
<1>3. st \in Statements /\ st.s = "proc" /\ st.generic = None
  <2> HIDE DEF g
  <2> QED BY <1>1, <1>2, InstanceAssumption
<1>4. IsInstanceKey(key)
  <2>1. suffix \in Seq(STRING) /\ suffix # <<>>
    BY <1>1, InstanceAssumption
  <2> DEFINE A == STRING \cup {r.x, "of"}
  <2>2. suffix \in Seq(A) /\ <<r.x, "of">> \in Seq(A) /\ Len(<<r.x, "of">>) = 2
    <3>1. r.x \in A /\ "of" \in A /\ STRING \subseteq A
      OBVIOUS
    <3> HIDE DEF A, suffix
    <3>2. suffix \in Seq(A)
      BY <2>1, <3>1, SeqOfMore, Zenon
    <3>3. <<r.x, "of">> \in Seq(A) /\ Len(<<r.x, "of">>) = 2
      <4>1. \A a, b \in A : <<a, b>> \in Seq(A) /\ Len(<<a, b>>) = 2
        OBVIOUS
      <4> QED BY <3>1, <4>1
    <3> QED BY <3>2, <3>3
  <2> HIDE DEF A, suffix
  <2>3. key \in Seq(A) /\ Len(key) = Len(<<r.x, "of">>) + Len(suffix) /\ Len(suffix) > 0
    BY <2>1, <2>2 DEF InstanceKey
  <2> HIDE DEF key
  <2>4. Len(key) > 2
    BY <2>1, <2>2, <2>3
  <2> QED BY <2>3, <2>4, SeqIsSeq DEF IsInstanceKey
<1>5. Busy
  BY DEF Step, instantiateGeneric, Turn
<1>6. Instantiate(key, st) /\ key \notin DOMAIN T.procs
  BY <1>1
<1> HIDE DEF key, st
<1>7. Requests(key, st)
  BY <1>3, <1>4, <1>5, <1>6 DEF Requests, Instantiate, InstFrame, Step, codegenVars
<1> QED BY <1>7

LEMMA EndStep == ASSUME Step(EndBlock) PROVE Ends
<1>1. EndBlock /\ UNCHANGED codegenVars
  BY DEF Step
<1> QED BY <1>1 DEF EndBlock, Ends, F, codegenVars

LEMMA WalkSteps ==
    ASSUME TypeInv, stage = "check", [Next]_vars
    PROVE  Takes \/ Same \/ Ends \/ \E key, st : Requests(key, st)
<1>1. CASE UNCHANGED vars \/ Terminated
  BY <1>1 DEF Terminated, vars, Same
<1>2. CASE Step(CheckExpressions)
  BY <1>2 DEF Step, CheckExpressions, codegenVars, Same
<1>3. CASE Step(instantiateGeneric)
  BY <1>3, InstanceStep
<1>4. CASE Step(EndBlock)
  BY <1>4, EndStep
<1>5. CASE CodegenNext \/ Step(CollectNames) \/ Step(CollectTypes)
  BY <1>5 DEF CodegenNext, GenLabel, GenGlobal, GenProcedure, GenNamespace, GenType, GenStatement,
              GenEnd, At2, Step, CollectNames, CollectTypes
<1>6. CASE Step(Dim) \/ Step(Redim) \/ Step(Const) \/ Step(Enum) \/ Step(Assign) \/ Step(Store)
           \/ Step(ReturnAssign) \/ Step(PrintStmt) \/ Step(CallStmt) \/ Step(LoopUntil)
  BY <1>6, DimTakes, RedimTakes, ConstTakes, EnumTakes, AssignTakes, PlainTakes
<1>7. CASE Step(If) \/ Step(SelectCase) \/ Step(Arm) \/ Step(DoLoop)
           \/ Step(ForNext) \/ Step(LoopBody) \/ Step(WhileWend)
  BY <1>7, BlockTakes, LoopTakes
<1>8. CASE Step(Goto) \/ Step(GoSub) \/ Step(Label) \/ Step(ExitLoop) \/ Step(Return) \/ Step(Yield)
           \/ Step(ProcDecl) \/ Step(SkipGeneric) \/ Step(NamespaceDecl)
           \/ Step(StrayMember) \/ Step(TypeDecl)
  BY <1>8, JumpTakes, LabelTakes, ExitTakes, ReturnTakes, YieldTakes, ProcTakes, DeclTakes, SpaceTakes
<1> QED BY <1>1, <1>2, <1>3, <1>4, <1>5, <1>6, <1>7, <1>8 DEF Next

-----------------------------------------------------------------------------
(* The levels after each kind of step.                                       *)

Taken1(f) == [f EXCEPT !.todo = Tail(@)]

LEMMA FrameFields ==
    ASSUME NEW f, IsFrame(f), f.todo # <<>>
    PROVE  /\ Taken1(f).todo = Tail(f.todo) /\ Taken1(f).top = f.top /\ Taken1(f).ends = f.ends
           /\ Taken1(f).saved = f.saved /\ Taken1(f).key = f.key /\ Taken1(f).st = f.st
           /\ IsFrame(Taken1(f))
<1> DEFINE g == Taken1(f)
<1>1. f = [todo |-> f.todo, top |-> f.top, ends |-> f.ends, saved |-> f.saved,
           key |-> f.key, st |-> f.st]
  BY DEF IsFrame
<1>2. g = [todo |-> Tail(f.todo), top |-> f.top, ends |-> f.ends, saved |-> f.saved,
           key |-> f.key, st |-> f.st]
  BY <1>1 DEF Taken1
<1> HIDE DEF g
<1>3. /\ g.todo = Tail(f.todo) /\ g.top = f.top /\ g.ends = f.ends
      /\ g.saved = f.saved /\ g.key = f.key /\ g.st = f.st
  BY <1>2
<1>4. IsSeq(Tail(f.todo)) /\ \A i \in DOMAIN Tail(f.todo) : IsTask(Tail(f.todo)[i])
  <2>1. IsSeq(f.todo) /\ \A i \in DOMAIN f.todo : IsTask(f.todo[i])
    BY DEF IsFrame
  <2> DEFINE q == f.todo
             p == Tail(q)
  <2>2. IsSeq(p) /\ Len(q) \in Nat /\ Len(q) > 0 /\ Len(p) = Len(q) - 1
        /\ \A i \in 1..(Len(q) - 1) : p[i] = q[i + 1]
    BY <2>1, TailProps
  <2>3. DOMAIN q = 1..Len(q) /\ DOMAIN p = 1..Len(p)
    <3> HIDE DEF p, q
    <3> QED BY <2>1, <2>2 DEF IsSeq, q
  <2> QED BY <2>1, <2>2, <2>3
<1>5. IsFrame(g)
  BY <1>2, <1>3, <1>4 DEF IsFrame
<1> QED BY <1>3, <1>5 DEF g

LEMMA NewFrame ==
    ASSUME NEW todo, IsSeq(todo), \A i \in DOMAIN todo : IsTask(todo[i])
    PROVE  /\ IsFrame(Frame(todo, FALSE, "block")) /\ IsFrame(Frame(todo, FALSE, "loop"))
           /\ IsFrame(Frame(todo, FALSE, "body"))
           /\ IsFrame(Frame(todo, TRUE, "module")) /\ IsFrame(Frame(todo, TRUE, "namespace"))
<1>1. ASSUME NEW top \in BOOLEAN, NEW ends \in {"module", "namespace", "block", "loop", "body"},
             top = (ends \in {"module", "namespace"})
      PROVE  /\ IsFrame(Frame(todo, top, ends)) /\ Frame(todo, top, ends).saved = scope
             /\ Frame(todo, top, ends).todo = todo /\ Frame(todo, top, ends).ends = ends
             /\ Frame(todo, top, ends).top = top
  <2> DEFINE f == Frame(todo, top, ends)
  <2>1. /\ f.todo = todo /\ f.top = top /\ f.ends = ends /\ f.saved = scope
        /\ f = [todo |-> f.todo, top |-> f.top, ends |-> f.ends, saved |-> f.saved,
                key |-> f.key, st |-> f.st]
    BY DEF Frame
  <2> HIDE DEF f
  <2>2. f.top = (f.ends \in {"module", "namespace"})
    BY <1>1, <2>1, Zenon
  <2>3. f.ends # "instance" /\ f.ends \in {"module", "namespace", "block", "loop", "body", "instance"}
    BY <2>1
  <2>4. IsFrame(f)
    BY <2>1, <2>2, <2>3 DEF IsFrame
  <2> QED BY <2>1, <2>4 DEF f
<1>2. \A ends \in {"block", "loop", "body"} : FALSE = (ends \in {"module", "namespace"})
  <2> TAKE ends \in {"block", "loop", "body"}
  <2>1. (ends \in {"module", "namespace"}) = FALSE
    OBVIOUS
  <2> QED BY <2>1
<1>3. \A ends \in {"module", "namespace"} : TRUE = (ends \in {"module", "namespace"})
  <2> TAKE ends \in {"module", "namespace"}
  <2>1. ends \in {"module", "namespace"}
    OBVIOUS
  <2> QED BY <2>1, Zenon
<1> QED BY <1>1, <1>2, <1>3

LEMMA RestLevels ==
    ASSUME TypeInv, Busy
    PROVE  /\ IsSeq(Rest) /\ Rest # <<>> /\ Len(Rest) = Len(work) /\ Len(work) \in Nat /\ Len(work) > 0
           /\ Level(Rest, Len(work)) = Taken1(F)
           /\ \A d \in 1..(Len(work) - 1) : Level(Rest, d) = Level(work, d)
           /\ \A s : /\ View(s, Rest, Len(work)) = s
                     /\ \A d \in 1..(Len(work) - 1) : View(s, Rest, d) = View(scope, work, d)
<1>1. IsSeq(work) /\ work # <<>> /\ F = Head(work) /\ IsFrame(F) /\ F.todo # <<>>
  BY NowFacts DEF StackInv, F
<1> DEFINE g == Taken1(F)
           n == Len(work)
<1>2. g.saved = Head(work).saved
  BY <1>1, FrameFields
<1>3. Rest = <<g>> \o Tail(work)
  BY DEF Rest, Taken1, F
<1>5. n = Len(work)
  OBVIOUS
<1> HIDE DEF g, n
<1>4. ASSUME NEW s
      PROVE  /\ IsSeq(Rest) /\ Rest # <<>> /\ Len(Rest) = n /\ n \in Nat /\ n > 0
             /\ Level(Rest, n) = g
             /\ \A d \in 1..(n - 1) : Level(Rest, d) = Level(work, d)
             /\ View(s, Rest, n) = s
             /\ \A d \in 1..(n - 1) : View(s, Rest, d) = View(scope, work, d)
  BY <1>1, <1>2, <1>3, <1>5, Replaced
<1> QED BY <1>4 DEF g, n

LEMMA LeafLevels ==
    ASSUME TypeInv, Busy, work' = Rest
    PROVE  /\ IsSeq(work') /\ work' # <<>> /\ Len(work') = Len(work)
           /\ Len(work) \in Nat /\ Len(work) > 0
           /\ Level(work', Len(work)) = Taken1(F) /\ View(scope', work', Len(work)) = scope'
           /\ \A d \in 1..(Len(work) - 1) : /\ Level(work', d) = Level(work, d)
                                            /\ View(scope', work', d) = View(scope, work, d)
BY RestLevels

LEMMA PushLevels ==
    ASSUME TypeInv, Busy, NEW f, f.saved = scope, work' = <<f>> \o Rest
    PROVE  /\ IsSeq(work') /\ work' # <<>> /\ Len(work') = Len(work) + 1
           /\ Len(work) \in Nat /\ Len(work) > 0
           /\ Level(work', Len(work) + 1) = f /\ View(scope', work', Len(work) + 1) = scope'
           /\ Level(work', Len(work)) = Taken1(F) /\ View(scope', work', Len(work)) = scope
           /\ \A d \in 1..(Len(work) - 1) : /\ Level(work', d) = Level(work, d)
                                            /\ View(scope', work', d) = View(scope, work, d)
<1> DEFINE n == Len(work)
           r == Rest
           w2 == <<f>> \o r
<1>1. /\ IsSeq(r) /\ r # <<>> /\ Len(r) = n /\ n \in Nat /\ n > 0
      /\ Level(r, n) = Taken1(F)
      /\ \A d \in 1..(n - 1) : Level(r, d) = Level(work, d)
      /\ View(scope, r, n) = scope
      /\ \A d \in 1..(n - 1) : View(scope, r, d) = View(scope, work, d)
  BY RestLevels
<1>5. w2 = <<f>> \o r
  OBVIOUS
<1> HIDE DEF r, n, w2
<1>2. /\ IsSeq(w2) /\ w2 # <<>> /\ Len(w2) = n + 1
      /\ Level(w2, n + 1) = f /\ View(scope', w2, n + 1) = scope'
      /\ \A d \in 1..n : Level(w2, d) = Level(r, d) /\ View(scope', w2, d) = View(scope, r, d)
  BY <1>1, <1>5, Pushed
<1>3. n \in 1..n /\ \A d \in 1..(n - 1) : d \in 1..n
  BY <1>1
<1>4. work' = w2
  BY DEF r, w2
<1> QED BY <1>1, <1>2, <1>3, <1>4 DEF n

LEMMA InstLevels ==
    ASSUME TypeInv, NEW key, NEW st, Requests(key, st)
    PROVE  /\ IsSeq(work') /\ work' # <<>> /\ Len(work') = Len(work) + 1
           /\ Len(work) \in Nat /\ Len(work) > 0
           /\ Level(work', Len(work) + 1) = InstFrame(key, st)
           /\ View(scope', work', Len(work) + 1) = scope'
           /\ \A d \in 1..Len(work) : /\ Level(work', d) = Level(work, d)
                                      /\ View(scope', work', d) = View(scope, work, d)
           /\ InstFrame(key, st) = [todo |-> st.body, top |-> FALSE, ends |-> "instance",
                                    saved |-> scope, key |-> key, st |-> st]
           /\ IsFrame(InstFrame(key, st)) /\ InstFrame(key, st).saved = scope
<1> DEFINE f == InstFrame(key, st)
<1>1. f = [todo |-> st.body, top |-> FALSE, ends |-> "instance", saved |-> scope,
           key |-> key, st |-> st]
  <2> DEFINE g == Frame(st.body, FALSE, "instance")
  <2>1. g = [todo |-> st.body, top |-> FALSE, ends |-> "instance", saved |-> scope,
             key |-> <<>>, st |-> None]
    BY DEF Frame
  <2>2. f = [[g EXCEPT !.key = key] EXCEPT !.st = st]
    BY DEF InstFrame
  <2> HIDE DEF g, f
  <2>3. [g EXCEPT !.key = key] = [todo |-> g.todo, top |-> g.top, ends |-> g.ends,
                                  saved |-> g.saved, key |-> key, st |-> g.st]
    <3>1. g = [todo |-> g.todo, top |-> g.top, ends |-> g.ends, saved |-> g.saved,
               key |-> g.key, st |-> g.st]
      BY <2>1
    <3> QED BY <3>1
  <2>4. f = [todo |-> g.todo, top |-> g.top, ends |-> g.ends, saved |-> g.saved,
             key |-> key, st |-> st]
    BY <2>2, <2>3
  <2> QED BY <2>1, <2>4
<1>2. IsSeq(st.body) /\ (\A i \in DOMAIN st.body : IsTask(st.body[i]))
      /\ st \in Statements /\ st.s = "proc" /\ st.generic = None
  <2>1. st.body \in Seq(Statements)
    BY StatementsAssumption DEF WellFormed, Requests
  <2>2. IsSeq(st.body) /\ \A i \in DOMAIN st.body : st.body[i] \in Statements
    BY <2>1, SeqIsSeq
  <2> QED BY <2>2 DEF IsTask, Requests
<1>3. work' = <<f>> \o work /\ Busy
  BY DEF Requests
<1> HIDE DEF f
<1>4. IsFrame(f) /\ f.saved = scope
  <2>1. /\ f.todo = st.body /\ f.top = FALSE /\ f.ends = "instance" /\ f.saved = scope
        /\ f.key = key /\ f.st = st
    BY <1>1
  <2>2. f = [todo |-> f.todo, top |-> f.top, ends |-> f.ends, saved |-> f.saved,
             key |-> f.key, st |-> f.st]
    BY <1>1
  <2>3. f.top = (f.ends \in {"module", "namespace"})
    <3>1. (f.ends \in {"module", "namespace"}) = FALSE
      BY <2>1
    <3>2. f.top = FALSE
      BY <2>1
    <3> QED BY <3>1, <3>2, Zenon
  <2>4. IsSeq(f.todo) /\ (\A i \in DOMAIN f.todo : IsTask(f.todo[i]))
        /\ f.st \in Statements /\ f.st.s = "proc" /\ f.st.generic = None
    BY <1>2, <2>1
  <2> QED BY <2>1, <2>2, <2>3, <2>4 DEF IsFrame
<1>5. IsSeq(work) /\ work # <<>>
  BY <1>3, NowFacts DEF StackInv
<1> DEFINE n == Len(work)
           w2 == <<f>> \o work
<1>7. n = Len(work) /\ w2 = <<f>> \o work
  OBVIOUS
<1> HIDE DEF n, w2
<1>6. /\ IsSeq(w2) /\ w2 # <<>> /\ Len(w2) = n + 1 /\ n \in Nat /\ n > 0
      /\ Level(w2, n + 1) = f /\ View(scope', w2, n + 1) = scope'
      /\ \A d \in 1..n : Level(w2, d) = Level(work, d) /\ View(scope', w2, d) = View(scope, work, d)
  BY <1>4, <1>5, <1>7, Pushed
<1> QED BY <1>1, <1>3, <1>4, <1>6 DEF f, n, w2

-----------------------------------------------------------------------------
(* The stack stays well formed.                                              *)

LevelOK(f, v, d) ==
    /\ IsFrame(f) /\ IsScope(v) /\ Linked(f, v)
    /\ f.ends = "module" <=> d = 1
    /\ f.ends = "namespace" => d = 2

LEMMA StackIs ==
    StackInv <=> /\ IsSeq(work) /\ work # <<>>
                 /\ \A d \in 1..Len(work) : LevelOK(Level(work, d), View(scope, work, d), d)
BY DEF StackInv, LevelOK

\* A frame with its first task taken is linked to any scope like the one before.
LEMMA LinkedOn ==
    ASSUME NEW f, IsFrame(f), f.todo # <<>>, NEW v, NEW v2, NEW d, LevelOK(f, v, d),
           IsScope(v2), v2.loops = v.loops, Statics(v2) = Statics(v)
    PROVE  LevelOK(Taken1(f), v2, d) /\ LevelOK(f, v2, d)
<1>1. v2.prefix = v.prefix /\ v2.inProc = v.inProc /\ v2.class = v.class /\ v2.ret = v.ret
  BY DEF Statics
<1>2. /\ Taken1(f).top = f.top /\ Taken1(f).ends = f.ends
      /\ Taken1(f).saved = f.saved /\ IsFrame(Taken1(f))
  BY FrameFields
<1>3. Linked(f, v2)
  BY <1>1 DEF LevelOK, Linked, Statics
<1>4. Linked(Taken1(f), v2)
  BY <1>2, <1>3 DEF Linked
<1> QED BY <1>2, <1>3, <1>4 DEF LevelOK

LEMMA TasksOfShape ==
    ASSUME TypeInv, Busy, NEW todo,
           \/ BlockTasks(Now, todo)
           \/ todo = Now.body /\ ((\E kind : LoopTask(Now, kind)) \/ Now.s \in {"proc", "ns"})
    PROVE  IsSeq(todo) /\ \A i \in DOMAIN todo : IsTask(todo[i])
<1>1. IsTask(Now)
  BY NowFacts
<1>2. /\ Now.s \notin {"arm", "round", "post"} => Now \in Statements /\ WellFormed(Now)
      /\ Now.s \in {"arm", "round"} => Now.body \in Seq(Statements)
  BY <1>1, TaskStatement
<1>3. CASE todo = Now.body /\ Now.s \in {"arm", "for", "while", "round", "proc", "ns"}
  <2>1. todo \in Seq(Statements)
    BY <1>2, <1>3 DEF WellFormed
  <2>2. IsSeq(todo) /\ \A i \in DOMAIN todo : todo[i] \in Statements
    BY <2>1, SeqIsSeq
  <2> QED BY <2>2 DEF IsTask
<1>4. CASE /\ Now.s \in {"if", "select"} /\ IsSeq(todo) /\ Len(todo) = Len(Parts(Now))
           /\ \A i \in DOMAIN todo : todo[i].s = "arm" /\ todo[i].body = Parts(Now)[i]
  <2>1. Parts(Now) \in Seq(Seq(Statements))
    BY <1>2, <1>4, PartsType
  <2>2. DOMAIN todo = DOMAIN Parts(Now)
    BY <1>4, <2>1 DEF IsSeq
  <2>3. \A i \in DOMAIN todo : todo[i].body \in Seq(Statements)
    BY <1>4, <2>1, <2>2
  <2> QED BY <1>4, <2>3 DEF IsTask
<1>5. CASE /\ Now.s = "do"
           /\ todo = <<[s |-> "round", body |-> Now.body], [s |-> "post", e |-> Now.post]>>
  <2>1. Now.body \in Seq(Statements)
    BY <1>2, <1>5 DEF WellFormed
  <2> DEFINE r == [s |-> "round", body |-> Now.body]
             p == [s |-> "post", e |-> Now.post]
  <2>2. IsTask(r) /\ IsTask(p)
    BY <2>1 DEF IsTask
  <2>3. todo = <<r, p>>
    BY <1>5
  <2> HIDE DEF r, p
  <2>4. todo \in Seq({r, p}) /\ \A i \in DOMAIN todo : todo[i] \in {r, p}
    BY <2>3
  <2> QED BY <2>2, <2>4, SeqIsSeq
<1> QED BY <1>3, <1>4, <1>5 DEF BlockTasks, LoopTask

LEMMA LeafStack ==
    ASSUME TypeInv, Effects, LeafShape
    PROVE  StackInv'
<1> DEFINE n == Len(work)
<1>1. Busy /\ work' = Rest /\ scope'.loops = S.loops /\ Statics(scope') = Statics(S) /\ IsScope(scope')
  BY DEF Effects, LeafShape
<1>2. /\ IsSeq(work') /\ work' # <<>> /\ Len(work') = n /\ n \in Nat /\ n > 0
      /\ Level(work', n) = Taken1(F) /\ View(scope', work', n) = scope'
      /\ \A d \in 1..(n - 1) : /\ Level(work', d) = Level(work, d)
                               /\ View(scope', work', d) = View(scope, work, d)
  BY <1>1, LeafLevels
<1>3. /\ \A d \in 1..n : LevelOK(Level(work, d), View(scope, work, d), d)
      /\ Level(work, n) = F /\ View(scope, work, n) = scope /\ IsFrame(F) /\ F.todo # <<>>
  BY <1>1, NowFacts, StackIs
<1> HIDE DEF n
<1>4. LevelOK(Level(work', n), View(scope', work', n), n)
  <2>1. LevelOK(F, scope, n)
    BY <1>2, <1>3
  <2>2. LevelOK(Taken1(F), scope', n)
    BY <1>1, <1>3, <2>1, LinkedOn DEF S
  <2> QED BY <1>2, <2>2
<1>5. \A d \in 1..(n - 1) : LevelOK(Level(work', d), View(scope', work', d), d)
  BY <1>2, <1>3
<1>6. \A d \in 1..n : LevelOK(Level(work', d), View(scope', work', d), d)
  <2> TAKE d \in 1..n
  <2>1. d = n \/ d \in 1..(n - 1)
    BY <1>2
  <2> QED BY <1>4, <1>5, <2>1
<1> QED BY <1>2, <1>6 DEF StackInv, LevelOK

\* A block is entered: what is to be shown of its own level.
LEMMA PushStack ==
    ASSUME TypeInv, Effects, NEW f, IsFrame(f), f.saved = scope, work' = <<f>> \o Rest,
           Linked(f, scope'), f.ends # "module", f.ends = "namespace" => F.ends = "module"
    PROVE  StackInv'
<1> DEFINE n == Len(work)
<1>1. Busy /\ IsScope(scope')
  BY DEF Effects
<1>2. /\ IsSeq(work') /\ work' # <<>> /\ Len(work') = n + 1 /\ n \in Nat /\ n > 0
      /\ Level(work', n + 1) = f /\ View(scope', work', n + 1) = scope'
      /\ Level(work', n) = Taken1(F) /\ View(scope', work', n) = scope
      /\ \A d \in 1..(n - 1) : /\ Level(work', d) = Level(work, d)
                               /\ View(scope', work', d) = View(scope, work, d)
  BY <1>1, PushLevels
<1>3. /\ \A d \in 1..n : LevelOK(Level(work, d), View(scope, work, d), d)
      /\ Level(work, n) = F /\ View(scope, work, n) = scope /\ IsFrame(F) /\ F.todo # <<>>
      /\ IsScope(scope)
  BY <1>1, NowFacts, StackIs
<1> HIDE DEF n
<1>4. LevelOK(Level(work', n), View(scope', work', n), n) /\ LevelOK(F, scope, n)
  <2>1. LevelOK(F, scope, n)
    BY <1>2, <1>3
  <2>2. LevelOK(Taken1(F), scope, n)
    BY <1>3, <2>1, LinkedOn
  <2> QED BY <1>2, <2>1, <2>2
<1>5. LevelOK(Level(work', n + 1), View(scope', work', n + 1), n + 1)
  BY <1>1, <1>2, <1>4 DEF LevelOK
<1>6. \A d \in 1..(n - 1) : LevelOK(Level(work', d), View(scope', work', d), d)
  BY <1>2, <1>3
<1>7. \A d \in 1..(n + 1) : LevelOK(Level(work', d), View(scope', work', d), d)
  <2> TAKE d \in 1..(n + 1)
  <2>1. d = n \/ d = n + 1 \/ d \in 1..(n - 1)
    BY <1>2
  <2> QED BY <1>4, <1>5, <1>6, <2>1
<1> QED BY <1>2, <1>7 DEF StackInv, LevelOK

LEMMA ShapeStack ==
    ASSUME TypeInv, Takes
    PROVE  StackInv'
<1>1. Effects /\ Busy /\ IsScope(scope) /\ IsFrame(F) /\ Linked(F, scope)
  BY NowFacts DEF Takes, Effects
<1>a. scope = [symbols |-> S.symbols, locals |-> S.locals, prefix |-> S.prefix, class |-> S.class,
               inProc |-> S.inProc, ret |-> S.ret, loops |-> S.loops, gosub |-> S.gosub]
  BY <1>1 DEF IsScope, S
<1>2. CASE LeafShape
  BY <1>1, <1>2, LeafStack
<1>3. CASE \E todo : BlockShape(todo)
  <2>1. PICK todo : BlockShape(todo)
    BY <1>3
  <2> DEFINE f == Frame(todo, FALSE, "block")
  <2>2. work' = <<f>> \o Rest /\ scope' = scope /\ BlockTasks(Now, todo)
    BY <2>1 DEF BlockShape, S
  <2>3. IsSeq(todo) /\ \A i \in DOMAIN todo : IsTask(todo[i])
    BY <1>1, <2>2, TasksOfShape
  <2>4. IsFrame(f) /\ f.saved = scope /\ f.ends = "block" /\ ~f.top
    <3>1. IsFrame(f)
      BY <2>3, NewFrame
    <3>2. QED BY <3>1 DEF Frame
  <2> HIDE DEF f
  <2>5. Linked(f, scope')
    BY <2>2, <2>4 DEF Linked
  <2> QED BY <1>1, <2>2, <2>4, <2>5, PushStack
<1>4. CASE \E kind \in Breakable : LoopShape(kind)
  <2>1. PICK kind \in Breakable : LoopShape(kind)
    BY <1>4
  <2> DEFINE f == Frame(Now.body, FALSE, "loop")
  <2>2. work' = <<f>> \o Rest /\ scope' = [scope EXCEPT !.loops = Append(@, kind)] /\ LoopTask(Now, kind)
    BY <2>1 DEF LoopShape, S
  <2>3. IsSeq(Now.body) /\ \A i \in DOMAIN Now.body : IsTask(Now.body[i])
    BY <1>1, <2>2, TasksOfShape
  <2>4. IsFrame(f) /\ f.saved = scope /\ f.ends = "loop" /\ ~f.top
    <3>1. IsFrame(f)
      BY <2>3, NewFrame
    <3>2. QED BY <3>1 DEF Frame
  <2> HIDE DEF f
  <2>5. scope'.loops = Append(scope.loops, kind) /\ Statics(scope') = Statics(scope)
    BY <1>a, <2>2 DEF Statics, S
  <2>6. Linked(f, scope')
    BY <2>4, <2>5 DEF Linked
  <2> QED BY <1>1, <2>2, <2>4, <2>6, PushStack
<1>5. CASE BodyShape
  <2> DEFINE f == Frame(Now.body, FALSE, "body")
             b == Body(Now.params, BodyRet(Now), Now.owner, Now.fn)
  <2>2. work' = <<f>> \o Rest /\ scope' = b /\ Now.s = "proc"
    BY <1>5 DEF BodyShape
  <2>3. IsSeq(Now.body) /\ \A i \in DOMAIN Now.body : IsTask(Now.body[i])
    BY <1>1, <2>2, TasksOfShape
  <2>4. IsFrame(f) /\ f.saved = scope /\ f.ends = "body" /\ ~f.top
    <3>1. IsFrame(f)
      BY <2>3, NewFrame
    <3>2. QED BY <3>1 DEF Frame
  <2> DEFINE k == IF Now.fn THEN "Function" ELSE "Sub"
  <2>5. b.loops = Append(scope.loops, k) /\ b.prefix = scope.prefix /\ b.inProc
    BY <1>1, BodyScope DEF S
  <2> HIDE DEF f, b
  <2>6. Linked(f, scope')
    BY <2>2, <2>4, <2>5 DEF Linked
  <2> QED BY <1>1, <2>2, <2>4, <2>6, PushStack
<1>6. CASE SpaceShape
  <2> DEFINE f == Frame(Now.body, TRUE, "namespace")
  <2>2. /\ work' = <<f>> \o Rest /\ scope' = [scope EXCEPT !.prefix = Append(@, Now.x)]
        /\ Now.s = "ns" /\ F.top /\ ~InSpace
    BY <1>6 DEF SpaceShape, S
  <2>3. IsSeq(Now.body) /\ \A i \in DOMAIN Now.body : IsTask(Now.body[i])
    BY <1>1, <2>2, TasksOfShape
  <2>4. IsFrame(f) /\ f.saved = scope /\ f.ends = "namespace" /\ f.top = TRUE
    <3>1. IsFrame(f)
      BY <2>3, NewFrame
    <3>2. QED BY <3>1 DEF Frame
  <2> HIDE DEF f
  <2>5. F.ends = "module" /\ scope.prefix = <<>> /\ scope.loops = <<>> /\ ~scope.inProc
        /\ scope.class = None /\ scope.ret = Unknown
    BY <1>1, <2>2 DEF IsFrame, InSpace, Linked
  <2>6. /\ scope'.prefix = Append(scope.prefix, Now.x) /\ scope'.loops = scope.loops
        /\ scope'.inProc = scope.inProc /\ scope'.class = scope.class /\ scope'.ret = scope.ret
    BY <1>a, <2>2 DEF S
  <2>7. scope'.prefix # <<>>
    <3>1. Append(<<>>, Now.x) # <<>>
      OBVIOUS
    <3> QED BY <2>5, <2>6, <3>1
  <2>8. Linked(f, scope')
    BY <2>4, <2>5, <2>6, <2>7 DEF Linked
  <2> QED BY <1>1, <2>2, <2>4, <2>5, <2>8, PushStack
<1> QED BY <1>2, <1>3, <1>4, <1>5, <1>6 DEF Takes, Shape

LEMMA InstScope ==
    ASSUME TypeInv, NEW key, NEW st, Requests(key, st)
    PROVE  /\ IsScope(scope) /\ IsScope(scope') /\ LArr(scope') = {}
           /\ scope'.symbols = scope.symbols /\ scope'.gosub = scope.gosub
           /\ scope'.loops = Append(scope.loops, IF st.fn THEN "Function" ELSE "Sub")
           /\ scope'.prefix = scope.prefix /\ scope'.inProc
           /\ scope'.ret = (IF st.fn THEN st.t ELSE Unknown) /\ scope'.class = None
<1>1. IsScope(S) /\ Busy
  BY NowFacts DEF Requests, S
<1> DEFINE r == IF st.fn THEN st.t ELSE Unknown
<1>2. scope' = Body(st.params, r, None, st.fn)
  BY DEF Requests
<1> HIDE DEF r
<1>3. /\ IsScope(scope') /\ LArr(scope') = {} /\ scope'.symbols = S.symbols /\ scope'.gosub = S.gosub
      /\ scope'.loops = Append(S.loops, IF st.fn THEN "Function" ELSE "Sub")
      /\ scope'.prefix = S.prefix /\ scope'.inProc /\ scope'.ret = r /\ scope'.class = None
  BY <1>1, <1>2, BodyScope
<1> QED BY <1>1, <1>3 DEF r, S

LEMMA InstStack ==
    ASSUME TypeInv, NEW key, NEW st, Requests(key, st)
    PROVE  StackInv'
<1> DEFINE n == Len(work)
           f == InstFrame(key, st)
<1>1. /\ IsSeq(work') /\ work' # <<>> /\ Len(work') = n + 1 /\ n \in Nat /\ n > 0
      /\ Level(work', n + 1) = f /\ View(scope', work', n + 1) = scope'
      /\ \A d \in 1..n : /\ Level(work', d) = Level(work, d)
                         /\ View(scope', work', d) = View(scope, work, d)
  BY InstLevels
<1>2. IsFrame(f) /\ f.saved = scope /\ f.ends = "instance" /\ ~f.top
  BY InstLevels
<1>3. \A d \in 1..n : LevelOK(Level(work, d), View(scope, work, d), d)
  BY StackIs DEF TypeInv, Requests, Busy
<1> HIDE DEF n, f
<1>4. Linked(f, scope')
  BY <1>2, InstScope DEF Linked
<1>5. LevelOK(f, scope', n + 1)
  BY <1>1, <1>2, <1>4, InstScope DEF LevelOK
<1>6. \A d \in 1..(n + 1) : LevelOK(Level(work', d), View(scope', work', d), d)
  <2> TAKE d \in 1..(n + 1)
  <2>1. d = n + 1 \/ d \in 1..n
    BY <1>1
  <2> QED BY <1>1, <1>3, <1>5, <2>1
<1> QED BY <1>1, <1>6 DEF StackInv, LevelOK

LEMMA PopLoops ==
    ASSUME NEW loops \in Seq(LoopKinds), NEW k
    PROVE  SubSeq(Append(loops, k), 1, Len(Append(loops, k)) - 1) = loops
OBVIOUS

\* The scope after the end of a block is the one put aside, but for what the
\* program's symbols and spans have become.
LEMMA EndScope ==
    ASSUME TypeInv, Ends
    PROVE  /\ IsScope(scope) /\ IsFrame(F) /\ Linked(F, scope) /\ scope' = Restored(F.ends, F.saved)
           /\ Level(work, Len(work)) = F
           /\ scope'.symbols = scope.symbols /\ scope'.gosub = scope.gosub /\ IsScope(scope')
           /\ F.ends \in {"body", "instance"} => scope'.locals = F.saved.locals
           /\ F.ends \notin {"body", "instance"} => scope'.locals = scope.locals
           /\ F.ends = "module" => scope' = scope
           /\ F.ends # "module" => /\ IsScope(F.saved) /\ scope'.loops = F.saved.loops
                                   /\ Statics(scope') = Statics(F.saved)
<1> DEFINE n == Len(work)
<1>1. /\ IsSeq(work) /\ work # <<>> /\ scope' = Restored(F.ends, F.saved)
      /\ \A d \in 1..Len(work) : LevelOK(Level(work, d), View(scope, work, d), d)
  BY StackIs DEF Ends, TypeInv
<1>2. /\ n \in Nat /\ n > 0 /\ Level(work, n) = F /\ View(scope, work, n) = scope
      /\ n > 1 => View(scope, work, n - 1) = F.saved
  BY <1>1, Popped DEF F
<1>3. LevelOK(F, scope, n)
  BY <1>1, <1>2
<1>4. F.ends # "module" => n > 1 /\ LevelOK(Level(work, n - 1), F.saved, n - 1)
  <2>1. F.ends # "module" => n # 1
    BY <1>3 DEF LevelOK
  <2>2. n > 1 => n - 1 \in 1..n
    BY <1>2
  <2>3. n > 1 => LevelOK(Level(work, n - 1), View(scope, work, n - 1), n - 1)
    BY <1>1, <2>2
  <2>4. n > 1 => LevelOK(Level(work, n - 1), F.saved, n - 1)
    BY <1>2, <2>3
  <2> HIDE DEF n
  <2> QED BY <1>2, <2>1, <2>4
<1>5. F.ends # "module" => IsScope(F.saved)
  BY <1>4 DEF LevelOK
<1>6. scope = [symbols |-> scope.symbols, locals |-> scope.locals, prefix |-> scope.prefix,
               class |-> scope.class, inProc |-> scope.inProc, ret |-> scope.ret,
               loops |-> scope.loops, gosub |-> scope.gosub]
      /\ IsScope(scope) /\ IsFrame(F) /\ Linked(F, scope)
  BY <1>3 DEF LevelOK, IsScope
<1> DEFINE popped == SubSeq(scope.loops, 1, Len(scope.loops) - 1)
           out0 == [scope EXCEPT !.loops = popped]
<1>7. F.ends \in {"body", "instance", "loop"} => popped = F.saved.loops
  <2>1. F.ends \in {"body", "instance", "loop"} => \E k : scope.loops = Append(F.saved.loops, k)
    BY <1>6 DEF Linked
  <2> QED BY <1>5, <2>1, PopLoops DEF IsScope
<1>8. out0 = [symbols |-> scope.symbols, locals |-> scope.locals, prefix |-> scope.prefix,
              class |-> scope.class, inProc |-> scope.inProc, ret |-> scope.ret,
              loops |-> popped, gosub |-> scope.gosub]
  <2> HIDE DEF popped
  <2> QED BY <1>6
<1>9. scope' = CASE F.ends \in {"body", "instance"} ->
                      [out0 EXCEPT !.locals = F.saved.locals, !.inProc = F.saved.inProc,
                                   !.ret = F.saved.ret, !.class = F.saved.class]
                 [] F.ends = "loop" -> out0
                 [] F.ends = "namespace" -> [scope EXCEPT !.prefix = F.saved.prefix]
                 [] OTHER -> scope
  BY <1>1 DEF Restored, S
<1> HIDE DEF popped, out0, n
<1>10. CASE F.ends \in {"body", "instance"}
  <2>1. scope' = [symbols |-> scope.symbols, locals |-> F.saved.locals, prefix |-> scope.prefix,
                  class |-> F.saved.class, inProc |-> F.saved.inProc, ret |-> F.saved.ret,
                  loops |-> popped, gosub |-> scope.gosub]
    BY <1>8, <1>9, <1>10
  <2>2. scope.prefix = F.saved.prefix /\ IsScope(F.saved) /\ popped = F.saved.loops
    BY <1>5, <1>6, <1>7, <1>10 DEF Linked
  <2>3. /\ scope'.symbols = scope.symbols /\ scope'.gosub = scope.gosub
        /\ scope'.locals = F.saved.locals /\ scope'.loops = F.saved.loops
        /\ scope'.prefix = F.saved.prefix /\ scope'.inProc = F.saved.inProc
        /\ scope'.class = F.saved.class /\ scope'.ret = F.saved.ret
    BY <2>1, <2>2
  <2>4. IsScope(scope')
    BY <1>6, <2>1, <2>2, <2>3 DEF IsScope
  <2> QED BY <1>1, <1>2, <1>6, <1>10, <2>2, <2>3, <2>4 DEF Statics, n
<1>11. CASE F.ends = "loop"
  <2>1. scope' = out0
    BY <1>9, <1>11
  <2>2. Statics(scope) = Statics(F.saved) /\ IsScope(F.saved) /\ popped = F.saved.loops
    BY <1>5, <1>6, <1>7, <1>11 DEF Linked
  <2>3. /\ scope'.symbols = scope.symbols /\ scope'.gosub = scope.gosub
        /\ scope'.locals = scope.locals /\ scope'.loops = F.saved.loops
        /\ scope'.prefix = scope.prefix /\ scope'.inProc = scope.inProc
        /\ scope'.class = scope.class /\ scope'.ret = scope.ret
    BY <1>8, <2>1, <2>2
  <2>4. IsScope(scope')
    BY <1>6, <1>8, <2>1, <2>2, <2>3 DEF IsScope
  <2> QED BY <1>1, <1>2, <1>6, <1>11, <2>2, <2>3, <2>4 DEF Statics, n
<1>12. CASE F.ends = "namespace"
  <2>1. scope' = [symbols |-> scope.symbols, locals |-> scope.locals, prefix |-> F.saved.prefix,
                  class |-> scope.class, inProc |-> scope.inProc, ret |-> scope.ret,
                  loops |-> scope.loops, gosub |-> scope.gosub]
    BY <1>6, <1>9, <1>12
  <2>2. /\ F.saved.prefix = <<>> /\ F.top /\ scope.loops = <<>> /\ ~scope.inProc
        /\ scope.class = None /\ scope.ret = Unknown
    BY <1>6, <1>12 DEF Linked, IsFrame
  <2>3. n = 2 /\ LevelOK(Level(work, 1), F.saved, 1)
    BY <1>3, <1>4, <1>12 DEF LevelOK
  <2>4. /\ F.saved.loops = <<>> /\ ~F.saved.inProc
        /\ F.saved.class = None /\ F.saved.ret = Unknown /\ IsScope(F.saved)
    BY <2>3 DEF LevelOK, Linked, IsFrame
  <2>5. /\ scope'.symbols = scope.symbols /\ scope'.gosub = scope.gosub
        /\ scope'.locals = scope.locals /\ scope'.loops = <<>>
        /\ scope'.prefix = <<>> /\ scope'.inProc = scope.inProc
        /\ scope'.class = scope.class /\ scope'.ret = scope.ret
    BY <2>1, <2>2
  <2>6. scope.inProc = F.saved.inProc
    BY <1>6, <2>2, <2>4 DEF IsScope
  <2>7. IsScope(scope')
    BY <1>6, <2>1, <2>4, <2>5 DEF IsScope
  <2> QED BY <1>1, <1>2, <1>6, <1>12, <2>2, <2>4, <2>5, <2>6, <2>7 DEF Statics, n
<1>13. CASE F.ends \in {"block", "module"}
  <2>1. scope' = scope
    BY <1>9, <1>13
  <2>2. F.ends = "block" => Statics(scope) = Statics(F.saved) /\ scope.loops = F.saved.loops
    BY <1>6 DEF Linked
  <2> QED BY <1>1, <1>2, <1>5, <1>6, <1>13, <2>1, <2>2 DEF n, Statics
<1> QED BY <1>6, <1>10, <1>11, <1>12, <1>13 DEF IsFrame

LEMMA EndLevels ==
    ASSUME TypeInv, Ends
    PROVE  /\ IsSeq(work') /\ Len(work') = Len(work) - 1 /\ Len(work) \in Nat /\ Len(work) > 0
           /\ Level(work, Len(work)) = F /\ View(scope, work, Len(work)) = scope
           /\ Len(work) > 1 => /\ work' # <<>> /\ View(scope', work', Len(work) - 1) = scope'
                               /\ View(scope, work, Len(work) - 1) = F.saved
           /\ Len(work) = 1 => work' = <<>>
           /\ \A d \in 1..(Len(work) - 1) : Level(work', d) = Level(work, d)
           /\ \A d \in 1..(Len(work) - 2) : View(scope', work', d) = View(scope, work, d)
<1>1. IsSeq(work) /\ work # <<>> /\ work' = Tail(work)
  BY DEF Ends, TypeInv, StackInv
<1> QED BY <1>1, Popped DEF F

LEMMA EndStack ==
    ASSUME TypeInv, Ends
    PROVE  /\ F.ends = "module" => work' = <<>> /\ Bare(scope')
           /\ F.ends # "module" => StackInv'
<1> DEFINE n == Len(work)
<1>1. /\ IsSeq(work') /\ Len(work') = n - 1 /\ n \in Nat /\ n > 0
      /\ Level(work, n) = F /\ View(scope, work, n) = scope
      /\ n > 1 => /\ work' # <<>> /\ View(scope', work', n - 1) = scope'
                  /\ View(scope, work, n - 1) = F.saved
      /\ n = 1 => work' = <<>>
      /\ \A d \in 1..(n - 1) : Level(work', d) = Level(work, d)
      /\ \A d \in 1..(n - 2) : View(scope', work', d) = View(scope, work, d)
  BY EndLevels
<1>2. \A d \in 1..n : LevelOK(Level(work, d), View(scope, work, d), d)
  BY StackIs DEF Ends, TypeInv
<1> HIDE DEF n
<1>3. LevelOK(F, scope, n)
  BY <1>1, <1>2
<1>4. F.ends = "module" => n = 1
  BY <1>3 DEF LevelOK
<1>5. F.ends = "module" => work' = <<>> /\ Bare(scope')
  <2>1. F.ends = "module" => Linked(F, scope) /\ F.top
    BY <1>3 DEF LevelOK, IsFrame
  <2> QED BY <1>1, <1>4, <2>1, EndScope DEF Linked, Bare
<1>6. ASSUME F.ends # "module" PROVE StackInv'
  <2>1. n > 1
    BY <1>1, <1>3, <1>6 DEF LevelOK
  <2>2. n - 1 \in 1..n /\ n - 1 \in 1..(n - 1)
    BY <1>1, <2>1
  <2>3. LevelOK(Level(work, n - 1), F.saved, n - 1)
    BY <1>1, <1>2, <2>1, <2>2
  <2>4. IsScope(scope') /\ scope'.loops = F.saved.loops /\ Statics(scope') = Statics(F.saved)
    BY <1>6, EndScope
  <2>5. LevelOK(Level(work', n - 1), scope', n - 1)
    <3>1. Level(work', n - 1) = Level(work, n - 1)
      BY <1>1, <2>2
    <3>2. /\ scope'.prefix = F.saved.prefix /\ scope'.inProc = F.saved.inProc
          /\ scope'.class = F.saved.class /\ scope'.ret = F.saved.ret
      BY <2>4 DEF Statics
    <3>3. Linked(Level(work, n - 1), scope')
      BY <2>3, <2>4, <3>2 DEF LevelOK, Linked, Statics
    <3> QED BY <2>3, <2>4, <3>1, <3>3 DEF LevelOK
  <2>6. \A d \in 1..(n - 1) : LevelOK(Level(work', d), View(scope', work', d), d)
    <3> TAKE d \in 1..(n - 1)
    <3>1. CASE d = n - 1
      BY <1>1, <2>1, <2>5, <3>1
    <3>2. CASE d # n - 1
      <4>1. d \in 1..(n - 2) /\ d \in 1..n
        BY <1>1, <3>2
      <4> QED BY <1>1, <1>2, <4>1
    <3> QED BY <3>1, <3>2
  <2> QED BY <1>1, <2>1, <2>6 DEF StackInv, LevelOK
<1> QED BY <1>5, <1>6

-----------------------------------------------------------------------------
(* TypeInv is an invariant.                                                  *)

LEMMA TypeInit == ASSUME Init PROVE TypeInv
<1>1. /\ module \in Programs /\ stage = "collect" /\ work = <<>> /\ pending = <<>> /\ scope = EmptyScope
      /\ tables = [labels |-> {}, gosubs |-> {}, procs |-> <<>>, generics |-> <<>>,
                   structs |-> <<>>, ops |-> <<>>, namespaces |-> {}]
  BY DEF Init, SemaInit
<1>2. IsScope(scope)
  BY <1>1 DEF EmptyScope, IsScope
<1>3. IsSeq(pending) /\ DOMAIN pending = {}
  BY <1>1 DEF IsSeq
<1>4. DOMAIN T.generics = {}
  BY <1>1 DEF T
<1>5. tables = [labels |-> T.labels, gosubs |-> T.gosubs, procs |-> T.procs,
                generics |-> T.generics, structs |-> T.structs, ops |-> T.ops,
                namespaces |-> T.namespaces]
  BY <1>1 DEF T
<1> QED BY <1>1, <1>2, <1>3, <1>4, <1>5 DEF TypeInv, Stages, Collecting

LEMMA CollectedGenerics ==
    ASSUME NEW m \in Programs, NEW k \in DOMAIN collectProcedures(m).generics
    PROVE  LET g == collectProcedures(m).generics[k]
           IN  g \in Statements /\ g.s = "proc" /\ g.generic # None
<1> DEFINE keyed == Keyed(m)
           SameKey(a, b) == a.key = b.key
           again == Repeats(keyed, DOMAIN keyed, SameKey)
           generic == {i \in DOMAIN keyed \ again : keyed[i].st.generic # None}
           i0 == CHOOSE i \in generic : keyed[i].key = k
<1>1. /\ k \in {keyed[i].key : i \in generic}
      /\ collectProcedures(m).generics[k] = keyed[i0].st
  BY DEF collectProcedures
<1>2. i0 \in generic
  BY <1>1
<1>3. keyed \in Seq([key : Seq(STRING), st : {st \in Statements : st.s = "proc"}])
  BY KeyedAssumption
<1> HIDE DEF keyed
<1>4. i0 \in DOMAIN keyed /\ keyed[i0].st.generic # None
  BY <1>2
<1> HIDE DEF i0
<1>5. keyed[i0] \in [key : Seq(STRING), st : {st \in Statements : st.s = "proc"}]
  <2> DEFINE R == [key : Seq(STRING), st : {st \in Statements : st.s = "proc"}]
  <2>1. keyed \in Seq(R)
    BY <1>3
  <2> HIDE DEF R
  <2>2. keyed[i0] \in R
    BY <1>4, <2>1
  <2> QED BY <2>2 DEF R
<1>6. keyed[i0].st \in {st \in Statements : st.s = "proc"}
  BY <1>5
<1> QED BY <1>1, <1>4, <1>6

LEMMA NamesStep ==
    ASSUME TypeInv, Step(CollectNames)
    PROVE  TypeInv'
<1>1. /\ stage = "collect" /\ stage' = "collect types"
      /\ UNCHANGED <<module, scope, work, pending, open>>
      /\ \E procs, structs :
            tables' = [labels |-> NamesOf(module, "label"), gosubs |-> NamesOf(module, "gosub"),
                       procs |-> procs, generics |-> collectProcedures(module).generics,
                       structs |-> structs, ops |-> <<>>, namespaces |-> Namespaces(module)]
  BY DEF Step, CollectNames, codegenVars
<1>2. /\ tables' = [labels |-> T.labels, gosubs |-> T.gosubs, procs |-> T.procs,
                    generics |-> T.generics, structs |-> T.structs, ops |-> T.ops,
                    namespaces |-> T.namespaces]'
      /\ T'.labels = NamesOf(module, "label") /\ T'.gosubs = NamesOf(module, "gosub")
      /\ T'.generics = collectProcedures(module).generics
  <2>1. PICK procs, structs :
            tables' = [labels |-> NamesOf(module, "label"), gosubs |-> NamesOf(module, "gosub"),
                       procs |-> procs, generics |-> collectProcedures(module).generics,
                       structs |-> structs, ops |-> <<>>, namespaces |-> Namespaces(module)]
    BY <1>1
  <2> DEFINE t == tables'
  <2>2. /\ t.labels = NamesOf(module, "label") /\ t.gosubs = NamesOf(module, "gosub")
        /\ t.procs = procs /\ t.generics = collectProcedures(module).generics
        /\ t.structs = structs /\ t.ops = <<>> /\ t.namespaces = Namespaces(module)
    BY <2>1
  <2>3. T' = t
    BY DEF T
  <2>4. t = [labels |-> t.labels, gosubs |-> t.gosubs, procs |-> t.procs,
             generics |-> t.generics, structs |-> t.structs, ops |-> t.ops,
             namespaces |-> t.namespaces]
    BY <2>1, <2>2
  <2> HIDE DEF t
  <2>5. tables' = t
    BY DEF t
  <2> QED BY <2>2, <2>3, <2>4, <2>5
<1>3. module \in Programs
  BY DEF TypeInv
<1>4. \A k \in DOMAIN T'.generics : /\ T'.generics[k] \in Statements
                                    /\ T'.generics[k].s = "proc" /\ T'.generics[k].generic # None
  BY <1>2, <1>3, CollectedGenerics
<1> QED BY <1>1, <1>2, <1>4 DEF TypeInv, Collecting, Stages

LEMMA TypesStep ==
    ASSUME TypeInv, Step(CollectTypes)
    PROVE  TypeInv'
<1> DEFINE f == Frame(module, TRUE, "module")
<1>1. /\ stage = "collect types" /\ stage' = "check" /\ work' = <<f>>
      /\ UNCHANGED <<module, scope, pending, open>>
      /\ \E ops : tables' = [tables EXCEPT !.ops = ops]
  BY DEF Step, CollectTypes, codegenVars
<1>2. /\ tables' = [labels |-> T.labels, gosubs |-> T.gosubs, procs |-> T.procs,
                    generics |-> T.generics, structs |-> T.structs, ops |-> T.ops,
                    namespaces |-> T.namespaces]'
      /\ T'.labels = T.labels /\ T'.gosubs = T.gosubs /\ T'.generics = T.generics
  BY <1>1 DEF T, TypeInv
<1>3. IsSeq(module) /\ \A i \in DOMAIN module : IsTask(module[i])
  <2>1. module \in Seq(Statements)
    BY StatementsAssumption DEF TypeInv
  <2>2. IsSeq(module) /\ \A i \in DOMAIN module : module[i] \in Statements
    BY <2>1, SeqIsSeq
  <2> QED BY <2>2 DEF IsTask
<1>4. IsFrame(f)
  BY <1>3, NewFrame
<1>5. f.ends = "module" /\ f.top
  BY DEF Frame
<1>6. scope = EmptyScope
  BY <1>1 DEF TypeInv, Collecting
<1> HIDE DEF f
<1>7. Linked(f, scope) /\ IsScope(scope)
  BY <1>5, <1>6 DEF Linked, EmptyScope, TypeInv
<1>8. IsSeq(work') /\ work' # <<>> /\ Len(work') = 1 /\ work'[1] = f
  <2>1. \A x : IsSeq(<<x>>) /\ <<x>> # <<>> /\ Len(<<x>>) = 1 /\ <<x>>[1] = x
    BY DEF IsSeq
  <2> QED BY <1>1, <2>1
<1>9. Level(work', 1) = f /\ View(scope', work', 1) = scope
  <2>1. \A w, s : Len(w) = 1 => Level(w, 1) = w[1] /\ View(s, w, 1) = s
    BY DEF Level, View
  <2> QED BY <1>1, <1>8, <2>1
<1>10. \A d \in 1..Len(work') : LevelOK(Level(work', d), View(scope', work', d), d)
  BY <1>4, <1>5, <1>7, <1>8, <1>9 DEF LevelOK
<1>11. StackInv'
  BY <1>8, <1>10 DEF StackInv, LevelOK
<1> QED BY <1>1, <1>2, <1>11 DEF TypeInv, Collecting, Stages

LEMMA CodegenSteps ==
    ASSUME CodegenNext
    PROVE  /\ stage = "generate" /\ stage' \in {"generate", "written", "crashed"}
           /\ UNCHANGED <<module, tables, scope, values, work, judged, diags, pending>>
BY DEF CodegenNext, GenLabel, GenGlobal, GenProcedure, GenNamespace, GenType, GenStatement,
       GenEnd, At2, Emit, Survives

\* What happens besides the walk.
LEMMA StageSteps ==
    ASSUME [Next]_vars
    PROVE  \/ stage = "check" \/ UNCHANGED vars \/ Terminated \/ CodegenNext
           \/ Step(CollectNames) \/ Step(CollectTypes)
BY DEF Next, Step, CheckExpressions, Turn, Busy, At, instantiateGeneric,
       EndBlock, SkipGeneric, StrayMember, Dim, Redim, Const, Enum, Assign, Store, ReturnAssign,
       PrintStmt, CallStmt, If, SelectCase, Arm, ForNext, DoLoop, LoopBody, LoopUntil, WhileWend,
       Goto, GoSub, Label, ExitLoop, Return, Yield, ProcDecl, NamespaceDecl, TypeDecl

LEMMA TypeNext == ASSUME TypeInv, [Next]_vars PROVE TypeInv'
<1>1. CASE UNCHANGED vars \/ Terminated
  <2>1. UNCHANGED <<module, tables, scope, work, pending, stage>>
    BY <1>1 DEF vars, Terminated
  <2> QED BY <2>1 DEF TypeInv, StackInv, T, View, Level, Bare
<1>2. CASE CodegenNext
  BY <1>2, CodegenSteps DEF TypeInv, Stages, Collecting, T, Bare
<1>3. CASE Step(CollectNames) \/ Step(CollectTypes)
  BY <1>3, NamesStep, TypesStep
<1>4. CASE stage = "check"
  <2>0. stage \notin Collecting
    BY <1>4 DEF Collecting
  <2>1. CASE Takes
    <3>1. UNCHANGED <<module, tables, pending, stage>> /\ IsScope(scope')
      BY <2>1 DEF Takes, Effects
    <3> QED BY <1>4, <2>1, <3>1, ShapeStack DEF TypeInv, T, Collecting
  <2>2. CASE Same
    BY <1>4, <2>2 DEF TypeInv, T, Collecting, Same, StackInv, View, Level
  <2>3. CASE Ends
    <3>1. UNCHANGED <<module, tables>> /\ IsScope(scope') /\ IsFrame(F)
      BY <2>3, EndScope DEF Ends
    <3>2. /\ IsSeq(pending')
          /\ \A i \in DOMAIN pending' : /\ pending'[i].st \in Statements
                                        /\ pending'[i].st.s = "proc" /\ pending'[i].st.generic = None
      <4>1. CASE F.ends # "instance"
        BY <2>3, <4>1 DEF Ends, TypeInv
      <4>2. CASE F.ends = "instance"
        <5> DEFINE e == [key |-> F.key, st |-> F.st]
        <5>1. pending' = Append(pending, e)
          BY <2>3, <4>2 DEF Ends
        <5>2. e.st \in Statements /\ e.st.s = "proc" /\ e.st.generic = None
          BY <3>1, <4>2 DEF IsFrame
        <5> HIDE DEF e
        <5> DEFINE P == {x \in {pending[i] : i \in DOMAIN pending} \cup {e} :
                           x.st \in Statements /\ x.st.s = "proc" /\ x.st.generic = None}
        <5>3. pending \in Seq({pending[i] : i \in DOMAIN pending})
          BY DEF TypeInv, IsSeq
        <5>4. \A i \in DOMAIN pending : pending[i] \in P
          BY DEF TypeInv
        <5>5. pending \in Seq(P) /\ e \in P
          BY <5>2, <5>3, <5>4
        <5> HIDE DEF P
        <5>6. pending' \in Seq(P)
          BY <5>1, <5>5
        <5> QED BY <5>6, SeqIsSeq DEF P
      <4> QED BY <4>1, <4>2
    <3>3. /\ F.ends = "module" => work' = <<>> /\ Bare(scope') /\ stage' \in {"generate", "rejected"}
          /\ F.ends # "module" => StackInv' /\ stage' = "check"
      BY <1>4, <2>3, EndStack DEF Ends
    <3>4. CASE F.ends = "module"
      BY <1>4, <3>1, <3>2, <3>3, <3>4 DEF TypeInv, T, Collecting, Stages, Bare
    <3>5. CASE F.ends # "module"
      BY <1>4, <3>1, <3>2, <3>3, <3>5 DEF TypeInv, T, Collecting, Stages
    <3> QED BY <3>4, <3>5
  <2>4. ASSUME NEW key, NEW st, Requests(key, st) PROVE TypeInv'
    <3>1. UNCHANGED <<module, pending, stage>> /\ IsScope(scope')
      BY <2>4, InstScope DEF Requests
    <3>2. /\ tables' = [labels |-> T.labels, gosubs |-> T.gosubs, procs |-> T.procs,
                        generics |-> T.generics, structs |-> T.structs, ops |-> T.ops,
                        namespaces |-> T.namespaces]'
          /\ T'.labels = T.labels /\ T'.gosubs = T.gosubs /\ T'.generics = T.generics
      <4>1. PICK procs : tables' = [tables EXCEPT !.procs = procs]
        BY <2>4 DEF Requests
      <4> QED BY <4>1 DEF T, TypeInv
    <3>3. StackInv'
      BY <2>4, InstStack
    <3> QED BY <1>4, <3>1, <3>2, <3>3 DEF TypeInv, Collecting
  <2> QED BY <1>4, <2>1, <2>2, <2>3, <2>4, WalkSteps
<1> QED BY <1>1, <1>2, <1>3, <1>4, StageSteps

THEOREM TypeCorrect == Spec => []TypeInv
<1>1. Init => TypeInv
  BY TypeInit
<1>2. TypeInv /\ [Next]_vars => TypeInv'
  BY TypeNext
<1> QED BY <1>1, <1>2, PTL DEF Spec

-----------------------------------------------------------------------------
(* The blocks below keep what they end; the one entered is a new one.        *)

\* What the frame of a block keeps as long as it is there.
SameBlock(f, g) == f.ends = g.ends /\ f.top = g.top /\ f.key = g.key /\ f.st = g.st /\ f.saved = g.saved

LEMMA TakesLevels ==
    ASSUME TypeInv, Takes
    PROVE  /\ Len(work) \in Nat /\ Len(work) > 0
           /\ \A d \in 1..Len(work) : SameBlock(Level(work', d), Level(work, d))
           /\ \/ Len(work') = Len(work)
              \/ /\ Len(work') = Len(work) + 1
                 /\ Level(work', Len(work) + 1).ends \in {"block", "loop", "body", "namespace"}
<1> DEFINE n == Len(work)
<1>1. Busy /\ IsFrame(F) /\ F.todo # <<>> /\ Level(work, n) = F
  BY NowFacts DEF Takes, Effects
<1>2. SameBlock(Taken1(F), F)
  BY <1>1, FrameFields DEF SameBlock
<1>3. \A f : SameBlock(f, f)
  BY DEF SameBlock
<1>4. CASE work' = Rest
  <2>1. /\ Len(work') = n /\ n \in Nat /\ n > 0 /\ Level(work', n) = Taken1(F)
        /\ \A d \in 1..(n - 1) : Level(work', d) = Level(work, d)
    BY <1>1, <1>4, LeafLevels
  <2> HIDE DEF n
  <2>2. ASSUME NEW d \in 1..n PROVE SameBlock(Level(work', d), Level(work, d))
    <3>1. d = n \/ d \in 1..(n - 1)
      BY <2>1
    <3> QED BY <1>1, <1>2, <1>3, <2>1, <3>1
  <2> QED BY <2>1, <2>2 DEF n
<1>5. ASSUME NEW f, f.saved = scope, f.ends \in {"block", "loop", "body", "namespace"},
             work' = <<f>> \o Rest
      PROVE  /\ n \in Nat /\ n > 0 /\ Len(work') = n + 1
             /\ Level(work', n + 1).ends \in {"block", "loop", "body", "namespace"}
             /\ \A d \in 1..n : SameBlock(Level(work', d), Level(work, d))
  <2>1. /\ Len(work') = n + 1 /\ n \in Nat /\ n > 0 /\ Level(work', n) = Taken1(F)
        /\ Level(work', n + 1) = f
        /\ \A d \in 1..(n - 1) : Level(work', d) = Level(work, d)
    BY <1>1, <1>5, PushLevels
  <2> HIDE DEF n
  <2>2. ASSUME NEW d \in 1..n PROVE SameBlock(Level(work', d), Level(work, d))
    <3>1. d = n \/ d \in 1..(n - 1)
      BY <2>1
    <3> QED BY <1>1, <1>2, <1>3, <2>1, <3>1
  <2> QED BY <1>5, <2>1, <2>2
<1>6. CASE work' # Rest
  <2>1. PICK f : /\ f.saved = scope /\ f.ends \in {"block", "loop", "body", "namespace"}
                 /\ work' = <<f>> \o Rest
    <3>1. \A todo, top, ends : /\ Frame(todo, top, ends).saved = scope
                              /\ Frame(todo, top, ends).ends = ends
      BY DEF Frame
    <3>2. Shape
      BY DEF Takes
    <3>3. CASE LeafShape
      BY <1>6, <3>3 DEF LeafShape
    <3>4. CASE \E todo : BlockShape(todo)
      <4>1. PICK todo : work' = <<Frame(todo, FALSE, "block")>> \o Rest
        BY <3>4 DEF BlockShape
      <4> QED BY <3>1, <4>1
    <3>5. CASE \E kind \in Breakable : LoopShape(kind)
      <4>1. work' = <<Frame(Now.body, FALSE, "loop")>> \o Rest
        BY <3>5 DEF LoopShape
      <4> DEFINE f == Frame(Now.body, FALSE, "loop")
      <4>2. f.saved = scope /\ f.ends = "loop"
        BY <3>1
      <4>3. work' = <<f>> \o Rest
        BY <4>1
      <4> HIDE DEF f
      <4> QED BY <4>2, <4>3
    <3>6. CASE BodyShape
      <4>1. work' = <<Frame(Now.body, FALSE, "body")>> \o Rest
        BY <3>6 DEF BodyShape
      <4> DEFINE f == Frame(Now.body, FALSE, "body")
      <4>2. f.saved = scope /\ f.ends = "body"
        BY <3>1
      <4>3. work' = <<f>> \o Rest
        BY <4>1
      <4> HIDE DEF f
      <4> QED BY <4>2, <4>3
    <3>7. CASE SpaceShape
      <4>1. work' = <<Frame(Now.body, TRUE, "namespace")>> \o Rest
        BY <3>7 DEF SpaceShape
      <4> DEFINE f == Frame(Now.body, TRUE, "namespace")
      <4>2. f.saved = scope /\ f.ends = "namespace"
        BY <3>1
      <4>3. work' = <<f>> \o Rest
        BY <4>1
      <4> HIDE DEF f
      <4> QED BY <4>2, <4>3
    <3> QED BY <3>2, <3>3, <3>4, <3>5, <3>6, <3>7 DEF Shape
  <2> HIDE DEF n
  <2> QED BY <1>5, <2>1 DEF n
<1> QED BY <1>4, <1>6

-----------------------------------------------------------------------------
(* ScopesEnd.                                                                *)

\* An instance is named once: those that are appended, and those being checked.
KeysInv ==
    /\ \A i \in DOMAIN pending : pending[i].key \in DOMAIN T.procs /\ IsInstanceKey(pending[i].key)
    /\ \A i, j \in DOMAIN pending : pending[i].key = pending[j].key => i = j
    /\ \A d \in 1..Len(work) : Level(work, d).ends = "instance" =>
          /\ Level(work, d).key \in DOMAIN T.procs /\ IsInstanceKey(Level(work, d).key)
          /\ \A i \in DOMAIN pending : pending[i].key # Level(work, d).key
          /\ \A e \in 1..Len(work) : Level(work, e).ends = "instance"
                                     /\ Level(work, e).key = Level(work, d).key => d = e
SpanInv == open \in T.gosubs \cup {None} /\ (stage = "collect" => open = None)

LEMMA KeysNext == ASSUME TypeInv, KeysInv, [Next]_vars PROVE KeysInv'
<1>1. CASE stage = "check" /\ Takes
  <2> DEFINE n == Len(work)
  <2>1. /\ n \in Nat /\ n > 0
        /\ \A d \in 1..n : SameBlock(Level(work', d), Level(work, d))
        /\ \/ Len(work') = n
           \/ /\ Len(work') = n + 1
              /\ Level(work', n + 1).ends \in {"block", "loop", "body", "namespace"}
    BY <1>1, TakesLevels
  <2>2. pending' = pending /\ T' = T
    BY <1>1 DEF Takes, Effects, T
  <2> HIDE DEF n
  <2>3. \A d \in 1..Len(work') : Level(work', d).ends = "instance" =>
           d \in 1..n /\ Level(work, d).ends = "instance" /\ Level(work', d).key = Level(work, d).key
    BY <2>1 DEF SameBlock
  <2> QED BY <2>2, <2>3 DEF KeysInv, n
<1>2. CASE stage = "check" /\ Same
  BY <1>2 DEF Same, KeysInv, T, Level
<1>3. CASE stage = "check" /\ Ends
  <2> DEFINE n == Len(work)
  <2>1. /\ Len(work') = n - 1 /\ n \in Nat /\ n > 0 /\ Level(work, n) = F
        /\ \A d \in 1..(n - 1) : Level(work', d) = Level(work, d)
    BY <1>3, EndLevels
  <2>2. T' = T /\ pending' = IF F.ends = "instance" THEN Append(pending, [key |-> F.key, st |-> F.st])
                             ELSE pending
    BY <1>3 DEF Ends, T
  <2> HIDE DEF n
  <2>3. \A d \in 1..Len(work') : Level(work', d) = Level(work, d) /\ d \in 1..n /\ d # n
    BY <2>1
  <2>4. CASE F.ends # "instance"
    BY <2>2, <2>3, <2>4 DEF KeysInv, n
  <2>5. CASE F.ends = "instance"
    <3> DEFINE e == [key |-> F.key, st |-> F.st]
               m == Len(pending)
    <3>1. e.key = F.key
      OBVIOUS
    <3> HIDE DEF e
    <3>2. /\ DOMAIN pending = 1..m /\ m \in Nat /\ DOMAIN pending' = 1..(m + 1)
          /\ pending'[m + 1] = e /\ \A i \in 1..m : pending'[i] = pending[i]
      <4>1. pending \in Seq({pending[i] : i \in DOMAIN pending})
        BY DEF TypeInv, IsSeq
      <4>2. pending' = Append(pending, e)
        BY <2>2, <2>5 DEF e
      <4>3. \A A : \A q \in Seq(A) :
               /\ DOMAIN q = 1..Len(q) /\ Len(q) \in Nat /\ DOMAIN Append(q, e) = 1..(Len(q) + 1)
               /\ Append(q, e)[Len(q) + 1] = e /\ \A i \in 1..Len(q) : Append(q, e)[i] = q[i]
        OBVIOUS
      <4> QED BY <4>1, <4>2, <4>3
    <3> HIDE DEF m
    <3>3. n \in 1..n
      BY <2>1
    <3>4. /\ F.key \in DOMAIN T.procs /\ IsInstanceKey(F.key)
          /\ \A i \in DOMAIN pending : pending[i].key # F.key
          /\ \A d \in 1..n : Level(work, d).ends = "instance" /\ Level(work, d).key = F.key => d = n
      BY <2>1, <2>5, <3>3 DEF KeysInv, n
    <3>5. \A i \in DOMAIN pending' : \/ i \in DOMAIN pending /\ pending'[i] = pending[i]
                                     \/ i = m + 1 /\ pending'[i].key = F.key
      BY <3>1, <3>2
    <3>6. \A i \in DOMAIN pending' :
             pending'[i].key \in DOMAIN T.procs /\ IsInstanceKey(pending'[i].key)
      BY <3>4, <3>5 DEF KeysInv
    <3>7. \A i, j \in DOMAIN pending' : pending'[i].key = pending'[j].key => i = j
      BY <3>4, <3>5 DEF KeysInv
    <3>8. \A d \in 1..Len(work') : Level(work', d).ends = "instance" =>
             /\ Level(work', d).key \in DOMAIN T.procs /\ IsInstanceKey(Level(work', d).key)
             /\ \A i \in DOMAIN pending' : pending'[i].key # Level(work', d).key
             /\ \A c \in 1..Len(work') : Level(work', c).ends = "instance"
                                         /\ Level(work', c).key = Level(work', d).key => d = c
      BY <2>3, <3>4, <3>5 DEF KeysInv, n
    <3> QED BY <2>2, <3>6, <3>7, <3>8 DEF KeysInv
  <2> QED BY <2>4, <2>5
<1>4. ASSUME stage = "check", NEW key, NEW st, Requests(key, st) PROVE KeysInv'
  <2> DEFINE n == Len(work)
  <2>1. /\ Len(work') = n + 1 /\ n \in Nat /\ n > 0
        /\ Level(work', n + 1) = InstFrame(key, st)
        /\ \A d \in 1..n : Level(work', d) = Level(work, d)
        /\ InstFrame(key, st).key = key
    BY <1>4, InstLevels
  <2>2. DOMAIN T'.procs = DOMAIN T.procs \cup {key} /\ pending' = pending
    <3>1. PICK sig : tables' = [tables EXCEPT !.procs = Bind(@, key, sig)]
      BY <1>4 DEF Requests
    <3>2. T'.procs = Bind(T.procs, key, sig)
      BY <3>1 DEF TypeInv, T
    <3> QED BY <1>4, <3>2 DEF Bind, Requests
  <2>3. key \notin DOMAIN T.procs /\ IsInstanceKey(key)
    BY <1>4 DEF Requests
  <2> HIDE DEF n
  <2>4. \A d \in 1..Len(work') : \/ d \in 1..n /\ Level(work', d) = Level(work, d)
                                 \/ d = n + 1 /\ Level(work', d).key = key
    BY <2>1
  <2> QED BY <2>2, <2>3, <2>4 DEF KeysInv, n
<1>5. CASE Step(CollectNames) \/ Step(CollectTypes)
  <2>1. DOMAIN pending = {} /\ pending' = pending /\ \A d \in 1..Len(work') : Level(work', d).ends # "instance"
    <3>1. pending = <<>> /\ pending' = pending
      BY <1>5 DEF Step, CollectNames, CollectTypes, TypeInv, Collecting
    <3>2. CASE Step(CollectNames)
      <4>1. work' = <<>>
        BY <3>2 DEF Step, CollectNames, TypeInv, Collecting
      <4> QED BY <3>1, <4>1
    <3>3. CASE Step(CollectTypes)
      <4> DEFINE f == Frame(module, TRUE, "module")
      <4>1. work' = <<f>> /\ f.ends = "module"
        BY <3>3 DEF Step, CollectTypes, Frame
      <4> HIDE DEF f
      <4>2. \A x : Len(<<x>>) = 1 /\ <<x>>[1] = x
        OBVIOUS
      <4>3. \A w : Len(w) = 1 => Level(w, 1) = w[1] /\ 1..Len(w) = {1}
        BY DEF Level
      <4>4. Len(work') = 1 /\ work'[1] = f
        BY <4>1, <4>2
      <4> QED BY <3>1, <4>1, <4>3, <4>4
    <3> QED BY <1>5, <3>2, <3>3
  <2> QED BY <2>1 DEF KeysInv
<1>6. CASE CodegenNext \/ UNCHANGED vars \/ Terminated
  <2>1. UNCHANGED <<tables, work, pending>>
    BY <1>6, CodegenSteps DEF vars, Terminated
  <2> QED BY <2>1 DEF KeysInv, T, Level
<1> QED BY <1>1, <1>2, <1>3, <1>4, <1>5, <1>6, WalkSteps, StageSteps

LEMMA SpanNext == ASSUME TypeInv, SpanInv, [Next]_vars PROVE SpanInv'
<1>1. CASE stage = "check"
  <2>1. UNCHANGED open /\ T'.gosubs = T.gosubs /\ stage' # "collect"
    <3>1. CASE Takes \/ Same
      BY <1>1, <3>1 DEF Takes, Effects, Same, T
    <3>2. CASE Ends
      BY <1>1, <3>2 DEF Ends, T
    <3>3. ASSUME NEW key, NEW st, Requests(key, st) PROVE UNCHANGED open /\ T'.gosubs = T.gosubs /\ stage' # "collect"
      BY <1>1, <3>3 DEF Requests, T, TypeInv
    <3> QED BY <1>1, <3>1, <3>2, <3>3, WalkSteps
  <2> QED BY <2>1 DEF SpanInv
<1>2. CASE Step(CollectNames)
  <2>1. stage = "collect" /\ stage' = "collect types" /\ UNCHANGED open
    BY <1>2 DEF Step, CollectNames, codegenVars
  <2> QED BY <2>1 DEF SpanInv
<1>3. CASE Step(CollectTypes)
  <2>1. stage' = "check" /\ UNCHANGED open /\ T'.gosubs = T.gosubs
    BY <1>3 DEF Step, CollectTypes, codegenVars, TypeInv, T
  <2> QED BY <2>1 DEF SpanInv
<1>4. CASE CodegenNext
  <2>1. UNCHANGED tables /\ stage # "collect" /\ stage' # "collect"
    BY <1>4, CodegenSteps
  <2>2. open' = open \/ open' \in T.gosubs \/ open' = None
    BY <1>4 DEF CodegenNext, GenLabel, GenGlobal, GenProcedure, GenNamespace, GenType, GenStatement,
                GenEnd
  <2> QED BY <2>1, <2>2 DEF SpanInv, T
<1>5. CASE UNCHANGED vars \/ Terminated
  <2>1. UNCHANGED <<tables, open, stage>>
    BY <1>5 DEF vars, Terminated
  <2> QED BY <2>1 DEF SpanInv, T
<1> QED BY <1>1, <1>2, <1>3, <1>4, <1>5, StageSteps

\* The scope is empty again when the walk is over: every block gave back what it
\* took, the body of an instance inside a statement too; spans are open only
\* while code is generated, and no instance is appended twice.
THEOREM ScopesEndCorrect == Spec => []ScopesEnd
<1>1. Init => TypeInv /\ KeysInv /\ SpanInv
  <2>1. Init => TypeInv
    BY TypeInit
  <2>2. Init => KeysInv /\ SpanInv
    BY DEF Init, SemaInit, KeysInv, SpanInv
  <2> QED BY <2>1, <2>2
<1>2. TypeInv /\ KeysInv /\ SpanInv /\ [Next]_vars => (TypeInv /\ KeysInv /\ SpanInv)'
  BY TypeNext, KeysNext, SpanNext
<1>3. TypeInv /\ KeysInv /\ SpanInv => ScopesEnd
  <2> SUFFICES ASSUME TypeInv, KeysInv, SpanInv PROVE ScopesEnd
    OBVIOUS
  <2>1. IsScope(scope) /\ stage \in Stages
    BY DEF TypeInv
  <2>2. scope.inProc \in BOOLEAN /\ scope.gosub \in BOOLEAN
    BY <2>1 DEF IsScope
  <2>3. ~scope.inProc => scope.locals = <<>>
    BY <2>1 DEF IsScope
  <2>4. \A k \in DOMAIN scope.locals : scope.inProc
    BY <2>3
  <2>5. stage \notin {"collect", "collect types", "check"} =>
         /\ work = <<>> /\ scope.locals = <<>> /\ scope.loops = <<>> /\ scope.prefix = <<>>
         /\ ~scope.inProc /\ scope.class = None /\ scope.ret = Unknown
    BY <2>3 DEF TypeInv, Collecting, Bare
  <2> QED BY <2>1, <2>2, <2>4, <2>5 DEF ScopesEnd, KeysInv, SpanInv
<1> QED BY <1>1, <1>2, <1>3, PTL DEF Spec

-----------------------------------------------------------------------------
(* What the text allows in a block, as the walk sees it: with all the loops  *)
(* on the stack (hi; in an instance, any loop), or with those since the      *)
(* innermost procedure only.                                                 *)

ProcKinds == {"Sub", "Function"}
RangeOf(q) == {q[i] : i \in DOMAIN q}
Own(loops) == {loops[i] : i \in {k \in DOMAIN loops :
                                   \A j \in DOMAIN loops : loops[j] \in ProcKinds => j <= k}}
Gives(v) == IF AroundOf(v.loops) # "Function" THEN "nothing"
            ELSE IF IsGenerator(v.ret) THEN "yields" ELSE "a value"
InInstance(w, d) == \E e \in 1..d : Level(w, e).ends = "instance"
LoopsAt(hi, w, v, d) ==
    IF ~hi THEN Own(v.loops) ELSE IF InInstance(w, d) THEN LoopKinds ELSE RangeOf(v.loops)
Context(loops, v, span, top) ==
    [loops |-> loops, gives |-> Gives(v), returns |-> AroundOf(v.loops) # "none" \/ span, top |-> top]
ContextAt(hi, w, s, d) ==
    Context(LoopsAt(hi, w, View(s, w, d), d), View(s, w, d), s.gosub, Level(w, d).top)
\* A part of a statement is allowed where the statement is, in its block.
TaskLegal(t, c, ends) ==
    IF ends = "namespace" THEN t.s = "proc" => AllLegal(t.body, InProc(t))
    ELSE IF t.s = "arm" THEN AllLegal(t.body, c)
    ELSE IF t.s = "round" THEN AllLegal(t.body, [c EXCEPT !.loops = @ \cup {"Do"}])
    ELSE t.s # "post" => Legal[t, c]
TasksLegal(todo, c, ends) == \A i \in DOMAIN todo : TaskLegal(todo[i], c, ends)
LevelLegal(hi, w, s, d) == TasksLegal(Level(w, d).todo, ContextAt(hi, w, s, d), Level(w, d).ends)

LEMMA MaxNumber ==
    ASSUME NEW n \in Nat, NEW N, N \subseteq 1..n, N # {}
    PROVE  \E x \in N : \A y \in N : y <= x
<1> DEFINE M == {n - x : x \in N}
<1>1. M \subseteq Nat /\ M # {}
  <2>1. \A x \in N : n - x \in Nat
    OBVIOUS
  <2> QED BY <2>1
<1>2. PICK m \in M : \A k \in M : m <= k
  <2> HIDE DEF M
  <2> QED BY <1>1, LeastNumber
<1>3. PICK x \in N : m = n - x
  BY <1>2
<1>4. ASSUME NEW y \in N PROVE y <= x
  <2>1. n - x <= n - y
    BY <1>2, <1>3
  <2> QED BY <2>1
<1> QED BY <1>4

LEMMA LoopsGrow ==
    ASSUME NEW loops \in Seq(LoopKinds), NEW k \in LoopKinds
    PROVE  /\ Append(loops, k) \in Seq(LoopKinds)
           /\ RangeOf(Append(loops, k)) = RangeOf(loops) \cup {k}
           /\ k \notin ProcKinds => /\ Own(Append(loops, k)) = Own(loops) \cup {k}
                                    /\ AroundOf(Append(loops, k)) = AroundOf(loops)
           /\ k \in ProcKinds => Own(Append(loops, k)) = {k} /\ AroundOf(Append(loops, k)) = k
<1> DEFINE more == Append(loops, k)
           n == Len(loops)
<1>1. /\ more \in Seq(LoopKinds) /\ n \in Nat /\ DOMAIN loops = 1..n /\ DOMAIN more = 1..(n + 1)
      /\ more[n + 1] = k /\ \A i \in 1..n : more[i] = loops[i]
  OBVIOUS
<1> HIDE DEF more, n
<1>2. RangeOf(more) = RangeOf(loops) \cup {k}
  BY <1>1 DEF RangeOf
<1>3. CASE k \notin ProcKinds
  <2> DEFINE P(q) == {i \in DOMAIN q : q[i] \in {"Sub", "Function"}}
             K(q) == {i \in DOMAIN q : \A j \in DOMAIN q : q[j] \in ProcKinds => j <= i}
  <2>1. P(more) = P(loops)
    BY <1>1, <1>3 DEF ProcKinds
  <2>2. K(more) = K(loops) \cup {n + 1}
    <3>1. n + 1 \in K(more)
      BY <1>1
    <3>2. \A i \in 1..n : i \in K(more) <=> i \in K(loops)
      BY <1>1, <1>3
    <3> QED BY <1>1, <3>1, <3>2
  <2>3. Own(more) = Own(loops) \cup {k}
    <3>1. Own(more) = {more[i] : i \in K(more)} /\ Own(loops) = {loops[i] : i \in K(loops)}
      BY DEF Own
    <3>2. K(loops) \subseteq 1..n
      BY <1>1
    <3> HIDE DEF K
    <3> QED BY <1>1, <2>2, <3>1, <3>2
  <2>4. AroundOf(more) = AroundOf(loops)
    <3>1. CASE P(loops) = {}
      BY <2>1, <3>1 DEF AroundOf
    <3>2. CASE P(loops) # {}
      <4>1. P(loops) \subseteq 1..n
        BY <1>1
      <4> DEFINE m == CHOOSE i \in P(loops) : \A j \in P(loops) : j <= i
      <4>2. m \in P(loops)
        <5>1. \E x \in P(loops) : \A y \in P(loops) : y <= x
          <6> HIDE DEF P
          <6> QED BY <1>1, <3>2, <4>1, MaxNumber
        <5> QED BY <5>1
      <4>3. AroundOf(loops) = loops[m]
        BY <3>2 DEF AroundOf
      <4>4. AroundOf(more) = more[m]
        <5>1. P(more) # {}
          BY <2>1, <3>2
        <5>2. AroundOf(more) = more[CHOOSE i \in P(more) : \A j \in P(more) : j <= i]
          BY <5>1 DEF AroundOf
        <5> HIDE DEF P
        <5> QED BY <2>1, <5>2 DEF m
      <4> HIDE DEF m, P
      <4> QED BY <1>1, <4>1, <4>2, <4>3, <4>4
    <3> QED BY <3>1, <3>2
  <2> QED BY <1>1, <1>2, <1>3, <2>3, <2>4 DEF more
<1>4. CASE k \in ProcKinds
  <2> DEFINE P == {i \in DOMAIN more : more[i] \in {"Sub", "Function"}}
             K == {i \in DOMAIN more : \A j \in DOMAIN more : more[j] \in ProcKinds => j <= i}
  <2>1. n + 1 \in P /\ \A j \in P : j <= n + 1
    BY <1>1, <1>4 DEF ProcKinds
  <2>2. K = {n + 1}
    <3>1. n + 1 \in DOMAIN more /\ more[n + 1] \in ProcKinds
      BY <1>1, <1>4
    <3>2. \A i \in K : n + 1 <= i /\ i \in 1..(n + 1)
      BY <1>1, <3>1
    <3>3. n + 1 \in K
      BY <1>1
    <3> QED BY <1>1, <3>2, <3>3
  <2>3. Own(more) = {k}
    <3>1. Own(more) = {more[i] : i \in K}
      BY DEF Own
    <3> HIDE DEF K
    <3> QED BY <1>1, <2>2, <3>1
  <2>4. AroundOf(more) = k
    <3> DEFINE m == CHOOSE i \in P : \A j \in P : j <= i
    <3>1. m = n + 1
      <4>1. P \subseteq 1..(n + 1)
        BY <1>1
      <4> HIDE DEF P
      <4>2. m \in P /\ \A j \in P : j <= m
        BY <2>1
      <4> HIDE DEF m
      <4> QED BY <1>1, <2>1, <4>1, <4>2
    <3>2. AroundOf(more) = more[m]
      BY <2>1 DEF AroundOf
    <3> HIDE DEF m
    <3> QED BY <1>1, <3>1, <3>2
  <2> QED BY <1>1, <1>2, <1>4, <2>3, <2>4 DEF more
<1> QED BY <1>3, <1>4

LEMMA NoLoops == AroundOf(<<>>) = "none" /\ Own(<<>>) = {} /\ RangeOf(<<>>) = {}
BY DEF AroundOf, Own, RangeOf

LEMMA LoopsFacts ==
    ASSUME NEW loops \in Seq(LoopKinds)
    PROVE  /\ AroundOf(loops) \in {"none", "Sub", "Function"}
           /\ Own(loops) \subseteq RangeOf(loops) /\ RangeOf(loops) \subseteq LoopKinds
<1> DEFINE P == {i \in DOMAIN loops : loops[i] \in {"Sub", "Function"}}
<1>1. CASE P = {}
  BY <1>1 DEF AroundOf, Own, RangeOf
<1>2. CASE P # {}
  <2> DEFINE m == CHOOSE i \in P : \A j \in P : j <= i
  <2>1. P \subseteq 1..Len(loops) /\ Len(loops) \in Nat
    OBVIOUS
  <2>2. m \in P
    <3> HIDE DEF P
    <3> QED BY <1>2, <2>1, MaxNumber
  <2>3. AroundOf(loops) = loops[m]
    BY <1>2 DEF AroundOf
  <2>4. Own(loops) \subseteq RangeOf(loops) /\ RangeOf(loops) \subseteq LoopKinds
    BY DEF Own, RangeOf
  <2> HIDE DEF m
  <2> QED BY <2>2, <2>3, <2>4
<1> QED BY <1>1, <1>2

-----------------------------------------------------------------------------
(* A statement is allowed when Sema reports nothing on it and what is in it  *)
(* is allowed in the block the walk makes of it.                             *)

CtlIn(c) ==
    ~InSpace =>
      /\ Now.s = "exit" => Now.what \in c.loops
      /\ Now.s = "yield" => Around = "Function" /\ IsGenerator(S.ret)
      /\ Now.s = "return" =>
            /\ Around # "none" \/ S.gosub
            /\ (Around = "Function" /\ ~IsGenerator(S.ret)) <=> Now.e # NoExpr
      /\ Now.s \in {"goto", "gosub", "label", "type", "ns"} => F.top
      /\ Now.s = "proc" => Now.generic # None \/ F.top
StandsIn(c) ==
    /\ c \in Contexts /\ c.gives = Gives(S)
    /\ c.returns <=> Around # "none" \/ S.gosub
    /\ c.top <=> F.top

LEMMA TasksOfBody ==
    ASSUME NEW b \in Seq(Statements), NEW c, NEW ends, ends # "namespace"
    PROVE  TasksLegal(b, c, ends) <=> AllLegal(b, c)
<1>1. \A i \in DOMAIN b : b[i] \in Statements
  OBVIOUS
<1>2. \A i \in DOMAIN b : b[i].s \notin {"arm", "round", "post"}
  BY <1>1, StatementsAssumption DEF WellFormed, Leaves, Nests
<1> QED BY <1>2 DEF TasksLegal, TaskLegal, AllLegal, AllIn

LEMMA LegalIs ==
    ASSUME NEW st \in Statements, NEW c \in Contexts
    PROVE  Legal[st, c] = LegalStep(Legal, st, c)
BY RecursionAssumption

LEMMA NoParts ==
    ASSUME NEW st, st.s \notin {"if", "select", "for", "do", "while"}
    PROVE  Parts(st) = <<>>
BY DEF Parts

LEMMA LeafLegal ==
    ASSUME TypeInv, Busy, Plain(Now), NEW c, StandsIn(c)
    PROVE  TaskLegal(Now, c, F.ends) <=> CtlIn(c)
<1>1. IsTask(Now) /\ IsScope(scope) /\ Linked(F, scope)
  BY NowFacts
<1>2. CASE InSpace
  <2>1. Now.s # "proc"
    BY <1>2 DEF Plain, Leaves, InNamespace
  <2>2. TaskLegal(Now, c, F.ends)
    BY <1>2, <2>1 DEF TaskLegal, InSpace
  <2> QED BY <1>2, <2>2 DEF CtlIn
<1>3. CASE ~InSpace /\ Now.s = "post"
  BY <1>3 DEF InSpace, TaskLegal, CtlIn
<1>4. CASE ~InSpace /\ Now.s # "post"
  <2>1. Now.s \in Leaves \cup {"proc", "ns"} /\ (Now.s = "proc" => Now.generic # None \/ ~F.top)
        /\ (Now.s = "ns" => ~F.top)
    BY <1>4 DEF Plain, Leaves
  <2>2. Now \in Statements
    BY <1>1, <1>4, <2>1 DEF IsTask, Leaves
  <2>3. TaskLegal(Now, c, F.ends) <=> LegalStep(Legal, Now, c)
    <3>1. TaskLegal(Now, c, F.ends) <=> Legal[Now, c]
      BY <1>4, <2>1 DEF TaskLegal, InSpace, Leaves
    <3>2. Legal[Now, c] = LegalStep(Legal, Now, c)
      BY <2>2, LegalIs DEF StandsIn
    <3> QED BY <3>1, <3>2
  <2>4. Parts(Now) = <<>>
    BY <2>1, NoParts DEF Leaves
  <2>5. (c.gives = "yields" <=> Around = "Function" /\ IsGenerator(S.ret))
        /\ (c.gives = "a value" <=> Around = "Function" /\ ~IsGenerator(S.ret))
    BY DEF StandsIn, Gives, Around, S
  <2>6. LegalStep(Legal, Now, c) <=>
          /\ Now.s = "exit" => Now.what \in c.loops
          /\ Now.s = "yield" => c.gives = "yields"
          /\ Now.s = "return" => c.returns /\ (c.gives = "a value" <=> Now.e # NoExpr)
          /\ Now.s \in {"goto", "gosub", "label", "type", "ns"} => c.top
          /\ Now.s = "proc" => Now.generic # None \/ c.top
    <3>1. Now.s = "proc" /\ Now.generic = None => ~c.top
      BY <2>1 DEF StandsIn
    <3>2. Now.s = "ns" => ~c.top
      BY <2>1 DEF StandsIn
    <3>3. \A j \in DOMAIN Parts(Now) : AllIn(Legal, Parts(Now)[j], Inside(c, Now))
      BY <2>4
    <3>4. (c.gives = "a value") = (Now.e # NoExpr) <=> (c.gives = "a value" <=> Now.e # NoExpr)
      OBVIOUS
    <3> HIDE DEF Legal
    <3> QED BY <3>1, <3>2, <3>3, <3>4 DEF LegalStep
  <2> QED BY <1>4, <2>3, <2>5, <2>6 DEF CtlIn, StandsIn
<1> QED BY <1>2, <1>3, <1>4

LEMMA ContextsIn ==
    ASSUME NEW c \in Contexts
    PROVE  /\ [c EXCEPT !.top = FALSE] \in Contexts
           /\ \A k \in LoopKinds : [c EXCEPT !.top = FALSE, !.loops = @ \cup {k}] \in Contexts
           /\ ~c.top => c = [c EXCEPT !.top = FALSE]
BY DEF Contexts

LEMMA BlockLegal ==
    ASSUME TypeInv, Busy, NEW todo, ~InSpace, BlockTasks(Now, todo), NEW c, StandsIn(c),
           Now.s = "arm" => ~F.top
    PROVE  TaskLegal(Now, c, F.ends) <=>
             CtlIn(c) /\ TasksLegal(todo, [c EXCEPT !.top = FALSE], "block")
<1> DEFINE c2 == [c EXCEPT !.top = FALSE]
<1>1. IsTask(Now) /\ CtlIn(c) /\ c \in Contexts
  BY NowFacts DEF BlockTasks, CtlIn, StandsIn
<1>2. CASE Now.s = "arm"
  <2>1. todo = Now.body /\ Now.body \in Seq(Statements)
    BY <1>1, <1>2, StatementsAssumption DEF BlockTasks, IsTask, WellFormed, Leaves, Nests
  <2>2. TaskLegal(Now, c, F.ends) <=> AllLegal(todo, c)
    BY <1>2, <2>1 DEF TaskLegal, InSpace
  <2>3. c = c2
    BY <1>1, <1>2, ContextsIn DEF StandsIn
  <2> QED BY <1>1, <2>1, <2>2, <2>3, TasksOfBody
<1>3. CASE Now.s \in {"if", "select", "do"}
  <2>1. Now \in Statements
    BY <1>1, <1>3 DEF IsTask
  <2>2. TaskLegal(Now, c, F.ends) <=> LegalStep(Legal, Now, c)
    <3>1. TaskLegal(Now, c, F.ends) <=> Legal[Now, c]
      BY <1>3 DEF TaskLegal, InSpace
    <3> QED BY <1>1, <2>1, <3>1, LegalIs
  <2>3. LegalStep(Legal, Now, c) <=>
          \A j \in DOMAIN Parts(Now) : AllLegal(Parts(Now)[j], Inside(c, Now))
    BY <1>3 DEF LegalStep, AllLegal
  <2>4. CASE Now.s \in {"if", "select"}
    <3>1. Inside(c, Now) = c2
      BY <1>1, <2>4 DEF Inside, LoopOf, Contexts
    <3>2. DOMAIN todo = DOMAIN Parts(Now) /\ \A i \in DOMAIN todo : todo[i].s = "arm" /\ todo[i].body = Parts(Now)[i]
      <4>1. /\ IsSeq(todo) /\ Len(todo) = Len(Parts(Now))
            /\ \A i \in DOMAIN todo : todo[i].s = "arm" /\ todo[i].body = Parts(Now)[i]
        BY <2>4 DEF BlockTasks
      <4>2. IsSeq(Parts(Now))
        BY <2>1, PartsType, SeqIsSeq
      <4> QED BY <4>1, <4>2 DEF IsSeq
    <3>3. TasksLegal(todo, c2, "block") <=> \A i \in DOMAIN todo : AllLegal(todo[i].body, c2)
      BY <3>2 DEF TasksLegal, TaskLegal
    <3> QED BY <1>1, <2>2, <2>3, <3>1, <3>2, <3>3
  <2>5. CASE Now.s = "do"
    <3> DEFINE c3 == [c2 EXCEPT !.loops = @ \cup {"Do"}]
               round == [s |-> "round", body |-> Now.body]
               post == [s |-> "post", e |-> Now.post]
    <3>1. Inside(c, Now) = c3
      BY <1>1, <2>5 DEF Inside, LoopOf, Contexts
    <3>2. Parts(Now) = <<Now.body>>
      BY <2>5 DEF Parts
    <3>3. todo = <<round, post>>
      BY <2>5 DEF BlockTasks
    <3>4. round.s = "round" /\ round.body = Now.body /\ post.s = "post"
      OBVIOUS
    <3> HIDE DEF round, post, c3, c2
    <3>5. TaskLegal(round, c2, "block") <=> AllLegal(Now.body, c3)
      BY <3>4 DEF TaskLegal, c3
    <3>6. TaskLegal(post, c2, "block")
      BY <3>4 DEF TaskLegal
    <3>7. TasksLegal(todo, c2, "block") <=> TaskLegal(round, c2, "block") /\ TaskLegal(post, c2, "block")
      <4>1. DOMAIN todo = {1, 2} /\ todo[1] = round /\ todo[2] = post
        BY <3>3
      <4> QED BY <4>1 DEF TasksLegal
    <3>8. (\A j \in DOMAIN Parts(Now) : AllLegal(Parts(Now)[j], Inside(c, Now))) <=> AllLegal(Now.body, c3)
      <4>1. DOMAIN Parts(Now) = {1} /\ Parts(Now)[1] = Now.body
        BY <3>2
      <4> QED BY <3>1, <4>1
    <3> QED BY <1>1, <2>2, <2>3, <3>5, <3>6, <3>7, <3>8 DEF c2
  <2> QED BY <1>3, <2>4, <2>5
<1> QED BY <1>2, <1>3 DEF BlockTasks

Deeper(c, more) == [loops |-> c.loops \cup more, gives |-> c.gives, returns |-> c.returns, top |-> FALSE]

LEMMA DeeperIs ==
    ASSUME NEW c \in Contexts, NEW more
    PROVE  Deeper(c, more) = [c EXCEPT !.top = FALSE, !.loops = @ \cup more]
<1> DEFINE d == [c EXCEPT !.top = FALSE, !.loops = @ \cup more]
<1>1. DOMAIN d = {"loops", "gives", "returns", "top"} /\ d = [k \in DOMAIN d |-> d[k]]
  BY DEF Contexts
<1>2. d.loops = c.loops \cup more /\ d.gives = c.gives /\ d.returns = c.returns /\ d.top = FALSE
  BY DEF Contexts
<1> HIDE DEF d
<1>3. Deeper(c, more) = d
  BY <1>1, <1>2 DEF Deeper
<1> QED BY <1>3 DEF d

LEMMA LoopLegal ==
    ASSUME TypeInv, Busy, NEW kind \in Breakable, ~InSpace, LoopTask(Now, kind), NEW c, StandsIn(c),
           Now.s = "round" => ~F.top
    PROVE  TaskLegal(Now, c, F.ends) <=>
             CtlIn(c) /\ TasksLegal(Now.body, Deeper(c, {kind}), "loop")
<1> DEFINE c2 == Deeper(c, {kind})
<1>1. IsTask(Now) /\ CtlIn(c) /\ c \in Contexts
  BY NowFacts DEF LoopTask, CtlIn, StandsIn
<1>2. Now.body \in Seq(Statements)
  BY <1>1, StatementsAssumption DEF LoopTask, IsTask, WellFormed, Leaves, Nests
<1>3. CASE Now.s = "round"
  <2>1. TaskLegal(Now, c, F.ends) <=> AllLegal(Now.body, [c EXCEPT !.loops = @ \cup {"Do"}])
    BY <1>3 DEF TaskLegal, InSpace
  <2>2. [c EXCEPT !.loops = @ \cup {"Do"}] = c2
    <3>1. kind = "Do" /\ ~c.top
      BY <1>3 DEF LoopTask, StandsIn
    <3>2. c2 = [c EXCEPT !.top = FALSE, !.loops = @ \cup {"Do"}]
      BY <1>1, <3>1, DeeperIs
    <3>3. c = [c EXCEPT !.top = FALSE]
      BY <1>1, <3>1, ContextsIn
    <3> QED BY <3>2, <3>3
  <2> QED BY <1>1, <1>2, <2>1, <2>2, TasksOfBody
<1>4. CASE Now.s \in {"for", "while"}
  <2>1. Now \in Statements
    BY <1>1, <1>4 DEF IsTask
  <2>2. TaskLegal(Now, c, F.ends) <=> LegalStep(Legal, Now, c)
    <3>1. TaskLegal(Now, c, F.ends) <=> Legal[Now, c]
      BY <1>4 DEF TaskLegal, InSpace
    <3> QED BY <1>1, <2>1, <3>1, LegalIs
  <2>3. LegalStep(Legal, Now, c) <=>
          \A j \in DOMAIN Parts(Now) : AllLegal(Parts(Now)[j], Inside(c, Now))
    BY <1>4 DEF LegalStep, AllLegal
  <2>4. DOMAIN Parts(Now) = {1} /\ Parts(Now)[1] = Now.body
    BY <1>4 DEF Parts
  <2>5. Inside(c, Now) = c2
    <3>1. LoopOf(Now) = {kind}
      BY <1>4 DEF LoopOf, LoopTask
    <3>2. c2 = [c EXCEPT !.top = FALSE, !.loops = @ \cup {kind}]
      BY <1>1, DeeperIs
    <3> QED BY <3>1, <3>2 DEF Inside
  <2> QED BY <1>1, <1>2, <2>2, <2>3, <2>4, <2>5, TasksOfBody
<1> QED BY <1>3, <1>4 DEF LoopTask

LEMMA BodyLegal ==
    ASSUME TypeInv, Busy, Now.s = "proc", F.top, InSpace \/ Now.generic = None, NEW c, StandsIn(c)
    PROVE  TaskLegal(Now, c, F.ends) <=> CtlIn(c) /\ TasksLegal(Now.body, InProc(Now), "body")
<1>1. Now \in Statements /\ CtlIn(c)
  BY NowFacts DEF IsTask, CtlIn
<1>2. Now.body \in Seq(Statements)
  BY <1>1, StatementsAssumption DEF WellFormed
<1>3. CASE InSpace
  BY <1>1, <1>2, <1>3, TasksOfBody DEF TaskLegal, InSpace
<1>4. CASE ~InSpace
  <2>1. TaskLegal(Now, c, F.ends) <=> LegalStep(Legal, Now, c)
    <3>1. TaskLegal(Now, c, F.ends) <=> Legal[Now, c]
      BY <1>4 DEF TaskLegal, InSpace
    <3> QED BY <1>1, <3>1, LegalIs DEF StandsIn
  <2>2. Parts(Now) = <<>>
    BY NoParts
  <2>3. LegalStep(Legal, Now, c) <=> AllLegal(Now.body, InProc(Now))
    BY <1>4, <2>2 DEF LegalStep, AllLegal, StandsIn
  <2> QED BY <1>1, <1>2, <2>1, <2>3, TasksOfBody
<1> QED BY <1>3, <1>4

LEMMA SpaceLegal ==
    ASSUME TypeInv, Busy, Now.s = "ns", F.top, ~InSpace, NEW c, StandsIn(c)
    PROVE  TaskLegal(Now, c, F.ends) <=> CtlIn(c) /\ \A c2 : TasksLegal(Now.body, c2, "namespace")
<1>1. Now \in Statements /\ CtlIn(c)
  BY NowFacts DEF IsTask, CtlIn
<1>2. TaskLegal(Now, c, F.ends) <=> LegalStep(Legal, Now, c)
  <2>1. TaskLegal(Now, c, F.ends) <=> Legal[Now, c]
    BY DEF TaskLegal, InSpace
  <2> QED BY <1>1, <2>1, LegalIs DEF StandsIn
<1>3. Parts(Now) = <<>>
  BY NoParts
<1>4. LegalStep(Legal, Now, c) <=>
        \A i \in DOMAIN Now.body : Now.body[i].s = "proc" => AllLegal(Now.body[i].body, InProc(Now.body[i]))
  BY <1>3 DEF LegalStep, AllLegal, StandsIn
<1> QED BY <1>1, <1>2, <1>4 DEF TasksLegal, TaskLegal

-----------------------------------------------------------------------------
(* The contexts of the blocks on the stack, and what a step makes of them.   *)

LEMMA StandsAt ==
    ASSUME TypeInv, Busy, NEW hi \in BOOLEAN
    PROVE  /\ StandsIn(ContextAt(hi, work, scope, Len(work)))
           /\ hi /\ CtlOK => CtlIn(ContextAt(hi, work, scope, Len(work)))
           /\ ~hi /\ CtlIn(ContextAt(hi, work, scope, Len(work))) => CtlOK
<1> DEFINE n == Len(work)
           c == ContextAt(hi, work, scope, n)
           loops == LoopsAt(hi, work, scope, n)
<1>1. Level(work, n) = F /\ View(scope, work, n) = scope /\ IsFrame(F) /\ IsScope(scope)
  BY NowFacts
<1>2. c = Context(loops, scope, scope.gosub, F.top)
  BY <1>1 DEF ContextAt
<1>3. scope.loops \in Seq(LoopKinds) /\ scope.gosub \in BOOLEAN /\ F.top \in BOOLEAN
  BY <1>1 DEF IsScope, IsFrame
<1>4. /\ AroundOf(scope.loops) \in {"none", "Sub", "Function"}
      /\ Own(scope.loops) \subseteq RangeOf(scope.loops) /\ RangeOf(scope.loops) \subseteq LoopKinds
  BY <1>3, LoopsFacts
<1>5. /\ loops \subseteq LoopKinds
      /\ hi => RangeOf(scope.loops) \subseteq loops
      /\ ~hi => loops \subseteq RangeOf(scope.loops)
  BY <1>4 DEF LoopsAt
<1> HIDE DEF loops, c
<1>6. /\ c.loops = loops /\ c.gives = Gives(scope) /\ c.top = F.top
      /\ c.returns = (AroundOf(scope.loops) # "none" \/ scope.gosub)
      /\ c \in Contexts
  <2>1. Gives(scope) \in {"nothing", "a value", "yields"}
    BY DEF Gives
  <2> QED BY <1>2, <1>3, <1>5, <2>1 DEF Context, Contexts
<1>7. StandsIn(c)
  BY <1>6 DEF StandsIn, S, Around
<1>8. \A x : (\E i \in DOMAIN S.loops : S.loops[i] = x) <=> x \in RangeOf(scope.loops)
  BY DEF RangeOf, S
<1>9. hi /\ CtlOK => CtlIn(c)
  BY <1>5, <1>6, <1>8 DEF CtlOK, CtlIn
<1>10. ~hi /\ CtlIn(c) => CtlOK
  BY <1>5, <1>6, <1>8 DEF CtlOK, CtlIn
<1> QED BY <1>7, <1>9, <1>10 DEF c, n

LEMMA TakesViews ==
    ASSUME TypeInv, Takes
    PROVE  /\ Level(work', Len(work)) = Taken1(F)
           /\ \A d \in 1..Len(work) : /\ View(scope', work', d).loops = View(scope, work, d).loops
                                      /\ Statics(View(scope', work', d)) = Statics(View(scope, work, d))
           /\ \A d \in 1..(Len(work) - 1) : Level(work', d) = Level(work, d)
                                            /\ View(scope', work', d) = View(scope, work, d)
           /\ Len(work') # Len(work) => \E f : /\ f.saved = scope /\ work' = <<f>> \o Rest
                                               /\ Level(work', Len(work) + 1) = f
                                               /\ View(scope', work', Len(work) + 1) = scope'
                                               /\ View(scope', work', Len(work)) = scope
           /\ Len(work') = Len(work) <=> work' = Rest
<1> DEFINE n == Len(work)
<1>1. Busy /\ n \in Nat /\ n > 0 /\ View(scope, work, n) = scope
  BY NowFacts DEF Takes, Effects
<1>2. CASE work' = Rest
  <2>1. /\ Len(work') = n
        /\ Level(work', n) = Taken1(F) /\ View(scope', work', n) = scope'
        /\ \A d \in 1..(n - 1) : /\ Level(work', d) = Level(work, d)
                                 /\ View(scope', work', d) = View(scope, work, d)
    BY <1>1, <1>2, LeafLevels
  <2>2. scope'.loops = scope.loops /\ Statics(scope') = Statics(scope)
    <3>1. \A g : work' # <<g>> \o Rest
      <4>1. ASSUME NEW g, work' = <<g>> \o Rest PROVE FALSE
        <5>1. IsSeq(Rest) /\ Len(Rest) = n
          BY <1>1, RestLevels
        <5>2. Len(<<g>> \o Rest) = n + 1
          BY <5>1, ConsProps
        <5> QED BY <1>1, <2>1, <4>1, <5>2
      <4> QED BY <4>1
    <3>2. LeafShape
      BY <3>1 DEF Takes, Shape, BlockShape, LoopShape, BodyShape, SpaceShape
    <3> QED BY <3>2 DEF LeafShape, S
  <2> HIDE DEF n
  <2>3. \A d \in 1..n : /\ View(scope', work', d).loops = View(scope, work, d).loops
                        /\ Statics(View(scope', work', d)) = Statics(View(scope, work, d))
    <3>1. \A d \in 1..n : d = n \/ d \in 1..(n - 1)
      BY <1>1
    <3> QED BY <1>1, <2>1, <2>2, <3>1
  <2> QED BY <1>2, <2>1, <2>3 DEF n
<1>3. CASE work' # Rest
  <2>1. PICK f : f.saved = scope /\ work' = <<f>> \o Rest
    <3>1. \A todo, top, ends : Frame(todo, top, ends).saved = scope
      BY DEF Frame
    <3>2. \E todo, top, ends : work' = <<Frame(todo, top, ends)>> \o Rest
      BY <1>3 DEF Takes, Shape, LeafShape, BlockShape, LoopShape, BodyShape, SpaceShape
    <3>3. PICK todo, top, ends : work' = <<Frame(todo, top, ends)>> \o Rest
      BY <3>2
    <3> QED BY <3>1, <3>3
  <2>2. /\ Len(work') = n + 1
        /\ Level(work', n + 1) = f /\ View(scope', work', n + 1) = scope'
        /\ Level(work', n) = Taken1(F) /\ View(scope', work', n) = scope
        /\ \A d \in 1..(n - 1) : /\ Level(work', d) = Level(work, d)
                                 /\ View(scope', work', d) = View(scope, work, d)
    BY <1>1, <2>1, PushLevels
  <2> HIDE DEF n
  <2>3. \A d \in 1..n : View(scope', work', d) = View(scope, work, d)
    <3>1. \A d \in 1..n : d = n \/ d \in 1..(n - 1)
      BY <1>1
    <3> QED BY <1>1, <2>2, <3>1
  <2>4. \E g : /\ g.saved = scope /\ work' = <<g>> \o Rest /\ Level(work', n + 1) = g
               /\ View(scope', work', n + 1) = scope' /\ View(scope', work', n) = scope
    BY <2>1, <2>2
  <2>5. Len(work') # n
    BY <1>1, <2>2
  <2>6. \A d \in 1..n : /\ View(scope', work', d).loops = View(scope, work, d).loops
                        /\ Statics(View(scope', work', d)) = Statics(View(scope, work, d))
    BY <2>3
  <2> QED BY <1>3, <2>2, <2>4, <2>5, <2>6 DEF n
<1> QED BY <1>2, <1>3

LEMMA TakesContexts ==
    ASSUME TypeInv, Takes, NEW hi \in BOOLEAN, scope'.gosub = scope.gosub, NEW d \in 1..Len(work)
    PROVE  ContextAt(hi, work', scope', d) = ContextAt(hi, work, scope, d)
<1> DEFINE v == View(scope, work, d)
           v2 == View(scope', work', d)
<1>1. Len(work) \in Nat /\ \A e \in 1..Len(work) : SameBlock(Level(work', e), Level(work, e))
  BY TakesLevels
<1>2. v2.loops = v.loops /\ v2.ret = v.ret
  BY TakesViews DEF Statics
<1>3. Level(work', d).top = Level(work, d).top
  BY <1>1 DEF SameBlock
<1>4. InInstance(work', d) <=> InInstance(work, d)
  <2>1. 1..d \subseteq 1..Len(work)
    BY <1>1
  <2> QED BY <1>1, <2>1 DEF InInstance, SameBlock
<1> HIDE DEF v, v2
<1>5. Gives(v2) = Gives(v) /\ LoopsAt(hi, work', v2, d) = LoopsAt(hi, work, v, d)
  BY <1>2, <1>4 DEF Gives, LoopsAt
<1>6. Context(LoopsAt(hi, work', v2, d), v2, scope'.gosub, Level(work', d).top)
      = Context(LoopsAt(hi, work, v, d), v, scope.gosub, Level(work, d).top)
  BY <1>2, <1>3, <1>5 DEF Context
<1> QED BY <1>6 DEF ContextAt, v, v2

LEMMA NewContext ==
    ASSUME TypeInv, Takes, NEW hi \in BOOLEAN, NEW f, f.saved = scope, work' = <<f>> \o Rest,
           f.ends # "instance"
    PROVE  /\ Level(work', Len(work) + 1) = f
           /\ ContextAt(hi, work', scope', Len(work) + 1)
              = Context(LoopsAt(hi, work, scope', Len(work)), scope', scope'.gosub, f.top)
<1> DEFINE n == Len(work)
<1>1. /\ n \in Nat /\ Level(work', n + 1) = f /\ View(scope', work', n + 1) = scope'
  <2>1. Busy
    BY DEF Takes, Effects
  <2> QED BY <2>1, PushLevels
<1>2. \A e \in 1..n : SameBlock(Level(work', e), Level(work, e))
  BY TakesLevels
<1> HIDE DEF n
<1>3. InInstance(work', n + 1) <=> InInstance(work, n)
  <2>1. \A e \in 1..(n + 1) : e = n + 1 \/ e \in 1..n
    BY <1>1
  <2>2. \A e \in 1..n : e \in 1..(n + 1)
    BY <1>1
  <2> QED BY <1>1, <1>2, <2>1, <2>2 DEF InInstance, SameBlock
<1>4. LoopsAt(hi, work', scope', n + 1) = LoopsAt(hi, work, scope', n)
  BY <1>3 DEF LoopsAt
<1> QED BY <1>1, <1>4 DEF ContextAt, n

LEMMA NoInstanceBelow ==
    ASSUME TypeInv, Busy, F.top
    PROVE  scope.loops = <<>> /\ ~InInstance(work, Len(work))
<1>1. /\ StackInv /\ Len(work) \in Nat /\ Level(work, Len(work)) = F
      /\ IsFrame(F) /\ Linked(F, scope)
      /\ (F.ends = "module") = (Len(work) = 1) /\ (InSpace => Len(work) = 2)
  BY NowFacts
<1>2. F.ends = "module" \/ F.ends = "namespace"
  BY <1>1 DEF IsFrame
<1>3. Len(work) = 1 \/ Len(work) = 2
  BY <1>1, <1>2 DEF InSpace
<1>4. \A e \in 1..Len(work) : e = Len(work) \/ e = 1
  <2>1. \A e \in 1..1 : e = 1
    OBVIOUS
  <2>2. \A e \in 1..2 : e = 2 \/ e = 1
    OBVIOUS
  <2> QED BY <1>3, <2>1, <2>2
<1>5. 1 \in 1..Len(work)
  BY <1>3
<1>6. Level(work, 1).ends = "module"
  BY <1>1, <1>5 DEF StackInv
<1>7. \A e \in 1..Len(work) : Level(work, e).ends # "instance"
  BY <1>1, <1>2, <1>4, <1>6
<1> QED BY <1>1, <1>7 DEF InInstance, Linked

LEMMA OtherTop ==
    ASSUME NEW l, NEW g, NEW r, NEW o, NEW m
    PROVE  [[loops |-> l, gives |-> g, returns |-> r, top |-> o] EXCEPT !.top = m]
           = [loops |-> l, gives |-> g, returns |-> r, top |-> m]
OBVIOUS

LEMMA OtherLoops ==
    ASSUME NEW l, NEW g, NEW r, NEW o, NEW m
    PROVE  [[loops |-> l, gives |-> g, returns |-> r, top |-> o] EXCEPT !.loops = m]
           = [loops |-> m, gives |-> g, returns |-> r, top |-> o]
OBVIOUS

\* The scope of a body is what InProc says of its statement.
LEMMA BodyContext ==
    ASSUME NEW s, NEW st, NEW span, NEW loops \in Seq(LoopKinds),
           s.loops = Append(loops, IF st.fn THEN "Function" ELSE "Sub"), st.fn => s.ret = st.t
    PROVE  /\ Context(Own(s.loops), s, span, FALSE) = InProc(st)
           /\ loops = <<>> => RangeOf(s.loops) = Own(s.loops)
           /\ Context(LoopKinds, s, span, FALSE) = [InProc(st) EXCEPT !.loops = @ \cup LoopKinds]
<1> DEFINE k == IF st.fn THEN "Function" ELSE "Sub"
<1>1. k \in LoopKinds /\ k \in ProcKinds
  BY DEF LoopKinds, ProcKinds
<1>2. Own(s.loops) = {k} /\ AroundOf(s.loops) = k /\ RangeOf(s.loops) = RangeOf(loops) \cup {k}
  <2> HIDE DEF k
  <2>1. s.loops = Append(loops, k)
    BY DEF k
  <2> QED BY <1>1, <2>1, LoopsGrow
<1>3. Gives(s) = InProc(st).gives
  <2>1. CASE st.fn
    BY <1>2, <2>1 DEF Gives, InProc
  <2>2. CASE ~st.fn
    BY <1>2, <2>2 DEF Gives, InProc
  <2> QED BY <2>1, <2>2
<1>4. InProc(st) = [loops |-> {k}, gives |-> InProc(st).gives, returns |-> TRUE, top |-> FALSE]
  BY DEF InProc
<1>5. AroundOf(s.loops) # "none"
  BY <1>2
<1> DEFINE g == InProc(st).gives
<1> HIDE DEF k
<1>6. \A ls : Context(ls, s, span, FALSE) = [loops |-> ls, gives |-> g, returns |-> TRUE, top |-> FALSE]
  BY <1>3, <1>5 DEF Context
<1> HIDE DEF g
<1>7. InProc(st) = [loops |-> {k}, gives |-> g, returns |-> TRUE, top |-> FALSE]
  BY <1>4 DEF g
<1>9. InProc(st).loops = {k}
  BY <1>7
<1>10. [InProc(st) EXCEPT !.loops = @ \cup LoopKinds]
       = [loops |-> {k} \cup LoopKinds, gives |-> g, returns |-> TRUE, top |-> FALSE]
  <2> DEFINE p == InProc(st)
             more == {k} \cup LoopKinds
  <2>1. p.loops \cup LoopKinds = more
    BY <1>9
  <2>2. [p EXCEPT !.loops = p.loops \cup LoopKinds] = [p EXCEPT !.loops = more]
    BY <2>1
  <2>3. p = [loops |-> {k}, gives |-> g, returns |-> TRUE, top |-> FALSE]
    BY <1>7
  <2> HIDE DEF p, more
  <2>4. [p EXCEPT !.loops = more] = [loops |-> more, gives |-> g, returns |-> TRUE, top |-> FALSE]
    <3>1. \A r, o : [[loops |-> {k}, gives |-> g, returns |-> r, top |-> o] EXCEPT !.loops = more]
                     = [loops |-> more, gives |-> g, returns |-> r, top |-> o]
      BY OtherLoops
    <3>2. [[loops |-> {k}, gives |-> g, returns |-> TRUE, top |-> FALSE] EXCEPT !.loops = more]
          = [loops |-> more, gives |-> g, returns |-> TRUE, top |-> FALSE]
      BY <3>1, Zenon
    <3> QED BY <2>3, <3>2, Zenon
  <2> QED BY <2>2, <2>4 DEF p, more
<1>11. Context(Own(s.loops), s, span, FALSE) = InProc(st)
  BY <1>2, <1>6, <1>7
<1>12. {k} \cup LoopKinds = LoopKinds
  BY <1>1
<1>13. Context(LoopKinds, s, span, FALSE) = [InProc(st) EXCEPT !.loops = @ \cup LoopKinds]
  BY <1>6, <1>10, <1>12
<1>14. loops = <<>> => RangeOf(s.loops) = Own(s.loops)
  BY <1>2, NoLoops
<1> QED BY <1>11, <1>13, <1>14 DEF k

LEMMA ContextBelow ==
    ASSUME NEW loops, NEW v, NEW span, NEW top
    PROVE  [Context(loops, v, span, top) EXCEPT !.top = FALSE] = Context(loops, v, span, FALSE)
<1> DEFINE g == Gives(v)
           r == AroundOf(v.loops) # "none" \/ span
           c == Context(loops, v, span, top)
<1>1. \A o : Context(loops, v, span, o) = [loops |-> loops, gives |-> g, returns |-> r, top |-> o]
  BY DEF Context
<1>3. c = [loops |-> loops, gives |-> g, returns |-> r, top |-> top]
  BY <1>1
<1> HIDE DEF g, r, c
<1>4. [c EXCEPT !.top = FALSE] = Context(loops, v, span, FALSE)
  <2>1. \A m : [[loops |-> loops, gives |-> g, returns |-> r, top |-> top] EXCEPT !.top = m]
              = [loops |-> loops, gives |-> g, returns |-> r, top |-> m]
    BY OtherTop
  <2>2. [[loops |-> loops, gives |-> g, returns |-> r, top |-> top] EXCEPT !.top = FALSE]
        = [loops |-> loops, gives |-> g, returns |-> r, top |-> FALSE]
    BY <2>1, Zenon
  <2> QED BY <1>1, <1>3, <2>2, Zenon
<1> QED BY <1>4 DEF c

\* The block a statement is continued with.
LEMMA PushedLegal ==
    ASSUME TypeInv, Takes, NEW hi \in BOOLEAN, work' # Rest, F.ends = "module" => Now \in Statements
    PROVE  /\ scope'.gosub = scope.gosub
           /\ TaskLegal(Now, ContextAt(hi, work, scope, Len(work)), F.ends) <=>
                /\ CtlIn(ContextAt(hi, work, scope, Len(work)))
                /\ LevelLegal(hi, work', scope', Len(work) + 1)
<1> DEFINE n == Len(work)
           c == ContextAt(hi, work, scope, n)
           loops == LoopsAt(hi, work, scope, n)
<1>1. /\ Busy /\ Level(work, n) = F /\ View(scope, work, n) = scope
      /\ IsFrame(F) /\ IsScope(scope) /\ scope.loops \in Seq(LoopKinds)
  BY NowFacts DEF Takes, Effects, IsScope
<1>2. c = Context(loops, scope, scope.gosub, F.top) /\ StandsIn(c)
  BY <1>1, StandsAt DEF ContextAt
<1>4. (Now.s = "arm" \/ Now.s = "round") /\ ~InSpace => ~F.top
  <2>1. \A st \in Statements : st.s # "arm" /\ st.s # "round"
    BY StatementsAssumption DEF WellFormed, Leaves, Nests
  <2> QED BY <1>1, <2>1 DEF IsFrame, InSpace
<1>5. scope'.gosub = IF ~InSpace /\ Now.s = "label" THEN Now.x \in T.gosubs ELSE scope.gosub
  BY DEF Takes, Effects, S
\* What is to be shown for a new block f with this context.
<1>6. ASSUME NEW f, f.saved = scope, work' = <<f>> \o Rest, f.ends # "instance"
      PROVE  LevelLegal(hi, work', scope', n + 1) <=>
             TasksLegal(f.todo, Context(LoopsAt(hi, work, scope', n), scope', scope'.gosub, f.top), f.ends)
  BY <1>6, NewContext DEF LevelLegal
<1>7. ASSUME NEW todo, BlockShape(todo)
      PROVE  scope'.gosub = scope.gosub
             /\ (TaskLegal(Now, c, F.ends) <=> CtlIn(c) /\ LevelLegal(hi, work', scope', n + 1))
  <2> DEFINE f == Frame(todo, FALSE, "block")
  <2>1. scope' = scope /\ work' = <<f>> \o Rest /\ ~InSpace /\ BlockTasks(Now, todo)
    BY <1>7 DEF BlockShape, S
  <2>2. f.saved = scope /\ f.ends = "block" /\ f.todo = todo
    BY DEF Frame
  <2>3. TaskLegal(Now, c, F.ends) <=> CtlIn(c) /\ TasksLegal(todo, [c EXCEPT !.top = FALSE], "block")
    BY <1>1, <1>2, <1>4, <2>1, BlockLegal
  <2>4. [c EXCEPT !.top = FALSE] = Context(loops, scope, scope.gosub, FALSE)
    <3>1. c = Context(loops, scope, scope.gosub, F.top)
      BY <1>2
    <3> HIDE DEF c, loops
    <3> QED BY <3>1, ContextBelow
  <2>5. f.top = FALSE
    BY DEF Frame
  <2> HIDE DEF f, c
  <2>6. LevelLegal(hi, work', scope', n + 1) <=>
          TasksLegal(todo, Context(LoopsAt(hi, work, scope, n), scope, scope.gosub, FALSE), "block")
    BY <1>6, <2>1, <2>2, <2>5
  <2> QED BY <2>1, <2>3, <2>4, <2>6
<1>8. ASSUME NEW kind \in Breakable, LoopShape(kind)
      PROVE  scope'.gosub = scope.gosub
             /\ (TaskLegal(Now, c, F.ends) <=> CtlIn(c) /\ LevelLegal(hi, work', scope', n + 1))
  <2> DEFINE f == Frame(Now.body, FALSE, "loop")
  <2>1. scope' = [scope EXCEPT !.loops = Append(@, kind)] /\ work' = <<f>> \o Rest
        /\ ~InSpace /\ LoopTask(Now, kind)
    BY <1>8 DEF LoopShape, S
  <2>2. f.saved = scope /\ f.ends = "loop" /\ f.todo = Now.body
    BY DEF Frame
  <2>3. TaskLegal(Now, c, F.ends) <=>
          CtlIn(c) /\ TasksLegal(Now.body, Deeper(c, {kind}), "loop")
    BY <1>1, <1>2, <1>4, <2>1, LoopLegal
  <2>4. Deeper(c, {kind}) = Context(loops \cup {kind}, scope, scope.gosub, FALSE)
    <3> HIDE DEF loops
    <3>1. /\ c.loops = loops /\ c.gives = Gives(scope)
          /\ c.returns = (AroundOf(scope.loops) # "none" \/ scope.gosub)
      BY <1>2 DEF Context
    <3> HIDE DEF c
    <3> QED BY <3>1 DEF Deeper, Context
  <2>5. f.top = FALSE
    BY DEF Frame
  <2>6. scope'.loops = Append(scope.loops, kind) /\ scope'.ret = scope.ret /\ scope'.gosub = scope.gosub
    BY <1>1, <2>1 DEF IsScope
  <2>7. /\ AroundOf(scope'.loops) = AroundOf(scope.loops)
        /\ RangeOf(scope'.loops) = RangeOf(scope.loops) \cup {kind}
        /\ Own(scope'.loops) = Own(scope.loops) \cup {kind}
    <3>1. kind \in LoopKinds /\ kind \notin ProcKinds
      BY DEF Breakable, LoopKinds, ProcKinds
    <3> QED BY <1>1, <2>6, <3>1, LoopsGrow
  <2>8. LoopsAt(hi, work, scope', n) = loops \cup {kind}
    <3>1. LoopKinds \cup {kind} = LoopKinds
      BY DEF Breakable, LoopKinds
    <3> QED BY <2>7, <3>1 DEF LoopsAt
  <2>9. Gives(scope') = Gives(scope)
    BY <2>6, <2>7 DEF Gives
  <2>10. Context(loops \cup {kind}, scope', scope.gosub, FALSE)
         = Context(loops \cup {kind}, scope, scope.gosub, FALSE)
    BY <2>7, <2>9 DEF Context
  <2> HIDE DEF f, c, loops
  <2>11. LevelLegal(hi, work', scope', n + 1) <=>
          TasksLegal(Now.body, Context(loops \cup {kind}, scope', scope.gosub, FALSE), "loop")
    BY <1>6, <2>1, <2>2, <2>5, <2>6, <2>8
  <2> QED BY <2>3, <2>4, <2>6, <2>10, <2>11
<1>9. ASSUME BodyShape
      PROVE  scope'.gosub = scope.gosub
             /\ (TaskLegal(Now, c, F.ends) <=> CtlIn(c) /\ LevelLegal(hi, work', scope', n + 1))
  <2> DEFINE f == Frame(Now.body, FALSE, "body")
             ret == BodyRet(Now)
  <2>1. scope' = Body(Now.params, ret, Now.owner, Now.fn) /\ work' = <<f>> \o Rest
        /\ Now.s = "proc" /\ F.top /\ (InSpace \/ Now.generic = None)
    BY <1>9 DEF BodyShape
  <2>2. f.saved = scope /\ f.ends = "body" /\ f.todo = Now.body
    BY DEF Frame
  <2>3. TaskLegal(Now, c, F.ends) <=> CtlIn(c) /\ TasksLegal(Now.body, InProc(Now), "body")
    BY <1>1, <1>2, <2>1, BodyLegal
  <2>5. f.top = FALSE
    BY DEF Frame
  <2>4. scope.loops = <<>> /\ ~InInstance(work, n)
    BY <1>1, <2>1, NoInstanceBelow
  <2>6. /\ IsScope(scope') /\ scope'.gosub = scope.gosub /\ scope'.ret = ret
        /\ scope'.loops = Append(<<>>, IF Now.fn THEN "Function" ELSE "Sub")
    <3>1. IsScope(S) /\ S.loops = <<>>
      BY <1>1, <2>4 DEF S
    <3> HIDE DEF ret
    <3>2. /\ IsScope(scope') /\ scope'.gosub = S.gosub /\ scope'.ret = ret
          /\ scope'.loops = Append(S.loops, IF Now.fn THEN "Function" ELSE "Sub")
      BY <2>1, <3>1, BodyScope
    <3> QED BY <3>1, <3>2 DEF S
  <2>7. Now.fn => scope'.ret = Now.t
    BY <2>6 DEF BodyRet
  <2> HIDE DEF f, c, ret
  <2>8. Context(Own(scope'.loops), scope', scope.gosub, FALSE) = InProc(Now)
        /\ RangeOf(scope'.loops) = Own(scope'.loops)
    <3>1. <<>> \in Seq(LoopKinds)
      OBVIOUS
    <3> QED BY <2>6, <2>7, <3>1, BodyContext
  <2>9. LoopsAt(hi, work, scope', n) = Own(scope'.loops)
    BY <2>4, <2>8 DEF LoopsAt
  <2>10. LevelLegal(hi, work', scope', n + 1) <=>
           TasksLegal(Now.body, Context(Own(scope'.loops), scope', scope.gosub, FALSE), "body")
    BY <1>6, <2>1, <2>2, <2>5, <2>6, <2>9
  <2> QED BY <2>3, <2>6, <2>8, <2>10
<1>10. ASSUME SpaceShape
      PROVE  scope'.gosub = scope.gosub
             /\ (TaskLegal(Now, c, F.ends) <=> CtlIn(c) /\ LevelLegal(hi, work', scope', n + 1))
  <2> DEFINE f == Frame(Now.body, TRUE, "namespace")
  <2>1. work' = <<f>> \o Rest /\ Now.s = "ns" /\ F.top /\ ~InSpace
    BY <1>10 DEF SpaceShape
  <2>2. f.saved = scope /\ f.ends = "namespace" /\ f.todo = Now.body
    BY DEF Frame
  <2>3. TaskLegal(Now, c, F.ends) <=> CtlIn(c) /\ \A c2 : TasksLegal(Now.body, c2, "namespace")
    BY <1>1, <1>2, <2>1, SpaceLegal
  <2>4. \A c2, c3 : TasksLegal(Now.body, c2, "namespace") <=> TasksLegal(Now.body, c3, "namespace")
    BY DEF TasksLegal, TaskLegal
  <2> DEFINE c4 == Context(LoopsAt(hi, work, scope', n), scope', scope'.gosub, f.top)
  <2> HIDE DEF f, c
  <2>5. LevelLegal(hi, work', scope', n + 1) <=> TasksLegal(Now.body, c4, "namespace")
    BY <1>6, <2>1, <2>2
  <2> HIDE DEF c4
  <2> QED BY <1>5, <2>1, <2>3, <2>4, <2>5
<1>11. \/ \E todo : BlockShape(todo)
       \/ \E kind \in Breakable : LoopShape(kind)
       \/ BodyShape
       \/ SpaceShape
  BY DEF Takes, Shape, LeafShape
<1> HIDE DEF c
<1>12. scope'.gosub = scope.gosub
       /\ (TaskLegal(Now, c, F.ends) <=> CtlIn(c) /\ LevelLegal(hi, work', scope', n + 1))
  BY <1>7, <1>8, <1>9, <1>10, <1>11
<1> QED BY <1>12 DEF c

-----------------------------------------------------------------------------
(* Where the walk is in the module, and which span that is in.               *)

Passed == Len(module) - Len(Level(work, 1).todo)
PosInv ==
    stage = "check" =>
      /\ Passed \in Nat
      /\ \A i \in DOMAIN Level(work, 1).todo : Level(work, 1).todo[i] = module[Passed + i]
SpanEq == stage = "check" => (Clean(diags) => (scope.gosub <=> InSpan(Passed + 1)))

LEMMA SeqDomain ==
    ASSUME NEW q, IsSeq(q)
    PROVE  DOMAIN q = 1..Len(q) /\ Len(q) \in Nat
BY DEF IsSeq

LEMMA ModuleFacts == ASSUME TypeInv PROVE module \in Seq(Statements) /\ Len(module) \in Nat
BY StatementsAssumption DEF TypeInv

LEMMA FirstLevel ==
    ASSUME TypeInv, stage = "check"
    PROVE  /\ IsFrame(Level(work, 1)) /\ Level(work, 1).ends = "module"
           /\ IsSeq(Level(work, 1).todo) /\ Len(work) \in Nat /\ Len(work) > 0
<1>1. StackInv
  BY DEF TypeInv
<1>2. Len(work) \in Nat /\ Len(work) > 0
  BY <1>1, Popped DEF StackInv
<1>3. 1 \in 1..Len(work)
  BY <1>2
<1>4. IsFrame(Level(work, 1)) /\ Level(work, 1).ends = "module"
  BY <1>1, <1>3 DEF StackInv
<1> QED BY <1>2, <1>4 DEF IsFrame

\* At the top level of the module, the statement is the next of the module.
LEMMA ModuleStatement ==
    ASSUME TypeInv, Busy, PosInv, F.ends = "module"
    PROVE  /\ Len(work) = 1 /\ Passed + 1 \in DOMAIN module
           /\ Now = module[Passed + 1] /\ Now \in Statements
<1>1. stage = "check" /\ Len(work) = 1 /\ Level(work, Len(work)) = F
      /\ IsSeq(F.todo) /\ F.todo # <<>> /\ Now = F.todo[1]
  BY NowFacts
<1>2. Level(work, 1) = F
  BY <1>1
<1>3. module \in Seq(Statements) /\ Len(module) \in Nat
  BY ModuleFacts
<1>4. Len(F.todo) \in Nat /\ 1 \in DOMAIN F.todo /\ Len(F.todo) >= 1
  BY <1>1, TailProps DEF IsSeq
<1>5. Now = module[Passed + 1] /\ Passed \in Nat
  BY <1>1, <1>2, <1>4 DEF PosInv
<1>6. Passed + 1 \in 1..Len(module)
  BY <1>2, <1>3, <1>4, <1>5 DEF Passed
<1> QED BY <1>1, <1>3, <1>5, <1>6

LEMMA PosTakes ==
    ASSUME TypeInv, PosInv, Takes
    PROVE  PosInv' /\ Passed' = (IF Len(work) = 1 THEN Passed + 1 ELSE Passed)
<1>1. /\ Busy /\ stage = "check" /\ stage' = "check" /\ module' = module
      /\ IsFrame(F) /\ F.todo # <<>> /\ Level(work, Len(work)) = F
  BY NowFacts DEF Takes, Effects
<1>2. /\ Level(work', Len(work)) = Taken1(F)
      /\ \A d \in 1..(Len(work) - 1) : Level(work', d) = Level(work, d)
  BY TakesViews
<1>3. Len(work) \in Nat /\ Len(work) > 0 /\ Len(module) \in Nat
  BY <1>1, FirstLevel, ModuleFacts
<1>4. CASE Len(work) = 1
  <2>1. Level(work, 1) = F /\ Level(work', 1) = Taken1(F) /\ Taken1(F).todo = Tail(F.todo)
    BY <1>1, <1>2, <1>4, FrameFields
  <2>2. /\ Len(Tail(F.todo)) = Len(F.todo) - 1 /\ Len(F.todo) \in Nat /\ Len(F.todo) > 0
        /\ IsSeq(Tail(F.todo)) /\ IsSeq(F.todo)
        /\ \A i \in 1..(Len(F.todo) - 1) : Tail(F.todo)[i] = F.todo[i + 1]
    BY <1>1, TailProps DEF IsFrame
  <2>3. Passed' = Passed + 1 /\ Passed \in Nat
    <3>1. Passed = Len(module) - Len(F.todo) /\ Passed \in Nat
      BY <1>1, <2>1 DEF Passed, PosInv
    <3>2. Passed' = Len(module) - (Len(F.todo) - 1)
      BY <1>1, <2>1, <2>2 DEF Passed
    <3> QED BY <1>3, <2>2, <3>1, <3>2
  <2>4. DOMAIN Tail(F.todo) = 1..(Len(F.todo) - 1) /\ DOMAIN F.todo = 1..Len(F.todo)
    BY <2>2, SeqDomain
  <2>5. ASSUME NEW i \in 1..(Len(F.todo) - 1) PROVE Tail(F.todo)[i] = module[Passed + 1 + i]
    <3>1. i + 1 \in DOMAIN F.todo /\ i \in Nat
      BY <2>2, <2>4
    <3>2. F.todo[i + 1] = module[Passed + (i + 1)]
      BY <1>1, <2>1, <3>1 DEF PosInv
    <3>3. Passed + (i + 1) = Passed + 1 + i
      BY <2>3, <3>1
    <3> QED BY <2>2, <3>2, <3>3
  <2>6. PosInv'
    <3>1. \A i \in DOMAIN Level(work', 1).todo : Level(work', 1).todo[i] = module'[Passed' + i]
      BY <1>1, <2>1, <2>3, <2>4, <2>5
    <3>2. Passed' \in Nat
      BY <2>3
    <3> QED BY <3>1, <3>2 DEF PosInv
  <2> QED BY <1>4, <2>3, <2>6
<1>5. CASE Len(work) # 1
  <2>1. 1 \in 1..(Len(work) - 1)
    <3> DEFINE n == Len(work)
    <3>1. n \in Nat /\ n > 0 /\ n # 1
      BY <1>3, <1>5
    <3> HIDE DEF n
    <3>2. 1 \in 1..(n - 1)
      BY <3>1
    <3> QED BY <3>2 DEF n
  <2>2. Level(work', 1) = Level(work, 1)
    BY <1>2, <2>1
  <2> QED BY <1>1, <1>5, <2>2 DEF PosInv, Passed
<1> QED BY <1>4, <1>5

LEMMA InSpanNext ==
    ASSUME NEW i \in Nat, i > 0
    PROVE  InSpan(i + 1) <=> IF module[i].s = "label" THEN module[i].x \in T.gosubs ELSE InSpan(i)
<1> DEFINE B(j) == {k \in 1..(j - 1) : module[k].s = "label"}
           L(j) == CHOOSE k \in B(j) : \A m \in B(j) : m <= k
<1>1. \A j : InSpan(j) <=> B(j) # {} /\ module[L(j)].x \in T.gosubs
  BY DEF InSpan
<1>2. (i + 1) - 1 = i /\ \A k \in 1..i : k = i \/ k \in 1..(i - 1)
  OBVIOUS
<1>3. CASE module[i].s = "label"
  <2>1. i \in B(i + 1) /\ B(i + 1) \subseteq 1..i
    BY <1>2, <1>3
  <2>2. L(i + 1) = i
    <3>1. \A m \in B(i + 1) : m <= i /\ m \in Nat
      BY <2>1
    <3> HIDE DEF B
    <3>2. \E k \in B(i + 1) : \A m \in B(i + 1) : m <= k
      BY <2>1, <3>1
    <3>3. L(i + 1) \in B(i + 1) /\ \A m \in B(i + 1) : m <= L(i + 1)
      BY <3>2
    <3> HIDE DEF L
    <3>4. i <= L(i + 1) /\ L(i + 1) <= i /\ L(i + 1) \in Nat
      BY <2>1, <3>1, <3>3
    <3> QED BY <3>4
  <2> QED BY <1>1, <1>3, <2>1, <2>2
<1>4. CASE module[i].s # "label"
  <2>1. B(i + 1) = B(i)
    BY <1>2, <1>4
  <2>2. L(i + 1) = L(i)
    BY <2>1
  <2> HIDE DEF B, L
  <2> QED BY <1>1, <1>4, <2>1, <2>2
<1> QED BY <1>3, <1>4

LEMMA SpanTakes ==
    ASSUME TypeInv, PosInv, Takes
    PROVE  /\ CtlOK /\ Len(work) # 1 => scope'.gosub = scope.gosub
           /\ SpanEq => SpanEq'
<1>1. /\ Busy /\ stage = "check" /\ module' = module /\ T' = T
      /\ diags \subseteq diags' /\ (Clean(diags') <=> Clean(diags) /\ CtlOK)
      /\ scope'.gosub = (IF ~InSpace /\ Now.s = "label" THEN Now.x \in T.gosubs ELSE scope.gosub)
  BY NowFacts DEF Takes, Effects, T, S
<1>2. IsFrame(F) /\ ((F.ends = "module") = (Len(work) = 1))
  BY <1>1, NowFacts
<1>3. CtlOK /\ Len(work) # 1 => scope'.gosub = scope.gosub
  <2>1. CtlOK /\ ~InSpace /\ Now.s = "label" => F.top
    BY DEF CtlOK
  <2>2. F.top => F.ends \in {"module", "namespace"}
    BY <1>2 DEF IsFrame
  <2> QED BY <1>1, <1>2, <2>1, <2>2 DEF InSpace
<1>5. ASSUME SpanEq, Clean(diags') PROVE scope'.gosub <=> InSpan(Passed' + 1)
  <2>1. CtlOK /\ (scope.gosub <=> InSpan(Passed + 1))
    BY <1>1, <1>5 DEF SpanEq
  <2>2. CASE Len(work) # 1
    BY <1>3, <2>1, <2>2, PosTakes
  <2>3. CASE Len(work) = 1
    <3>1. Passed' = Passed + 1 /\ Passed \in Nat /\ ~InSpace /\ Now = module[Passed + 1]
      BY <1>1, <1>2, <2>3, PosTakes, ModuleStatement DEF PosInv, InSpace
    <3>2. InSpan((Passed + 1) + 1) <=>
            IF module[Passed + 1].s = "label" THEN module[Passed + 1].x \in T.gosubs ELSE InSpan(Passed + 1)
      BY <3>1, InSpanNext
    <3> QED BY <1>1, <2>1, <3>1, <3>2
  <2> QED BY <2>2, <2>3
<1>6. SpanEq => SpanEq'
  <2>1. InSpan(Passed + 1)' <=> InSpan(Passed' + 1)
    BY <1>1 DEF InSpan
  <2>2. Clean(diags)' <=> Clean(diags')
    BY DEF Clean, ControlErrors
  <2> QED BY <1>5, <2>1, <2>2 DEF SpanEq
<1> QED BY <1>3, <1>6

-----------------------------------------------------------------------------
(* VerdictIsLexical.                                                         *)

InnerLegal(hi) == \A d \in 2..Len(work) : LevelLegal(hi, work, scope, d)
RunningLegal(loops) ==
    \A d \in 1..Len(work) : Level(work, d).ends = "instance" => InstanceLegal(Level(work, d).st, loops)
\* What has no error so far is allowed, if what is left of the blocks is.
HiInv ==
    stage = "check" =>
      (Clean(diags) /\ InnerLegal(TRUE) =>
         /\ \A i \in 1..Passed : Legal[module[i], AtTop(InSpan(i))]
         /\ InstancesLegal(LoopKinds) /\ RunningLegal(LoopKinds))
\* What is allowed has no error so far, and what is left of the blocks is allowed.
LoInv ==
    stage = "check" =>
      (ProgramLegal /\ InstancesLegal({}) /\ RunningLegal({}) => Clean(diags) /\ InnerLegal(FALSE))
EarlyInv == stage \in Collecting => Clean(diags)
EndInv ==
    stage \notin Collecting \cup {"check"} =>
      /\ Clean(diags) => ProgramLegal /\ InstancesLegal(LoopKinds)
      /\ ProgramLegal /\ InstancesLegal({}) => Clean(diags)

LEMMA NowLegal ==
    ASSUME TypeInv, PosInv, Takes, NEW hi \in BOOLEAN
    PROVE  TaskLegal(Now, ContextAt(hi, work, scope, Len(work)), F.ends) <=>
             /\ CtlIn(ContextAt(hi, work, scope, Len(work)))
             /\ Len(work') # Len(work) => LevelLegal(hi, work', scope', Len(work) + 1)
<1> DEFINE c == ContextAt(hi, work, scope, Len(work))
<1>1. Busy
  BY DEF Takes, Effects
<1>2. Len(work') = Len(work) <=> work' = Rest
  BY TakesViews
<1>3. CASE work' # Rest
  <2>1. F.ends = "module" => Now \in Statements
    BY <1>1, ModuleStatement
  <2> QED BY <1>2, <1>3, <2>1, PushedLegal
<1>4. CASE work' = Rest
  <2>1. LeafShape
    <3>1. \A g : work' # <<g>> \o Rest
      <4>1. ASSUME NEW g, work' = <<g>> \o Rest PROVE FALSE
        <5>1. IsSeq(Rest) /\ Len(Rest) \in Nat
          BY <1>1, RestLevels
        <5>2. Len(<<g>> \o Rest) = Len(Rest) + 1
          BY <5>1, ConsProps
        <5> QED BY <1>4, <4>1, <5>1, <5>2
      <4> QED BY <4>1
    <3> QED BY <3>1 DEF Takes, Shape, BlockShape, LoopShape, BodyShape, SpaceShape
  <2>2. Plain(Now) /\ StandsIn(c)
    BY <1>1, <2>1, StandsAt DEF LeafShape
  <2> HIDE DEF c
  <2>3. TaskLegal(Now, c, F.ends) <=> CtlIn(c)
    BY <1>1, <2>2, LeafLegal
  <2> QED BY <1>2, <1>4, <2>3 DEF c
<1> QED BY <1>3, <1>4

LEMMA TopContext ==
    ASSUME TypeInv, PosInv, Busy, F.ends = "module", NEW hi \in BOOLEAN
    PROVE  TaskLegal(Now, ContextAt(hi, work, scope, Len(work)), F.ends) <=>
             Legal[module[Passed + 1], AtTop(scope.gosub)]
<1> DEFINE n == Len(work)
<1>1. /\ Level(work, n) = F /\ View(scope, work, n) = scope
      /\ IsFrame(F) /\ IsScope(scope) /\ Linked(F, scope)
  BY NowFacts
<1>2. F.top
  BY <1>1 DEF IsFrame
<1>3. scope.loops = <<>> /\ ~InInstance(work, n)
  BY <1>2, NoInstanceBelow
<1>4. LoopsAt(hi, work, scope, n) = {}
  BY <1>3, NoLoops DEF LoopsAt
<1>5. Gives(scope) = "nothing"
  BY <1>3, NoLoops DEF Gives
<1>6. ContextAt(hi, work, scope, n) = Context({}, scope, scope.gosub, F.top)
  BY <1>1, <1>4 DEF ContextAt
<1>7. (AroundOf(scope.loops) # "none" \/ scope.gosub) = scope.gosub
  BY <1>1, <1>3, NoLoops DEF IsScope
<1>8. F.top = TRUE
  BY <1>1, <1>2 DEF IsFrame
<1>9. Context({}, scope, scope.gosub, F.top) = AtTop(scope.gosub)
  BY <1>5, <1>7, <1>8 DEF Context, AtTop
<1> DEFINE c == ContextAt(hi, work, scope, n)
<1>10. c = AtTop(scope.gosub)
  BY <1>6, <1>9
<1> HIDE DEF c
<1>11. Now = module[Passed + 1] /\ Now.s \notin {"arm", "round", "post"}
  <2>1. Now = module[Passed + 1] /\ Now \in Statements
    BY ModuleStatement
  <2> QED BY <2>1, StatementsAssumption DEF WellFormed, Leaves, Nests
<1>12. TaskLegal(Now, c, F.ends) <=> Legal[Now, c]
  BY <1>11 DEF TaskLegal
<1> QED BY <1>10, <1>11, <1>12 DEF c

\* The blocks below the one at hand are left alone, and that has one less to do.
LEMMA TakesInner ==
    ASSUME TypeInv, Takes, NEW hi \in BOOLEAN, scope'.gosub = scope.gosub, NEW d \in 1..Len(work)
    PROVE  LevelLegal(hi, work, scope, d) <=>
             /\ LevelLegal(hi, work', scope', d)
             /\ d = Len(work) => TaskLegal(Now, ContextAt(hi, work, scope, d), F.ends)
<1> DEFINE n == Len(work)
<1>1. Busy /\ IsFrame(F) /\ IsSeq(F.todo) /\ F.todo # <<>> /\ Now = F.todo[1] /\ Level(work, n) = F
      /\ n \in Nat
  BY NowFacts DEF Takes, Effects
<1>2. ContextAt(hi, work', scope', d) = ContextAt(hi, work, scope, d)
  BY TakesContexts
<1>3. CASE d # n
  <2>1. d \in 1..(n - 1)
    BY <1>1, <1>3
  <2>2. Level(work', d) = Level(work, d)
    BY <2>1, TakesViews
  <2> QED BY <1>2, <1>3, <2>2 DEF LevelLegal
<1>4. CASE d = n
  <2> DEFINE c == ContextAt(hi, work, scope, n)
  <2>1. Level(work', n) = Taken1(F) /\ Taken1(F).todo = Tail(F.todo) /\ Taken1(F).ends = F.ends
    BY <1>1, TakesViews, FrameFields
  <2>2. /\ DOMAIN Tail(F.todo) = 1..(Len(F.todo) - 1) /\ DOMAIN F.todo = 1..Len(F.todo)
        /\ Len(F.todo) \in Nat /\ Len(F.todo) > 0
        /\ \A i \in 1..(Len(F.todo) - 1) : Tail(F.todo)[i] = F.todo[i + 1]
    <3>1. /\ Len(Tail(F.todo)) = Len(F.todo) - 1 /\ Len(F.todo) \in Nat /\ Len(F.todo) > 0
          /\ IsSeq(Tail(F.todo))
          /\ \A i \in 1..(Len(F.todo) - 1) : Tail(F.todo)[i] = F.todo[i + 1]
      BY <1>1, TailProps
    <3> QED BY <1>1, <3>1, SeqDomain
  <2>3. LevelLegal(hi, work, scope, n) <=> \A i \in DOMAIN F.todo : TaskLegal(F.todo[i], c, F.ends)
    BY <1>1 DEF LevelLegal, TasksLegal
  <2>4. LevelLegal(hi, work', scope', n) <=>
          \A i \in DOMAIN Tail(F.todo) : TaskLegal(Tail(F.todo)[i], c, F.ends)
    BY <1>2, <1>4, <2>1 DEF LevelLegal, TasksLegal
  <2> HIDE DEF c, n
  <2>5. \A i \in DOMAIN F.todo : i = 1 \/ \E j \in DOMAIN Tail(F.todo) : F.todo[i] = Tail(F.todo)[j]
    <3>1. ASSUME NEW i \in DOMAIN F.todo, i # 1
          PROVE  \E j \in DOMAIN Tail(F.todo) : F.todo[i] = Tail(F.todo)[j]
      <4>1. i - 1 \in 1..(Len(F.todo) - 1) /\ (i - 1) + 1 = i
        BY <2>2, <3>1
      <4>2. Tail(F.todo)[i - 1] = F.todo[(i - 1) + 1]
        BY <2>2, <4>1
      <4> QED BY <2>2, <4>1, <4>2
    <3> QED BY <3>1
  <2>6. \A j \in DOMAIN Tail(F.todo) : \E i \in DOMAIN F.todo : F.todo[i] = Tail(F.todo)[j]
    <3>1. \A j \in 1..(Len(F.todo) - 1) : j + 1 \in 1..Len(F.todo)
      BY <2>2
    <3> QED BY <2>2, <3>1
  <2>7. 1 \in DOMAIN F.todo
    BY <2>2
  <2>8. LevelLegal(hi, work, scope, n) <=>
          LevelLegal(hi, work', scope', n) /\ TaskLegal(Now, c, F.ends)
    BY <1>1, <2>3, <2>4, <2>5, <2>6, <2>7
  <2> QED BY <1>4, <2>8 DEF c, n
<1> QED BY <1>3, <1>4

LEMMA VerdictTakes ==
    ASSUME TypeInv, PosInv, SpanEq, Takes
    PROVE  (HiInv => HiInv') /\ (LoInv => LoInv')
<1> DEFINE n == Len(work)
           m == Len(work')
<1>1. /\ Busy /\ stage = "check" /\ module' = module /\ T' = T /\ pending' = pending
      /\ (Clean(diags') <=> Clean(diags) /\ CtlOK)
  BY NowFacts DEF Takes, Effects, T
<1>2. /\ n \in Nat /\ n > 0 /\ \A d \in 1..n : SameBlock(Level(work', d), Level(work, d))
      /\ \/ m = n
         \/ m = n + 1 /\ Level(work', n + 1).ends \in {"block", "loop", "body", "namespace"}
  BY TakesLevels
<1>3. ((F.ends = "module") = (n = 1)) /\ (n = 1 => Passed' = Passed + 1) /\ (n # 1 => Passed' = Passed)
      /\ Passed \in Nat
  BY <1>1, NowFacts, PosTakes DEF PosInv
<1>4. CtlOK /\ n # 1 => scope'.gosub = scope.gosub
  BY SpanTakes
<1>5. \A loops : RunningLegal(loops)' <=> RunningLegal(loops)
  <2> HIDE DEF n, m
  <2>1. \A d \in 1..m : Level(work', d).ends = "instance" => d \in 1..n
    BY <1>2
  <2>2. \A d \in 1..n : d \in 1..m
    BY <1>2
  <2> QED BY <1>2, <2>1, <2>2 DEF RunningLegal, SameBlock, m, n
<1>6. \A loops : InstancesLegal(loops)' <=> InstancesLegal(loops)
  BY <1>1 DEF InstancesLegal
<1>7. ProgramLegal' <=> ProgramLegal
  BY <1>1 DEF ProgramLegal, InSpan
<1>8. Clean(diags)' <=> Clean(diags')
  BY DEF Clean, ControlErrors
<1>9. \A hi \in BOOLEAN : InnerLegal(hi)' <=> \A d \in 2..m : LevelLegal(hi, work', scope', d)
  BY DEF InnerLegal
<1> HIDE DEF m
<1>10. HiInv => HiInv'
  <2> SUFFICES ASSUME HiInv, Clean(diags'), InnerLegal(TRUE)'
               PROVE  /\ \A i \in 1..Passed' : Legal[module[i], AtTop(InSpan(i))]
                      /\ InstancesLegal(LoopKinds) /\ RunningLegal(LoopKinds)
    <3>1. (\A i \in 1..Passed : Legal[module[i], AtTop(InSpan(i))])'
          <=> \A i \in 1..Passed' : Legal[module[i], AtTop(InSpan(i))]
      BY <1>1 DEF InSpan
    <3> QED BY <1>5, <1>6, <1>8, <3>1 DEF HiInv
  <2> DEFINE c == ContextAt(TRUE, work, scope, n)
  <2>1. Clean(diags) /\ CtlOK /\ CtlIn(c)
    BY <1>1, StandsAt
  <2>2. \A d \in 2..m : LevelLegal(TRUE, work', scope', d)
    BY <1>9
  <2>3. TaskLegal(Now, c, F.ends)
    <3>1. m # n => LevelLegal(TRUE, work', scope', n + 1)
      <4> HIDE DEF n, c
      <4>1. m # n => n + 1 \in 2..m
        BY <1>2
      <4> QED BY <2>2, <4>1
    <3> HIDE DEF c
    <3> QED BY <2>1, <3>1, NowLegal DEF c, m
  <2>4. CASE n = 1
    <3>1. InnerLegal(TRUE)
      BY <2>4 DEF InnerLegal
    <3>2. /\ \A i \in 1..Passed : Legal[module[i], AtTop(InSpan(i))]
          /\ InstancesLegal(LoopKinds) /\ RunningLegal(LoopKinds)
      BY <1>1, <2>1, <3>1 DEF HiInv
    <3>3. Legal[module[Passed + 1], AtTop(scope.gosub)]
      BY <1>1, <1>3, <2>3, <2>4, TopContext
    <3>4. AtTop(scope.gosub) = AtTop(InSpan(Passed + 1))
      <4>1. scope.gosub <=> InSpan(Passed + 1)
        BY <1>1, <2>1 DEF SpanEq
      <4>2. scope.gosub \in BOOLEAN /\ InSpan(Passed + 1) \in BOOLEAN
        BY <1>1, NowFacts DEF IsScope, InSpan
      <4>3. scope.gosub = InSpan(Passed + 1)
        BY <4>1, <4>2
      <4> QED BY <4>3
    <3>5. \A i \in 1..Passed' : i \in 1..Passed \/ i = Passed + 1
      BY <1>3, <2>4
    <3> QED BY <3>2, <3>3, <3>4, <3>5
  <2>5. CASE n # 1
    <3>1. InnerLegal(TRUE)
      <4> SUFFICES ASSUME NEW d \in 2..n PROVE LevelLegal(TRUE, work, scope, d)
        BY DEF InnerLegal
      <4>1. d \in 1..n /\ d \in 2..m
        <5> HIDE DEF n
        <5> QED BY <1>2
      <4>2. LevelLegal(TRUE, work', scope', d)
        BY <2>2, <4>1
      <4>3. scope'.gosub = scope.gosub
        BY <1>4, <2>1, <2>5
      <4>4. LevelLegal(TRUE, work, scope, d) <=>
              /\ LevelLegal(TRUE, work', scope', d)
              /\ d = n => TaskLegal(Now, ContextAt(TRUE, work, scope, d), F.ends)
        BY <4>1, <4>3, TakesInner
      <4> QED BY <2>3, <4>2, <4>4
    <3>2. /\ \A i \in 1..Passed : Legal[module[i], AtTop(InSpan(i))]
          /\ InstancesLegal(LoopKinds) /\ RunningLegal(LoopKinds)
      BY <1>1, <2>1, <3>1 DEF HiInv
    <3> QED BY <1>3, <2>5, <3>2
  <2> QED BY <2>4, <2>5
<1>11. LoInv => LoInv'
  <2> SUFFICES ASSUME LoInv, ProgramLegal, InstancesLegal({}), RunningLegal({})
               PROVE  Clean(diags') /\ InnerLegal(FALSE)'
    BY <1>5, <1>6, <1>7, <1>8 DEF LoInv
  <2> DEFINE c == ContextAt(FALSE, work, scope, n)
  <2>1. Clean(diags) /\ InnerLegal(FALSE)
    BY <1>1 DEF LoInv
  <2>2. TaskLegal(Now, c, F.ends)
    <3>1. CASE n = 1
      <4>1. Passed + 1 \in DOMAIN module
        BY <1>1, <1>3, <3>1, ModuleStatement
      <4>2. Legal[module[Passed + 1], AtTop(InSpan(Passed + 1))]
        BY <4>1 DEF ProgramLegal
      <4>3. AtTop(scope.gosub) = AtTop(InSpan(Passed + 1))
        <5>1. scope.gosub <=> InSpan(Passed + 1)
          BY <1>1, <2>1 DEF SpanEq
        <5>2. scope.gosub \in BOOLEAN /\ InSpan(Passed + 1) \in BOOLEAN
          BY <1>1, NowFacts DEF IsScope, InSpan
        <5>3. scope.gosub = InSpan(Passed + 1)
          BY <5>1, <5>2
        <5> QED BY <5>3
      <4> QED BY <1>1, <1>3, <3>1, <4>2, <4>3, TopContext
    <3>2. CASE n # 1
      <4>1. n \in 2..n
        <5> HIDE DEF n
        <5> QED BY <1>2, <3>2
      <4>2. LevelLegal(FALSE, work, scope, n)
        BY <2>1, <4>1 DEF InnerLegal
      <4>3. /\ Level(work, n) = F /\ IsSeq(F.todo) /\ F.todo # <<>> /\ Now = F.todo[1]
        BY <1>1, NowFacts
      <4>4. 1 \in DOMAIN F.todo
        <5>1. Len(F.todo) \in Nat /\ Len(F.todo) > 0 /\ DOMAIN F.todo = 1..Len(F.todo)
          BY <4>3, TailProps, SeqDomain
        <5> QED BY <5>1
      <4> HIDE DEF n
      <4> QED BY <4>2, <4>3, <4>4 DEF LevelLegal, TasksLegal
    <3> QED BY <3>1, <3>2
  <2>3. CtlIn(c) /\ (m # n => LevelLegal(FALSE, work', scope', n + 1))
    <3> HIDE DEF c
    <3> QED BY <2>2, NowLegal DEF c, m
  <2>4. CtlOK
    BY <1>1, <2>3, StandsAt
  <2>5. Clean(diags')
    BY <1>1, <2>1, <2>4
  <2>6. InnerLegal(FALSE)'
    <3> SUFFICES ASSUME NEW d \in 2..m PROVE LevelLegal(FALSE, work', scope', d)
      BY <1>9
    <3> HIDE DEF c, n
    <3>1. CASE d = n + 1
      <4>1. m # n
        BY <1>2, <3>1
      <4> QED BY <2>3, <3>1, <4>1
    <3>2. CASE d # n + 1
      <4>1. d \in 2..n /\ d \in 1..n /\ n # 1
        BY <1>2, <3>2
      <4>2. LevelLegal(FALSE, work, scope, d)
        BY <2>1, <4>1 DEF InnerLegal, n
      <4>3. scope'.gosub = scope.gosub
        BY <1>4, <2>4, <4>1
      <4> QED BY <4>1, <4>2, <4>3, TakesInner DEF n
    <3> QED BY <3>1, <3>2
  <2> QED BY <2>5, <2>6
<1> QED BY <1>10, <1>11

LEMMA VerdictInstance ==
    ASSUME TypeInv, NEW key, NEW st, Requests(key, st)
    PROVE  /\ PosInv => PosInv'
           /\ SpanEq => SpanEq'
           /\ HiInv => HiInv'
           /\ LoInv => LoInv'
<1> DEFINE n == Len(work)
           f == InstFrame(key, st)
<1>1. /\ Busy /\ stage = "check" /\ stage' = "check" /\ module' = module /\ pending' = pending
      /\ diags' = diags /\ st \in Statements
  BY NowFacts DEF Requests
<1>2. T'.gosubs = T.gosubs
  BY <1>1 DEF Requests, TypeInv, T
<1>3. /\ Len(work') = n + 1 /\ n \in Nat /\ n > 0
      /\ Level(work', n + 1) = f /\ View(scope', work', n + 1) = scope'
      /\ \A d \in 1..n : Level(work', d) = Level(work, d) /\ View(scope', work', d) = View(scope, work, d)
      /\ f = [todo |-> st.body, top |-> FALSE, ends |-> "instance",
              saved |-> scope, key |-> key, st |-> st]
  BY InstLevels
<1>4. f.todo = st.body /\ f.top = FALSE /\ f.ends = "instance" /\ f.st = st
  BY <1>3
<1>5. /\ scope'.gosub = scope.gosub /\ scope.loops \in Seq(LoopKinds)
      /\ scope'.loops = Append(scope.loops, IF st.fn THEN "Function" ELSE "Sub")
      /\ scope'.ret = (IF st.fn THEN st.t ELSE Unknown)
  BY InstScope DEF IsScope
<1> HIDE DEF n, f
<1>6. Level(work', 1) = Level(work, 1) /\ Passed' = Passed
  <2>1. 1 \in 1..n
    BY <1>3
  <2>2. Level(work', 1) = Level(work, 1)
    BY <1>3, <2>1
  <2> QED BY <1>1, <2>2 DEF Passed
<1>7. PosInv => PosInv'
  BY <1>1, <1>6 DEF PosInv
<1>8. \A i : (InSpan(i)' <=> InSpan(i))
  BY <1>1, <1>2 DEF InSpan
<1>9. Clean(diags)' <=> Clean(diags)
  BY <1>1 DEF Clean, ControlErrors
<1>10. SpanEq => SpanEq'
  <2>1. InSpan(Passed + 1)' <=> InSpan(Passed + 1)
    BY <1>1, <1>2, <1>6 DEF InSpan
  <2> QED BY <1>1, <1>5, <1>9, <2>1 DEF SpanEq
<1>11. /\ \A loops : InstancesLegal(loops)' <=> InstancesLegal(loops)
       /\ ProgramLegal' <=> ProgramLegal
       /\ (\A i \in 1..Passed : Legal[module[i], AtTop(InSpan(i))])'
          <=> \A i \in 1..Passed : Legal[module[i], AtTop(InSpan(i))]
  BY <1>1, <1>2, <1>6 DEF InstancesLegal, ProgramLegal, InSpan
<1>12. \A loops : RunningLegal(loops)' <=> RunningLegal(loops) /\ InstanceLegal(st, loops)
  <2>1. \A d \in 1..(n + 1) : d = n + 1 \/ d \in 1..n
    BY <1>3
  <2>2. n + 1 \in 1..(n + 1) /\ \A d \in 1..n : d \in 1..(n + 1)
    BY <1>3
  <2> QED BY <1>3, <1>4, <2>1, <2>2 DEF RunningLegal, n
<1>13. ASSUME NEW hi \in BOOLEAN, NEW d \in 1..n
       PROVE  LevelLegal(hi, work', scope', d) <=> LevelLegal(hi, work, scope, d)
  <2>1. InInstance(work', d) <=> InInstance(work, d)
    <3>1. 1..d \subseteq 1..n
      BY <1>3
    <3> QED BY <1>3, <3>1 DEF InInstance
  <2>2. ContextAt(hi, work', scope', d) = ContextAt(hi, work, scope, d)
    BY <1>3, <1>5, <2>1 DEF ContextAt, LoopsAt, Context
  <2> QED BY <1>3, <2>2 DEF LevelLegal
<1>14. st.body \in Seq(Statements)
  <2>1. st.s = "proc"
    BY DEF Requests
  <2> QED BY <1>1, <2>1, StatementsAssumption DEF WellFormed
<1>15. ASSUME NEW hi \in BOOLEAN
       PROVE  LevelLegal(hi, work', scope', n + 1) <=> InstanceLegal(st, IF hi THEN LoopKinds ELSE {})
  <2> DEFINE c == ContextAt(hi, work', scope', n + 1)
             more == IF hi THEN LoopKinds ELSE {}
  <2>1. c = Context(LoopsAt(hi, work', scope', n + 1), scope', scope.gosub, FALSE)
    BY <1>3, <1>4, <1>5 DEF ContextAt
  <2>2. InInstance(work', n + 1)
    <3>1. n + 1 \in 1..(n + 1)
      BY <1>3
    <3> QED BY <1>3, <1>4, <3>1 DEF InInstance
  <2>3. /\ Context(Own(scope'.loops), scope', scope.gosub, FALSE) = InProc(st)
        /\ Context(LoopKinds, scope', scope.gosub, FALSE) = [InProc(st) EXCEPT !.loops = @ \cup LoopKinds]
    <3>1. st.fn => scope'.ret = st.t
      BY <1>5
    <3> QED BY <1>5, <3>1, BodyContext
  <2>4. [InProc(st) EXCEPT !.loops = @ \cup {}] = InProc(st)
    BY DEF InProc
  <2>5. c = [InProc(st) EXCEPT !.loops = @ \cup more]
    <3>1. CASE hi
      BY <2>1, <2>2, <2>3, <3>1 DEF LoopsAt
    <3>2. CASE ~hi
      BY <2>1, <2>3, <2>4, <3>2 DEF LoopsAt
    <3> QED BY <3>1, <3>2
  <2>6. LevelLegal(hi, work', scope', n + 1) <=> TasksLegal(st.body, c, "instance")
    BY <1>3, <1>4 DEF LevelLegal
  <2>7. TasksLegal(st.body, c, "instance") <=> AllLegal(st.body, c)
    BY <1>14, TasksOfBody
  <2> HIDE DEF c
  <2> QED BY <2>5, <2>6, <2>7 DEF InstanceLegal
<1>16. \A hi \in BOOLEAN : InnerLegal(hi)' <=>
          InnerLegal(hi) /\ InstanceLegal(st, IF hi THEN LoopKinds ELSE {})
  <2>1. ASSUME NEW hi \in BOOLEAN
        PROVE  InnerLegal(hi)' <=> InnerLegal(hi) /\ InstanceLegal(st, IF hi THEN LoopKinds ELSE {})
    <3>1. InnerLegal(hi)' <=> \A d \in 2..(n + 1) : LevelLegal(hi, work', scope', d)
      BY <1>3 DEF InnerLegal
    <3>2. InnerLegal(hi) <=> \A d \in 2..n : LevelLegal(hi, work, scope, d)
      BY DEF InnerLegal, n
    <3>3. /\ \A d \in 2..(n + 1) : d = n + 1 \/ (d \in 2..n /\ d \in 1..n)
          /\ n + 1 \in 2..(n + 1)
          /\ \A d \in 2..n : d \in 2..(n + 1) /\ d \in 1..n
      BY <1>3
    <3> QED BY <1>13, <1>15, <3>1, <3>2, <3>3
  <2> QED BY <2>1
<1>17. HiInv => HiInv'
  BY <1>1, <1>9, <1>11, <1>12, <1>16 DEF HiInv
<1>18. LoInv => LoInv'
  BY <1>1, <1>9, <1>11, <1>12, <1>16 DEF LoInv
<1> QED BY <1>7, <1>10, <1>17, <1>18

LEMMA VerdictEnds ==
    ASSUME TypeInv, PosInv, SpanEq, HiInv, LoInv, Ends
    PROVE  PosInv' /\ SpanEq' /\ HiInv' /\ LoInv' /\ EndInv'
<1> DEFINE n == Len(work)
<1>1. /\ stage = "check" /\ module' = module /\ T' = T /\ diags' = diags /\ F.todo = <<>>
      /\ pending' = (IF F.ends = "instance" THEN Append(pending, [key |-> F.key, st |-> F.st]) ELSE pending)
      /\ stage' = (IF F.ends # "module" THEN stage ELSE IF diags = {} THEN "generate" ELSE "rejected")
  BY DEF Ends, T
<1>2. /\ IsSeq(work') /\ Len(work') = n - 1 /\ n \in Nat /\ n > 0
      /\ Level(work, n) = F /\ View(scope, work, n) = scope
      /\ n > 1 => View(scope', work', n - 1) = scope' /\ View(scope, work, n - 1) = F.saved
      /\ \A d \in 1..(n - 1) : Level(work', d) = Level(work, d)
      /\ \A d \in 1..(n - 2) : View(scope', work', d) = View(scope, work, d)
  BY EndLevels
<1>3. /\ scope'.gosub = scope.gosub
      /\ F.ends # "module" => scope'.loops = F.saved.loops /\ Statics(scope') = Statics(F.saved)
  BY EndScope
<1>4. (F.ends = "module") = (n = 1)
  <2>1. n \in 1..n /\ StackInv
    BY <1>1, <1>2 DEF TypeInv
  <2> QED BY <1>2, <2>1 DEF StackInv
<1> HIDE DEF n
<1>5. \A i : (InSpan(i)' <=> InSpan(i))
  BY <1>1 DEF InSpan
<1>6. Clean(diags)' <=> Clean(diags)
  BY <1>1 DEF Clean, ControlErrors
<1>7. /\ ProgramLegal' <=> ProgramLegal
      /\ \A loops : InstancesLegal(loops)' <=>
            InstancesLegal(loops) /\ (F.ends = "instance" => InstanceLegal(F.st, loops))
  <2>1. ProgramLegal' <=> ProgramLegal
    BY <1>1 DEF ProgramLegal, InSpan
  <2>2. CASE F.ends # "instance"
    BY <1>1, <2>1, <2>2 DEF InstancesLegal
  <2>3. CASE F.ends = "instance"
    <3> DEFINE e == [key |-> F.key, st |-> F.st]
               k == Len(pending)
    <3>1. e.st = F.st
      OBVIOUS
    <3> HIDE DEF e
    <3>2. /\ DOMAIN pending = 1..k /\ k \in Nat /\ DOMAIN pending' = 1..(k + 1)
          /\ pending'[k + 1] = e /\ \A i \in 1..k : pending'[i] = pending[i]
      <4>1. pending \in Seq({pending[i] : i \in DOMAIN pending})
        BY DEF TypeInv, IsSeq
      <4>2. pending' = Append(pending, e)
        BY <1>1, <2>3 DEF e
      <4>3. \A A : \A q \in Seq(A) :
               /\ DOMAIN q = 1..Len(q) /\ Len(q) \in Nat /\ DOMAIN Append(q, e) = 1..(Len(q) + 1)
               /\ Append(q, e)[Len(q) + 1] = e /\ \A i \in 1..Len(q) : Append(q, e)[i] = q[i]
        OBVIOUS
      <4> QED BY <4>1, <4>2, <4>3
    <3> HIDE DEF k
    <3>3. (\A i \in 1..(k + 1) : i = k + 1 \/ i \in 1..k) /\ k + 1 \in 1..(k + 1)
          /\ \A i \in 1..k : i \in 1..(k + 1)
      BY <3>2
    <3>4. \A loops : (\A i \in DOMAIN pending' : InstanceLegal(pending'[i].st, loops)) <=>
                     (\A i \in DOMAIN pending : InstanceLegal(pending[i].st, loops)) /\ InstanceLegal(F.st, loops)
      BY <3>1, <3>2, <3>3
    <3> QED BY <2>1, <2>3, <3>4 DEF InstancesLegal
  <2> QED BY <2>2, <2>3
<1>8. \A loops : RunningLegal(loops) <=>
         RunningLegal(loops)' /\ (F.ends = "instance" => InstanceLegal(F.st, loops))
  <2>1. \A d \in 1..n : d = n \/ d \in 1..(n - 1)
    BY <1>2
  <2>2. n \in 1..n /\ \A d \in 1..(n - 1) : d \in 1..n
    BY <1>2
  <2> QED BY <1>2, <2>1, <2>2 DEF RunningLegal, n
<1>9. \A hi : LevelLegal(hi, work, scope, n)
  <2>1. Level(work, n).todo = <<>>
    BY <1>1, <1>2
  <2>2. DOMAIN Level(work, n).todo = {}
    BY <2>1
  <2> QED BY <2>2 DEF LevelLegal, TasksLegal
<1>10. ASSUME F.ends # "module", NEW hi \in BOOLEAN, NEW d \in 1..(n - 1)
       PROVE  LevelLegal(hi, work', scope', d) <=> LevelLegal(hi, work, scope, d)
  <2> DEFINE v == View(scope, work, d)
             v2 == View(scope', work', d)
  <2>1. InInstance(work', d) <=> InInstance(work, d)
    <3>1. 1..d \subseteq 1..(n - 1)
      BY <1>2
    <3> QED BY <1>2, <3>1 DEF InInstance
  <2>2. v2.loops = v.loops /\ v2.ret = v.ret
    <3>1. CASE d = n - 1
      <4>1. n > 1
        BY <1>2, <3>1
      <4>2. v2 = scope' /\ v = F.saved
        BY <1>2, <3>1, <4>1
      <4> HIDE DEF v, v2
      <4> QED BY <1>3, <1>10, <4>2 DEF Statics
    <3>2. CASE d # n - 1
      <4>1. d \in 1..(n - 2)
        BY <1>2, <3>2
      <4> QED BY <1>2, <4>1
    <3> QED BY <3>1, <3>2
  <2> HIDE DEF v, v2
  <2>3. Gives(v2) = Gives(v) /\ LoopsAt(hi, work', v2, d) = LoopsAt(hi, work, v, d)
    BY <2>1, <2>2 DEF Gives, LoopsAt
  <2>4. Context(LoopsAt(hi, work', v2, d), v2, scope'.gosub, Level(work', d).top)
        = Context(LoopsAt(hi, work, v, d), v, scope.gosub, Level(work, d).top)
    BY <1>2, <1>3, <2>2, <2>3 DEF Context
  <2>5. ContextAt(hi, work', scope', d) = ContextAt(hi, work, scope, d)
    BY <2>4 DEF ContextAt, v, v2
  <2> QED BY <1>2, <2>5 DEF LevelLegal
<1>11. CASE F.ends # "module"
  <2>1. stage' = "check" /\ n # 1
    BY <1>1, <1>4, <1>11
  <2>2. Level(work', 1) = Level(work, 1) /\ Passed' = Passed
    <3>1. 1 \in 1..(n - 1)
      BY <1>2, <2>1
    <3>2. Level(work', 1) = Level(work, 1)
      BY <1>2, <3>1
    <3> QED BY <1>1, <3>2 DEF Passed
  <2>3. PosInv'
    BY <1>1, <2>2 DEF PosInv
  <2>4. SpanEq'
    <3>1. InSpan(Passed + 1)' <=> InSpan(Passed + 1)
      BY <1>1, <2>2 DEF InSpan
    <3> QED BY <1>1, <1>3, <1>6, <3>1 DEF SpanEq
  <2>5. \A hi \in BOOLEAN : InnerLegal(hi)' <=> InnerLegal(hi)
    <3>1. ASSUME NEW hi \in BOOLEAN PROVE InnerLegal(hi)' <=> InnerLegal(hi)
      <4>1. InnerLegal(hi)' <=> \A d \in 2..(n - 1) : LevelLegal(hi, work', scope', d)
        BY <1>2 DEF InnerLegal
      <4>2. InnerLegal(hi) <=> \A d \in 2..n : LevelLegal(hi, work, scope, d)
        BY DEF InnerLegal, n
      <4>3. /\ \A d \in 2..n : d = n \/ d \in 2..(n - 1)
            /\ \A d \in 2..(n - 1) : d \in 2..n /\ d \in 1..(n - 1)
        BY <1>2
      <4>4. LevelLegal(hi, work, scope, n)
        BY <1>9
      <4> QED BY <1>10, <1>11, <4>1, <4>2, <4>3, <4>4
    <3> QED BY <3>1
  <2>6. (\A i \in 1..Passed : Legal[module[i], AtTop(InSpan(i))])'
          <=> \A i \in 1..Passed : Legal[module[i], AtTop(InSpan(i))]
    BY <1>1, <2>2 DEF InSpan
  <2>7. HiInv'
    BY <1>1, <1>6, <1>7, <1>8, <2>5, <2>6 DEF HiInv
  <2>8. LoInv'
    BY <1>1, <1>6, <1>7, <1>8, <2>5 DEF LoInv
  <2>9. EndInv'
    BY <2>1 DEF EndInv
  <2> QED BY <2>3, <2>4, <2>7, <2>8, <2>9
<1>12. CASE F.ends = "module"
  <2>1. stage' # "check" /\ n = 1
    BY <1>1, <1>4, <1>12
  <2>2. PosInv' /\ SpanEq' /\ HiInv' /\ LoInv'
    BY <2>1 DEF PosInv, SpanEq, HiInv, LoInv
  <2>3. Passed = Len(module) /\ Len(module) \in Nat
    <3>1. Level(work, 1) = F
      BY <1>2, <2>1
    <3> QED BY <1>1, <3>1, ModuleFacts DEF Passed
  <2>4. \A hi : InnerLegal(hi)
    BY <2>1 DEF InnerLegal, n
  <2>5. DOMAIN module = 1..Passed
    BY <2>3, ModuleFacts
  <2>6. \A loops : InstancesLegal(loops)' <=> InstancesLegal(loops)
    BY <1>7, <1>12
  <2>7. \A loops : RunningLegal(loops)
    <3>1. \A d \in 1..n : Level(work, d) = F
      BY <1>2, <2>1
    <3> QED BY <1>12, <3>1 DEF RunningLegal, n
  <2>8. Clean(diags) => ProgramLegal /\ InstancesLegal(LoopKinds)
    BY <1>1, <2>4, <2>5 DEF HiInv, ProgramLegal
  <2>9. ProgramLegal /\ InstancesLegal({}) => Clean(diags)
    BY <1>1, <2>7 DEF LoInv
  <2> QED BY <1>6, <1>7, <2>2, <2>6, <2>8, <2>9 DEF EndInv
<1> QED BY <1>11, <1>12

LEMMA VerdictCollect ==
    ASSUME TypeInv, EarlyInv, Step(CollectNames) \/ Step(CollectTypes)
    PROVE  PosInv' /\ SpanEq' /\ HiInv' /\ LoInv' /\ EarlyInv' /\ EndInv'
<1>1. \A A, B : Clean(A \cup B) <=> Clean(A) /\ Clean(B)
  BY HarmlessErrors
<1>2. \A ok : /\ Clean(Check(ok, "label twice")) /\ Clean(Check(ok, "declared twice"))
              /\ Clean(Check(ok, "TYPEs")) /\ Clean(Check(ok, "label for GOTO and GOSUB"))
  BY DEF Clean, Check, ControlErrors
<1>3. Clean(diags)' <=> Clean(diags')
  BY DEF Clean, ControlErrors
<1>4. CASE Step(CollectNames)
  <2> DEFINE ps == collectProcedures(module)
  <2>1. diags' = collectLabels(module) \cup ps.errs /\ stage' = "collect types"
    BY <1>4 DEF Step, CollectNames
  <2>2. \E ok : ps.errs = Check(ok, "declared twice")
    BY DEF collectProcedures
  <2>3. \E ok : collectLabels(module) = Check(ok, "label twice")
    BY DEF collectLabels
  <2> HIDE DEF ps
  <2>4. Clean(diags')
    BY <1>1, <1>2, <2>1, <2>2, <2>3
  <2> QED BY <1>3, <2>1, <2>4 DEF PosInv, SpanEq, HiInv, LoInv, EarlyInv, EndInv, Collecting
<1>5. CASE Step(CollectTypes)
  <2> DEFINE f == Frame(module, TRUE, "module")
  <2>1. /\ stage = "collect types" /\ stage' = "check" /\ module' = module /\ work' = <<f>>
        /\ pending' = pending /\ scope' = scope /\ f.todo = module /\ f.ends = "module"
    BY <1>5 DEF Step, CollectTypes, Frame
  <2>2. Clean(diags')
    <3>1. \E ok : diags' = diags \cup Check(ok, "TYPEs") \cup collectGosubUsage(module)
      BY <1>5 DEF Step, CollectTypes
    <3>2. \E ok : collectGosubUsage(module) = Check(ok, "label for GOTO and GOSUB")
      BY DEF collectGosubUsage
    <3>3. Clean(diags)
      BY <2>1 DEF EarlyInv, Collecting
    <3> QED BY <1>1, <1>2, <3>1, <3>2, <3>3
  <2>3. scope = EmptyScope /\ pending = <<>> /\ module \in Seq(Statements) /\ Len(module) \in Nat
    BY <2>1, ModuleFacts DEF TypeInv, Collecting
  <2> HIDE DEF f
  <2>4. Len(work') = 1 /\ Level(work', 1) = f
    <3>1. Len(<<f>>) = 1 /\ <<f>>[1] = f
      OBVIOUS
    <3>2. \A w : Len(w) = 1 => Level(w, 1) = w[1]
      BY DEF Level
    <3>3. Len(work') = 1 /\ work'[1] = f
      BY <2>1, <3>1
    <3> QED BY <3>2, <3>3
  <2>5. Passed' = 0
    <3>1. Passed' = Len(module') - Len(Level(work', 1).todo)
      BY DEF Passed
    <3>2. module' = module /\ Level(work', 1).todo = module
      BY <2>1, <2>4
    <3> QED BY <2>3, <3>1, <3>2
  <2>6. PosInv'
    <3>1. \A i \in DOMAIN module : 0 + i = i
      BY <2>3
    <3> QED BY <2>1, <2>4, <2>5, <3>1 DEF PosInv
  <2>7. SpanEq'
    <3>1. scope'.gosub = FALSE
      BY <2>1, <2>3 DEF EmptyScope
    <3>2. ~InSpan(Passed + 1)'
      <4>1. 1..((0 + 1) - 1) = {}
        OBVIOUS
      <4> QED BY <2>5, <4>1 DEF InSpan
    <3> QED BY <3>1, <3>2 DEF SpanEq
  <2>8. \A hi : InnerLegal(hi)'
    BY <2>4 DEF InnerLegal
  <2>9. \A loops : InstancesLegal(loops)' /\ RunningLegal(loops)'
    <3>1. DOMAIN pending' = {}
      <4>1. pending' = <<>>
        BY <2>1, <2>3
      <4> QED BY <4>1
    <3>2. \A d \in 1..Len(work') : Level(work', d).ends # "instance"
      <4>1. \A d \in 1..1 : d = 1
        OBVIOUS
      <4>2. \A d \in 1..Len(work') : Level(work', d) = f
        BY <2>4, <4>1
      <4>3. f.ends # "instance"
        BY <2>1
      <4> QED BY <4>2, <4>3
    <3> QED BY <3>1, <3>2 DEF InstancesLegal, RunningLegal
  <2>10. HiInv'
    <3>1. (\A i \in 1..Passed : Legal[module[i], AtTop(InSpan(i))])'
      <4>1. 1..0 = {}
        OBVIOUS
      <4>2. 1..Passed' = {}
        BY <2>5, <4>1
      <4> QED BY <4>2
    <3> QED BY <2>9, <3>1 DEF HiInv
  <2>11. LoInv'
    BY <1>3, <2>2, <2>8 DEF LoInv
  <2>12. EarlyInv' /\ EndInv'
    BY <2>1 DEF EarlyInv, EndInv, Collecting
  <2> QED BY <2>6, <2>7, <2>10, <2>11, <2>12
<1> QED BY <1>4, <1>5

LEMMA VerdictNext ==
    ASSUME TypeInv, PosInv, SpanEq, HiInv, LoInv, EarlyInv, EndInv, [Next]_vars
    PROVE  PosInv' /\ SpanEq' /\ HiInv' /\ LoInv' /\ EarlyInv' /\ EndInv'
<1>1. CASE stage = "check" /\ Takes
  <2>1. stage' = "check"
    BY <1>1 DEF Takes, Effects
  <2>2. EarlyInv' /\ EndInv'
    BY <2>1 DEF EarlyInv, EndInv, Collecting
  <2> QED BY <1>1, <2>2, PosTakes, SpanTakes, VerdictTakes
<1>2. CASE stage = "check" /\ Ends
  <2>1. EarlyInv'
    BY <1>2 DEF Ends, EarlyInv, Collecting
  <2> QED BY <1>2, <2>1, VerdictEnds
<1>3. ASSUME stage = "check", NEW key, NEW st, Requests(key, st)
      PROVE  PosInv' /\ SpanEq' /\ HiInv' /\ LoInv' /\ EarlyInv' /\ EndInv'
  <2>1. stage' = "check"
    BY <1>3 DEF Requests
  <2>2. EarlyInv' /\ EndInv'
    BY <2>1 DEF EarlyInv, EndInv, Collecting
  <2> QED BY <1>3, <2>2, VerdictInstance
<1>4. CASE Step(CollectNames) \/ Step(CollectTypes)
  BY <1>4, VerdictCollect
<1>5. ASSUME UNCHANGED <<module, tables, scope, work, diags, pending>>,
             stage' = stage \/ (stage \notin Collecting \cup {"check"} /\ stage' \notin Collecting \cup {"check"})
      PROVE  PosInv' /\ SpanEq' /\ HiInv' /\ LoInv' /\ EarlyInv' /\ EndInv'
  <2>0. T' = T /\ module' = module
    BY <1>5 DEF T
  <2>1. /\ Clean(diags)' <=> Clean(diags)
        /\ ProgramLegal' <=> ProgramLegal
        /\ \A loops : /\ InstancesLegal(loops)' <=> InstancesLegal(loops)
                      /\ RunningLegal(loops)' <=> RunningLegal(loops)
        /\ \A hi : InnerLegal(hi)' <=> InnerLegal(hi)
    <3>1. Clean(diags)' <=> Clean(diags)
      BY <1>5 DEF Clean, ControlErrors
    <3>2. ProgramLegal' <=> ProgramLegal
      BY <2>0 DEF ProgramLegal, InSpan
    <3>3. \A loops : /\ InstancesLegal(loops)' <=> InstancesLegal(loops)
                     /\ RunningLegal(loops)' <=> RunningLegal(loops)
      BY <1>5 DEF InstancesLegal, RunningLegal
    <3>4. \A hi : InnerLegal(hi)' <=> InnerLegal(hi)
      BY <1>5 DEF InnerLegal
    <3> QED BY <3>1, <3>2, <3>3, <3>4
  <2>2. Passed' = Passed
    BY <1>5 DEF Passed
  <2>3. InSpan(Passed + 1)' <=> InSpan(Passed + 1)
    BY <2>0, <2>2 DEF InSpan
  <2>4. (\A i \in 1..Passed : Legal[module[i], AtTop(InSpan(i))])'
        <=> \A i \in 1..Passed : Legal[module[i], AtTop(InSpan(i))]
    BY <2>0, <2>2 DEF InSpan
  <2>5. PosInv'
    BY <1>5, <2>2 DEF PosInv
  <2>6. SpanEq'
    BY <1>5, <2>1, <2>3 DEF SpanEq
  <2>7. HiInv' /\ LoInv'
    BY <1>5, <2>1, <2>4 DEF HiInv, LoInv
  <2>8. EarlyInv' /\ EndInv'
    BY <1>5, <2>1 DEF EarlyInv, EndInv, Collecting
  <2> QED BY <2>5, <2>6, <2>7, <2>8
<1>6. CASE (stage = "check" /\ Same) \/ UNCHANGED vars \/ Terminated
  BY <1>5, <1>6 DEF Same, vars, Terminated
<1>7. CASE CodegenNext
  <2>1. /\ stage = "generate" /\ stage' \in {"generate", "written", "crashed"}
        /\ UNCHANGED <<module, tables, scope, work, diags, pending>>
    BY <1>7, CodegenSteps
  <2>2. stage \notin Collecting \cup {"check"} /\ stage' \notin Collecting \cup {"check"}
    BY <2>1 DEF Collecting
  <2> QED BY <1>5, <2>1, <2>2
<1> QED BY <1>1, <1>2, <1>3, <1>4, <1>6, <1>7, WalkSteps, StageSteps

\* Sema reports an EXIT, RETURN, YIELD, jump, label or nested declaration only where
\* the text forbids it, and always where it does, in any program and whatever
\* instances were checked in between; but for an EXIT in a generic body.
THEOREM VerdictCorrect == Spec => []VerdictIsLexical
<1> DEFINE IInv == TypeInv /\ PosInv /\ SpanEq /\ HiInv /\ LoInv /\ EarlyInv /\ EndInv
<1>1. Init => IInv
  <2> SUFFICES ASSUME Init PROVE IInv
    OBVIOUS
  <2>1. TypeInv /\ stage = "collect" /\ diags = {}
    BY TypeInit DEF Init, SemaInit
  <2>2. Clean(diags)
    BY <2>1 DEF Clean
  <2> QED BY <2>1, <2>2 DEF PosInv, SpanEq, HiInv, LoInv, EarlyInv, EndInv, Collecting
<1>2. IInv /\ [Next]_vars => IInv'
  BY TypeNext, VerdictNext
<1>3. IInv => VerdictIsLexical
  <2> SUFFICES ASSUME IInv, Ended PROVE VerdictIsLexical
    BY DEF VerdictIsLexical
  <2>1. stage \notin Collecting \cup {"check"}
    BY DEF Ended, Collecting
  <2> QED BY <2>1 DEF EndInv, Clean, VerdictIsLexical
<1> QED BY <1>1, <1>2, <1>3, PTL DEF Spec

-----------------------------------------------------------------------------
(* What is declared outside procedures: it is in the global table already, or *)
(* still to be declared in a block that is in no procedure.                  *)

BodyDeclares(b, x) == \E i \in DOMAIN b : x \in DeclaredIn[b[i]]
TaskDeclares(t, ends, x) ==
    /\ ends = "namespace" => t.s \in InNamespace
    /\ t.s # "post"
    /\ t.s \in {"arm", "round"} => BodyDeclares(t.body, x)
    /\ t.s \notin {"arm", "round"} => x \in DeclaredIn[t]
SpaceDeclares(st, k) ==
    \E i \in DOMAIN st.body : /\ st.body[i].s \in InNamespace
                              /\ \E x \in DeclaredIn[st.body[i]] : k = <<st.x, x>>
Declares(t, prefix, ends, k) ==
    \/ \E x : TaskDeclares(t, ends, x) /\ k = Append(prefix, x)
    \/ ends = "module" /\ t.s = "ns" /\ SpaceDeclares(t, k)
ToDeclare(w, s, d, k) ==
    /\ ~View(s, w, d).inProc
    /\ \E i \in DOMAIN Level(w, d).todo :
          Declares(Level(w, d).todo[i], View(s, w, d).prefix, Level(w, d).ends, k)
Global(k) == \E i \in DOMAIN module : k \in DeclaredBy(module[i])

\* The inductive invariant of GlobalsAreGlobal.
GlobInv ==
    stage \notin Collecting =>
      /\ \A k \in DOMAIN scope.symbols : Good(k)
      /\ \A k : Good(k) =>
            (Global(k) <=> \/ k \in DOMAIN scope.symbols
                           \/ \E d \in 1..Len(work) : ToDeclare(work, scope, d, k))

\* A statement declares its own names and those of its blocks.
LEMMA DeclaredOf ==
    ASSUME NEW st \in Statements, NEW x
    PROVE  x \in DeclaredIn[st] <=>
             x \in OwnNames(st) \/ \E j \in DOMAIN Parts(st) : BodyDeclares(Parts(st)[j], x)
<1>1. DeclaredIn[st] = DeclaredInStep(DeclaredIn, st)
  BY RecursionAssumption
<1>2. DeclaredInStep(DeclaredIn, st) =
        OwnNames(st)
        \cup UNION {UNION {DeclaredIn[Parts(st)[j][i]] : i \in DOMAIN Parts(st)[j]} : j \in DOMAIN Parts(st)}
  BY DEF DeclaredInStep, OwnNames
<1>3. x \in UNION {UNION {DeclaredIn[Parts(st)[j][i]] : i \in DOMAIN Parts(st)[j]} : j \in DOMAIN Parts(st)}
      <=> \E j \in DOMAIN Parts(st) : BodyDeclares(Parts(st)[j], x)
  BY DEF BodyDeclares
<1> QED BY <1>1, <1>2, <1>3

\* One that is no block statement declares its own names only.
LEMMA DeclaredOfLeaf ==
    ASSUME NEW st \in Statements, NEW x, st.s \notin {"if", "select", "for", "do", "while"}
    PROVE  x \in DeclaredIn[st] <=> x \in OwnNames(st)
<1>1. DOMAIN Parts(st) = {}
  BY NoParts
<1> QED BY <1>1, DeclaredOf

\* In the module, what a statement declares is what DeclaredBy says.
LEMMA DeclaredByIs ==
    ASSUME NEW st \in Statements, NEW k
    PROVE  k \in DeclaredBy(st) <=> Declares(st, <<>>, "module", k)
<1>1. st.s \in Leaves \cup Nests
  BY StatementsAssumption DEF WellFormed
<1>2. \A x : TaskDeclares(st, "module", x) <=> x \in DeclaredIn[st]
  BY <1>1 DEF TaskDeclares, Leaves, Nests
<1>3. \A x : Append(<<>>, x) = <<x>>
  OBVIOUS
<1>4. k \in DeclaredBy(st) <=> (\E x \in DeclaredIn[st] : k = <<x>>) \/ (st.s = "ns" /\ SpaceDeclares(st, k))
  BY DEF DeclaredBy, SpaceDeclares
<1> QED BY <1>2, <1>3, <1>4 DEF Declares

\* No key that is declared is that of an instance.
LEMMA DeclaredShort ==
    ASSUME NEW st, NEW k, k \in DeclaredBy(st)
    PROVE  ~IsInstanceKey(k)
<1>1. (\E x : k = <<x>>) \/ \E x, y : k = <<x, y>>
  BY DEF DeclaredBy
<1>2. Len(k) \in {1, 2}
  <2>1. ASSUME NEW x, k = <<x>> PROVE Len(k) = 1
    BY <2>1
  <2>2. ASSUME NEW x, NEW y, k = <<x, y>> PROVE Len(k) = 2
    BY <2>2
  <2> QED BY <1>1, <2>1, <2>2
<1>3. ~(Len(k) > 2)
  <2>1. \A n \in {1, 2} : ~(n > 2)
    OBVIOUS
  <2> QED BY <1>2, <2>1
<1> QED BY <1>3 DEF IsInstanceKey

-----------------------------------------------------------------------------
(* A statement declares what it adds to the table and what it leaves to its  *)
(* block.                                                                    *)

\* The blocks of a block statement declare what the statement does.
LEMMA BlockDeclares ==
    ASSUME TypeInv, Busy, ~InSpace, NEW todo, BlockTasks(Now, todo), NEW x
    PROVE  /\ OwnNames(Now) = {} /\ Now.s # "ns"
           /\ TaskDeclares(Now, F.ends, x) <=> \E i \in DOMAIN todo : TaskDeclares(todo[i], "block", x)
<1>1. IsTask(Now) /\ F.ends # "namespace"
  BY NowFacts DEF InSpace
<1>2. CASE Now.s = "arm"
  <2>1. todo = Now.body /\ Now.body \in Seq(Statements)
    BY <1>1, <1>2, StatementsAssumption DEF BlockTasks, IsTask, WellFormed, Leaves, Nests
  <2>2. \A i \in DOMAIN todo : todo[i].s \in Leaves \cup Nests
    BY <2>1, StatementsAssumption DEF WellFormed
  <2>3. \A i \in DOMAIN todo : TaskDeclares(todo[i], "block", x) <=> x \in DeclaredIn[todo[i]]
    BY <2>2 DEF TaskDeclares, Leaves, Nests
  <2>4. TaskDeclares(Now, F.ends, x) <=> BodyDeclares(todo, x)
    BY <1>1, <1>2, <2>1 DEF TaskDeclares
  <2> QED BY <1>2, <2>3, <2>4 DEF BodyDeclares, OwnNames
<1>3. CASE Now.s \in {"if", "select", "do"}
  <2>1. Now \in Statements /\ OwnNames(Now) = {}
    BY <1>1, <1>3 DEF IsTask, OwnNames
  <2>2. TaskDeclares(Now, F.ends, x) <=> \E j \in DOMAIN Parts(Now) : BodyDeclares(Parts(Now)[j], x)
    <3>1. TaskDeclares(Now, F.ends, x) <=> x \in DeclaredIn[Now]
      BY <1>1, <1>3 DEF TaskDeclares
    <3> QED BY <2>1, <3>1, DeclaredOf
  <2>3. CASE Now.s \in {"if", "select"}
    <3>1. DOMAIN todo = DOMAIN Parts(Now) /\ \A i \in DOMAIN todo : todo[i].s = "arm" /\ todo[i].body = Parts(Now)[i]
      <4>1. /\ IsSeq(todo) /\ Len(todo) = Len(Parts(Now))
            /\ \A i \in DOMAIN todo : todo[i].s = "arm" /\ todo[i].body = Parts(Now)[i]
        BY <2>3 DEF BlockTasks
      <4>2. IsSeq(Parts(Now))
        BY <2>1, PartsType, SeqIsSeq
      <4> QED BY <4>1, <4>2 DEF IsSeq
    <3>2. \A i \in DOMAIN todo : TaskDeclares(todo[i], "block", x) <=> BodyDeclares(Parts(Now)[i], x)
      BY <3>1 DEF TaskDeclares
    <3> QED BY <2>1, <2>2, <2>3, <3>1, <3>2
  <2>4. CASE Now.s = "do"
    <3> DEFINE round == [s |-> "round", body |-> Now.body]
               post == [s |-> "post", e |-> Now.post]
    <3>1. Parts(Now) = <<Now.body>>
      BY <2>4 DEF Parts
    <3>2. todo = <<round, post>>
      BY <2>4 DEF BlockTasks
    <3>3. round.s = "round" /\ round.body = Now.body /\ post.s = "post"
      OBVIOUS
    <3> HIDE DEF round, post
    <3>4. TaskDeclares(round, "block", x) <=> BodyDeclares(Now.body, x)
      BY <3>3 DEF TaskDeclares
    <3>5. ~TaskDeclares(post, "block", x)
      BY <3>3 DEF TaskDeclares
    <3>6. DOMAIN todo = {1, 2} /\ todo[1] = round /\ todo[2] = post
      BY <3>2
    <3>7. DOMAIN Parts(Now) = {1} /\ Parts(Now)[1] = Now.body
      BY <3>1
    <3>8. (\E i \in DOMAIN todo : TaskDeclares(todo[i], "block", x)) <=> BodyDeclares(Now.body, x)
      BY <3>4, <3>5, <3>6
    <3> QED BY <2>1, <2>2, <2>4, <3>7, <3>8
  <2> QED BY <1>3, <2>3, <2>4
<1> QED BY <1>2, <1>3 DEF BlockTasks

\* So does the body of a loop.
LEMMA LoopDeclares ==
    ASSUME TypeInv, Busy, ~InSpace, NEW kind, LoopTask(Now, kind), NEW x
    PROVE  /\ OwnNames(Now) = {} /\ Now.s # "ns"
           /\ TaskDeclares(Now, F.ends, x) <=>
                 \E i \in DOMAIN Now.body : TaskDeclares(Now.body[i], "loop", x)
<1>1. IsTask(Now) /\ F.ends # "namespace" /\ Now.s \in {"for", "while", "round"}
  BY NowFacts DEF InSpace, LoopTask
<1>2. Now.body \in Seq(Statements)
  BY <1>1, TaskStatement DEF WellFormed
<1>3. \A i \in DOMAIN Now.body : Now.body[i].s \in Leaves \cup Nests
  BY <1>2, StatementsAssumption DEF WellFormed
<1>4. (\E i \in DOMAIN Now.body : TaskDeclares(Now.body[i], "loop", x)) <=> BodyDeclares(Now.body, x)
  BY <1>3 DEF TaskDeclares, BodyDeclares, Leaves, Nests
<1>5. CASE Now.s = "round"
  BY <1>1, <1>4, <1>5 DEF TaskDeclares, OwnNames
<1>6. CASE Now.s \in {"for", "while"}
  <2>1. Now \in Statements /\ OwnNames(Now) = {}
    BY <1>1, <1>6 DEF IsTask, OwnNames
  <2>2. TaskDeclares(Now, F.ends, x) <=> x \in DeclaredIn[Now]
    BY <1>1, <1>6 DEF TaskDeclares
  <2>3. DOMAIN Parts(Now) = {1} /\ Parts(Now)[1] = Now.body
    <3>1. Parts(Now) = <<Now.body>>
      BY <1>6 DEF Parts
    <3> QED BY <3>1
  <2> QED BY <1>4, <1>6, <2>1, <2>2, <2>3, DeclaredOf
<1> QED BY <1>1, <1>5, <1>6

\* A statement without blocks of its own adds what it declares.
LEMMA LeafDeclares ==
    ASSUME TypeInv, Busy, Plain(Now) \/ Now.s = "proc", NEW x
    PROVE  TaskDeclares(Now, F.ends, x) <=> x \in OwnNames(Now)
<1>1. IsTask(Now)
  BY NowFacts
<1>2. CASE F.ends = "namespace" /\ Now.s \notin InNamespace
  BY <1>2 DEF TaskDeclares, OwnNames, InNamespace
<1>3. CASE Now.s = "post"
  BY <1>3 DEF TaskDeclares, OwnNames
<1>4. CASE ~(F.ends = "namespace" /\ Now.s \notin InNamespace) /\ Now.s # "post"
  <2>1. Now.s \in Leaves \cup {"proc", "ns"}
    BY <1>4 DEF Plain, InSpace
  <2>2. Now \in Statements /\ Now.s \notin {"if", "select", "for", "do", "while"}
    BY <1>1, <2>1 DEF IsTask, Leaves
  <2>3. TaskDeclares(Now, F.ends, x) <=> x \in DeclaredIn[Now]
    BY <1>4, <2>1 DEF TaskDeclares, Leaves
  <2> QED BY <2>2, <2>3, DeclaredOfLeaf
<1> QED BY <1>2, <1>3, <1>4

LEMMA AppendTwo == ASSUME NEW a, NEW b PROVE Append(<<a>>, b) = <<a, b>>
<1> DEFINE q == Append(<<a>>, b)
<1>1. <<a>> \in Seq({a, b}) /\ Len(<<a>>) = 1 /\ <<a>>[1] = a
  OBVIOUS
<1>2. q \in Seq({a, b}) /\ Len(q) = 2 /\ q[1] = a /\ q[2] = b
  <2>1. \A s \in Seq({a, b}) : /\ Append(s, b) \in Seq({a, b}) /\ Len(Append(s, b)) = Len(s) + 1
                               /\ Append(s, b)[Len(s) + 1] = b
                               /\ \A i \in 1..Len(s) : Append(s, b)[i] = s[i]
    OBVIOUS
  <2>2. 1 \in 1..1
    OBVIOUS
  <2> QED BY <1>1, <2>1, <2>2
<1>3. <<a, b>> \in Seq({a, b}) /\ Len(<<a, b>>) = 2 /\ <<a, b>>[1] = a /\ <<a, b>>[2] = b
  OBVIOUS
<1> HIDE DEF q
<1>4. \A i \in 1..2 : i = 1 \/ i = 2
  OBVIOUS
<1>5. \A i \in 1..2 : q[i] = <<a, b>>[i]
  BY <1>2, <1>3, <1>4
<1>6. q = <<a, b>>
  BY <1>2, <1>3, <1>5, SeqEqual
<1> QED BY <1>6 DEF q

\* What the statement at hand declares outside procedures is what it adds to
\* the table and what is to be declared in the block it enters.
LEMMA NowDeclares ==
    ASSUME TypeInv, Takes, ~scope.inProc, NEW k
    PROVE  Declares(Now, scope.prefix, F.ends, k) <=>
             \/ \E x \in OwnNames(Now) : k = qualifiedKey(scope, x)
             \/ Len(work') # Len(work) /\ ToDeclare(work', scope', Len(work) + 1, k)
<1> DEFINE n == Len(work)
<1>1. /\ Busy /\ n \in Nat /\ IsFrame(F) /\ IsTask(Now) /\ Linked(F, scope) /\ S = scope
  BY NowFacts DEF Takes, Effects, S
<1>2. ASSUME NEW f, f.saved = scope, work' = <<f>> \o Rest
      PROVE  /\ Len(work') # n
             /\ ToDeclare(work', scope', n + 1, k) <=>
                   ~scope'.inProc /\ \E i \in DOMAIN f.todo : Declares(f.todo[i], scope'.prefix, f.ends, k)
  <2>1. Len(work') = n + 1 /\ Level(work', n + 1) = f /\ View(scope', work', n + 1) = scope'
    BY <1>1, <1>2, PushLevels
  <2>2. Len(work') # n
    BY <1>1, <2>1
  <2> HIDE DEF n
  <2> QED BY <2>1, <2>2 DEF ToDeclare
<1>3. F.ends = "module" => F.top
  <2>1. F.top = (F.ends \in {"module", "namespace"})
    BY <1>1 DEF IsFrame
  <2> QED BY <2>1
<1> HIDE DEF n
<1>4. CASE LeafShape
  <2>1. Len(work') = n
    BY <1>4, TakesViews DEF LeafShape, n
  <2>2. \A x : TaskDeclares(Now, F.ends, x) <=> x \in OwnNames(Now)
    BY <1>1, <1>4, LeafDeclares DEF LeafShape
  <2>3. ~(F.ends = "module" /\ Now.s = "ns")
    BY <1>3, <1>4 DEF LeafShape, Plain, InSpace, Leaves
  <2> QED BY <2>1, <2>2, <2>3 DEF Declares, qualifiedKey, n
<1>5. ASSUME NEW todo, BlockShape(todo)
      PROVE  Declares(Now, scope.prefix, F.ends, k) <=>
               \/ \E x \in OwnNames(Now) : k = qualifiedKey(scope, x)
               \/ Len(work') # n /\ ToDeclare(work', scope', n + 1, k)
  <2>1. work' = <<Frame(todo, FALSE, "block")>> \o Rest /\ ~InSpace /\ BlockTasks(Now, todo) /\ scope' = scope
    BY <1>5 DEF BlockShape, S
  <2>2. /\ Len(work') # n
        /\ ToDeclare(work', scope', n + 1, k) <=>
              \E i \in DOMAIN todo : Declares(todo[i], scope.prefix, "block", k)
    <3> DEFINE f == Frame(todo, FALSE, "block")
    <3>1. f.saved = scope /\ f.todo = todo /\ f.ends = "block" /\ work' = <<f>> \o Rest
      BY <2>1 DEF Frame
    <3> HIDE DEF f
    <3> QED BY <1>2, <2>1, <3>1
  <2>3. OwnNames(Now) = {} /\ Now.s # "ns"
    BY <1>1, <2>1, BlockDeclares
  <2>4. \A x : TaskDeclares(Now, F.ends, x) <=> \E i \in DOMAIN todo : TaskDeclares(todo[i], "block", x)
    BY <1>1, <2>1, BlockDeclares
  <2> QED BY <2>2, <2>3, <2>4 DEF Declares
<1>6. ASSUME NEW kind, LoopShape(kind)
      PROVE  Declares(Now, scope.prefix, F.ends, k) <=>
               \/ \E x \in OwnNames(Now) : k = qualifiedKey(scope, x)
               \/ Len(work') # n /\ ToDeclare(work', scope', n + 1, k)
  <2>1. work' = <<Frame(Now.body, FALSE, "loop")>> \o Rest /\ ~InSpace /\ LoopTask(Now, kind)
    BY <1>6 DEF LoopShape
  <2>a. scope'.prefix = scope.prefix /\ scope'.inProc = scope.inProc
    <3>1. scope' = [scope EXCEPT !.loops = Append(@, kind)] /\ IsScope(scope)
      BY <1>1, <1>6, NowFacts DEF LoopShape, S
    <3> QED BY <3>1, OtherLoops DEF Statics
  <2>2. /\ Len(work') # n
        /\ ToDeclare(work', scope', n + 1, k) <=>
              \E i \in DOMAIN Now.body : Declares(Now.body[i], scope.prefix, "loop", k)
    <3> DEFINE f == Frame(Now.body, FALSE, "loop")
    <3>1. f.saved = scope /\ f.todo = Now.body /\ f.ends = "loop" /\ work' = <<f>> \o Rest
      BY <2>1 DEF Frame
    <3> HIDE DEF f
    <3> QED BY <1>2, <2>a, <3>1
  <2>3. OwnNames(Now) = {} /\ Now.s # "ns"
    BY <1>1, <2>1, LoopDeclares
  <2>4. \A x : TaskDeclares(Now, F.ends, x) <=>
                 \E i \in DOMAIN Now.body : TaskDeclares(Now.body[i], "loop", x)
    BY <1>1, <2>1, LoopDeclares
  <2> QED BY <2>2, <2>3, <2>4 DEF Declares
<1>7. CASE BodyShape
  <2>1. work' = <<Frame(Now.body, FALSE, "body")>> \o Rest /\ Now.s = "proc"
        /\ scope' = Body(Now.params, BodyRet(Now), Now.owner, Now.fn)
    BY <1>7 DEF BodyShape
  <2>2. scope'.inProc
    BY <1>1, <2>1, NowFacts, BodyScope
  <2>3. ~ToDeclare(work', scope', n + 1, k)
    <3> DEFINE f == Frame(Now.body, FALSE, "body")
    <3>1. f.saved = scope /\ work' = <<f>> \o Rest
      BY <2>1 DEF Frame
    <3> HIDE DEF f
    <3> QED BY <1>2, <2>2, <3>1
  <2>4. \A x : TaskDeclares(Now, F.ends, x) <=> x \in OwnNames(Now)
    BY <1>1, <2>1, LeafDeclares
  <2> QED BY <2>1, <2>3, <2>4 DEF Declares, qualifiedKey, n
<1>8. CASE SpaceShape
  <2>1. work' = <<Frame(Now.body, TRUE, "namespace")>> \o Rest /\ Now.s = "ns" /\ F.top /\ ~InSpace
        /\ scope' = [scope EXCEPT !.prefix = Append(@, Now.x)]
    BY <1>8 DEF SpaceShape, S
  <2>2. F.ends = "module" /\ scope.prefix = <<>>
    <3>1. F.top = (F.ends \in {"module", "namespace"})
      BY <1>1 DEF IsFrame
    <3> QED BY <1>1, <2>1, <3>1 DEF Linked, InSpace
  <2>3. scope'.prefix = <<Now.x>> /\ ~scope'.inProc
    <3>1. scope = [symbols |-> scope.symbols, locals |-> scope.locals, prefix |-> scope.prefix,
                   class |-> scope.class, inProc |-> scope.inProc, ret |-> scope.ret,
                   loops |-> scope.loops, gosub |-> scope.gosub]
      BY <1>1, NowFacts DEF IsScope
    <3>2. scope'.prefix = Append(scope.prefix, Now.x) /\ scope'.inProc = scope.inProc
      BY <2>1, <3>1
    <3>3. \A x : Append(<<>>, x) = <<x>>
      OBVIOUS
    <3> QED BY <2>2, <3>2, <3>3
  <2>4. /\ Len(work') # n
        /\ ToDeclare(work', scope', n + 1, k) <=>
              \E i \in DOMAIN Now.body : Declares(Now.body[i], <<Now.x>>, "namespace", k)
    <3> DEFINE f == Frame(Now.body, TRUE, "namespace")
    <3>1. f.saved = scope /\ f.todo = Now.body /\ f.ends = "namespace" /\ work' = <<f>> \o Rest
      BY <2>1 DEF Frame
    <3> HIDE DEF f
    <3> QED BY <1>2, <2>3, <3>1
  <2>5. Now \in Statements /\ Now.body \in Seq(Statements)
    BY <1>1, <2>1, TaskStatement DEF WellFormed
  <2>6. \A x : ~TaskDeclares(Now, F.ends, x)
    <3>1. \A x : x \in DeclaredIn[Now] <=> x \in OwnNames(Now)
      BY <2>1, <2>5, DeclaredOfLeaf
    <3> QED BY <2>1, <3>1 DEF TaskDeclares, OwnNames
  <2>7. Declares(Now, scope.prefix, F.ends, k) <=> SpaceDeclares(Now, k)
    BY <2>1, <2>2, <2>6 DEF Declares
  <2>8. \A i \in DOMAIN Now.body : Declares(Now.body[i], <<Now.x>>, "namespace", k) <=>
          Now.body[i].s \in InNamespace /\ \E x \in DeclaredIn[Now.body[i]] : k = <<Now.x, x>>
    <3>1. \A a, x : Append(<<a>>, x) = <<a, x>>
      BY AppendTwo
    <3>2. \A i \in DOMAIN Now.body : \A x : TaskDeclares(Now.body[i], "namespace", x) <=>
            Now.body[i].s \in InNamespace /\ x \in DeclaredIn[Now.body[i]]
      BY DEF TaskDeclares, InNamespace
    <3> QED BY <3>1, <3>2 DEF Declares
  <2>9. OwnNames(Now) = {}
    BY <2>1 DEF OwnNames
  <2> QED BY <2>4, <2>7, <2>8, <2>9 DEF SpaceDeclares, n
<1> QED BY <1>4, <1>5, <1>6, <1>7, <1>8 DEF Takes, Shape, n

-----------------------------------------------------------------------------
(* Every step keeps what is declared and what is to be.                      *)

\* The tasks of a block are the one at hand and those after it.
LEMMA TasksOfTail ==
    ASSUME TypeInv, Busy
    PROVE  /\ 1 \in DOMAIN F.todo /\ F.todo[1] = Now
           /\ Taken1(F).todo = Tail(F.todo) /\ Taken1(F).ends = F.ends
           /\ \A i \in DOMAIN F.todo : i = 1 \/ \E j \in DOMAIN Tail(F.todo) : F.todo[i] = Tail(F.todo)[j]
           /\ \A j \in DOMAIN Tail(F.todo) : \E i \in DOMAIN F.todo : F.todo[i] = Tail(F.todo)[j]
<1>1. IsFrame(F) /\ IsSeq(F.todo) /\ F.todo # <<>> /\ Now = F.todo[1]
  BY NowFacts
<1>2. Taken1(F).todo = Tail(F.todo) /\ Taken1(F).ends = F.ends
  BY <1>1, FrameFields
<1> DEFINE q == F.todo
           r == Tail(F.todo)
<1>3. /\ DOMAIN r = 1..(Len(q) - 1) /\ DOMAIN q = 1..Len(q)
      /\ Len(q) \in Nat /\ Len(q) > 0
      /\ \A i \in 1..(Len(q) - 1) : r[i] = q[i + 1]
  <2>1. /\ Len(r) = Len(q) - 1 /\ Len(q) \in Nat /\ Len(q) > 0 /\ IsSeq(r)
        /\ \A i \in 1..(Len(q) - 1) : r[i] = q[i + 1]
    BY <1>1, TailProps
  <2> QED BY <1>1, <2>1, SeqDomain
<1> HIDE DEF q, r
<1>4. \A i \in DOMAIN q : i = 1 \/ \E j \in DOMAIN r : q[i] = r[j]
  <2>1. ASSUME NEW i \in DOMAIN q, i # 1 PROVE \E j \in DOMAIN r : q[i] = r[j]
    <3>1. i - 1 \in 1..(Len(q) - 1) /\ (i - 1) + 1 = i
      BY <1>3, <2>1
    <3>2. r[i - 1] = q[(i - 1) + 1]
      BY <1>3, <3>1
    <3> QED BY <1>3, <3>1, <3>2
  <2> QED BY <2>1
<1>5. \A j \in DOMAIN r : \E i \in DOMAIN q : q[i] = r[j]
  <2>1. \A j \in 1..(Len(q) - 1) : j + 1 \in 1..Len(q)
    BY <1>3
  <2> QED BY <1>3, <2>1
<1>6. 1 \in DOMAIN q
  BY <1>3
<1> QED BY <1>1, <1>2, <1>4, <1>5, <1>6 DEF q, r

\* In a procedure, every block that is entered is in it.
LEMMA TakesInProc == ASSUME TypeInv, Takes, scope.inProc PROVE scope'.inProc
<1>1. Busy /\ IsFrame(F) /\ Linked(F, scope) /\ IsScope(S) /\ S = scope
  BY NowFacts DEF Takes, Effects, S
<1>2. ~F.top
  BY <1>1 DEF Linked
<1>3. CASE LeafShape
  BY <1>1, <1>3 DEF LeafShape, Statics
<1>4. ASSUME NEW todo, BlockShape(todo) PROVE scope'.inProc
  BY <1>1, <1>4 DEF BlockShape
<1>5. ASSUME NEW kind, LoopShape(kind) PROVE scope'.inProc
  BY <1>1, <1>5 DEF LoopShape, IsScope
<1>6. CASE BodyShape
  BY <1>1, <1>6, BodyScope DEF BodyShape
<1>7. CASE SpaceShape
  BY <1>2, <1>7 DEF SpaceShape
<1> QED BY <1>3, <1>4, <1>5, <1>6, <1>7 DEF Takes, Shape

LEMMA GlobTakes == ASSUME TypeInv, GlobInv, Takes PROVE GlobInv'
<1> DEFINE n == Len(work)
           Old(d, k) == ToDeclare(work, scope, d, k)
           New(d, k) == ToDeclare(work', scope', d, k)
           Adds(k) == \E x \in OwnNames(Now) : k = qualifiedKey(scope, x)
<1>1. /\ Busy /\ stage = "check" /\ stage' = "check" /\ module' = module /\ T' = T
      /\ n \in Nat /\ n > 0 /\ Level(work, n) = F /\ View(scope, work, n) = scope
  BY NowFacts DEF Takes, Effects, T
<1>2. \A k : (Good(k)' <=> Good(k)) /\ (Global(k)' <=> Global(k))
  BY <1>1 DEF Good, Global
<1>3. ASSUME NEW d \in 1..(n - 1), NEW k PROVE New(d, k) <=> Old(d, k)
  <2>1. Level(work', d) = Level(work, d) /\ View(scope', work', d) = View(scope, work, d)
    BY TakesViews
  <2> QED BY <2>1 DEF ToDeclare
<1>4. ASSUME NEW k PROVE Old(n, k) <=> New(n, k) \/ (~scope.inProc /\ Declares(Now, scope.prefix, F.ends, k))
  <2> DEFINE v == View(scope', work', n)
  <2>1. Level(work', n) = Taken1(F) /\ n \in 1..n
    BY <1>1, TakesViews
  <2>2. v.inProc = scope.inProc /\ v.prefix = scope.prefix
    <3>1. Statics(v) = Statics(scope)
      BY <1>1, <2>1, TakesViews
    <3> HIDE DEF v
    <3> QED BY <3>1 DEF Statics
  <2> HIDE DEF v, n
  <2>3. New(n, k) <=> ~scope.inProc /\ \E i \in DOMAIN Tail(F.todo) :
                                           Declares(Tail(F.todo)[i], scope.prefix, F.ends, k)
    BY <1>1, <2>1, <2>2, TasksOfTail DEF ToDeclare, v
  <2>4. Old(n, k) <=> ~scope.inProc /\ \E i \in DOMAIN F.todo : Declares(F.todo[i], scope.prefix, F.ends, k)
    BY <1>1 DEF ToDeclare
  <2> HIDE DEF Old, New
  <2>5. (\E i \in DOMAIN F.todo : Declares(F.todo[i], scope.prefix, F.ends, k))
        <=> \/ \E i \in DOMAIN Tail(F.todo) : Declares(Tail(F.todo)[i], scope.prefix, F.ends, k)
            \/ Declares(Now, scope.prefix, F.ends, k)
    BY <1>1, TasksOfTail
  <2> QED BY <2>3, <2>4, <2>5
<1>5. Len(work') = n \/ Len(work') = n + 1
  BY TakesLevels
<1> HIDE DEF n, Old, New
<1>6. ASSUME NEW k
      PROVE  (\E d \in 1..n : Old(d, k)) <=>
               \/ \E d \in 1..(n - 1) : New(d, k)
               \/ New(n, k)
               \/ ~scope.inProc /\ Declares(Now, scope.prefix, F.ends, k)
  <2>1. (\A d \in 1..n : d = n \/ d \in 1..(n - 1)) /\ n \in 1..n /\ \A d \in 1..(n - 1) : d \in 1..n
    BY <1>1
  <2> QED BY <1>3, <1>4, <2>1
<1>7. ASSUME NEW k
      PROVE  (\E d \in 1..Len(work') : New(d, k)) <=>
               \/ \E d \in 1..(n - 1) : New(d, k)
               \/ New(n, k)
               \/ Len(work') # n /\ New(n + 1, k)
  <2>1. (\A d \in 1..n : d = n \/ d \in 1..(n - 1)) /\ n \in 1..n /\ \A d \in 1..(n - 1) : d \in 1..n
    BY <1>1
  <2>2. (\A d \in 1..(n + 1) : d = n + 1 \/ d = n \/ d \in 1..(n - 1)) /\ n + 1 \in 1..(n + 1)
        /\ n \in 1..(n + 1) /\ (\A d \in 1..(n - 1) : d \in 1..(n + 1)) /\ n + 1 # n
    BY <1>1
  <2>3. CASE Len(work') = n
    BY <2>1, <2>3
  <2>4. CASE Len(work') = n + 1
    BY <2>2, <2>4
  <2> QED BY <1>5, <2>3, <2>4
<1>8. CASE scope.inProc
  <2>1. scope'.symbols = scope.symbols
    BY <1>8 DEF Takes, Effects, S
  <2>2. \A k : ~(Len(work') # n /\ New(n + 1, k))
    <3>1. scope'.inProc
      BY <1>8, TakesInProc
    <3>2. Len(work') # n => View(scope', work', n + 1) = scope'
      BY <1>5 DEF View
    <3> QED BY <3>1, <3>2 DEF New, ToDeclare
  <2>3. \A k : Good(k) => (Global(k) <=> k \in DOMAIN scope.symbols \/ \E d \in 1..n : Old(d, k))
    BY <1>1 DEF GlobInv, Collecting, n, Old
  <2>4. \A k : Good(k)' => (Global(k)' <=> k \in DOMAIN scope'.symbols \/ \E d \in 1..Len(work') : New(d, k))
    BY <1>2, <1>6, <1>7, <1>8, <2>1, <2>2, <2>3
  <2>5. \A k \in DOMAIN scope'.symbols : Good(k)'
    BY <1>1, <1>2, <2>1 DEF GlobInv, Collecting
  <2> QED BY <2>4, <2>5 DEF GlobInv, New
<1>9. CASE ~scope.inProc
  <2>1. DOMAIN scope'.symbols = DOMAIN scope.symbols \cup {k \in {qualifiedKey(scope, x) : x \in OwnNames(Now)} : Good(k)}
    BY <1>9 DEF Takes, Effects, S
  <2>2. \A k : Declares(Now, scope.prefix, F.ends, k) <=> Adds(k) \/ (Len(work') # n /\ New(n + 1, k))
    BY <1>9, NowDeclares DEF n, New
  <2>3. \A k : Good(k) => (Global(k) <=> k \in DOMAIN scope.symbols \/ \E d \in 1..n : Old(d, k))
    BY <1>1 DEF GlobInv, Collecting, n, Old
  <2>4. \A k : Good(k) => (k \in DOMAIN scope'.symbols <=> k \in DOMAIN scope.symbols \/ Adds(k))
    BY <2>1
  <2> HIDE DEF Adds
  <2>5. \A k : Good(k)' => (Global(k)' <=> k \in DOMAIN scope'.symbols \/ \E d \in 1..Len(work') : New(d, k))
    BY <1>2, <1>6, <1>7, <1>9, <2>2, <2>3, <2>4
  <2>6. \A k \in DOMAIN scope'.symbols : Good(k)'
    BY <1>1, <1>2, <2>1 DEF GlobInv, Collecting
  <2> QED BY <2>5, <2>6 DEF GlobInv, New
<1> QED BY <1>8, <1>9

LEMMA GlobEnds == ASSUME TypeInv, GlobInv, Ends PROVE GlobInv'
<1> DEFINE n == Len(work)
           Old(d, k) == ToDeclare(work, scope, d, k)
           New(d, k) == ToDeclare(work', scope', d, k)
<1>1. /\ stage = "check" /\ module' = module /\ T' = T /\ F.todo = <<>> /\ stage' \notin Collecting
  BY DEF Ends, T, Collecting
<1>2. /\ Len(work') = n - 1 /\ n \in Nat /\ n > 0
      /\ Level(work, n) = F /\ View(scope, work, n) = scope
      /\ n > 1 => View(scope', work', n - 1) = scope' /\ View(scope, work, n - 1) = F.saved
      /\ \A d \in 1..(n - 1) : Level(work', d) = Level(work, d)
      /\ \A d \in 1..(n - 2) : View(scope', work', d) = View(scope, work, d)
  BY EndLevels
<1>3. scope'.symbols = scope.symbols /\ (F.ends # "module" => Statics(scope') = Statics(F.saved))
  BY EndScope
<1>4. (F.ends = "module") = (n = 1)
  <2>1. n \in 1..n /\ StackInv
    BY <1>1, <1>2 DEF TypeInv
  <2> QED BY <1>2, <2>1 DEF StackInv
<1>5. \A k : (Good(k)' <=> Good(k)) /\ (Global(k)' <=> Global(k))
  BY <1>1 DEF Good, Global
<1>6. \A k : ~Old(n, k)
  BY <1>1, <1>2 DEF ToDeclare
<1> HIDE DEF n
<1>7. ASSUME NEW d \in 1..(n - 1), NEW k PROVE New(d, k) <=> Old(d, k)
  <2> DEFINE v == View(scope, work, d)
             v2 == View(scope', work', d)
  <2>1. v2.inProc = v.inProc /\ v2.prefix = v.prefix
    <3>1. CASE d = n - 1
      <4>1. n > 1 /\ F.ends # "module"
        BY <1>2, <1>4, <3>1
      <4>2. v2 = scope' /\ v = F.saved
        BY <1>2, <3>1, <4>1
      <4> HIDE DEF v, v2
      <4> QED BY <1>3, <4>1, <4>2 DEF Statics
    <3>2. CASE d # n - 1
      <4>1. d \in 1..(n - 2)
        BY <1>2, <3>2
      <4> QED BY <1>2, <4>1
    <3> QED BY <3>1, <3>2
  <2>2. Level(work', d) = Level(work, d)
    BY <1>2
  <2> HIDE DEF v, v2
  <2> QED BY <2>1, <2>2 DEF ToDeclare, v, v2
<1> HIDE DEF Old, New
<1>8. \A k : (\E d \in 1..Len(work') : New(d, k)) <=> \E d \in 1..n : Old(d, k)
  <2>1. (\A d \in 1..n : d = n \/ d \in 1..(n - 1)) /\ \A d \in 1..(n - 1) : d \in 1..n
    BY <1>2
  <2> QED BY <1>2, <1>6, <1>7, <2>1
<1>9. /\ \A k \in DOMAIN scope.symbols : Good(k)
      /\ \A k : Good(k) => (Global(k) <=> k \in DOMAIN scope.symbols \/ \E d \in 1..n : Old(d, k))
  BY <1>1 DEF GlobInv, Collecting, n, Old
<1>10. /\ \A k \in DOMAIN scope'.symbols : Good(k)'
       /\ \A k : Good(k)' => (Global(k)' <=> k \in DOMAIN scope'.symbols \/ \E d \in 1..Len(work') : New(d, k))
  BY <1>3, <1>5, <1>8, <1>9
<1> QED BY <1>10 DEF GlobInv, New

\* An instance is entered as a procedure; its key is none that is declared.
LEMMA GlobInstance ==
    ASSUME TypeInv, GlobInv, NEW key, NEW st, stage = "check", Requests(key, st)
    PROVE  GlobInv'
<1> DEFINE n == Len(work)
           Old(d, k) == ToDeclare(work, scope, d, k)
           New(d, k) == ToDeclare(work', scope', d, k)
<1>1. /\ stage' = "check" /\ module' = module /\ IsInstanceKey(key)
      /\ T'.structs = T.structs /\ DOMAIN T'.procs = DOMAIN T.procs \cup {key}
  <2>1. /\ tables' = [tables EXCEPT !.procs = Bind(@, key, [Signature(st) EXCEPT !.extern = FALSE])]
        /\ stage' = "check" /\ module' = module /\ IsInstanceKey(key)
    BY DEF Requests
  <2>2. tables = [labels |-> T.labels, gosubs |-> T.gosubs, procs |-> T.procs,
                  generics |-> T.generics, structs |-> T.structs, ops |-> T.ops,
                  namespaces |-> T.namespaces]
    BY DEF TypeInv
  <2> DEFINE procs == Bind(T.procs, key, [Signature(st) EXCEPT !.extern = FALSE])
  <2>3. DOMAIN procs = DOMAIN T.procs \cup {key}
    BY DEF Bind
  <2>4. tables' = [tables EXCEPT !.procs = procs]
    BY <2>1 DEF T
  <2> HIDE DEF procs
  <2>5. T'.structs = T.structs /\ T'.procs = procs
    BY <2>2, <2>4 DEF T
  <2> QED BY <2>1, <2>3, <2>5
<1>2. /\ Len(work') = n + 1 /\ n \in Nat /\ n > 0
      /\ View(scope', work', n + 1) = scope'
      /\ \A d \in 1..n : /\ Level(work', d) = Level(work, d)
                         /\ View(scope', work', d) = View(scope, work, d)
  BY InstLevels
<1>3. scope'.inProc /\ scope'.symbols = scope.symbols
  <2>1. IsScope(S) /\ S = scope /\ scope' = Body(st.params, IF st.fn THEN st.t ELSE Unknown, None, st.fn)
    BY NowFacts DEF Requests, S
  <2> QED BY <2>1, BodyScope
<1>4. \A k : (Global(k)' <=> Global(k)) /\ (Global(k) => ~IsInstanceKey(k))
  BY <1>1, DeclaredShort DEF Global
<1>5. \A k : Good(k)' <=> Good(k) /\ k # key
  BY <1>1 DEF Good
<1> HIDE DEF n
<1>6. \A d \in 1..n : \A k : New(d, k) <=> Old(d, k)
  BY <1>2 DEF ToDeclare
<1>7. \A k : ~New(n + 1, k)
  BY <1>2, <1>3 DEF ToDeclare
<1> HIDE DEF Old, New
<1>8. \A k : (\E d \in 1..Len(work') : New(d, k)) <=> \E d \in 1..n : Old(d, k)
  <2>1. (\A d \in 1..(n + 1) : d = n + 1 \/ d \in 1..n) /\ \A d \in 1..n : d \in 1..(n + 1)
    BY <1>2
  <2> QED BY <1>2, <1>6, <1>7, <2>1
<1>9. /\ \A k \in DOMAIN scope.symbols : Good(k)
      /\ \A k : Good(k) => (Global(k) <=> k \in DOMAIN scope.symbols \/ \E d \in 1..n : Old(d, k))
  BY DEF GlobInv, Collecting, n, Old
<1>10. /\ \A k \in DOMAIN scope'.symbols : Good(k)'
       /\ \A k : Good(k)' => (Global(k)' <=> k \in DOMAIN scope'.symbols \/ \E d \in 1..Len(work') : New(d, k))
  <2>1. key \notin DOMAIN scope.symbols
    BY <1>1, <1>4, <1>9
  <2> QED BY <1>3, <1>4, <1>5, <1>8, <1>9, <2>1
<1> QED BY <1>10 DEF GlobInv, New

LEMMA GlobCollect ==
    ASSUME TypeInv, Step(CollectNames) \/ Step(CollectTypes)
    PROVE  GlobInv'
<1>1. CASE Step(CollectNames)
  BY <1>1 DEF Step, CollectNames, GlobInv, Collecting
<1>2. CASE Step(CollectTypes)
  <2> DEFINE f == Frame(module, TRUE, "module")
  <2>1. /\ stage = "collect types" /\ stage' = "check" /\ module' = module /\ work' = <<f>>
        /\ scope' = scope /\ f.todo = module /\ f.ends = "module"
    BY <1>2 DEF Step, CollectTypes, Frame
  <2>2. scope = EmptyScope /\ module \in Seq(Statements)
    BY <2>1, ModuleFacts DEF TypeInv, Collecting
  <2> HIDE DEF f
  <2>3. Len(work') = 1 /\ Level(work', 1) = f /\ View(scope', work', 1) = scope'
    <3>1. Len(<<f>>) = 1 /\ <<f>>[1] = f
      OBVIOUS
    <3>2. \A w : Len(w) = 1 => Level(w, 1) = w[1] /\ \A s : View(s, w, 1) = s
      BY DEF Level, View
    <3>3. Len(work') = 1 /\ work'[1] = f
      BY <2>1, <3>1
    <3> QED BY <3>2, <3>3
  <2>4. DOMAIN scope'.symbols = {} /\ scope'.prefix = <<>> /\ ~scope'.inProc
    <3>1. EmptyScope.symbols = <<>> /\ EmptyScope.prefix = <<>> /\ EmptyScope.inProc = FALSE
      BY DEF EmptyScope
    <3>2. scope' = EmptyScope
      BY <2>1, <2>2
    <3> QED BY <3>1, <3>2
  <2>5. \A k : Global(k)' <=> ToDeclare(work', scope', 1, k)
    <3>1. \A k : \A i \in DOMAIN module : k \in DeclaredBy(module[i]) <=> Declares(module[i], <<>>, "module", k)
      <4>1. \A i \in DOMAIN module : module[i] \in Statements
        BY <2>2
      <4> QED BY <4>1, DeclaredByIs
    <3>2. \A k : ToDeclare(work', scope', 1, k) <=> \E i \in DOMAIN module : Declares(module[i], <<>>, "module", k)
      BY <2>1, <2>3, <2>4 DEF ToDeclare
    <3>3. \A k : Global(k)' <=> \E i \in DOMAIN module : k \in DeclaredBy(module[i])
      BY <2>1 DEF Global
    <3> QED BY <3>1, <3>2, <3>3
  <2>6. \A k : (\E d \in 1..Len(work') : ToDeclare(work', scope', d, k)) <=> ToDeclare(work', scope', 1, k)
    <3>1. \A d \in 1..1 : d = 1
      OBVIOUS
    <3>2. 1 \in 1..1
      OBVIOUS
    <3> QED BY <2>3, <3>1, <3>2
  <2> QED BY <2>4, <2>5, <2>6 DEF GlobInv
<1> QED BY <1>1, <1>2

LEMMA GlobNext == ASSUME TypeInv, GlobInv, [Next]_vars PROVE GlobInv'
<1>1. ASSUME UNCHANGED <<module, tables, scope, work>>, stage \in Collecting => stage' \in Collecting
      PROVE  GlobInv'
  <2>1. \A k : (Good(k)' <=> Good(k)) /\ (Global(k)' <=> Global(k))
    BY <1>1 DEF Good, Global, T
  <2>2. work' = work /\ scope' = scope
    BY <1>1
  <2>3. stage' \in Collecting \/ (/\ \A k \in DOMAIN scope'.symbols : Good(k)'
                                  /\ \A k : Good(k)' => (Global(k)' <=>
                                       k \in DOMAIN scope'.symbols
                                       \/ \E d \in 1..Len(work') : ToDeclare(work', scope', d, k)))
    BY <1>1, <2>1, <2>2 DEF GlobInv
  <2> QED BY <2>3 DEF GlobInv, Collecting
<1>2. CASE stage = "check" /\ Takes
  BY <1>2, GlobTakes
<1>3. CASE stage = "check" /\ Ends
  BY <1>3, GlobEnds
<1>4. ASSUME stage = "check", NEW key, NEW st, Requests(key, st) PROVE GlobInv'
  BY <1>4, GlobInstance
<1>5. CASE Step(CollectNames) \/ Step(CollectTypes)
  BY <1>5, GlobCollect
<1>6. CASE (stage = "check" /\ Same) \/ UNCHANGED vars \/ Terminated
  BY <1>1, <1>6 DEF Same, vars, Terminated
<1>7. CASE CodegenNext
  <2>1. stage = "generate" /\ UNCHANGED <<module, tables, scope, work>>
    BY <1>7, CodegenSteps
  <2> QED BY <1>1, <2>1 DEF Collecting
<1> QED BY <1>2, <1>3, <1>4, <1>5, <1>6, <1>7, WalkSteps, StageSteps

\* The global table holds, when Sema is done, exactly what is declared outside
\* procedures and named as no procedure and no TYPE: whatever instances were
\* asked for on the way, nothing of a procedure's (sema.cpp:1047-1069).
THEOREM GlobalsCorrect == Spec => []GlobalsAreGlobal
<1> DEFINE IInv == TypeInv /\ GlobInv
<1>1. Init => IInv
  <2> SUFFICES ASSUME Init PROVE IInv
    OBVIOUS
  <2>1. TypeInv /\ stage = "collect"
    BY TypeInit DEF Init, SemaInit
  <2> QED BY <2>1 DEF GlobInv, Collecting
<1>2. IInv /\ [Next]_vars => IInv'
  BY TypeNext, GlobNext
<1>3. IInv => GlobalsAreGlobal
  <2> SUFFICES ASSUME IInv, Ended PROVE GlobalsAreGlobal
    BY DEF GlobalsAreGlobal
  <2>1. stage \notin Collecting \cup {"check"}
    BY DEF Ended, Collecting
  <2>2. work = <<>>
    BY <2>1 DEF TypeInv
  <2>3. \A k : ~(\E d \in 1..Len(work) : ToDeclare(work, scope, d, k))
    <3>1. 1..0 = {} /\ Len(<<>>) = 0
      OBVIOUS
    <3> QED BY <2>2, <3>1
  <2>4. /\ \A k \in DOMAIN scope.symbols : Good(k)
        /\ \A k : Good(k) => (Global(k) <=> k \in DOMAIN scope.symbols)
    BY <2>1, <2>3 DEF GlobInv
  <2>5. \A k : k \in UNION {DeclaredBy(module[i]) : i \in DOMAIN module} <=> Global(k)
    BY DEF Global
  <2>6. DOMAIN scope.symbols = {k \in UNION {DeclaredBy(module[i]) : i \in DOMAIN module} : Good(k)}
    BY <2>4, <2>5
  <2> QED BY <2>6 DEF GlobalsAreGlobal, Good
<1> QED BY <1>1, <1>2, <1>3, PTL DEF Spec

-----------------------------------------------------------------------------
(* What the code generator makes of a statement.                             *)

\* A set of statements that holds those whose parts it holds, holds all.
LEMMA FromParts ==
    ASSUME NEW G,
           \A st \in Statements :
              (\A j \in DOMAIN Parts(st) : \A i \in DOMAIN Parts(st)[j] : Parts(st)[j][i] \in G) => st \in G
    PROVE  Statements \subseteq G
<1> DEFINE bad == {Height[st] : st \in {x \in Statements : x \notin G}}
<1>1. SUFFICES ASSUME bad # {} PROVE FALSE
  OBVIOUS
<1>2. bad \subseteq Nat
  BY HeightAssumption
<1>3. \E n \in bad : \A m \in bad : n <= m
  BY <1>1, <1>2, LeastNumber
<1>4. PICK st \in Statements : st \notin G /\ \A m \in bad : Height[st] <= m
  BY <1>3
<1>5. PICK j \in DOMAIN Parts(st) : \E i \in DOMAIN Parts(st)[j] : Parts(st)[j][i] \notin G
  BY <1>4
<1>6. PICK i \in DOMAIN Parts(st)[j] : Parts(st)[j][i] \notin G
  BY <1>5
<1> DEFINE p == Parts(st)[j][i]
<1>7. p \in Statements
  BY PartsType
<1>8. Height[p] < Height[st] /\ Height[p] \in Nat /\ Height[st] \in Nat
  BY <1>7, HeightAssumption
<1>9. Height[st] <= Height[p]
  BY <1>4, <1>6, <1>7
<1> HIDE DEF p
<1> QED BY <1>8, <1>9

LEMMA ArraysNamed == \A st \in Statements : ArraysOf[st] \subseteq ArrayNames
<1> DEFINE G == {st \in Statements : ArraysOf[st] \subseteq ArrayNames}
<1>1. ASSUME NEW st \in Statements,
             \A j \in DOMAIN Parts(st) : \A i \in DOMAIN Parts(st)[j] : Parts(st)[j][i] \in G
      PROVE  st \in G
  <2>1. ArraysOf[st] = ArraysStep(ArraysOf, st)
    BY RecursionAssumption
  <2>2. UNION {UNION {ArraysOf[Parts(st)[j][i]] : i \in DOMAIN Parts(st)[j]} : j \in DOMAIN Parts(st)}
          \subseteq ArrayNames
    BY <1>1
  <2>3. st.s = "dim" /\ st.array => st.x \in ArrayNames
    BY DEF ArrayNames
  <2> QED BY <2>1, <2>2, <2>3 DEF ArraysStep
<1> HIDE DEF G
<1>2. Statements \subseteq G
  BY <1>1, FromParts
<1> QED BY <1>2 DEF G

LEMMA ArraysInNamed ==
    ASSUME NEW b \in Seq(Statements)
    PROVE  /\ ArraysIn(b) \subseteq ArrayNames
           /\ \A i \in DOMAIN b : ArraysBefore(b, i) \subseteq ArrayNames
<1>1. \A i \in DOMAIN b : b[i] \in Statements
  OBVIOUS
<1>2. \A i \in DOMAIN b : 1..(i - 1) \subseteq DOMAIN b
  OBVIOUS
<1> QED BY <1>1, <1>2, ArraysNamed DEF ArraysIn, ArraysBefore

\* The control that a block which is allowed turns into, inside a procedure or
\* another block, with these loops around it in its procedure.
TokenFine(t, c, loops) ==
    /\ t[1] \notin {"goto", "gosub", "label"}
    /\ t[1] = "return" => c.returns /\ (t = <<"return", TRUE>> => c.gives = "a value")
    /\ t[1] = "throw" => \/ t[2] \in {"proc", "array"}
                         \/ t[2] = "EXIT" /\ ~(c.loops \cap Breakable \subseteq loops)

LEMMA PartStatement ==
    \A st \in Statements : \A j \in DOMAIN Parts(st) : \A i \in DOMAIN Parts(st)[j] :
        Parts(st)[j][i] \in Statements
<1>1. \A st \in Statements : Parts(st) \in Seq(Seq(Statements))
  BY PartsType
<1>2. \A q \in Seq(Seq(Statements)) : \A j \in DOMAIN q : \A i \in DOMAIN q[j] : q[j][i] \in Statements
  OBVIOUS
<1> QED BY <1>1, <1>2

LEMMA PartToken ==
    ASSUME NEW st \in Statements, NEW loops, NEW known \in SUBSET ArrayNames,
           NEW t \in GenStep(genStmt, st, loops, known),
           t # <<"throw", "array">>, st.s \notin {"goto", "gosub", "label", "return", "exit", "proc", "type", "ns"}
    PROVE  \E j \in DOMAIN Parts(st) : \E i \in DOMAIN Parts(st)[j] : \E k \in SUBSET ArrayNames :
              t \in genStmt[Parts(st)[j][i], LoopsIn(loops, st), k]
<1> DEFINE K(j) == known \cup PartsArrays(st, j)
<1>1. t \in UNION {BlockStep(genStmt, Parts(st)[j], LoopsIn(loops, st), K(j)) : j \in DOMAIN Parts(st)}
  BY DEF GenStep
<1>2. PICK j \in DOMAIN Parts(st) : t \in BlockStep(genStmt, Parts(st)[j], LoopsIn(loops, st), K(j))
  BY <1>1
<1>3. PICK i \in DOMAIN Parts(st)[j] :
         t \in genStmt[Parts(st)[j][i], LoopsIn(loops, st), K(j) \cup ArraysBefore(Parts(st)[j], i)]
  BY <1>2 DEF BlockStep
<1>4. Parts(st) \in Seq(Seq(Statements))
  BY PartsType
<1>5. Parts(st)[j] \in Seq(Statements) /\ \A k \in 1..(j - 1) : Parts(st)[k] \in Seq(Statements)
  BY <1>4
<1>6. K(j) \cup ArraysBefore(Parts(st)[j], i) \subseteq ArrayNames
  BY <1>5, ArraysInNamed DEF PartsArrays
<1> QED BY <1>3, <1>6

LEMMA TokensFine ==
    \A st \in Statements : \A c \in Contexts, loops \in SUBSET Breakable, known \in SUBSET ArrayNames :
       ~c.top /\ Legal[st, c] => \A t \in genStmt[st, loops, known] : TokenFine(t, c, loops)
<1> DEFINE Fine(st) == \A c \in Contexts, loops \in SUBSET Breakable, known \in SUBSET ArrayNames :
              ~c.top /\ Legal[st, c] => \A t \in genStmt[st, loops, known] : TokenFine(t, c, loops)
           G == {st \in Statements : Fine(st)}
<1>1. ASSUME NEW st \in Statements,
             \A j \in DOMAIN Parts(st) : \A i \in DOMAIN Parts(st)[j] : Parts(st)[j][i] \in G,
             NEW c \in Contexts, NEW loops \in SUBSET Breakable, NEW known \in SUBSET ArrayNames,
             ~c.top, Legal[st, c], NEW t \in genStmt[st, loops, known]
      PROVE  TokenFine(t, c, loops)
  <2>1. LegalStep(Legal, st, c) /\ t \in GenStep(genStmt, st, loops, known)
    BY <1>1, RecursionAssumption, LegalIs
  <2> HIDE DEF G
  <2>2. CASE t = <<"throw", "array">>
    BY <2>2 DEF TokenFine
  <2>3. CASE t # <<"throw", "array">> /\ st.s \in {"goto", "gosub", "label", "type", "ns"}
    BY <1>1, <2>1, <2>3 DEF LegalStep
  <2>4. CASE t # <<"throw", "array">> /\ st.s = "return"
    <3>1. t = <<"return", st.e # NoExpr>>
      BY <2>1, <2>4 DEF GenStep
    <3>2. c.returns /\ (c.gives = "a value") = (st.e # NoExpr)
      BY <2>1, <2>4 DEF LegalStep
    <3>3. t[1] = "return" /\ (t = <<"return", TRUE>> => st.e # NoExpr)
      BY <3>1
    <3> QED BY <3>2, <3>3 DEF TokenFine
  <2>5. CASE t # <<"throw", "array">> /\ st.s = "exit"
    <3>1. t = genExit(st.what, loops) /\ st.what \in c.loops
      BY <2>1, <2>5 DEF GenStep, LegalStep
    <3>2. st.what \in LoopKinds
      BY <3>1 DEF Contexts
    <3>3. CASE st.what \in {"Sub", "Function"}
      BY <3>1, <3>3 DEF genExit, TokenFine
    <3>4. CASE st.what \notin {"Sub", "Function"} /\ st.what \in loops
      BY <3>1, <3>4 DEF genExit, TokenFine
    <3>5. CASE st.what \notin {"Sub", "Function"} /\ st.what \notin loops
      <4>1. st.what \in Breakable
        BY <3>2, <3>5 DEF LoopKinds, Breakable
      <4>2. ~(c.loops \cap Breakable \subseteq loops)
        BY <3>1, <3>5, <4>1
      <4> QED BY <3>1, <3>5, <4>2 DEF genExit, TokenFine
    <3> QED BY <3>3, <3>4, <3>5
  <2>6. CASE t # <<"throw", "array">> /\ st.s = "proc"
    <3>1. t = <<"throw", "proc">>
      BY <2>1, <2>6 DEF GenStep
    <3> QED BY <3>1 DEF TokenFine
  <2>7. CASE t # <<"throw", "array">> /\ st.s \notin {"goto", "gosub", "label", "return", "exit", "proc", "type", "ns"}
    <3> DEFINE c2 == Inside(c, st)
               l2 == LoopsIn(loops, st)
    <3>1. PICK j \in DOMAIN Parts(st) : \E i \in DOMAIN Parts(st)[j] : \E k \in SUBSET ArrayNames :
              t \in genStmt[Parts(st)[j][i], l2, k]
      BY <2>1, <2>7, PartToken
    <3>2. PICK i \in DOMAIN Parts(st)[j] : \E k \in SUBSET ArrayNames : t \in genStmt[Parts(st)[j][i], l2, k]
      BY <3>1
    <3>3. /\ c2 \in Contexts /\ ~c2.top /\ c2.returns = c.returns /\ c2.gives = c.gives
          /\ c2.loops = c.loops \cup LoopOf(st)
      BY DEF Inside, Contexts, LoopOf, LoopKinds
    <3>4. l2 \in SUBSET Breakable /\ l2 = loops \cup LoopOf(st)
      BY DEF LoopsIn, LoopOf, Breakable
    <3>5. Legal[Parts(st)[j][i], c2]
      BY <2>1 DEF LegalStep, AllIn
    <3>6. Fine(Parts(st)[j][i])
      BY <1>1 DEF G
    <3> HIDE DEF c2, l2
    <3>7. TokenFine(t, c2, l2)
      BY <3>2, <3>3, <3>4, <3>5, <3>6
    <3>8. c2.loops \cap Breakable \subseteq l2 \/ ~(c.loops \cap Breakable \subseteq loops)
      BY <3>3, <3>4
    <3> QED BY <3>3, <3>7, <3>8 DEF TokenFine
  <2> QED BY <2>2, <2>3, <2>4, <2>5, <2>6, <2>7
<1>2. \A st \in Statements :
         (\A j \in DOMAIN Parts(st) : \A i \in DOMAIN Parts(st)[j] : Parts(st)[j][i] \in G) => st \in G
  BY <1>1
<1> HIDE DEF G
<1>3. Statements \subseteq G
  BY <1>2, FromParts
<1> QED BY <1>3 DEF G

\* The same for a block of statements, as the body of a procedure.
LEMMA BlockTokens ==
    ASSUME NEW b \in Seq(Statements), NEW c \in Contexts, ~c.top, AllLegal(b, c),
           NEW known \in SUBSET ArrayNames, NEW t \in genBlock(b, known)
    PROVE  TokenFine(t, c, {})
<1>1. PICK i \in DOMAIN b : t \in genStmt[b[i], {}, known \cup ArraysBefore(b, i)]
  BY DEF genBlock, BlockStep
<1>2. b[i] \in Statements /\ Legal[b[i], c]
  <2>1. Legal[b[i], c]
    BY DEF AllLegal, AllIn
  <2>2. b[i] \in Statements
    OBVIOUS
  <2> QED BY <2>1, <2>2
<1>3. known \cup ArraysBefore(b, i) \in SUBSET ArrayNames
  BY ArraysInNamed
<1> QED BY <1>1, <1>2, <1>3, TokensFine

\* And for one at the top level of the module.
LEMMA TopTokens ==
    ASSUME NEW st \in Statements, NEW span \in BOOLEAN, Legal[st, AtTop(span)],
           st.s \notin {"proc", "type", "ns"},
           NEW known \in SUBSET ArrayNames, NEW t \in genStmt[st, {}, known]
    PROVE  /\ t[1] \in {"goto", "gosub", "label"} => t = <<st.s, st.x>>
           /\ t[1] = "return" => span /\ t # <<"return", TRUE>>
           /\ t[1] = "throw" => t[2] \in {"proc", "array"}
<1> DEFINE c == AtTop(span)
<1>1. c \in Contexts /\ c.loops = {} /\ c.gives = "nothing" /\ c.returns = span
  BY DEF AtTop, Contexts
<1>2. LegalStep(Legal, st, c) /\ t \in GenStep(genStmt, st, {}, known)
  <2>1. Legal[st, c]
    OBVIOUS
  <2>2. {} \in SUBSET Breakable
    OBVIOUS
  <2> HIDE DEF c
  <2>3. LegalStep(Legal, st, c)
    BY <1>1, <2>1, LegalIs
  <2>4. t \in GenStep(genStmt, st, {}, known)
    BY <2>2, RecursionAssumption
  <2> QED BY <2>3, <2>4
<1>3. CASE t = <<"throw", "array">>
  BY <1>3
<1>4. CASE t # <<"throw", "array">> /\ st.s \in {"goto", "gosub", "label"}
  <2>1. t = <<st.s, st.x>>
    BY <1>2, <1>4 DEF GenStep
  <2>2. t[1] = st.s
    BY <2>1
  <2> QED BY <1>4, <2>1, <2>2
<1>5. CASE t # <<"throw", "array">> /\ st.s = "return"
  <2>1. t = <<"return", st.e # NoExpr>>
    BY <1>2, <1>5 DEF GenStep
  <2>2. c.returns /\ (c.gives = "a value") = (st.e # NoExpr)
    BY <1>2, <1>5 DEF LegalStep
  <2>3. t[1] = "return" /\ (t = <<"return", TRUE>> => st.e # NoExpr)
    BY <2>1
  <2> HIDE DEF c
  <2> QED BY <1>1, <2>2, <2>3
<1>6. CASE t # <<"throw", "array">> /\ st.s = "exit"
  BY <1>1, <1>2, <1>6 DEF LegalStep
<1>7. CASE t # <<"throw", "array">> /\ st.s \notin {"goto", "gosub", "label", "return", "exit", "proc", "type", "ns"}
  <2> DEFINE c2 == Inside(c, st)
             l2 == LoopsIn({}, st)
  <2>1. PICK j \in DOMAIN Parts(st) : \E i \in DOMAIN Parts(st)[j] : \E k \in SUBSET ArrayNames :
            t \in genStmt[Parts(st)[j][i], l2, k]
    BY <1>2, <1>7, PartToken
  <2>2. PICK i \in DOMAIN Parts(st)[j] : \E k \in SUBSET ArrayNames : t \in genStmt[Parts(st)[j][i], l2, k]
    BY <2>1
  <2>3. /\ c2 \in Contexts /\ ~c2.top /\ c2.returns = span /\ c2.gives = "nothing"
        /\ c2.loops = LoopOf(st)
    BY DEF Inside, Contexts, LoopOf, LoopKinds, AtTop
  <2>4. l2 \in SUBSET Breakable /\ l2 = LoopOf(st)
    BY DEF LoopsIn, LoopOf, Breakable
  <2>5. Legal[Parts(st)[j][i], c2]
    BY <1>2 DEF LegalStep, AllIn
  <2>6. Parts(st)[j][i] \in Statements
    BY PartStatement
  <2> HIDE DEF c2, l2
  <2>7. TokenFine(t, c2, l2)
    BY <2>2, <2>3, <2>4, <2>5, <2>6, TokensFine
  <2> QED BY <2>3, <2>4, <2>7 DEF TokenFine
<1> QED BY <1>3, <1>4, <1>5, <1>6, <1>7

-----------------------------------------------------------------------------
(* JumpsLand: what Sema hands to the code generator, and what that makes of  *)
(* it, one statement after another.                                          *)

Walking == Collecting \cup {"check"}
Generating == {"generate", "written", "crashed"}

\* Nothing is generated before the walk is over.
StartInv ==
    stage \in Walking =>
      /\ pos = 1 /\ open = None /\ arrays = {}
      /\ out = [types |-> <<>>, main |-> {}, subs |-> <<>>, procs |-> <<>>, inside |-> {}]

\* A program without errors has the labels it jumps to, each for one kind of jump.
HasTarget(st) == st.s \in {"goto", "gosub"} => st.x \in T.labels
OneUse == NamesOf(module, "label") \cap NamesOf(module, "gosub") \cap NamesOf(module, "goto") = {}
TargetInv ==
    /\ stage = "check" /\ diags = {} => \A i \in 1..Passed : HasTarget(module[i])
    /\ stage \notin Collecting /\ diags = {} => OneUse
    /\ stage \in Generating => diags = {} /\ \A i \in DOMAIN module : HasTarget(module[i])

LEMMA StartNext == ASSUME TypeInv, StartInv, [Next]_vars PROVE StartInv'
<1>1. CASE stage = "check"
  <2>1. UNCHANGED <<pos, open, arrays, out>>
    BY <1>1, WalkSteps DEF Takes, Effects, Same, Ends, Requests
  <2>2. stage \in Walking
    BY <1>1 DEF Walking
  <2> QED BY <2>1, <2>2 DEF StartInv
<1>2. CASE Step(CollectNames) \/ Step(CollectTypes)
  <2>1. UNCHANGED <<pos, open, arrays, out>> /\ stage \in Walking
    BY <1>2 DEF Step, CollectNames, CollectTypes, codegenVars, Walking, Collecting
  <2> QED BY <2>1 DEF StartInv
<1>3. CASE CodegenNext
  BY <1>3, CodegenSteps DEF StartInv, Walking, Collecting
<1>4. CASE UNCHANGED vars \/ Terminated
  BY <1>4 DEF vars, Terminated, StartInv
<1> QED BY <1>1, <1>2, <1>3, <1>4, StageSteps

LEMMA TargetTakes ==
    ASSUME TypeInv, PosInv, TargetInv, Takes
    PROVE  TargetInv'
<1>1. /\ Busy /\ stage = "check" /\ stage' = "check" /\ module' = module /\ T' = T
      /\ diags \subseteq diags' /\ (diags' = {} => TargetOK)
  BY NowFacts DEF Takes, Effects, T
<1>2. (F.ends = "module") = (Len(work) = 1)
  BY <1>1, NowFacts
<1>3. Passed \in Nat /\ Passed' = (IF Len(work) = 1 THEN Passed + 1 ELSE Passed)
  BY <1>1, PosTakes DEF PosInv
<1>4. ASSUME diags' = {}, NEW i \in 1..Passed' PROVE HasTarget(module[i])
  <2>1. diags = {}
    BY <1>1, <1>4
  <2>2. CASE i \in 1..Passed
    BY <1>1, <2>1, <2>2 DEF TargetInv
  <2>3. CASE i \notin 1..Passed
    <3>1. Len(work) = 1 /\ i = Passed + 1
      BY <1>3, <1>4, <2>3
    <3>2. Now = module[i] /\ ~InSpace
      BY <1>1, <1>2, <3>1, ModuleStatement DEF InSpace
    <3> QED BY <1>1, <1>4, <3>2 DEF TargetOK, HasTarget
  <2> QED BY <2>2, <2>3
<1>5. diags' = {} => OneUse
  BY <1>1 DEF TargetInv, Collecting
<1>6. \A i : HasTarget(module[i])' <=> HasTarget(module[i])
  BY <1>1 DEF HasTarget
<1>7. OneUse' <=> OneUse
  BY <1>1 DEF OneUse
<1> QED BY <1>1, <1>4, <1>5, <1>6, <1>7 DEF TargetInv, Generating

LEMMA TargetEnds ==
    ASSUME TypeInv, PosInv, TargetInv, Ends
    PROVE  TargetInv'
<1> DEFINE n == Len(work)
<1>1. /\ stage = "check" /\ module' = module /\ T' = T /\ diags' = diags /\ F.todo = <<>>
      /\ stage' = (IF F.ends # "module" THEN stage ELSE IF diags = {} THEN "generate" ELSE "rejected")
  BY DEF Ends, T
<1>2. /\ n \in Nat /\ n > 0 /\ Level(work, n) = F
      /\ \A d \in 1..(n - 1) : Level(work', d) = Level(work, d)
  BY EndLevels
<1>3. (F.ends = "module") = (n = 1)
  <2>1. n \in 1..n /\ StackInv
    BY <1>1, <1>2 DEF TypeInv
  <2> QED BY <1>2, <2>1 DEF StackInv
<1> HIDE DEF n
<1>4. \A i : HasTarget(module[i])' <=> HasTarget(module[i])
  BY <1>1 DEF HasTarget
<1>5. OneUse' <=> OneUse
  BY <1>1 DEF OneUse
<1>6. diags = {} => OneUse /\ \A i \in 1..Passed : HasTarget(module[i])
  BY <1>1 DEF TargetInv, Collecting
<1>7. CASE F.ends # "module"
  <2>1. 1 \in 1..(n - 1)
    BY <1>2, <1>3, <1>7
  <2>2. Passed' = Passed
    BY <1>1, <1>2, <2>1 DEF Passed
  <2> QED BY <1>1, <1>4, <1>5, <1>6, <1>7, <2>2 DEF TargetInv, Generating
<1>8. CASE F.ends = "module"
  <2>1. Level(work, 1) = F
    BY <1>2, <1>3, <1>8
  <2>2. Passed = Len(module) /\ DOMAIN module = 1..Len(module)
    BY <1>1, <2>1, ModuleFacts DEF Passed
  <2>3. stage' # "check" /\ (stage' \in Generating => diags' = {})
    BY <1>1, <1>8 DEF Generating
  <2>4. diags = {} => \A i \in DOMAIN module : HasTarget(module[i])
    BY <1>6, <2>2
  <2> QED BY <1>1, <1>4, <1>5, <1>6, <2>3, <2>4 DEF TargetInv
<1> QED BY <1>7, <1>8

LEMMA TargetNext == ASSUME TypeInv, PosInv, TargetInv, [Next]_vars PROVE TargetInv'
<1>1. CASE stage = "check" /\ Takes
  BY <1>1, TargetTakes
<1>2. CASE stage = "check" /\ Ends
  BY <1>2, TargetEnds
<1>3. ASSUME stage = "check", NEW key, NEW st, Requests(key, st) PROVE TargetInv'
  <2> DEFINE n == Len(work)
  <2>1. /\ stage' = "check" /\ module' = module /\ T'.labels = T.labels /\ diags' = diags
    BY <1>3 DEF Requests, TypeInv, T
  <2>2. n \in Nat /\ n > 0 /\ \A d \in 1..n : Level(work', d) = Level(work, d)
    BY <1>3, InstLevels
  <2> HIDE DEF n
  <2>3. 1 \in 1..n
    BY <2>2
  <2>4. Passed' = Passed
    BY <2>1, <2>2, <2>3 DEF Passed
  <2>5. \A i : HasTarget(module[i])' <=> HasTarget(module[i])
    BY <2>1 DEF HasTarget
  <2>6. OneUse' <=> OneUse
    BY <2>1 DEF OneUse
  <2> QED BY <1>3, <2>1, <2>4, <2>5, <2>6 DEF TargetInv, Generating, Collecting
<1>4. CASE Step(CollectNames)
  <2>1. stage' = "collect types"
    BY <1>4 DEF Step, CollectNames
  <2> QED BY <2>1 DEF TargetInv, Collecting, Generating
<1>5. CASE Step(CollectTypes)
  <2> DEFINE f == Frame(module, TRUE, "module")
  <2>1. /\ stage' = "check" /\ module' = module /\ work' = <<f>> /\ f.todo = module
        /\ \E ok : diags' = diags \cup Check(ok, "TYPEs") \cup collectGosubUsage(module)
    BY <1>5 DEF Step, CollectTypes, Frame
  <2> HIDE DEF f
  <2>2. diags' = {} => OneUse
    <3>1. diags' = {} => collectGosubUsage(module) = {}
      BY <2>1
    <3> QED BY <3>1 DEF collectGosubUsage, Check, OneUse
  <2>3. OneUse' <=> OneUse
    BY <2>1 DEF OneUse
  <2>4. Passed' = 0
    <3>1. Len(<<f>>) = 1 /\ <<f>>[1] = f
      OBVIOUS
    <3>2. \A w : Len(w) = 1 => Level(w, 1) = w[1]
      BY DEF Level
    <3>3. Level(work', 1) = f
      BY <2>1, <3>1, <3>2
    <3>4. Passed' = Len(module') - Len(Level(work', 1).todo)
      BY DEF Passed
    <3> QED BY <2>1, <3>3, <3>4, ModuleFacts
  <2>5. 1..0 = {}
    OBVIOUS
  <2>6. 1..Passed' = {}
    BY <2>4, <2>5
  <2> QED BY <2>1, <2>2, <2>3, <2>6 DEF TargetInv, Generating
<1>6. ASSUME UNCHANGED <<module, tables, work, diags>>,
             stage' = stage \/ (stage = "generate" /\ stage' \in Generating)
      PROVE  TargetInv'
  <2>1. T' = T /\ module' = module /\ diags' = diags
    BY <1>6 DEF T
  <2>2. \A i : HasTarget(module[i])' <=> HasTarget(module[i])
    BY <2>1 DEF HasTarget
  <2>3. OneUse' <=> OneUse
    BY <2>1 DEF OneUse
  <2>4. Passed' = Passed
    BY <1>6 DEF Passed
  <2>5. CASE stage' = stage
    BY <2>1, <2>2, <2>3, <2>4, <2>5 DEF TargetInv
  <2>6. CASE stage = "generate" /\ stage' \in Generating
    BY <2>1, <2>2, <2>3, <2>4, <2>6 DEF TargetInv, Generating, Collecting
  <2> QED BY <1>6, <2>5, <2>6
<1>7. CASE (stage = "check" /\ Same) \/ UNCHANGED vars \/ Terminated
  BY <1>6, <1>7 DEF Same, vars, Terminated
<1>8. CASE CodegenNext
  <2>1. /\ stage = "generate" /\ stage' \in {"generate", "written", "crashed"}
        /\ UNCHANGED <<module, tables, work, diags>>
    BY <1>8, CodegenSteps
  <2> QED BY <1>6, <2>1 DEF Generating
<1> QED BY <1>1, <1>2, <1>3, <1>4, <1>5, <1>7, <1>8, WalkSteps, StageSteps

-----------------------------------------------------------------------------
(* The control that has been generated.                                      *)

Jumped(t) ==
    /\ t[1] = "goto" => t[2] \in T.labels /\ t[2] \in NamesOf(module, "goto")
    /\ t[1] = "gosub" => t[2] \in T.labels /\ t[2] \in T.gosubs
    /\ t[1] = "throw" => t[2] \in {"proc", "array"}
InMain(t) == Jumped(t) /\ t[1] # "return"
InSub(t) == Jumped(t) /\ t # <<"return", TRUE>>
InBody(t, k) ==
    /\ t[1] # "goto"
    /\ t[1] = "throw" => t[2] \in {"proc", "array"} \/ (t[2] = "EXIT" /\ Len(k) > 2)
Defined(st) ==
    st.s = "label" => IF st.x \in T.gosubs THEN st.x \in DOMAIN out.subs
                      ELSE <<"label", st.x>> \in out.main
IsOut(o) == o = [types |-> o.types, main |-> o.main, subs |-> o.subs, procs |-> o.procs,
                 inside |-> o.inside]

\* Which function is open is what Sema judged RETURN by.
OpenInv ==
    stage = "generate" =>
      /\ pos <= Len(module) + 1 => (open # None <=> InSpan(pos))
      /\ open # None => open \in DOMAIN out.subs
TokenInv ==
    /\ \A t \in out.main : InMain(t)
    /\ \A x \in DOMAIN out.subs : \A t \in out.subs[x] : InSub(t)
    /\ \A k \in DOMAIN out.procs : \A t \in out.procs[k] : InBody(t, k)
    /\ \A j \in DOMAIN module : j < pos => Defined(module[j])
CodeInv ==
    stage \in Generating =>
      /\ pos \in Nat /\ pos > 0 /\ IsOut(out) /\ arrays \subseteq ArrayNames
      /\ stage = "written" => pos > Len(module)
      /\ OpenInv /\ TokenInv

\* The statement being generated, and what is known of it.
LEMMA UnitFacts ==
    ASSUME TypeInv, KeysInv, EndInv, TargetInv, stage = "generate", pos \in Nat, pos > 0, pos <= Units
    PROVE  /\ Unit(pos) \in Statements /\ WellFormed(Unit(pos)) /\ Len(module) \in Nat
           /\ pos <= Len(module) => /\ pos \in DOMAIN module /\ Unit(pos) = module[pos]
                                    /\ Legal[Unit(pos), AtTop(InSpan(pos))]
                                    /\ Len(KeyOf(pos)) = 2
           /\ ~(pos <= Len(module)) =>
                /\ Unit(pos).s = "proc" /\ Unit(pos).generic = None
                /\ InstanceLegal(Unit(pos), LoopKinds)
                /\ Len(KeyOf(pos)) > 2
<1>1. module \in Seq(Statements) /\ Len(module) \in Nat
  BY ModuleFacts
<1>2. IsSeq(pending)
  BY DEF TypeInv
<1>3. DOMAIN pending = 1..Len(pending) /\ Len(pending) \in Nat
  BY <1>2, SeqDomain
<1>4. ProgramLegal /\ InstancesLegal(LoopKinds)
  <2>1. Clean(diags)
    BY DEF TargetInv, Generating, Clean
  <2>2. stage \notin Collecting \cup {"check"}
    BY DEF Collecting
  <2> QED BY <2>1, <2>2 DEF EndInv
<1>5. CASE pos <= Len(module)
  <2>1. pos \in DOMAIN module /\ Unit(pos) = module[pos]
    BY <1>1, <1>5 DEF Unit
  <2>2. module[pos] \in Statements /\ Legal[module[pos], AtTop(InSpan(pos))]
    <3>1. Legal[module[pos], AtTop(InSpan(pos))]
      BY <1>4, <2>1 DEF ProgramLegal
    <3>2. module[pos] \in Statements
      BY <1>1, <2>1
    <3> QED BY <3>1, <3>2
  <2>3. Len(KeyOf(pos)) = 2
    <3>1. \A a, b : Len(<<a, b>>) = 2
      OBVIOUS
    <3> QED BY <1>5, <3>1 DEF KeyOf
  <2> QED BY <1>1, <1>5, <2>1, <2>2, <2>3, StatementsAssumption
<1>6. CASE ~(pos <= Len(module))
  <2> DEFINE i == pos - Len(module)
  <2>1. i \in DOMAIN pending
    BY <1>1, <1>3, <1>6 DEF Units
  <2>2. Unit(pos) = pending[i].st /\ KeyOf(pos) = <<None>> \o pending[i].key
    BY <1>6 DEF Unit, KeyOf
  <2> HIDE DEF i
  <2>3. /\ pending[i].st \in Statements
        /\ pending[i].st.s = "proc" /\ pending[i].st.generic = None
    BY <2>1 DEF TypeInv
  <2>4. InstanceLegal(pending[i].st, LoopKinds)
    BY <1>4, <2>1 DEF InstancesLegal
  <2>5. IsSeq(pending[i].key) /\ Len(pending[i].key) > 2
    BY <2>1 DEF KeysInv, IsInstanceKey
  <2>6. Len(<<None>> \o pending[i].key) = Len(pending[i].key) + 1 /\ Len(pending[i].key) \in Nat
    BY <2>5, ConsProps, SeqDomain
  <2>7. Len(KeyOf(pos)) > 2
    BY <2>2, <2>5, <2>6
  <2> QED BY <1>1, <1>6, <2>2, <2>3, <2>4, <2>7, StatementsAssumption
<1> QED BY <1>5, <1>6

\* Between labels the same function stays open.
LEMMA OpenNext ==
    ASSUME Len(module) \in Nat, pos \in Nat, pos > 0, pos <= Units, stage = "generate", OpenInv,
           Unit(pos).s # "label", module' = module, T' = T, pos' = pos + 1, open' = open,
           DOMAIN out'.subs = DOMAIN out.subs
    PROVE  OpenInv'
<1>1. ASSUME pos' <= Len(module) + 1 PROVE open # None <=> InSpan(pos + 1)
  <2>1. pos <= Len(module) /\ pos <= Len(module) + 1
    BY <1>1
  <2>2. Unit(pos) = module[pos]
    BY <2>1 DEF Unit
  <2>3. InSpan(pos + 1) <=> InSpan(pos)
    BY <2>2, InSpanNext
  <2> QED BY <2>1, <2>3 DEF OpenInv
<1>2. InSpan(pos)' <=> InSpan(pos + 1)
  BY DEF InSpan
<1> QED BY <1>1, <1>2 DEF OpenInv

LEMMA SameJumps ==
    ASSUME UNCHANGED <<module, tables>>
    PROVE  /\ \A t : (Jumped(t)' <=> Jumped(t)) /\ (InMain(t)' <=> InMain(t)) /\ (InSub(t)' <=> InSub(t))
           /\ T' = T
<1>1. T' = T
  BY DEF T
<1>2. \A t : Jumped(t)' <=> Jumped(t)
  BY <1>1 DEF Jumped
<1> QED BY <1>1, <1>2 DEF InMain, InSub

\* A statement that is no label adds control of the right kind.
LEMMA CodeGrows ==
    ASSUME TypeInv, CodeInv, stage = "generate", pos <= Units, Unit(pos).s # "label",
           UNCHANGED <<module, tables>>, pos' = pos + 1, open' = open,
           stage' \in {"generate", "crashed"}, arrays' \subseteq ArrayNames, IsOut(out'),
           DOMAIN out'.subs = DOMAIN out.subs, out.main \subseteq out'.main,
           \A t \in out'.main : t \in out.main \/ InMain(t),
           \A x \in DOMAIN out.subs : \A t \in out'.subs[x] : t \in out.subs[x] \/ InSub(t),
           \A k \in DOMAIN out'.procs : \A t \in out'.procs[k] :
              (k \in DOMAIN out.procs /\ t \in out.procs[k]) \/ InBody(t, k)
    PROVE  CodeInv'
<1>1. /\ pos \in Nat /\ pos > 0 /\ OpenInv /\ TokenInv /\ Len(module) \in Nat
      /\ DOMAIN module = 1..Len(module)
  BY ModuleFacts DEF CodeInv, Generating
<1>2. T' = T /\ \A t : (InMain(t)' <=> InMain(t)) /\ (InSub(t)' <=> InSub(t))
  BY SameJumps
<1>3. OpenInv'
  BY <1>1, <1>2, OpenNext
<1>4. \A t, k : InBody(t, k)' <=> InBody(t, k)
  BY DEF InBody
<1>5. ASSUME NEW j \in DOMAIN module, j < pos' PROVE Defined(module[j])'
  <2>1. CASE j < pos
    <3>1. Defined(module[j])
      BY <1>1, <2>1 DEF TokenInv
    <3> QED BY <1>2, <3>1 DEF Defined
  <2>2. CASE ~(j < pos)
    <3>1. j = pos /\ pos <= Len(module)
      BY <1>1, <1>5, <2>2
    <3>2. module[j].s # "label"
      BY <3>1 DEF Unit
    <3> QED BY <3>2 DEF Defined
  <2> QED BY <2>1, <2>2
<1>6. (\A t \in out.main : InMain(t))'
  BY <1>1, <1>2 DEF TokenInv
<1>7. (\A x \in DOMAIN out.subs : \A t \in out.subs[x] : InSub(t))'
  BY <1>1, <1>2 DEF TokenInv
<1>8. (\A k \in DOMAIN out.procs : \A t \in out.procs[k] : InBody(t, k))'
  BY <1>1, <1>4 DEF TokenInv
<1>9. (\A j \in DOMAIN module : j < pos => Defined(module[j]))'
  BY <1>5
<1>10. TokenInv'
  BY <1>6, <1>7, <1>8, <1>9 DEF TokenInv
<1>11. IsOut(out)' /\ (pos \in Nat /\ pos > 0)'
  BY <1>1 DEF IsOut
<1> QED BY <1>3, <1>10, <1>11 DEF CodeInv

LEMMA ProcFine ==
    ASSUME NEW st \in Statements, st.s = "proc", NEW hi \in BOOLEAN,
           AllLegal(st.body, IF hi THEN [InProc(st) EXCEPT !.loops = @ \cup LoopKinds] ELSE InProc(st)),
           NEW known \in SUBSET ArrayNames, NEW t \in ProcTokens(st, known)
    PROVE  /\ t[1] # "goto"
           /\ t[1] = "throw" => t[2] \in {"proc", "array"} \/ (t[2] = "EXIT" /\ hi)
<1> DEFINE c == IF hi THEN [InProc(st) EXCEPT !.loops = @ \cup LoopKinds] ELSE InProc(st)
<1>1. t \in genBlock(st.body, known)
  BY DEF ProcTokens
<1>2. st.body \in Seq(Statements)
  BY StatementsAssumption DEF WellFormed
<1>3. c \in Contexts /\ ~c.top /\ (~hi => c.loops \cap Breakable = {})
  BY DEF InProc, Contexts, LoopKinds, Breakable
<1>4. AllLegal(st.body, c)
  OBVIOUS
<1> HIDE DEF c
<1>5. TokenFine(t, c, {})
  BY <1>1, <1>2, <1>3, <1>4, BlockTokens
<1>6. t[1] # "goto"
  BY <1>5 DEF TokenFine
<1>7. t[1] = "throw" => t[2] \in {"proc", "array"} \/ (t[2] = "EXIT" /\ hi)
  BY <1>3, <1>5 DEF TokenFine
<1> QED BY <1>6, <1>7

\* What every statement of the code generator starts from.
Ready == TypeInv /\ KeysInv /\ EndInv /\ TargetInv /\ CodeInv

LEMMA ReadyFacts ==
    ASSUME Ready, stage = "generate"
    PROVE  /\ TypeInv /\ KeysInv /\ EndInv /\ TargetInv /\ CodeInv
           /\ pos \in Nat /\ pos > 0 /\ IsOut(out) /\ arrays \in SUBSET ArrayNames
           /\ OpenInv /\ TokenInv
           /\ \A i \in DOMAIN module : HasTarget(module[i])
           /\ T.labels = NamesOf(module, "label") /\ T.gosubs = NamesOf(module, "gosub")
<1>1. CodeInv /\ TargetInv /\ TypeInv /\ KeysInv /\ EndInv
  BY DEF Ready
<1> QED BY <1>1 DEF CodeInv, TargetInv, Generating, TypeInv

LEMMA LabelCode == ASSUME Ready, GenLabel PROVE CodeInv'
<1> DEFINE x == Unit(pos).x
<1>1. /\ stage = "generate" /\ stage' = "generate" /\ pos <= Units /\ Unit(pos).s = "label"
      /\ UNCHANGED <<module, tables>> /\ arrays' = arrays /\ pos' = pos + 1
      /\ x \in T.gosubs => open' = x /\ out' = [out EXCEPT !.subs = Bind(@, x, {})]
      /\ x \notin T.gosubs => open' = None /\ out' = [out EXCEPT !.main = @ \cup {<<"label", x>>}]
  BY DEF GenLabel, At2, Emit
<1>2. /\ TypeInv /\ KeysInv /\ EndInv /\ TargetInv /\ pos \in Nat /\ pos > 0 /\ IsOut(out)
      /\ OpenInv /\ TokenInv /\ arrays \subseteq ArrayNames
  BY <1>1, ReadyFacts
<1>3. pos <= Len(module) /\ Unit(pos) = module[pos] /\ x # None /\ Len(module) \in Nat
      /\ DOMAIN module = 1..Len(module)
  <2>1. Len(module) \in Nat /\ DOMAIN module = 1..Len(module)
    BY <1>2, ModuleFacts
  <2>2. WellFormed(Unit(pos)) /\ (pos <= Len(module) => Unit(pos) = module[pos])
        /\ (~(pos <= Len(module)) => Unit(pos).s = "proc")
    BY <1>1, <1>2, UnitFacts
  <2>3. x # None
    BY <1>1, <2>2 DEF WellFormed
  <2> QED BY <1>1, <2>1, <2>2, <2>3
<1>4. /\ out'.main = IF x \in T.gosubs THEN out.main ELSE out.main \cup {<<"label", x>>}
      /\ out'.subs = IF x \in T.gosubs THEN Bind(out.subs, x, {}) ELSE out.subs
      /\ out'.procs = out.procs /\ IsOut(out')
  <2> HIDE DEF x
  <2>1. CASE x \in T.gosubs
    BY <1>1, <1>2, <2>1 DEF IsOut
  <2>2. CASE x \notin T.gosubs
    BY <1>1, <1>2, <2>2 DEF IsOut
  <2> QED BY <2>1, <2>2
<1>5. T' = T /\ \A t : (InMain(t)' <=> InMain(t)) /\ (InSub(t)' <=> InSub(t))
  BY <1>1, SameJumps
<1>6. InSpan(pos + 1) <=> x \in T.gosubs
  BY <1>1, <1>2, <1>3, InSpanNext
<1>7. InSpan(pos)' <=> InSpan(pos + 1)
  BY <1>1, <1>5 DEF InSpan
<1> HIDE DEF x
<1>8. x \in T.gosubs => x \in DOMAIN Bind(out.subs, x, {}) /\ DOMAIN out.subs \subseteq DOMAIN Bind(out.subs, x, {})
                        /\ \A y \in DOMAIN Bind(out.subs, x, {}) :
                              Bind(out.subs, x, {})[y] = {} \/ (y \in DOMAIN out.subs /\ Bind(out.subs, x, {})[y] = out.subs[y])
  BY DEF Bind
<1>9. OpenInv'
  BY <1>1, <1>3, <1>4, <1>6, <1>7, <1>8 DEF OpenInv
<1>10. (\A t \in out.main : InMain(t))'
  <2>1. InMain(<<"label", x>>)
    <3>1. <<"label", x>>[1] = "label"
      OBVIOUS
    <3> QED BY <3>1 DEF InMain, Jumped
  <2>2. \A t \in out'.main : InMain(t)
    BY <1>2, <1>4, <2>1 DEF TokenInv
  <2> QED BY <1>5, <2>2
<1>11. (\A y \in DOMAIN out.subs : \A t \in out.subs[y] : InSub(t))'
  <2>1. \A y \in DOMAIN out'.subs : \A t \in out'.subs[y] : InSub(t)
    BY <1>2, <1>4, <1>8 DEF TokenInv
  <2> QED BY <1>5, <2>1
<1>12. (\A k \in DOMAIN out.procs : \A t \in out.procs[k] : InBody(t, k))'
  BY <1>2, <1>4 DEF TokenInv, InBody
<1>13. (\A j \in DOMAIN module : j < pos => Defined(module[j]))'
  <2>1. ASSUME NEW j \in DOMAIN module, j < pos' PROVE Defined(module[j])'
    <3>1. CASE j < pos
      <4>1. Defined(module[j])
        BY <1>2, <3>1 DEF TokenInv
      <4> QED BY <1>1, <1>4, <1>5, <1>8, <4>1 DEF Defined
    <3>2. CASE ~(j < pos)
      <4>1. module[j].x = x
        BY <1>1, <1>2, <1>3, <2>1, <3>2 DEF x
      <4> QED BY <1>1, <1>4, <1>5, <1>8, <4>1 DEF Defined
    <3> QED BY <3>1, <3>2
  <2> QED BY <1>1, <2>1
<1>14. TokenInv'
  BY <1>10, <1>11, <1>12, <1>13 DEF TokenInv
<1>15. IsOut(out)' /\ (pos \in Nat /\ pos > 0)'
  BY <1>1, <1>2, <1>4 DEF IsOut
<1> QED BY <1>1, <1>2, <1>9, <1>14, <1>15 DEF CodeInv

LEMMA NothingIn == \A j : j \notin DOMAIN <<>>
<1>1. <<>> \in Seq({}) /\ Len(<<>>) = 0
  OBVIOUS
<1>2. DOMAIN <<>> = 1..0
  BY <1>1
<1>3. 1..0 = {}
  OBVIOUS
<1> QED BY <1>2, <1>3, Zenon

\* What is declared for the whole program has no control but a throw.
LEMMA GlobalToken ==
    ASSUME NEW st \in Statements, st.s \in Globals, NEW known \in SUBSET ArrayNames,
           NEW t \in genStmt[st, {}, known]
    PROVE  t = <<"throw", "array">>
<1>1. t \in GenStep(genStmt, st, {}, known)
  BY RecursionAssumption
<1>2. Parts(st) = <<>>
  BY NoParts DEF Globals
<1> SUFFICES ASSUME t # <<"throw", "array">> PROVE FALSE
  OBVIOUS
<1>3. \E j \in DOMAIN Parts(st) : \E i \in DOMAIN Parts(st)[j] : \E k \in SUBSET ArrayNames :
          t \in genStmt[Parts(st)[j][i], LoopsIn({}, st), k]
  BY <1>1, PartToken DEF Globals
<1> QED BY <1>2, <1>3, NothingIn, Zenon

LEMMA MissInMain == InMain(<<"throw", "array">>)
<1>1. <<"throw", "array">>[1] = "throw" /\ <<"throw", "array">>[2] = "array"
  OBVIOUS
<1> QED BY <1>1 DEF InMain, Jumped

LEMMA GlobalCode == ASSUME Ready, GenGlobal PROVE CodeInv'
<1> DEFINE tokens == genStmt[Unit(pos), {}, arrays]
<1>1. /\ stage = "generate" /\ stage' \in {"generate", "crashed"} /\ pos <= Units
      /\ Unit(pos).s \in Globals
      /\ UNCHANGED <<module, tables>> /\ pos' = pos + 1 /\ open' = open
      /\ arrays' = arrays \cup ArraysOf[Unit(pos)]
      /\ out' = [out EXCEPT !.main = @ \cup tokens]
  BY DEF GenGlobal, At2, Emit, Survives
<1>2. /\ TypeInv /\ KeysInv /\ EndInv /\ TargetInv /\ CodeInv /\ pos \in Nat /\ pos > 0 /\ IsOut(out)
      /\ arrays \in SUBSET ArrayNames
  BY <1>1, ReadyFacts
<1>3. Unit(pos) \in Statements
  BY <1>1, <1>2, UnitFacts
<1>4. arrays' \subseteq ArrayNames
  BY <1>1, <1>2, <1>3, ArraysNamed
<1>5. \A t \in tokens : InMain(t)
  BY <1>1, <1>2, <1>3, GlobalToken, MissInMain
<1> HIDE DEF tokens
<1>6. /\ IsOut(out') /\ out'.main = out.main \cup tokens /\ out'.subs = out.subs
      /\ out'.procs = out.procs
  BY <1>1, <1>2 DEF IsOut
<1>7. Unit(pos).s # "label"
  BY <1>1 DEF Globals
<1> QED BY <1>1, <1>2, <1>4, <1>5, <1>6, <1>7, CodeGrows

LEMMA TypeCode == ASSUME Ready, GenType PROVE CodeInv'
<1>1. /\ stage = "generate" /\ stage' = "generate" /\ pos <= Units /\ Unit(pos).s # "label"
      /\ UNCHANGED <<module, tables>> /\ pos' = pos + 1 /\ open' = open
      /\ arrays' = arrays
      /\ \E types : out' = [out EXCEPT !.types = types]
  BY DEF GenType, At2, Emit
<1>2. /\ TypeInv /\ KeysInv /\ EndInv /\ TargetInv /\ CodeInv /\ pos \in Nat /\ pos > 0 /\ IsOut(out)
      /\ arrays \subseteq ArrayNames
  BY <1>1, ReadyFacts
<1>3. IsOut(out') /\ out'.main = out.main /\ out'.subs = out.subs /\ out'.procs = out.procs
  BY <1>1, <1>2 DEF IsOut
<1> QED BY <1>1, <1>2, <1>3, CodeGrows

LEMMA ProcCode == ASSUME Ready, GenProcedure PROVE CodeInv'
<1> DEFINE st == Unit(pos)
           tokens == ProcTokens(st, arrays)
           k0 == KeyOf(pos)
<1>1. /\ stage = "generate" /\ stage' \in {"generate", "crashed"} /\ pos <= Units /\ st.s = "proc"
      /\ UNCHANGED <<module, tables>> /\ pos' = pos + 1 /\ open' = open /\ arrays' = arrays
      /\ st.generic # None => out' = out
      /\ st.generic = None => \E inside : out' = [out EXCEPT !.procs = Bind(@, k0, tokens), !.inside = inside]
  BY DEF GenProcedure, At2, Emit, Survives
<1>2. /\ TypeInv /\ KeysInv /\ EndInv /\ TargetInv /\ CodeInv /\ pos \in Nat /\ pos > 0 /\ IsOut(out)
      /\ arrays \in SUBSET ArrayNames /\ TokenInv
  BY <1>1, ReadyFacts
<1>3. /\ st \in Statements
      /\ pos <= Len(module) => Legal[st, AtTop(InSpan(pos))] /\ Len(k0) = 2
      /\ ~(pos <= Len(module)) => InstanceLegal(st, LoopKinds) /\ Len(k0) > 2
  BY <1>1, <1>2, UnitFacts
<1>4. ASSUME st.generic = None, NEW t \in tokens PROVE InBody(t, k0)
  <2> DEFINE hi == ~(pos <= Len(module))
  <2>1. AllLegal(st.body, IF hi THEN [InProc(st) EXCEPT !.loops = @ \cup LoopKinds] ELSE InProc(st))
    <3>1. CASE pos <= Len(module)
      <4>1. AtTop(InSpan(pos)) \in Contexts
        <5>1. InSpan(pos) \in BOOLEAN
          BY DEF InSpan
        <5> QED BY <5>1 DEF AtTop, Contexts
      <4>2. LegalStep(Legal, st, AtTop(InSpan(pos)))
        BY <1>3, <3>1, <4>1, LegalIs
      <4>3. AllIn(Legal, st.body, InProc(st))
        BY <1>1, <1>4, <4>2 DEF LegalStep
      <4> QED BY <3>1, <4>3 DEF AllLegal
    <3>2. CASE ~(pos <= Len(module))
      BY <1>3, <3>2 DEF InstanceLegal
    <3> QED BY <3>1, <3>2
  <2>2. hi \in BOOLEAN /\ (hi => Len(k0) > 2)
    BY <1>3
  <2> HIDE DEF hi, st, k0
  <2>3. t[1] # "goto" /\ (t[1] = "throw" => t[2] \in {"proc", "array"} \/ (t[2] = "EXIT" /\ hi))
    BY <1>1, <1>2, <1>3, <2>1, <2>2, ProcFine
  <2> QED BY <2>2, <2>3 DEF InBody
<1> HIDE DEF st, tokens, k0
<1>5. /\ IsOut(out') /\ out'.main = out.main /\ out'.subs = out.subs
      /\ st.generic # None => out'.procs = out.procs
      /\ st.generic = None => out'.procs = Bind(out.procs, k0, tokens)
  <2>1. CASE st.generic # None
    BY <1>1, <1>2, <2>1
  <2>2. CASE st.generic = None
    BY <1>1, <1>2, <2>2 DEF IsOut
  <2> QED BY <2>1, <2>2
<1>6. \A k \in DOMAIN out'.procs : \A t \in out'.procs[k] :
         (k \in DOMAIN out.procs /\ t \in out.procs[k]) \/ InBody(t, k)
  <2>1. CASE st.generic # None
    BY <1>5, <2>1
  <2>2. CASE st.generic = None
    BY <1>4, <1>5, <2>2 DEF Bind
  <2> QED BY <2>1, <2>2
<1>7. Unit(pos).s # "label"
  BY <1>1 DEF st
<1> QED BY <1>1, <1>2, <1>5, <1>6, <1>7, CodeGrows

LEMMA GlobalTokensMiss ==
    ASSUME arrays \in SUBSET ArrayNames, NEW b \in Seq(Statements), NEW t \in GlobalTokens(b)
    PROVE  t = <<"throw", "array">>
<1>1. PICK i \in {j \in DOMAIN b : b[j].s \in Globals} :
         t \in genStmt[b[i], {}, arrays \cup ArraysBefore(b, i)]
  BY DEF GlobalTokens
<1>2. b[i] \in Statements /\ b[i].s \in Globals
  OBVIOUS
<1>3. arrays \cup ArraysBefore(b, i) \in SUBSET ArrayNames
  BY ArraysInNamed
<1> QED BY <1>1, <1>2, <1>3, GlobalToken

LEMMA SpaceCode == ASSUME Ready, GenNamespace PROVE CodeInv'
<1> DEFINE ns == Unit(pos)
           procs == {i \in DOMAIN ns.body : ns.body[i].s = "proc"}
           Tokens(i) == ProcTokens(ns.body[i], arrays \cup ArraysBefore(ns.body, i))
           named(x) == {i \in procs : ns.body[i].x = x}
           new == [k \in {<<ns.x, ns.body[i].x>> : i \in procs} |-> UNION {Tokens(i) : i \in named(k[2])}]
           misses == GlobalTokens(ns.body)
<1>1. /\ stage = "generate" /\ stage' \in {"generate", "crashed"} /\ pos <= Units /\ ns.s = "ns"
      /\ UNCHANGED <<module, tables>> /\ pos' = pos + 1 /\ open' = open
      /\ arrays' = arrays \cup ArraysIn(ns.body)
      /\ out' = [out EXCEPT !.main = @ \cup misses, !.procs = Merge(new, @)]
  BY DEF GenNamespace, At2, Emit, Survives
<1>2. /\ TypeInv /\ KeysInv /\ EndInv /\ TargetInv /\ CodeInv /\ pos \in Nat /\ pos > 0 /\ IsOut(out)
      /\ arrays \in SUBSET ArrayNames /\ TokenInv
  BY <1>1, ReadyFacts
<1>3. /\ ns \in Statements /\ WellFormed(ns) /\ Legal[ns, AtTop(InSpan(pos))]
  <2>1. ns \in Statements /\ WellFormed(ns)
        /\ (pos <= Len(module) => Legal[ns, AtTop(InSpan(pos))])
        /\ (~(pos <= Len(module)) => ns.s = "proc")
    BY <1>1, <1>2, UnitFacts
  <2> QED BY <1>1, <2>1
<1> HIDE DEF ns
<1>4. ns.body \in Seq(Statements)
  BY <1>1, <1>3 DEF WellFormed
<1>5. \A i \in procs : AllLegal(ns.body[i].body, InProc(ns.body[i]))
  <2>1. AtTop(InSpan(pos)) \in Contexts
    <3>1. InSpan(pos) \in BOOLEAN
      BY DEF InSpan
    <3> QED BY <3>1 DEF AtTop, Contexts
  <2>2. LegalStep(Legal, ns, AtTop(InSpan(pos)))
    BY <1>3, <2>1, LegalIs
  <2> QED BY <1>1, <2>2 DEF LegalStep, AllLegal
<1>6. ASSUME NEW i \in procs, NEW t \in Tokens(i), NEW k PROVE InBody(t, k)
  <2> DEFINE st == ns.body[i]
             known == arrays \cup ArraysBefore(ns.body, i)
  <2>1. st \in Statements /\ st.s = "proc"
    BY <1>4
  <2>2. known \in SUBSET ArrayNames
    BY <1>2, <1>4, ArraysInNamed
  <2>3. AllLegal(st.body, InProc(st)) /\ t \in ProcTokens(st, known)
    BY <1>5
  <2> HIDE DEF st, known
  <2>4. AllLegal(st.body, IF FALSE THEN [InProc(st) EXCEPT !.loops = @ \cup LoopKinds] ELSE InProc(st))
    BY <2>3
  <2>5. /\ t[1] # "goto"
        /\ t[1] = "throw" => t[2] \in {"proc", "array"} \/ (t[2] = "EXIT" /\ FALSE)
    BY <2>1, <2>2, <2>3, <2>4, ProcFine
  <2> QED BY <2>5 DEF InBody
<1>7. \A k \in DOMAIN new : \A t \in new[k] : InBody(t, k)
  <2> SUFFICES ASSUME NEW k \in DOMAIN new, NEW t \in new[k] PROVE InBody(t, k)
    OBVIOUS
  <2>1. t \in UNION {Tokens(i) : i \in named(k[2])}
    OBVIOUS
  <2>2. PICK i \in named(k[2]) : t \in Tokens(i)
    BY <2>1
  <2> HIDE DEF Tokens
  <2> QED BY <1>6, <2>2
<1>8. \A t \in misses : InMain(t)
  BY <1>2, <1>4, GlobalTokensMiss, MissInMain
<1> HIDE DEF new, misses
<1>9. /\ IsOut(out') /\ out'.main = out.main \cup misses /\ out'.subs = out.subs
      /\ out'.procs = Merge(new, out.procs)
  BY <1>1, <1>2 DEF IsOut
<1>10. \A k \in DOMAIN out'.procs : \A t \in out'.procs[k] :
         (k \in DOMAIN out.procs /\ t \in out.procs[k]) \/ InBody(t, k)
  BY <1>7, <1>9 DEF Merge
<1>11. arrays' \subseteq ArrayNames
  BY <1>1, <1>2, <1>4, ArraysInNamed
<1>12. Unit(pos).s # "label"
  BY <1>1 DEF ns
<1> QED BY <1>1, <1>2, <1>9, <1>10, <1>11, <1>12, <1>8, CodeGrows

LEMMA StatementCode == ASSUME Ready, GenStatement PROVE CodeInv'
<1> DEFINE st == Unit(pos)
           tokens == genStmt[st, {}, arrays]
<1>1. /\ stage = "generate" /\ stage' \in {"generate", "crashed"} /\ pos <= Units
      /\ st.s \notin {"label", "proc", "type", "ns"}
      /\ UNCHANGED <<module, tables>> /\ pos' = pos + 1 /\ open' = open
      /\ arrays' = arrays \cup ArraysOf[st]
      /\ open # None => out' = [out EXCEPT !.subs[open] = @ \cup tokens]
      /\ open = None => out' = [out EXCEPT !.main = @ \cup tokens]
  BY DEF GenStatement, At2, Emit, Survives, Into
<1>2. /\ TypeInv /\ KeysInv /\ EndInv /\ TargetInv /\ CodeInv /\ pos \in Nat /\ pos > 0 /\ IsOut(out)
      /\ arrays \in SUBSET ArrayNames /\ OpenInv
      /\ \A i \in DOMAIN module : HasTarget(module[i])
      /\ T.labels = NamesOf(module, "label") /\ T.gosubs = NamesOf(module, "gosub")
  BY <1>1, ReadyFacts
<1>3. /\ pos <= Len(module) /\ st = module[pos] /\ pos \in DOMAIN module /\ st \in Statements
      /\ Legal[st, AtTop(InSpan(pos))] /\ Len(module) \in Nat
  <2>1. /\ st \in Statements /\ Len(module) \in Nat
        /\ (pos <= Len(module) => /\ st = module[pos] /\ pos \in DOMAIN module
                                  /\ Legal[st, AtTop(InSpan(pos))])
        /\ (~(pos <= Len(module)) => st.s = "proc")
    BY <1>1, <1>2, UnitFacts
  <2> QED BY <1>1, <2>1
<1>4. /\ open # None <=> InSpan(pos)
      /\ open # None => open \in DOMAIN out.subs
  <2>1. pos <= Len(module) + 1
    <3>1. pos \in Nat /\ Len(module) \in Nat /\ pos <= Len(module)
      BY <1>2, <1>3
    <3> HIDE DEF st, tokens
    <3> QED BY <3>1
  <2> QED BY <1>1, <1>2, <2>1 DEF OpenInv
<1> HIDE DEF st
<1>5. ASSUME NEW t \in tokens PROVE Jumped(t) /\ t # <<"return", TRUE>> /\ (t[1] = "return" => open # None)
  <2>0. InSpan(pos) \in BOOLEAN
    BY DEF InSpan
  <2>1. /\ t[1] \in {"goto", "gosub", "label"} => t = <<st.s, st.x>>
        /\ t[1] = "return" => InSpan(pos) /\ t # <<"return", TRUE>>
        /\ t[1] = "throw" => t[2] \in {"proc", "array"}
    <3> DEFINE span == InSpan(pos)
    <3>1. span \in BOOLEAN /\ Legal[st, AtTop(span)]
      BY <1>3, <2>0
    <3>2. t \in genStmt[st, {}, arrays]
      OBVIOUS
    <3> HIDE DEF span, tokens
    <3>3. st \in Statements /\ st.s \notin {"proc", "type", "ns"} /\ arrays \in SUBSET ArrayNames
      BY <1>1, <1>2, <1>3
    <3>4. /\ t[1] \in {"goto", "gosub", "label"} => t = <<st.s, st.x>>
          /\ t[1] = "return" => span /\ t # <<"return", TRUE>>
          /\ t[1] = "throw" => t[2] \in {"proc", "array"}
      BY <3>1, <3>2, <3>3, TopTokens, Zenon
    <3> QED BY <3>4 DEF span
  <2>2. t # <<"return", TRUE>>
    <3>1. <<"return", TRUE>>[1] = "return"
      OBVIOUS
    <3> QED BY <2>1, <3>1
  <2>3. \A a, b : <<a, b>>[1] = a /\ <<a, b>>[2] = b
    OBVIOUS
  <2>4. t[1] \in {"goto", "gosub"} => t[1] = st.s /\ t[2] = st.x
    <3> HIDE DEF tokens
    <3>1. t = <<st.s, st.x>> => t[1] = st.s /\ t[2] = st.x
      OBVIOUS
    <3> QED BY <2>1, <3>1
  <2>5. HasTarget(st)
    BY <1>2, <1>3
  <2>6. st.s \in {"goto", "gosub"} => st.x \in T.labels /\ st.x \in NamesOf(module, st.s)
    <3>1. st.x \in NamesOf(module, st.s)
      BY <1>3 DEF NamesOf, Where
    <3> QED BY <2>5, <3>1 DEF HasTarget
  <2>7. Jumped(t)
    <3>1. t[1] = "goto" => t[2] \in T.labels /\ t[2] \in NamesOf(module, "goto")
      BY <2>4, <2>6
    <3>2. t[1] = "gosub" => t[2] \in T.labels /\ t[2] \in T.gosubs
      BY <1>2, <2>4, <2>6
    <3> QED BY <2>1, <3>1, <3>2 DEF Jumped
  <2> QED BY <1>4, <2>1, <2>2, <2>7
<1> HIDE DEF tokens
<1>6. /\ IsOut(out') /\ out'.procs = out.procs
      /\ open # None => out'.main = out.main /\ out'.subs = [out.subs EXCEPT ![open] = @ \cup tokens]
      /\ open = None => out'.main = out.main \cup tokens /\ out'.subs = out.subs
  <2>1. CASE open # None
    BY <1>1, <1>2, <2>1 DEF IsOut
  <2>2. CASE open = None
    BY <1>1, <1>2, <2>2 DEF IsOut
  <2> QED BY <2>1, <2>2
<1>7. /\ DOMAIN out'.subs = DOMAIN out.subs
      /\ \A x \in DOMAIN out.subs : out'.subs[x] = out.subs[x] \/ (open # None /\ out'.subs[x] = out.subs[x] \cup tokens)
  <2>1. CASE open # None
    BY <1>6, <2>1
  <2>2. CASE open = None
    BY <1>6, <2>2
  <2> QED BY <2>1, <2>2
<1>8. out.main \subseteq out'.main /\ \A t \in out'.main : t \in out.main \/ InMain(t)
  BY <1>5, <1>6 DEF InMain
<1>9. \A x \in DOMAIN out.subs : \A t \in out'.subs[x] : t \in out.subs[x] \/ InSub(t)
  BY <1>5, <1>7 DEF InSub
<1>10. arrays' \subseteq ArrayNames
  BY <1>1, <1>2, <1>3, ArraysNamed
<1>11. Unit(pos).s # "label"
  BY <1>1 DEF st
<1>12. \A k \in DOMAIN out'.procs : \A t \in out'.procs[k] :
         (k \in DOMAIN out.procs /\ t \in out.procs[k]) \/ InBody(t, k)
  BY <1>6
<1> QED BY <1>1, <1>2, <1>6, <1>7, <1>8, <1>9, <1>10, <1>11, <1>12, CodeGrows

LEMMA EndCode == ASSUME Ready, GenEnd PROVE CodeInv'
<1>1. /\ stage = "generate" /\ stage' = "written" /\ pos > Units
      /\ UNCHANGED <<module, tables, pending, pos, arrays, out>>
  BY DEF GenEnd
<1>2. /\ TypeInv /\ pos \in Nat /\ pos > 0 /\ IsOut(out) /\ arrays \in SUBSET ArrayNames /\ TokenInv
  BY <1>1, ReadyFacts
<1>3. pos > Len(module)
  <2>1. Len(module) \in Nat /\ Len(pending) \in Nat
    BY <1>2, ModuleFacts, SeqDomain DEF TypeInv
  <2> QED BY <1>1, <1>2, <2>1 DEF Units
<1>4. T' = T /\ \A t : (InMain(t)' <=> InMain(t)) /\ (InSub(t)' <=> InSub(t))
  BY <1>1, SameJumps
<1>5. TokenInv'
  BY <1>1, <1>2, <1>4 DEF TokenInv, InBody, Defined
<1>6. OpenInv'
  BY <1>1 DEF OpenInv
<1> QED BY <1>1, <1>2, <1>3, <1>5, <1>6 DEF CodeInv, IsOut

LEMMA CodeNext == ASSUME Ready, StartInv, [Next]_vars PROVE CodeInv'
<1>0. TypeInv
  BY DEF Ready
<1>1. CASE CodegenNext
  BY <1>1, LabelCode, GlobalCode, TypeCode, ProcCode, SpaceCode, StatementCode, EndCode DEF CodegenNext
<1>2. CASE UNCHANGED vars \/ Terminated
  <2>1. UNCHANGED <<module, tables, pos, open, arrays, out, stage>>
    BY <1>2 DEF vars, Terminated
  <2>2. T' = T /\ \A t : (InMain(t)' <=> InMain(t)) /\ (InSub(t)' <=> InSub(t))
    BY <2>1, SameJumps
  <2>3. TokenInv' <=> TokenInv
    BY <2>1, <2>2 DEF TokenInv, InBody, Defined
  <2>4. OpenInv' <=> OpenInv
    BY <2>1, <2>2 DEF OpenInv, InSpan
  <2>5. CodeInv
    BY DEF Ready
  <2> QED BY <2>1, <2>3, <2>4, <2>5 DEF CodeInv, IsOut
<1>3. CASE Step(CollectNames) \/ Step(CollectTypes)
  <2>1. stage' \in {"collect types", "check"}
    BY <1>3 DEF Step, CollectNames, CollectTypes
  <2> QED BY <2>1 DEF CodeInv, Generating
<1>4. CASE stage = "check" /\ ~Ends
  <2>1. stage' = "check"
    BY <1>0, <1>4, WalkSteps DEF Takes, Effects, Same, Requests
  <2> QED BY <2>1 DEF CodeInv, Generating
<1>5. CASE stage = "check" /\ Ends
  <2>1. UNCHANGED <<module, pos, open, arrays, out>> /\ stage' # "written"
    BY <1>5 DEF Ends
  <2>2. /\ pos = 1 /\ open = None /\ arrays = {}
        /\ out = [types |-> <<>>, main |-> {}, subs |-> <<>>, procs |-> <<>>, inside |-> {}]
    BY <1>5 DEF StartInv, Walking
  <2>3. OpenInv'
    <3>1. ~InSpan(1)'
      <4>1. 1..(1 - 1) = {}
        OBVIOUS
      <4> QED BY <4>1 DEF InSpan
    <3>2. pos' = 1 /\ open' = None
      BY <2>1, <2>2
    <3>3. ~InSpan(pos)'
      BY <3>1, <3>2
    <3> QED BY <3>2, <3>3 DEF OpenInv
  <2>4. TokenInv'
    <3>1. out'.main = {} /\ out'.subs = <<>> /\ out'.procs = <<>> /\ pos' = 1
      BY <2>1, <2>2
    <3>2. DOMAIN out'.subs = {} /\ DOMAIN out'.procs = {}
      BY <3>1
    <3>3. DOMAIN module \subseteq Nat \ {0}
      BY <1>0, ModuleFacts
    <3>4. \A j \in DOMAIN module' : ~(j < pos')
      BY <2>1, <3>1, <3>3
    <3> QED BY <3>1, <3>2, <3>4 DEF TokenInv
  <2>5. IsOut(out)' /\ (pos \in Nat /\ pos > 0)' /\ arrays' \subseteq ArrayNames
    BY <2>1, <2>2 DEF IsOut
  <2> QED BY <2>1, <2>3, <2>4, <2>5 DEF CodeInv
<1> QED BY <1>0, <1>1, <1>2, <1>3, <1>4, <1>5, StageSteps

\* What Sema accepts, the code generator puts where C++ allows it: for any
\* program, no RETURN ends up in main, every GOTO and GOSUB of main finds what
\* it jumps to, a RETURN with a value stays in functions.  Sema's flag for the
\* span of a GOSUB target and the generator's open function never differ.
THEOREM JumpsCorrect == Spec => []JumpsLand
<1> DEFINE Walk == TypeInv /\ PosInv /\ SpanEq /\ HiInv /\ LoInv /\ EarlyInv /\ EndInv
           IInv == Walk /\ KeysInv /\ StartInv /\ TargetInv /\ CodeInv
<1>1. Init => IInv
  <2> SUFFICES ASSUME Init PROVE IInv
    OBVIOUS
  <2>1. /\ TypeInv /\ stage = "collect" /\ diags = {} /\ pos = 1 /\ open = None /\ arrays = {}
        /\ work = <<>> /\ pending = <<>>
        /\ out = [types |-> <<>>, main |-> {}, subs |-> <<>>, procs |-> <<>>, inside |-> {}]
    BY TypeInit DEF Init, SemaInit
  <2>2. Clean(diags)
    BY <2>1 DEF Clean
  <2>3. Walk
    BY <2>1, <2>2 DEF PosInv, SpanEq, HiInv, LoInv, EarlyInv, EndInv, Collecting
  <2>4. KeysInv
    BY <2>1 DEF KeysInv
  <2>5. StartInv /\ TargetInv /\ CodeInv
    BY <2>1 DEF StartInv, TargetInv, CodeInv, Generating, Collecting
  <2> QED BY <2>3, <2>4, <2>5
<1>2. IInv /\ [Next]_vars => IInv'
  <2> SUFFICES ASSUME IInv, [Next]_vars PROVE IInv'
    OBVIOUS
  <2>1. Walk'
    BY TypeNext, VerdictNext
  <2>2. KeysInv' /\ StartInv' /\ TargetInv'
    BY KeysNext, StartNext, TargetNext
  <2>3. CodeInv'
    BY CodeNext DEF Ready
  <2> QED BY <2>1, <2>2, <2>3
<1>3. IInv => JumpsLand
  <2> SUFFICES ASSUME TypeInv, TargetInv, CodeInv, stage = "written" PROVE JumpsLand
    BY DEF JumpsLand
  <2>1. /\ TokenInv /\ pos \in Nat /\ pos > Len(module) /\ OneUse
        /\ T.labels = NamesOf(module, "label") /\ T.gosubs = NamesOf(module, "gosub")
        /\ Len(module) \in Nat /\ DOMAIN module = 1..Len(module)
    BY ModuleFacts DEF CodeInv, TargetInv, Generating, Collecting, TypeInv
  <2>2. \A x \in T.labels : IF x \in T.gosubs THEN x \in DOMAIN out.subs ELSE <<"label", x>> \in out.main
    <3> SUFFICES ASSUME NEW x \in T.labels
                 PROVE  IF x \in T.gosubs THEN x \in DOMAIN out.subs ELSE <<"label", x>> \in out.main
      OBVIOUS
    <3>1. PICK j \in DOMAIN module : module[j].s = "label" /\ module[j].x = x
      BY <2>1 DEF NamesOf, Where
    <3>2. j < pos
      BY <2>1
    <3> QED BY <2>1, <3>1, <3>2 DEF TokenInv, Defined
  <2>3. \A a, b : <<a, b>>[1] = a /\ <<a, b>>[2] = b
    OBVIOUS
  <2>4. \A v \in BOOLEAN : <<"return", v>> \notin out.main
    BY <2>1, <2>3 DEF TokenInv, InMain
  <2>5. \A t \in out.main : t[1] = "goto" => <<"label", t[2]>> \in out.main
    BY <2>1, <2>2 DEF TokenInv, InMain, Jumped, OneUse
  <2>6. \A t \in out.main \cup UNION {out.subs[x] : x \in DOMAIN out.subs} :
           t[1] = "gosub" => t[2] \in DOMAIN out.subs
    <3>1. \A t \in out.main \cup UNION {out.subs[x] : x \in DOMAIN out.subs} : Jumped(t)
      BY <2>1 DEF TokenInv, InMain, InSub
    <3> QED BY <2>2, <3>1 DEF Jumped
  <2>7. \A x \in DOMAIN out.subs : <<"return", TRUE>> \notin out.subs[x]
    BY <2>1 DEF TokenInv, InSub
  <2>8. \A k \in DOMAIN out.procs : out.procs[k] \cap {<<"goto", x>> : x \in T.labels} = {}
    BY <2>1, <2>3 DEF TokenInv, InBody
  <2> QED BY <2>4, <2>5, <2>6, <2>7, <2>8 DEF JumpsLand
<1> QED BY <1>1, <1>2, <1>3, PTL DEF Spec

-----------------------------------------------------------------------------
(* OnlyInstancesThrow: where a statement stands, the generator knows every   *)
(* array that Sema knew when it was there.                                   *)

IsMiss(t) == t[1] = "throw" /\ t[2] = "array"
\* With these arrays known, or more, no array is missed.
Quiet(st, K) ==
    \A loops \in SUBSET Breakable, known \in SUBSET ArrayNames :
       K \subseteq known => \A t \in genStmt[st, loops, known] : ~IsMiss(t)
BodyQuiet(b, K) == \A i \in DOMAIN b : Quiet(b[i], K \cup ArraysBefore(b, i))
SpaceQuiet(b, K) ==
    \A i \in DOMAIN b :
        /\ b[i].s = "proc" => BodyQuiet(b[i].body, K \cup ArraysBefore(b, i))
        /\ b[i].s \in Globals => Quiet(b[i], K \cup ArraysBefore(b, i))

\* The expressions that Sema checks when it takes a part of a statement.
Heard(t) == CASE t.s = "if"   -> ToSet(t.conds)
              [] t.s = "arm"  -> ToSet(t.matches)
              [] t.s = "post" -> {t.e}
              [] OTHER -> Spoken(t)

\* The same of what is on the stack: a part of a statement, in a block.
TaskArrays(t, ends) ==
    IF t.s = "post" THEN {}
    ELSE IF t.s \in {"arm", "round"} \/ (t.s = "ns" /\ ends = "module") THEN ArraysIn(t.body)
    ELSE ArraysOf[t]
ArraysTo(todo, ends, i) == UNION {TaskArrays(todo[j], ends) : j \in 1..(i - 1)}
Left(f) == UNION {TaskArrays(f.todo[j], f.ends) : j \in DOMAIN f.todo}
TaskQuiet(t, K, ends) ==
    IF ends = "namespace" THEN /\ t.s = "proc" => BodyQuiet(t.body, K)
                               /\ t.s \in Globals => Quiet(t, K)
    ELSE IF t.s \in {"arm", "round", "post"}
    THEN Asked(Heard(t)) \subseteq K /\ (t.s # "post" => BodyQuiet(t.body, K))
    ELSE IF ends = "module" /\ t.s = "ns" THEN SpaceQuiet(t.body, K)
    ELSE IF ends = "module" /\ t.s = "proc" THEN t.generic = None => BodyQuiet(t.body, K)
    ELSE Quiet(t, K)
TasksQuiet(todo, K, ends) ==
    \A i \in DOMAIN todo : TaskQuiet(todo[i], K \cup ArraysTo(todo, ends, i), ends)

\* More arrays do no harm.
LEMMA QuietMore ==
    ASSUME NEW K, NEW M, K \subseteq M
    PROVE  /\ \A st : Quiet(st, K) => Quiet(st, M)
           /\ \A b : BodyQuiet(b, K) => BodyQuiet(b, M)
           /\ \A t, ends : TaskQuiet(t, K, ends) => TaskQuiet(t, M, ends)
           /\ \A todo, ends : TasksQuiet(todo, K, ends) => TasksQuiet(todo, M, ends)
<1>1. ASSUME NEW A, NEW B, A \subseteq B PROVE \A st : Quiet(st, A) => Quiet(st, B)
  BY <1>1 DEF Quiet
<1>2. ASSUME NEW A, NEW B, A \subseteq B PROVE \A b : BodyQuiet(b, A) => BodyQuiet(b, B)
  <2>1. \A b, i : A \cup ArraysBefore(b, i) \subseteq B \cup ArraysBefore(b, i)
    BY <1>2
  <2> QED BY <1>1, <2>1 DEF BodyQuiet
<1>3. ASSUME NEW A, NEW B, A \subseteq B PROVE \A b : SpaceQuiet(b, A) => SpaceQuiet(b, B)
  <2>1. \A b, i : A \cup ArraysBefore(b, i) \subseteq B \cup ArraysBefore(b, i)
    BY <1>3
  <2> QED BY <1>1, <1>2, <2>1 DEF SpaceQuiet
<1>4. ASSUME NEW A, NEW B, A \subseteq B, NEW t, NEW ends, TaskQuiet(t, A, ends)
      PROVE  TaskQuiet(t, B, ends)
  <2>1. /\ Quiet(t, A) => Quiet(t, B)
        /\ BodyQuiet(t.body, A) => BodyQuiet(t.body, B)
        /\ SpaceQuiet(t.body, A) => SpaceQuiet(t.body, B)
    BY <1>1, <1>2, <1>3, <1>4
  <2> QED BY <1>4, <2>1 DEF TaskQuiet
<1>5. \A todo, ends : TasksQuiet(todo, K, ends) => TasksQuiet(todo, M, ends)
  <2>1. \A todo, ends, i : K \cup ArraysTo(todo, ends, i) \subseteq M \cup ArraysTo(todo, ends, i)
    OBVIOUS
  <2> QED BY <1>4, <2>1 DEF TasksQuiet
<1> QED BY <1>1, <1>2, <1>4, <1>5

\* A body whose statements are the tasks of a block.
LEMMA QuietBody ==
    ASSUME NEW b \in Seq(Statements), NEW K
    PROVE  /\ \A ends : ends \notin {"module", "namespace"} => (TasksQuiet(b, K, ends) <=> BodyQuiet(b, K))
           /\ TasksQuiet(b, K, "namespace") <=> SpaceQuiet(b, K)
           /\ \A f : f.todo = b /\ f.ends # "module" => Left(f) = ArraysIn(b)
<1>1. \A i \in DOMAIN b : b[i] \in Statements /\ b[i].s \notin {"arm", "round", "post"}
  BY StatementsAssumption DEF WellFormed, Leaves, Nests
<1>2. \A i \in DOMAIN b : \A ends : ends # "module" => TaskArrays(b[i], ends) = ArraysOf[b[i]]
  BY <1>1 DEF TaskArrays
<1>3. \A i \in DOMAIN b : 1..(i - 1) \subseteq DOMAIN b
  OBVIOUS
<1>4. ASSUME NEW i \in DOMAIN b, NEW ends, ends # "module"
      PROVE  ArraysTo(b, ends, i) = ArraysBefore(b, i)
  <2>1. \A j \in 1..(i - 1) : TaskArrays(b[j], ends) = ArraysOf[b[j]]
    BY <1>2, <1>3, <1>4
  <2> QED BY <2>1 DEF ArraysTo, ArraysBefore
<1>5. ASSUME NEW ends, ends \notin {"module", "namespace"}
      PROVE  TasksQuiet(b, K, ends) <=> BodyQuiet(b, K)
  <2>1. \A i \in DOMAIN b : TaskQuiet(b[i], K \cup ArraysTo(b, ends, i), ends)
                            <=> Quiet(b[i], K \cup ArraysBefore(b, i))
    BY <1>1, <1>4, <1>5 DEF TaskQuiet
  <2> QED BY <2>1 DEF TasksQuiet, BodyQuiet
<1>6. TasksQuiet(b, K, "namespace") <=> SpaceQuiet(b, K)
  <2>1. \A i \in DOMAIN b : TaskQuiet(b[i], K \cup ArraysTo(b, "namespace", i), "namespace")
                            <=> /\ b[i].s = "proc" => BodyQuiet(b[i].body, K \cup ArraysBefore(b, i))
                                /\ b[i].s \in Globals => Quiet(b[i], K \cup ArraysBefore(b, i))
    BY <1>4 DEF TaskQuiet
  <2> QED BY <2>1 DEF TasksQuiet, SpaceQuiet
<1>7. \A f : f.todo = b /\ f.ends # "module" => Left(f) = ArraysIn(b)
  BY <1>2 DEF Left, ArraysIn
<1> QED BY <1>5, <1>6, <1>7

\* No array is missed when those that are asked for are known.
LEMMA NoMiss ==
    ASSUME NEW st, NEW K, NEW known, K \subseteq known, Indexes(st) => st.x \in K,
           Asked(Spoken(st)) \subseteq K,
           \A j \in 1..(Len(Parts(st)) + 1) : Asked(SpokenAt(st, j)) \subseteq K \cup PartsArrays(st, j)
    PROVE  Missed(st, known) = {}
BY DEF Missed

\* A statement without blocks misses no array but those it asks for.
LEMMA LeafQuiet ==
    ASSUME NEW st \in Statements, NEW K, st.s \in Leaves \cup {"proc", "ns"},
           Indexes(st) => st.x \in K, Asked(Spoken(st)) \subseteq K
    PROVE  Quiet(st, K)
<1> SUFFICES ASSUME NEW loops \in SUBSET Breakable, NEW known \in SUBSET ArrayNames, K \subseteq known,
                    NEW t \in genStmt[st, loops, known]
             PROVE  ~IsMiss(t)
  BY DEF Quiet
<1>1. t \in GenStep(genStmt, st, loops, known)
  BY RecursionAssumption
<1>2. Missed(st, known) = {}
  <2>1. \A j : SpokenAt(st, j) = {}
    BY DEF SpokenAt, Leaves
  <2>2. Asked({}) = {}
    BY DEF Asked
  <2> QED BY <2>1, <2>2, NoMiss
<1>3. CASE st.s \in {"goto", "gosub", "label"}
  <2>1. t = <<st.s, st.x>>
    BY <1>1, <1>2, <1>3 DEF GenStep
  <2>2. t[1] = st.s
    BY <2>1
  <2> QED BY <1>3, <2>2 DEF IsMiss
<1>4. CASE st.s = "return"
  <2>1. t = <<"return", st.e # NoExpr>>
    BY <1>1, <1>2, <1>4 DEF GenStep
  <2>2. t[1] = "return"
    BY <2>1
  <2> QED BY <2>2 DEF IsMiss
<1>5. CASE st.s = "exit"
  <2>1. t = genExit(st.what, loops)
    BY <1>1, <1>2, <1>5 DEF GenStep
  <2>2. t \in {<<"leave", st.what>>, <<"break", st.what>>, <<"throw", "EXIT">>}
    BY <2>1 DEF genExit
  <2>3. \A x : /\ <<"leave", x>>[1] = "leave" /\ <<"break", x>>[1] = "break"
               /\ <<"throw", "EXIT">>[2] = "EXIT"
    OBVIOUS
  <2> QED BY <2>2, <2>3 DEF IsMiss
<1>6. CASE st.s \in {"proc", "type", "ns"}
  <2>1. t = <<"throw", st.s>>
    BY <1>1, <1>2, <1>6 DEF GenStep
  <2>2. t[2] = st.s
    BY <2>1
  <2> QED BY <1>6, <2>2 DEF IsMiss
<1>7. CASE st.s \notin {"goto", "gosub", "label", "return", "exit", "proc", "type", "ns"}
  <2>1. Parts(st) = <<>>
    BY <1>7, NoParts DEF Leaves
  <2>2. \E j \in DOMAIN Parts(st) :
           t \in BlockStep(genStmt, Parts(st)[j], LoopsIn(loops, st), known \cup PartsArrays(st, j))
    BY <1>1, <1>2, <1>7 DEF GenStep
  <2> QED BY <2>1, <2>2, NothingIn, Zenon
<1> QED BY <1>3, <1>4, <1>5, <1>6, <1>7

LEMMA PartSequence ==
    ASSUME NEW st \in Statements, NEW j \in DOMAIN Parts(st)
    PROVE  Parts(st)[j] \in Seq(Statements) /\ \A k \in 1..(j - 1) : Parts(st)[k] \in Seq(Statements)
<1>1. Parts(st) \in Seq(Seq(Statements))
  BY PartsType
<1> QED BY <1>1

\* The parts of a statement one after another, each with the arrays of those before.
LEMMA PartsQuiet ==
    ASSUME NEW st \in Statements, NEW K, st.s \in {"if", "select", "for", "do", "while"},
           \A j \in DOMAIN Parts(st) : BodyQuiet(Parts(st)[j], K \cup PartsArrays(st, j)),
           Asked(Spoken(st)) \subseteq K,
           \A j \in 1..(Len(Parts(st)) + 1) : Asked(SpokenAt(st, j)) \subseteq K \cup PartsArrays(st, j)
    PROVE  Quiet(st, K)
<1> SUFFICES ASSUME NEW loops \in SUBSET Breakable, NEW known \in SUBSET ArrayNames, K \subseteq known,
                    NEW t \in genStmt[st, loops, known]
             PROVE  ~IsMiss(t)
  BY DEF Quiet
<1>1. t \in GenStep(genStmt, st, loops, known)
  BY RecursionAssumption
<1>2. Missed(st, known) = {}
  <2>1. ~Indexes(st)
    BY DEF Indexes
  <2> QED BY <2>1, NoMiss
<1> DEFINE M(j) == known \cup PartsArrays(st, j)
           more == LoopsIn(loops, st)
<1>3. t \in UNION {BlockStep(genStmt, Parts(st)[j], more, M(j)) : j \in DOMAIN Parts(st)}
  BY <1>1, <1>2 DEF GenStep
<1>4. PICK j \in DOMAIN Parts(st) : t \in BlockStep(genStmt, Parts(st)[j], more, M(j))
  BY <1>3
<1>5. PICK i \in DOMAIN Parts(st)[j] :
         t \in genStmt[Parts(st)[j][i], more, M(j) \cup ArraysBefore(Parts(st)[j], i)]
  BY <1>4 DEF BlockStep
<1>6. Quiet(Parts(st)[j][i], (K \cup PartsArrays(st, j)) \cup ArraysBefore(Parts(st)[j], i))
  BY DEF BodyQuiet
<1>7. more \in SUBSET Breakable
  BY DEF LoopsIn, LoopOf, Breakable
<1>8. M(j) \cup ArraysBefore(Parts(st)[j], i) \in SUBSET ArrayNames
  <2>2. Parts(st)[j] \in Seq(Statements) /\ \A k \in 1..(j - 1) : Parts(st)[k] \in Seq(Statements)
    BY PartSequence
  <2>3. PartsArrays(st, j) \subseteq ArrayNames
    BY <2>2, ArraysInNamed DEF PartsArrays
  <2>4. ArraysBefore(Parts(st)[j], i) \subseteq ArrayNames
    BY <2>2, ArraysInNamed
  <2> QED BY <2>3, <2>4
<1>9. (K \cup PartsArrays(st, j)) \cup ArraysBefore(Parts(st)[j], i)
        \subseteq M(j) \cup ArraysBefore(Parts(st)[j], i)
  OBVIOUS
<1> HIDE DEF M, more
<1> QED BY <1>5, <1>6, <1>7, <1>8, <1>9 DEF Quiet

LEMMA ArraysOfParts ==
    ASSUME NEW st \in Statements
    PROVE  \A j \in DOMAIN Parts(st) : ArraysIn(Parts(st)[j]) \subseteq ArraysOf[st]
<1>1. ArraysOf[st] = ArraysStep(ArraysOf, st)
  BY RecursionAssumption
<1>2. \A j \in DOMAIN Parts(st) : ArraysIn(Parts(st)[j]) \subseteq ArraysStep(ArraysOf, st)
  BY DEF ArraysIn, ArraysStep
<1> QED BY <1>1, <1>2

LEMMA OnePart ==
    ASSUME NEW st \in Statements, st.s \in {"for", "do", "while"}, NEW K,
           Asked(Spoken(st)) \subseteq K,
           st.s = "do" => Asked({st.post}) \subseteq K \cup ArraysIn(st.body)
    PROVE  BodyQuiet(st.body, K) => Quiet(st, K)
<1>1. Parts(st) = <<st.body>>
  BY DEF Parts
<1>2. DOMAIN Parts(st) = {1} /\ Parts(st)[1] = st.body
  BY <1>1
<1>3. PartsArrays(st, 1) = {} /\ PartsArrays(st, 2) = ArraysIn(st.body)
  <2>1. 1..(1 - 1) = {} /\ 1..(2 - 1) = {1}
    OBVIOUS
  <2> QED BY <1>2, <2>1 DEF PartsArrays
<1>4. K \cup PartsArrays(st, 1) = K
  BY <1>3
<1>5. ASSUME NEW j \in 1..(Len(Parts(st)) + 1) PROVE Asked(SpokenAt(st, j)) \subseteq K \cup PartsArrays(st, j)
  <2>1. Asked({}) = {}
    BY DEF Asked
  <2>2. SpokenAt(st, j) = IF st.s = "do" /\ j = 2 THEN {st.post} ELSE {}
    BY DEF SpokenAt
  <2> QED BY <1>3, <2>1, <2>2
<1> SUFFICES ASSUME BodyQuiet(st.body, K) PROVE Quiet(st, K)
  OBVIOUS
<1>6. \A j \in DOMAIN Parts(st) : BodyQuiet(Parts(st)[j], K \cup PartsArrays(st, j))
  BY <1>2, <1>4
<1>7. st.s \in {"if", "select", "for", "do", "while"}
  OBVIOUS
<1> QED BY <1>5, <1>6, <1>7, PartsQuiet

LEMMA OneDeclares ==
    ASSUME NEW st \in Statements, st.s \in {"for", "do", "while"}
    PROVE  ArraysIn(st.body) \subseteq ArraysOf[st]
<1>1. Parts(st) = <<st.body>>
  BY DEF Parts
<1>2. DOMAIN Parts(st) = {1} /\ Parts(st)[1] = st.body
  BY <1>1
<1> QED BY <1>2, ArraysOfParts

\* The blocks of a statement declare what it declares, and miss what it misses.
LEMMA BlockArrays ==
    ASSUME TypeInv, Busy, ~InSpace, NEW todo, BlockTasks(Now, todo), NEW f, f.todo = todo, f.ends = "block"
    PROVE  /\ Left(f) \subseteq TaskArrays(Now, F.ends)
           /\ \A K : TasksQuiet(todo, K, "block") /\ Asked(Heard(Now)) \subseteq K
                    => TaskQuiet(Now, K, F.ends)
<1>1. IsTask(Now) /\ F.ends # "namespace"
  BY NowFacts DEF InSpace
<1>2. /\ Now.s \notin {"arm", "round", "post"} => Now \in Statements /\ WellFormed(Now)
      /\ Now.s \in {"arm", "round"} => Now.body \in Seq(Statements)
  BY <1>1, TaskStatement
<1>3. CASE Now.s = "arm" /\ todo = Now.body
  <2>1. TaskArrays(Now, F.ends) = ArraysIn(Now.body)
    BY <1>3 DEF TaskArrays
  <2>2. \A K : TaskQuiet(Now, K, F.ends) <=> Asked(Heard(Now)) \subseteq K /\ BodyQuiet(Now.body, K)
    BY <1>1, <1>3 DEF TaskQuiet
  <2> QED BY <1>2, <1>3, <2>1, <2>2, QuietBody
<1>4. CASE /\ Now.s \in {"if", "select"} /\ IsSeq(todo) /\ Len(todo) = Len(Parts(Now))
           /\ \A i \in DOMAIN todo : todo[i].s = "arm" /\ todo[i].body = Parts(Now)[i]
           /\ Now.s = "select" => \A i \in DOMAIN todo : todo[i].matches = Now.arms[i].matches
  <2>1. Now \in Statements
    BY <1>2, <1>4
  <2>2. DOMAIN todo = DOMAIN Parts(Now) /\ \A i \in DOMAIN todo : 1..(i - 1) \subseteq DOMAIN todo
    <3>1. Parts(Now) \in Seq(Seq(Statements))
      BY <2>1, PartsType
    <3>2. DOMAIN Parts(Now) = 1..Len(Parts(Now)) /\ DOMAIN todo = 1..Len(todo) /\ Len(todo) \in Nat
      BY <1>4, <3>1, SeqDomain
    <3>3. \A n \in Nat : \A i \in 1..n : 1..(i - 1) \subseteq 1..n
      OBVIOUS
    <3> QED BY <1>4, <3>2, <3>3
  <2>3. /\ TaskArrays(Now, F.ends) = ArraysOf[Now]
        /\ \A K : TaskQuiet(Now, K, F.ends) <=> Quiet(Now, K)
    BY <1>1, <1>4 DEF TaskArrays, TaskQuiet
  <2>4. \A i \in DOMAIN todo : TaskArrays(todo[i], "block") = ArraysIn(Parts(Now)[i])
    BY <1>4 DEF TaskArrays
  <2>5. Left(f) \subseteq ArraysOf[Now]
    BY <2>1, <2>2, <2>4, ArraysOfParts DEF Left
  <2>6. ASSUME NEW i \in DOMAIN todo PROVE ArraysTo(todo, "block", i) = PartsArrays(Now, i)
    <3>1. \A j \in 1..(i - 1) : TaskArrays(todo[j], "block") = ArraysIn(Parts(Now)[j])
      BY <2>2, <2>4
    <3> QED BY <3>1 DEF ArraysTo, PartsArrays
  <2>7. ASSUME NEW K, TasksQuiet(todo, K, "block"), Asked(Heard(Now)) \subseteq K PROVE Quiet(Now, K)
    <3>1. \A i \in DOMAIN todo : /\ BodyQuiet(todo[i].body, K \cup ArraysTo(todo, "block", i))
                                 /\ Asked(Heard(todo[i])) \subseteq K \cup ArraysTo(todo, "block", i)
      BY <1>4, <2>7 DEF TasksQuiet, TaskQuiet
    <3>2. \A i \in DOMAIN Parts(Now) : /\ BodyQuiet(Parts(Now)[i], K \cup PartsArrays(Now, i))
                                       /\ Asked(Heard(todo[i])) \subseteq K \cup PartsArrays(Now, i)
      BY <1>4, <2>2, <2>6, <3>1
    <3>3. Asked(Spoken(Now)) \subseteq K
      <4>1. Asked({}) = {}
        BY DEF Asked
      <4>2. Now.s = "if" => Spoken(Now) = {}
        BY DEF Spoken
      <4>3. Now.s = "select" => Heard(Now) = Spoken(Now)
        BY DEF Heard
      <4> QED BY <1>4, <2>7, <4>1, <4>2, <4>3
    <3>4. ASSUME NEW j \in 1..(Len(Parts(Now)) + 1)
          PROVE  Asked(SpokenAt(Now, j)) \subseteq K \cup PartsArrays(Now, j)
      <4>1. \A A, B : A \subseteq B => Asked(A) \subseteq Asked(B)
        BY DEF Asked
      <4>2. CASE Now.s = "if"
        <5>1. Heard(Now) = ToSet(Now.conds)
          BY <4>2 DEF Heard
        <5>2. SpokenAt(Now, j) \subseteq ToSet(Now.conds)
          BY <4>2 DEF SpokenAt, ToSet
        <5> QED BY <2>7, <4>1, <5>1, <5>2
      <4>3. CASE Now.s = "select"
        <5>1. DOMAIN Now.arms = DOMAIN Parts(Now)
          BY <4>3 DEF Parts
        <5>2. CASE j \in DOMAIN Now.arms
          <6>1. SpokenAt(Now, j) = ToSet(Now.arms[j].matches)
            BY <4>3, <5>2 DEF SpokenAt
          <6>2. j \in DOMAIN todo /\ todo[j].s = "arm" /\ todo[j].matches = Now.arms[j].matches
            BY <1>4, <2>2, <4>3, <5>1, <5>2
          <6>3. Heard(todo[j]) = ToSet(todo[j].matches)
            BY <6>2 DEF Heard
          <6> QED BY <3>2, <5>1, <5>2, <6>1, <6>2, <6>3
        <5>3. CASE j \notin DOMAIN Now.arms
          <6>1. SpokenAt(Now, j) = {}
            BY <4>3, <5>3 DEF SpokenAt
          <6>2. Asked({}) = {}
            BY DEF Asked
          <6> QED BY <6>1, <6>2
        <5> QED BY <5>2, <5>3
      <4> QED BY <1>4, <4>2, <4>3
    <3>5. \A i \in DOMAIN Parts(Now) : BodyQuiet(Parts(Now)[i], K \cup PartsArrays(Now, i))
      BY <3>2
    <3> QED BY <1>4, <2>1, <3>3, <3>4, <3>5, PartsQuiet
  <2> QED BY <2>3, <2>5, <2>7
<1>5. CASE /\ Now.s = "do"
           /\ todo = <<[s |-> "round", body |-> Now.body], [s |-> "post", e |-> Now.post]>>
  <2> DEFINE r == [s |-> "round", body |-> Now.body]
             p == [s |-> "post", e |-> Now.post]
  <2>1. /\ r.s = "round" /\ r.body = Now.body /\ p.s = "post" /\ p.e = Now.post
        /\ todo = <<r, p>>
    BY <1>5
  <2> HIDE DEF r, p
  <2>2. DOMAIN todo = {1, 2} /\ todo[1] = r /\ todo[2] = p
    BY <2>1
  <2>3. /\ TaskArrays(Now, F.ends) = ArraysOf[Now]
        /\ \A K : TaskQuiet(Now, K, F.ends) <=> Quiet(Now, K)
    BY <1>1, <1>5 DEF TaskArrays, TaskQuiet
  <2>4. TaskArrays(r, "block") = ArraysIn(Now.body) /\ TaskArrays(p, "block") = {}
    BY <2>1 DEF TaskArrays
  <2>5. Left(f) = ArraysIn(Now.body)
    BY <2>2, <2>4 DEF Left
  <2>6. ASSUME NEW K, TasksQuiet(todo, K, "block")
        PROVE  BodyQuiet(Now.body, K) /\ Asked({Now.post}) \subseteq K \cup ArraysIn(Now.body)
    <3>1. ArraysTo(todo, "block", 1) = {}
      <4>1. \A k : k \notin 1..(1 - 1)
        OBVIOUS
      <4> QED BY <4>1 DEF ArraysTo
    <3>2. K \cup ArraysTo(todo, "block", 1) = K
      BY <3>1
    <3>3. TaskQuiet(r, K, "block")
      BY <2>2, <2>6, <3>2 DEF TasksQuiet
    <3>4. BodyQuiet(Now.body, K)
      BY <2>1, <3>3 DEF TaskQuiet
    <3>5. ArraysTo(todo, "block", 2) = ArraysIn(Now.body)
      <4>1. 1..(2 - 1) = {1}
        OBVIOUS
      <4> QED BY <2>2, <2>4, <4>1 DEF ArraysTo
    <3>6. TaskQuiet(p, K \cup ArraysIn(Now.body), "block")
      BY <2>2, <2>6, <3>5 DEF TasksQuiet
    <3>7. Heard(p) = {Now.post}
      BY <2>1 DEF Heard
    <3> QED BY <2>1, <3>4, <3>6, <3>7 DEF TaskQuiet
  <2>7. Now \in Statements /\ Heard(Now) = Spoken(Now)
    BY <1>2, <1>5 DEF Heard
  <2>8. ArraysIn(Now.body) \subseteq ArraysOf[Now]
    BY <1>5, <2>7, OneDeclares
  <2>9. ASSUME NEW K, TasksQuiet(todo, K, "block"), Asked(Heard(Now)) \subseteq K PROVE Quiet(Now, K)
    <3>1. /\ Asked(Spoken(Now)) \subseteq K /\ BodyQuiet(Now.body, K)
          /\ Asked({Now.post}) \subseteq K \cup ArraysIn(Now.body)
      BY <2>6, <2>7, <2>9
    <3> QED BY <1>5, <2>7, <3>1, OnePart
  <2> QED BY <2>3, <2>5, <2>8, <2>9
<1> QED BY <1>3, <1>4, <1>5 DEF BlockTasks

LEMMA LoopArrays ==
    ASSUME TypeInv, Busy, ~InSpace, NEW kind, LoopTask(Now, kind), NEW f, f.todo = Now.body, f.ends = "loop"
    PROVE  /\ Left(f) \subseteq TaskArrays(Now, F.ends)
           /\ \A K : TasksQuiet(Now.body, K, "loop") /\ Asked(Heard(Now)) \subseteq K
                    => TaskQuiet(Now, K, F.ends)
<1>1. IsTask(Now) /\ F.ends # "namespace"
  BY NowFacts DEF InSpace
<1>2. /\ Now.s \notin {"arm", "round", "post"} => Now \in Statements /\ WellFormed(Now)
      /\ Now.s \in {"arm", "round"} => Now.body \in Seq(Statements)
  BY <1>1, TaskStatement
<1>3. Now.s \in {"for", "while", "round"}
  BY DEF LoopTask
<1>4. Now.body \in Seq(Statements)
  BY <1>2, <1>3 DEF WellFormed
<1>5. Left(f) = ArraysIn(Now.body) /\ \A K : TasksQuiet(Now.body, K, "loop") <=> BodyQuiet(Now.body, K)
  BY <1>4, QuietBody
<1>6. CASE Now.s = "round"
  BY <1>1, <1>5, <1>6 DEF TaskArrays, TaskQuiet
<1>7. CASE Now.s # "round"
  <2>1. /\ TaskArrays(Now, F.ends) = ArraysOf[Now]
        /\ \A K : TaskQuiet(Now, K, F.ends) <=> Quiet(Now, K)
    BY <1>1, <1>3, <1>7 DEF TaskArrays, TaskQuiet
  <2>2. Now \in Statements /\ Now.s \in {"for", "do", "while"} /\ Now.s # "do" /\ Heard(Now) = Spoken(Now)
    BY <1>2, <1>3, <1>7 DEF Heard
  <2>3. ArraysIn(Now.body) \subseteq ArraysOf[Now]
    BY <2>2, OneDeclares
  <2>4. \A K : BodyQuiet(Now.body, K) /\ Asked(Spoken(Now)) \subseteq K => Quiet(Now, K)
    BY <2>2, OnePart
  <2> QED BY <1>5, <2>1, <2>2, <2>3, <2>4
<1> QED BY <1>6, <1>7

LEMMA BodyArrays ==
    ASSUME TypeInv, Busy, BodyShape
    PROVE  \A K : TasksQuiet(Now.body, K, "body") => TaskQuiet(Now, K, F.ends)
<1>1. IsTask(Now) /\ IsFrame(F)
  BY NowFacts
<1>2. Now.s = "proc" /\ F.ends \in {"module", "namespace"}
  BY <1>1 DEF BodyShape, IsFrame
<1>3. Now.body \in Seq(Statements)
  BY <1>1, <1>2, TaskStatement DEF WellFormed
<1>4. \A K : TasksQuiet(Now.body, K, "body") <=> BodyQuiet(Now.body, K)
  BY <1>3, QuietBody
<1> QED BY <1>2, <1>4 DEF TaskQuiet, Globals

LEMMA SpaceArrays ==
    ASSUME TypeInv, Busy, SpaceShape, NEW f, f.todo = Now.body, f.ends = "namespace"
    PROVE  /\ Left(f) \subseteq TaskArrays(Now, F.ends)
           /\ \A K : TasksQuiet(Now.body, K, "namespace") => TaskQuiet(Now, K, F.ends)
<1>1. IsTask(Now) /\ IsFrame(F)
  BY NowFacts
<1>2. Now.s = "ns" /\ F.ends = "module"
  BY <1>1 DEF SpaceShape, IsFrame, InSpace
<1>3. Now.body \in Seq(Statements)
  BY <1>1, <1>2, TaskStatement DEF WellFormed
<1>4. Left(f) = ArraysIn(Now.body) /\ \A K : TasksQuiet(Now.body, K, "namespace") <=> SpaceQuiet(Now.body, K)
  BY <1>3, QuietBody
<1> QED BY <1>2, <1>4 DEF TaskQuiet, TaskArrays

\* What Sema finds to be an array is one of the scope.
LEMMA FoundArray ==
    ASSUME IsScope(S), NEW x, lookupSymbol(S, x).array
    PROVE  x \in GArr(S) \cup LArr(S)
<1>1. CASE <<x>> \in DOMAIN S.locals
  <2> DEFINE k == <<x>>
  <2>1. k \in DOMAIN S.locals /\ S.locals[k].array
    BY <1>1 DEF lookupSymbol
  <2>2. k[Len(k)] = x
    OBVIOUS
  <2> HIDE DEF k
  <2> QED BY <2>1, <2>2 DEF LArr
<1>2. CASE <<x>> \notin DOMAIN S.locals
  <2>1. FindQualified(S, S.symbols, x, NoSymbol).array
    BY <1>2 DEF lookupSymbol
  <2>2. \E k \in {<<x>>, qualifiedKey(S, x)} : k \in DOMAIN S.symbols /\ S.symbols[k].array
    BY <2>1 DEF FindQualified, NoSymbol
  <2>3. \A k \in {<<x>>, qualifiedKey(S, x)} : k[Len(k)] = x
    <3>1. <<x>>[Len(<<x>>)] = x
      OBVIOUS
    <3>2. CASE S.prefix = <<>>
      <4>1. qualifiedKey(S, x) = <<x>>
        BY <3>2 DEF qualifiedKey
      <4> QED BY <3>1, <4>1
    <3>3. CASE S.prefix # <<>>
      <4>1. \A a, b : Append(<<a>>, b)[Len(Append(<<a>>, b))] = b
        OBVIOUS
      <4>2. S.prefix = <<S.prefix[1]>>
        BY <3>3 DEF IsScope
      <4>3. qualifiedKey(S, x) = Append(<<S.prefix[1]>>, x)
        BY <4>2 DEF qualifiedKey
      <4> QED BY <3>1, <4>1, <4>3
    <3> QED BY <3>2, <3>3
  <2> QED BY <2>2, <2>3 DEF GArr
<1> QED BY <1>1, <1>2

LEMMA LeafMisses ==
    ASSUME TypeInv, Busy, Plain(Now), IndexOK, Asked(Heard(Now)) \subseteq GArr(S) \cup LArr(S)
    PROVE  TaskQuiet(Now, GArr(S) \cup LArr(S), F.ends)
<1> DEFINE K == GArr(S) \cup LArr(S)
<1>1. IsTask(Now) /\ IsFrame(F) /\ IsScope(S) /\ S = scope
  BY NowFacts DEF S
<1>2. Now.s \notin {"arm", "round", "post"} => Now \in Statements
  BY <1>1, TaskStatement
<1>3. CASE InSpace
  <2>1. Now.s # "proc"
    BY <1>3 DEF Plain, InNamespace, Leaves
  <2>2. ASSUME Now.s \in Globals PROVE Quiet(Now, K)
    <3>1. Now \in Statements
      BY <1>2, <2>2 DEF Globals
    <3>2. ~Indexes(Now) /\ Heard(Now) = Spoken(Now) /\ Now.s \in Leaves
      BY <2>2 DEF Indexes, Heard, Globals, Leaves
    <3> HIDE DEF K
    <3>3. Asked(Spoken(Now)) \subseteq K
      BY <3>2 DEF K
    <3> QED BY <3>1, <3>2, <3>3, LeafQuiet
  <2> QED BY <1>3, <2>1, <2>2 DEF TaskQuiet, InSpace
<1>4. CASE ~InSpace
  <2>1. F.top = (F.ends = "module") /\ F.ends # "namespace"
    BY <1>1, <1>4 DEF IsFrame, InSpace
  <2>2. Indexes(Now) => Now.x \in K
    BY <1>1, <1>4, FoundArray DEF IndexOK
  <2>a. Asked(Heard(Now)) \subseteq K
    OBVIOUS
  <2> HIDE DEF K
  <2>3. Now.s \in Leaves \cup {"proc", "ns"} => Quiet(Now, K)
    <3>1. Now.s \in Leaves \cup {"proc", "ns"} => Now \in Statements
      BY <1>2 DEF Leaves
    <3>2. Now.s \in Leaves \cup {"proc", "ns"} => Heard(Now) = Spoken(Now)
      BY DEF Heard, Leaves
    <3> QED BY <2>a, <2>2, <3>1, <3>2, LeafQuiet
  <2>4. \/ Now.s \in Leaves
        \/ Now.s = "post"
        \/ Now.s = "proc" /\ (Now.generic # None \/ F.ends # "module")
        \/ Now.s = "ns" /\ F.ends # "module"
    BY <1>4, <2>1 DEF Plain
  <2>5. TaskQuiet(Now, K, F.ends)
    BY <2>a, <2>1, <2>3, <2>4 DEF TaskQuiet, Leaves
  <2> QED BY <2>5 DEF K
<1> QED BY <1>3, <1>4

-----------------------------------------------------------------------------
(* The arrays that will be known in a block when it goes on: those in the    *)
(* scope, and those that the blocks in it, but for procedures, have left.    *)

ProcEnds == {"body", "instance"}
Near(w, d) == {e \in d..Len(w) : \A c \in (d + 1)..e : Level(w, c).ends \notin ProcEnds}
Known(w, s, d) ==
    GArr(s) \cup UNION {LArr(View(s, w, e)) \cup (IF e = d THEN {} ELSE Left(Level(w, e))) : e \in Near(w, d)}

\* Where a scope is in no procedure, no block is.
LEMMA OutsideProc ==
    ASSUME TypeInv, stage = "check", ~scope.inProc
    PROVE  \A c \in 1..Len(work) : Level(work, c).ends \notin ProcEnds
<1> DEFINE n == Len(work)
<1>1. StackInv /\ n \in Nat
  BY FirstLevel DEF TypeInv
<1> SUFFICES ASSUME NEW c \in 1..n, Level(work, c).ends \in ProcEnds PROVE FALSE
  OBVIOUS
<1> DEFINE N == {e \in c..n : ~View(scope, work, e).inProc}
<1>2. n \in N
  <2>1. View(scope, work, n) = scope
    BY DEF View
  <2>2. n \in c..n
    BY <1>1
  <2> QED BY <2>1, <2>2
<1>3. N \subseteq Nat
  <2>1. c..n \subseteq Nat
    BY <1>1
  <2> QED BY <2>1
<1>4. PICK e \in N : \A y \in N : e <= y
  <2> HIDE DEF N
  <2> QED BY <1>2, <1>3, LeastNumber
<1>5. e \in c..n /\ e \in 1..n /\ ~View(scope, work, e).inProc
  <2>1. c..n \subseteq 1..n
    BY <1>1
  <2> QED BY <2>1
<1> HIDE DEF n
<1>6. IsFrame(Level(work, e)) /\ Linked(Level(work, e), View(scope, work, e))
      /\ (Level(work, e).ends = "module" <=> e = 1) /\ (Level(work, e).ends = "namespace" => e = 2)
  BY <1>1, <1>5 DEF StackInv, n
<1>7. Level(work, c).ends # "module" /\ c # 1
  BY <1>1 DEF StackInv, n, ProcEnds
<1>8. CASE e = c
  BY <1>5, <1>6, <1>8 DEF Linked, ProcEnds
<1>9. CASE e # c
  <2>1. e - 1 \in c..n /\ e # 1 /\ e # 2 /\ ~(e <= e - 1) /\ e - 1 # n /\ (e - 1) + 1 = e
    BY <1>1, <1>5, <1>7, <1>9
  <2>2. View(scope, work, e - 1).inProc
    BY <1>4, <2>1 DEF n
  <2>3. View(scope, work, e - 1) = Level(work, e).saved
    BY <2>1 DEF View, n
  <2>4. Statics(View(scope, work, e)) # Statics(Level(work, e).saved)
    BY <1>5, <2>2, <2>3 DEF Statics
  <2> QED BY <1>5, <1>6, <2>1, <2>4 DEF Linked, IsFrame
<1> QED BY <1>8, <1>9

\* Above the block at hand there is none.
LEMMA KnownHere ==
    ASSUME TypeInv, stage = "check"
    PROVE  Known(work, scope, Len(work)) = GArr(S) \cup LArr(S)
<1> DEFINE n == Len(work)
<1>1. n \in Nat
  BY FirstLevel
<1>2. Near(work, n) = {n}
  <2>1. n..n = {n} /\ \A c : c \notin (n + 1)..n
    BY <1>1
  <2> QED BY <2>1 DEF Near
<1>3. View(scope, work, n) = scope
  BY DEF View
<1> HIDE DEF n
<1>4. Known(work, scope, n) = GArr(scope) \cup LArr(scope)
  BY <1>2, <1>3 DEF Known
<1> QED BY <1>4 DEF n, S

\* What is left when the next statement has been taken.
LEMMA LeftAfter ==
    ASSUME TypeInv, Busy
    PROVE  /\ TaskArrays(Now, F.ends) \subseteq Left(F)
           /\ Left(Taken1(F)) \subseteq Left(F)
<1>1. /\ 1 \in DOMAIN F.todo /\ F.todo[1] = Now
      /\ Taken1(F).todo = Tail(F.todo) /\ Taken1(F).ends = F.ends
      /\ \A j \in DOMAIN Tail(F.todo) : \E i \in DOMAIN F.todo : F.todo[i] = Tail(F.todo)[j]
  BY TasksOfTail
<1> QED BY <1>1 DEF Left

LEMMA OwnLeft == ASSUME TypeInv, Busy PROVE OwnArrays(Now) \subseteq TaskArrays(Now, F.ends)
<1>1. IsTask(Now)
  BY NowFacts
<1>2. CASE Now.s = "dim"
  <2>1. Now \in Statements
    BY <1>1, <1>2, TaskStatement
  <2>2. ArraysOf[Now] = ArraysStep(ArraysOf, Now)
    BY <2>1, RecursionAssumption
  <2>3. OwnArrays(Now) \subseteq ArraysStep(ArraysOf, Now)
    BY DEF OwnArrays, ArraysStep
  <2> QED BY <1>2, <2>2, <2>3 DEF TaskArrays
<1>3. CASE Now.s # "dim"
  BY <1>3 DEF OwnArrays
<1> QED BY <1>2, <1>3

\* What a block that was entered has left, its statement had.
LEMMA EnteredLeft ==
    ASSUME TypeInv, Takes, Len(work') # Len(work)
    PROVE  /\ Level(work', Len(work) + 1).ends \notin ProcEnds =>
                Left(Level(work', Len(work) + 1)) \subseteq TaskArrays(Now, F.ends)
           /\ \A K : /\ TasksQuiet(Level(work', Len(work) + 1).todo, K, Level(work', Len(work) + 1).ends)
                    /\ Asked(Heard(Now)) \subseteq K
                    => TaskQuiet(Now, K, F.ends)
           /\ OwnArrays(Now) = {}
<1> DEFINE f == Level(work', Len(work) + 1)
<1>1. Busy /\ (work' # Rest) /\ \E g : work' = <<g>> \o Rest /\ f = g
  BY TakesViews DEF Takes, Effects
<1>2. ASSUME NEW g, g.saved = scope, work' = <<g>> \o Rest PROVE f = g
  BY <1>1, <1>2, PushLevels
<1> HIDE DEF f
<1>3. ASSUME NEW todo, NEW top, NEW ends, work' = <<Frame(todo, top, ends)>> \o Rest
      PROVE  f.todo = todo /\ f.ends = ends
  <2> DEFINE g == Frame(todo, top, ends)
  <2>1. g.saved = scope /\ g.todo = todo /\ g.ends = ends
    BY DEF Frame
  <2>2. work' = <<g>> \o Rest
    BY <1>3
  <2> HIDE DEF g
  <2> QED BY <1>2, <2>1, <2>2
<1>4. ASSUME NEW todo, BlockShape(todo)
      PROVE  /\ f.ends \notin ProcEnds => Left(f) \subseteq TaskArrays(Now, F.ends)
             /\ \A K : TasksQuiet(f.todo, K, f.ends) /\ Asked(Heard(Now)) \subseteq K
                      => TaskQuiet(Now, K, F.ends)
             /\ Now.s # "dim"
  <2>1. f.todo = todo /\ f.ends = "block" /\ ~InSpace /\ BlockTasks(Now, todo)
    BY <1>3, <1>4 DEF BlockShape
  <2> QED BY <1>1, <2>1, BlockArrays DEF BlockTasks
<1>5. ASSUME NEW kind, LoopShape(kind)
      PROVE  /\ f.ends \notin ProcEnds => Left(f) \subseteq TaskArrays(Now, F.ends)
             /\ \A K : TasksQuiet(f.todo, K, f.ends) /\ Asked(Heard(Now)) \subseteq K
                      => TaskQuiet(Now, K, F.ends)
             /\ Now.s # "dim"
  <2>1. f.todo = Now.body /\ f.ends = "loop" /\ ~InSpace /\ LoopTask(Now, kind)
    BY <1>3, <1>5 DEF LoopShape
  <2> QED BY <1>1, <2>1, LoopArrays DEF LoopTask
<1>6. ASSUME BodyShape
      PROVE  /\ f.ends \notin ProcEnds => Left(f) \subseteq TaskArrays(Now, F.ends)
             /\ \A K : TasksQuiet(f.todo, K, f.ends) /\ Asked(Heard(Now)) \subseteq K
                      => TaskQuiet(Now, K, F.ends)
             /\ Now.s # "dim"
  <2>1. f.todo = Now.body /\ f.ends = "body" /\ Now.s = "proc"
    BY <1>3, <1>6 DEF BodyShape
  <2>2. \A K : TasksQuiet(f.todo, K, f.ends) => TaskQuiet(Now, K, F.ends)
    BY <1>1, <1>6, <2>1, BodyArrays
  <2>3. f.ends \in ProcEnds /\ Now.s # "dim"
    BY <2>1 DEF ProcEnds
  <2> QED BY <2>2, <2>3
<1>7. ASSUME SpaceShape
      PROVE  /\ f.ends \notin ProcEnds => Left(f) \subseteq TaskArrays(Now, F.ends)
             /\ \A K : TasksQuiet(f.todo, K, f.ends) /\ Asked(Heard(Now)) \subseteq K
                      => TaskQuiet(Now, K, F.ends)
             /\ Now.s # "dim"
  <2>1. f.todo = Now.body /\ f.ends = "namespace" /\ Now.s = "ns"
    BY <1>3, <1>7 DEF SpaceShape
  <2>2. Now.s # "dim"
    BY <2>1
  <2>3. /\ Left(f) \subseteq TaskArrays(Now, F.ends)
        /\ \A K : TasksQuiet(f.todo, K, f.ends) => TaskQuiet(Now, K, F.ends)
    <3>1. f.todo = Now.body /\ f.ends = "namespace"
      BY <2>1
    <3> QED BY <1>1, <1>7, <3>1, SpaceArrays
  <2> QED BY <2>2, <2>3
<1>8. ~LeafShape
  BY <1>1 DEF LeafShape
<1> QED BY <1>4, <1>5, <1>6, <1>7, <1>8 DEF Takes, Shape, f, OwnArrays

\* A step leaves the blocks at hand as they are, but for one at the top.
LEMMA NearStep ==
    ASSUME NEW w, NEW v, Len(w) \in Nat, Len(v) \in Nat, Len(v) <= Len(w) + 1,
           \A c \in 1..Len(w) : c <= Len(v) => Level(v, c).ends = Level(w, c).ends,
           NEW d \in 1..Len(w), NEW e \in Near(v, d)
    PROVE  \/ e \in Near(w, d) /\ e \in d..Len(w) /\ e <= Len(v)
           \/ /\ e = Len(w) + 1 /\ Len(v) = Len(w) + 1 /\ Len(w) \in Near(w, d)
              /\ Level(v, e).ends \notin ProcEnds
<1> DEFINE n == Len(w)
           m == Len(v)
<1>1. e \in d..m /\ \A c \in (d + 1)..e : Level(v, c).ends \notin ProcEnds
  BY DEF Near
<1>2. n \in Nat /\ m \in Nat /\ m <= n + 1 /\ d \in 1..n
  OBVIOUS
<1>3. \A c \in 1..n : c <= m => Level(v, c).ends = Level(w, c).ends
  OBVIOUS
<1>4. CASE e \in d..n
  <2>1. \A c \in (d + 1)..e : c \in 1..n /\ c <= m
    <3> HIDE DEF n, m
    <3> QED BY <1>1, <1>2, <1>4
  <2>2. \A c \in (d + 1)..e : Level(w, c).ends \notin ProcEnds
    BY <1>1, <1>3, <2>1
  <2>3. e <= m
    <3> HIDE DEF n, m
    <3> QED BY <1>1, <1>2
  <2> QED BY <1>4, <2>2, <2>3 DEF Near
<1>5. CASE e \notin d..n
  <2>1. e = n + 1 /\ m = n + 1 /\ n \in d..n /\ e \in (d + 1)..e
        /\ \A c \in (d + 1)..n : c \in 1..n /\ c <= m /\ c \in (d + 1)..e
    <3> HIDE DEF n, m
    <3> QED BY <1>1, <1>2, <1>5
  <2>2. \A c \in (d + 1)..n : Level(w, c).ends \notin ProcEnds
    BY <1>1, <1>3, <2>1
  <2>3. Level(v, e).ends \notin ProcEnds
    BY <1>1, <2>1
  <2> QED BY <2>1, <2>2, <2>3 DEF Near
<1> QED BY <1>4, <1>5

\* Outside procedures, all blocks are at hand.
LEMMA NearAll ==
    ASSUME TypeInv, stage = "check", ~scope.inProc, NEW d \in 1..Len(work)
    PROVE  Near(work, d) = d..Len(work)
<1>1. \A c \in 1..Len(work) : Level(work, c).ends \notin ProcEnds
  BY OutsideProc
<1>2. Len(work) \in Nat
  BY FirstLevel
<1>3. \A e \in d..Len(work) : \A c \in (d + 1)..e : c \in 1..Len(work)
  BY <1>2
<1> QED BY <1>1, <1>3 DEF Near

LEMMA KnownTakes ==
    ASSUME TypeInv, Takes, NEW d \in 1..Len(work)
    PROVE  Known(work', scope', d) \subseteq
             Known(work, scope, d) \cup (IF d = Len(work) THEN TaskArrays(Now, F.ends) ELSE {})
<1> DEFINE n == Len(work)
           m == Len(work')
           A == IF d = n THEN TaskArrays(Now, F.ends) ELSE {}
           K == Known(work, scope, d)
<1>1. /\ Busy /\ stage = "check" /\ Level(work, n) = F /\ View(scope, work, n) = scope
      /\ n \in Nat /\ n > 0 /\ IsScope(scope) /\ S = scope /\ IsScope(scope')
  BY NowFacts DEF Takes, Effects, S
<1>2. /\ \A e \in 1..n : SameBlock(Level(work', e), Level(work, e))
      /\ \/ m = n
         \/ m = n + 1 /\ Level(work', n + 1).ends \in {"block", "loop", "body", "namespace"}
  BY TakesLevels
<1>3. /\ Level(work', n) = Taken1(F)
      /\ \A e \in 1..(n - 1) : Level(work', e) = Level(work, e)
                               /\ View(scope', work', e) = View(scope, work, e)
      /\ m # n => View(scope', work', n) = scope /\ View(scope', work', n + 1) = scope'
      /\ View(scope', work', m) = scope'
  BY TakesViews DEF View
<1>4. OwnArrays(Now) \subseteq TaskArrays(Now, F.ends) /\ TaskArrays(Now, F.ends) \subseteq Left(F)
      /\ Left(Taken1(F)) \subseteq Left(F)
  BY <1>1, OwnLeft, LeftAfter
<1>5. ASSUME NEW e \in Near(work', d)
      PROVE  \/ e \in Near(work, d) /\ e \in d..n
             \/ e = n + 1 /\ m = n + 1 /\ n \in Near(work, d) /\ Level(work', e).ends \notin ProcEnds
  <2>1. m \in Nat /\ m <= n + 1
    <3> HIDE DEF n, m
    <3> QED BY <1>1, <1>2
  <2>2. \A c \in 1..n : c <= m => Level(work', c).ends = Level(work, c).ends
    BY <1>2 DEF SameBlock
  <2> QED BY <1>1, <2>1, <2>2, NearStep
<1>6. ASSUME NEW e \in Near(work, d) PROVE LArr(View(scope, work, e)) \subseteq K
                                          /\ (e # d => Left(Level(work, e)) \subseteq K)
  BY DEF Known
<1>7. n \in Near(work, d) => TaskArrays(Now, F.ends) \subseteq K \cup A
  BY <1>1, <1>4, <1>6
<1>8. n \in Near(work, d) => LArr(scope') \subseteq K \cup A
  <2>1. LArr(scope') \subseteq LArr(S) \cup OwnArrays(Now)
    BY DEF Takes, Effects
  <2> QED BY <1>1, <1>4, <1>6, <1>7, <2>1
<1>9. GArr(scope') \subseteq K \cup A
  <2>1. GArr(scope') \subseteq GArr(S) \cup (IF S.inProc THEN {} ELSE OwnArrays(Now))
    BY DEF Takes, Effects
  <2>2. GArr(S) \subseteq K
    BY <1>1 DEF Known
  <2>3. CASE S.inProc
    BY <2>1, <2>2, <2>3
  <2>4. CASE ~S.inProc
    <3>1. n \in d..n
      <4>1. d \in 1..n
        OBVIOUS
      <4> HIDE DEF n
      <4> QED BY <1>1, <4>1
    <3>2. n \in Near(work, d)
      BY <1>1, <2>4, <3>1, NearAll
    <3> QED BY <1>4, <1>7, <2>1, <2>2, <3>2
  <2> QED BY <2>3, <2>4
<1>10. ASSUME NEW e \in Near(work', d)
       PROVE  /\ LArr(View(scope', work', e)) \subseteq K \cup A
              /\ e # d => Left(Level(work', e)) \subseteq K \cup A
  <2>1. CASE e \in Near(work, d) /\ e \in d..n /\ e # n
    <3>1. e \in 1..(n - 1)
      <4> HIDE DEF n
      <4> QED BY <1>1, <2>1
    <3> QED BY <1>3, <1>6, <2>1, <3>1
  <2>2. CASE e = n /\ n \in Near(work, d)
    <3>1. View(scope', work', n) = scope \/ View(scope', work', n) = scope'
      BY <1>3
    <3> HIDE DEF n, m, A, K
    <3>2. LArr(View(scope', work', n)) \subseteq K \cup A
      BY <1>1, <1>6, <1>8, <2>2, <3>1
    <3>3. n # d => Left(F) \subseteq K
      BY <1>1, <1>6, <2>2
    <3> QED BY <1>3, <1>4, <2>2, <3>2, <3>3
  <2>3. CASE e = n + 1 /\ m = n + 1 /\ n \in Near(work, d) /\ Level(work', e).ends \notin ProcEnds
    <3>1. m # n
      <4> HIDE DEF n, m
      <4> QED BY <1>1, <2>3
    <3>2. Left(Level(work', n + 1)) \subseteq TaskArrays(Now, F.ends)
      BY <2>3, <3>1, EnteredLeft
    <3>3. View(scope', work', n + 1) = scope'
      BY <1>3, <3>1
    <3> HIDE DEF n, m, A, K
    <3> QED BY <1>7, <1>8, <2>3, <3>2, <3>3
  <2> QED BY <1>5, <2>1, <2>2, <2>3
<1> HIDE DEF A, K
<1>11. Known(work', scope', d) \subseteq K \cup A
  BY <1>9, <1>10 DEF Known
<1> QED BY <1>11 DEF A, K

\* In a block that was entered, no more is known than around it.
LEMMA NewKnown ==
    ASSUME TypeInv, Takes, Len(work') # Len(work)
    PROVE  Known(work', scope', Len(work) + 1) \subseteq Known(work, scope, Len(work))
<1> DEFINE n == Len(work)
<1>1. Busy /\ stage = "check" /\ n \in Nat
  BY NowFacts DEF Takes, Effects
<1>2. Len(work') = n + 1 /\ View(scope', work', n + 1) = scope'
  BY TakesLevels, TakesViews
<1>3. Near(work', n + 1) = {n + 1}
  <2>1. (n + 1)..(n + 1) = {n + 1} /\ \A c : c \notin ((n + 1) + 1)..(n + 1)
    BY <1>1
  <2> QED BY <1>2, <2>1 DEF Near
<1>4. GArr(scope') \cup LArr(scope') \subseteq GArr(S) \cup LArr(S)
  BY EnteredLeft DEF Takes, Effects
<1>5. Known(work, scope, n) = GArr(S) \cup LArr(S)
  BY <1>1, KnownHere
<1> HIDE DEF n
<1>6. Known(work', scope', n + 1) = GArr(scope') \cup LArr(scope')
  BY <1>2, <1>3 DEF Known
<1> QED BY <1>4, <1>5, <1>6 DEF n

LEMMA KnownInstance ==
    ASSUME TypeInv, NEW key, NEW st, Requests(key, st)
    PROVE  /\ \A d \in 1..Len(work) : Known(work', scope', d) \subseteq Known(work, scope, d)
           /\ Known(work', scope', Len(work) + 1) \subseteq GArr(scope)
<1> DEFINE n == Len(work)
<1>1. /\ n \in Nat /\ Len(work') = n + 1
      /\ Level(work', n + 1) = InstFrame(key, st) /\ InstFrame(key, st).ends = "instance"
      /\ View(scope', work', n + 1) = scope'
      /\ \A d \in 1..n : /\ Level(work', d) = Level(work, d)
                         /\ View(scope', work', d) = View(scope, work, d)
  BY InstLevels
<1>2. GArr(scope') = GArr(scope) /\ LArr(scope') = {}
  BY InstScope DEF GArr
<1>3. ASSUME NEW d \in 1..n, NEW e \in Near(work', d) PROVE e \in Near(work, d) /\ e \in 1..n
  <2>1. \/ e \in Near(work, d) /\ e \in d..n
        \/ e = n + 1 /\ Level(work', e).ends \notin ProcEnds
    <3>1. Len(work') \in Nat /\ Len(work') <= n + 1
      <4> HIDE DEF n
      <4> QED BY <1>1
    <3> QED BY <1>1, <3>1, NearStep
  <2>2. d..n \subseteq 1..n
    <3> HIDE DEF n
    <3> QED BY <1>1
  <2> QED BY <1>1, <2>1, <2>2 DEF ProcEnds
<1>4. Near(work', n + 1) = {n + 1}
  <2>1. (n + 1)..(n + 1) = {n + 1} /\ \A c : c \notin ((n + 1) + 1)..(n + 1)
    <3> HIDE DEF n
    <3> QED BY <1>1
  <2> QED BY <1>1, <2>1 DEF Near
<1> HIDE DEF n
<1>5. Known(work', scope', n + 1) = GArr(scope)
  BY <1>1, <1>2, <1>4 DEF Known
<1>6. ASSUME NEW d \in 1..n PROVE Known(work', scope', d) \subseteq Known(work, scope, d)
  BY <1>1, <1>2, <1>3 DEF Known
<1> QED BY <1>5, <1>6 DEF n

LEMMA KnownEnds ==
    ASSUME TypeInv, Ends, NEW d \in 1..(Len(work) - 1)
    PROVE  Known(work', scope', d) \subseteq Known(work, scope, d)
<1> DEFINE n == Len(work)
           K == Known(work, scope, d)
<1>1. /\ Len(work') = n - 1 /\ n \in Nat /\ n > 0
      /\ Level(work, n) = F /\ View(scope, work, n) = scope
      /\ n > 1 => View(scope', work', n - 1) = scope' /\ View(scope, work, n - 1) = F.saved
      /\ \A e \in 1..(n - 1) : Level(work', e) = Level(work, e)
      /\ \A e \in 1..(n - 2) : View(scope', work', e) = View(scope, work, e)
  BY EndLevels
<1>2. /\ scope'.symbols = scope.symbols
      /\ F.ends \in ProcEnds => scope'.locals = F.saved.locals
      /\ F.ends \notin ProcEnds => scope'.locals = scope.locals
  BY EndScope DEF ProcEnds
<1>3. ASSUME NEW e \in Near(work', d) PROVE e \in Near(work, d) /\ e \in 1..(n - 1) /\ n > 1
  <2>1. Len(work') \in Nat /\ Len(work') <= n + 1 /\ Len(work') # n + 1 /\ d \in 1..n
        /\ \A c \in 1..n : c <= Len(work') => c \in 1..(n - 1)
    <3>1. d \in 1..(n - 1)
      OBVIOUS
    <3> HIDE DEF n
    <3> QED BY <1>1, <3>1
  <2>2. \A c \in 1..n : c <= Len(work') => Level(work', c).ends = Level(work, c).ends
    BY <1>1, <2>1
  <2>3. e \in Near(work, d) /\ e \in d..n /\ e <= Len(work')
    BY <1>1, <2>1, <2>2, NearStep
  <2>4. d \in 1..(n - 1)
    OBVIOUS
  <2> HIDE DEF n
  <2> QED BY <1>1, <2>3, <2>4
<1>4. ASSUME NEW e \in Near(work, d) PROVE LArr(View(scope, work, e)) \subseteq K
                                          /\ (e # d => Left(Level(work, e)) \subseteq K)
  BY DEF Known
<1>5. GArr(scope') \subseteq K
  BY <1>2 DEF Known, GArr
<1>6. n > 1 /\ n - 1 \in Near(work, d) => LArr(scope') \subseteq K
  <2> SUFFICES ASSUME n > 1, n - 1 \in Near(work, d) PROVE LArr(scope') \subseteq K
    OBVIOUS
  <2>1. CASE F.ends \in ProcEnds
    <3>1. LArr(scope') = LArr(View(scope, work, n - 1))
      BY <1>1, <1>2, <2>1 DEF LArr
    <3> QED BY <1>4, <3>1
  <2>2. CASE F.ends \notin ProcEnds
    <3>1. n \in Near(work, d)
      <4>1. /\ n \in d..n /\ \A c \in (d + 1)..n : c = n \/ c \in (d + 1)..(n - 1)
        <5>1. d \in 1..(n - 1)
          OBVIOUS
        <5> HIDE DEF n
        <5> QED BY <1>1, <5>1
      <4>2. \A c \in (d + 1)..(n - 1) : Level(work, c).ends \notin ProcEnds
        BY DEF Near
      <4> QED BY <1>1, <2>2, <4>1, <4>2 DEF Near
    <3>2. LArr(scope') = LArr(scope)
      BY <1>2, <2>2 DEF LArr
    <3> QED BY <1>1, <1>4, <3>1, <3>2
  <2> QED BY <2>1, <2>2
<1>7. ASSUME NEW e \in Near(work', d)
      PROVE  /\ LArr(View(scope', work', e)) \subseteq K
             /\ e # d => Left(Level(work', e)) \subseteq K
  <2>1. e \in Near(work, d) /\ e \in 1..(n - 1) /\ n > 1
    BY <1>3
  <2>2. CASE e = n - 1
    <3> HIDE DEF n, K
    <3> QED BY <1>1, <1>4, <1>6, <2>1, <2>2
  <2>3. CASE e # n - 1
    <3>1. e \in 1..(n - 2)
      <4> HIDE DEF n
      <4> QED BY <1>1, <2>1, <2>3
    <3> HIDE DEF n, K
    <3> QED BY <1>1, <1>4, <2>1, <3>1
  <2> QED BY <2>2, <2>3
<1> HIDE DEF K
<1>8. Known(work', scope', d) \subseteq K
  BY <1>5, <1>7 DEF Known
<1> QED BY <1>8 DEF K

-----------------------------------------------------------------------------
(* What the generator knows when it is at a statement of the module, Sema's   *)
(* part of it, and what has been passed.                                     *)

KnownAt(i) == ArraysTo(module, "module", i)
AllKnown == KnownAt(Len(module) + 1)
KnownInv == stage = "check" => Known(work, scope, 1) \subseteq KnownAt(Passed + 1)

LevelQuiet(w, s, d) == TasksQuiet(Level(w, d).todo, Known(w, s, d), Level(w, d).ends)
InnerQuiet == \A d \in 2..Len(work) : LevelQuiet(work, scope, d)
InstancesQuiet == \A i \in DOMAIN pending : BodyQuiet(pending[i].st.body, AllKnown)
RunningQuiet ==
    \A d \in 1..Len(work) : Level(work, d).ends = "instance" => BodyQuiet(Level(work, d).st.body, AllKnown)
\* Without errors, what has been passed misses no array, if what is left of the
\* blocks misses none.
QuietInv ==
    stage = "check" =>
      (diags = {} /\ InnerQuiet =>
         /\ \A i \in 1..Passed : TaskQuiet(module[i], KnownAt(i), "module")
         /\ InstancesQuiet /\ RunningQuiet)
DoneQuiet ==
    stage \in Generating =>
      /\ \A i \in DOMAIN module : TaskQuiet(module[i], KnownAt(i), "module")
      /\ InstancesQuiet

LEMMA KnownGrows ==
    ASSUME NEW i \in Nat
    PROVE  /\ i > 0 => KnownAt(i + 1) = KnownAt(i) \cup TaskArrays(module[i], "module")
           /\ \A j \in Nat : i <= j => KnownAt(i) \subseteq KnownAt(j)
<1>1. ASSUME i > 0 PROVE KnownAt(i + 1) = KnownAt(i) \cup TaskArrays(module[i], "module")
  <2>1. 1..((i + 1) - 1) = (1..(i - 1)) \cup {i}
    BY <1>1
  <2> QED BY <2>1 DEF KnownAt, ArraysTo
<1>2. ASSUME NEW j \in Nat, i <= j PROVE KnownAt(i) \subseteq KnownAt(j)
  <2>1. 1..(i - 1) \subseteq 1..(j - 1)
    BY <1>2
  <2> QED BY <2>1 DEF KnownAt, ArraysTo
<1> QED BY <1>1, <1>2

\* Without errors, the expressions at hand ask for arrays of the scope only.
HeardOK == diags' = {} => \A x \in Asked(Heard(Now)) : lookupSymbol(S, x).array

\* The statement that is taken misses no array, if the block it opens does not.
LEMMA NowQuiet ==
    ASSUME TypeInv, Takes, HeardOK, diags' = {},
           Len(work') # Len(work) => LevelQuiet(work', scope', Len(work) + 1)
    PROVE  TaskQuiet(Now, Known(work, scope, Len(work)), F.ends)
<1>1. Busy /\ stage = "check" /\ IsScope(S)
  BY NowFacts DEF Takes, Effects, S
<1>a. Asked(Heard(Now)) \subseteq GArr(S) \cup LArr(S)
  BY <1>1, FoundArray DEF HeardOK
<1>b. Known(work, scope, Len(work)) = GArr(S) \cup LArr(S)
  BY <1>1, KnownHere
<1>2. CASE LeafShape
  <2>1. Plain(Now) /\ IndexOK
    BY <1>2 DEF LeafShape, Takes, Effects
  <2> QED BY <1>1, <1>a, <1>b, <2>1, LeafMisses
<1>3. CASE ~LeafShape
  <2>1. \E g : g.saved = scope /\ work' = <<g>> \o Rest
    <3>1. \A todo, top, ends : Frame(todo, top, ends).saved = scope
      BY DEF Frame
    <3> QED BY <1>3, <3>1 DEF Takes, Shape, BlockShape, LoopShape, BodyShape, SpaceShape
  <2>2. Len(work') = Len(work) + 1 /\ Len(work) \in Nat
    BY <1>1, <2>1, PushLevels
  <2>3. Len(work') # Len(work)
    BY <2>2
  <2> DEFINE f == Level(work', Len(work) + 1)
             K == Known(work', scope', Len(work) + 1)
             M == Known(work, scope, Len(work))
  <2>4. TasksQuiet(f.todo, K, f.ends)
    BY <2>3 DEF LevelQuiet
  <2>5. K \subseteq M
    BY <2>3, NewKnown
  <2>6. Asked(Heard(Now)) \subseteq M
    BY <1>a, <1>b
  <2> HIDE DEF K, M, f
  <2>7. TasksQuiet(f.todo, M, f.ends)
    BY <2>4, <2>5, QuietMore
  <2>8. TaskQuiet(Now, M, F.ends)
    BY <2>3, <2>6, <2>7, EnteredLeft DEF f
  <2> QED BY <2>8 DEF M
<1> QED BY <1>2, <1>3

\* What is left of a block misses no array, if what is left afterwards does not.
LEMMA TailQuiet ==
    ASSUME NEW q, IsSeq(q), q # <<>>, NEW K, NEW M, NEW ends, M \subseteq K \cup TaskArrays(q[1], ends),
           TaskQuiet(q[1], K, ends), TasksQuiet(Tail(q), M, ends)
    PROVE  TasksQuiet(q, K, ends)
<1>1. /\ DOMAIN Tail(q) = 1..(Len(q) - 1) /\ DOMAIN q = 1..Len(q) /\ Len(q) \in Nat /\ Len(q) > 0
      /\ \A i \in 1..(Len(q) - 1) : Tail(q)[i] = q[i + 1]
  <2>1. /\ Len(Tail(q)) = Len(q) - 1 /\ Len(q) \in Nat /\ Len(q) > 0 /\ IsSeq(Tail(q))
        /\ \A i \in 1..(Len(q) - 1) : Tail(q)[i] = q[i + 1]
    BY TailProps
  <2> QED BY <2>1, SeqDomain
<1> SUFFICES ASSUME NEW i \in DOMAIN q PROVE TaskQuiet(q[i], K \cup ArraysTo(q, ends, i), ends)
  BY DEF TasksQuiet
<1>2. CASE i = 1
  <2>1. K \subseteq K \cup ArraysTo(q, ends, i)
    OBVIOUS
  <2> QED BY <1>2, <2>1, QuietMore
<1>3. CASE i # 1
  <2> DEFINE j == i - 1
  <2>1. j \in 1..(Len(q) - 1) /\ j \in DOMAIN Tail(q) /\ i = j + 1
    BY <1>1, <1>3
  <2> HIDE DEF j
  <2>2. TaskQuiet(q[i], M \cup ArraysTo(Tail(q), ends, j), ends)
    BY <1>1, <2>1 DEF TasksQuiet
  <2>3. M \cup ArraysTo(Tail(q), ends, j) \subseteq K \cup ArraysTo(q, ends, i)
    <3>1. 1 \in 1..(i - 1)
      BY <1>1, <2>1
    <3>2. TaskArrays(q[1], ends) \subseteq ArraysTo(q, ends, i)
      BY <3>1 DEF ArraysTo
    <3>3. \A k \in 1..(j - 1) : Tail(q)[k] = q[k + 1] /\ k + 1 \in 1..(i - 1)
      BY <1>1, <2>1
    <3>4. ArraysTo(Tail(q), ends, j) \subseteq ArraysTo(q, ends, i)
      BY <3>3 DEF ArraysTo
    <3> QED BY <3>2, <3>4
  <2> QED BY <2>2, <2>3, QuietMore
<1> QED BY <1>2, <1>3

LEMMA TakesQuiet ==
    ASSUME TypeInv, Takes, NEW d \in 1..Len(work), LevelQuiet(work', scope', d),
           d = Len(work) => TaskQuiet(Now, Known(work, scope, d), F.ends)
    PROVE  LevelQuiet(work, scope, d)
<1> DEFINE n == Len(work)
           K == Known(work, scope, d)
           M == Known(work', scope', d)
<1>1. Busy /\ IsSeq(F.todo) /\ F.todo # <<>> /\ Now = F.todo[1] /\ Level(work, n) = F /\ n \in Nat
  BY NowFacts DEF Takes, Effects
<1>2. M \subseteq K \cup (IF d = n THEN TaskArrays(Now, F.ends) ELSE {})
  BY KnownTakes
<1>3. TasksQuiet(Level(work', d).todo, M, Level(work', d).ends)
  BY DEF LevelQuiet
<1> SUFFICES TasksQuiet(Level(work, d).todo, K, Level(work, d).ends)
  BY DEF LevelQuiet
<1>4. CASE d # n
  <2>1. d \in 1..(n - 1)
    BY <1>1, <1>4
  <2>2. Level(work', d) = Level(work, d)
    BY <2>1, TakesViews
  <2> HIDE DEF K, M
  <2> QED BY <1>2, <1>3, <1>4, <2>2, QuietMore
<1>5. CASE d = n
  <2>1. Level(work', n) = Taken1(F) /\ Taken1(F).todo = Tail(F.todo) /\ Taken1(F).ends = F.ends
    BY <1>1, TakesViews, TasksOfTail
  <2>2. TaskQuiet(Now, K, F.ends)
    BY <1>5
  <2> HIDE DEF K, M, n
  <2> QED BY <1>1, <1>2, <1>3, <1>5, <2>1, <2>2, TailQuiet
<1> QED BY <1>4, <1>5

LEMMA QuietTakes ==
    ASSUME TypeInv, PosInv, KnownInv, QuietInv, Takes, HeardOK
    PROVE  KnownInv' /\ QuietInv'
<1> DEFINE n == Len(work)
           m == Len(work')
<1>1. /\ Busy /\ stage = "check" /\ module' = module /\ pending' = pending /\ diags \subseteq diags'
  BY NowFacts DEF Takes, Effects
<1>2. /\ n \in Nat /\ n > 0 /\ \A d \in 1..n : SameBlock(Level(work', d), Level(work, d))
      /\ \/ m = n
         \/ m = n + 1 /\ Level(work', n + 1).ends \in {"block", "loop", "body", "namespace"}
  BY TakesLevels
<1>3. ((F.ends = "module") = (n = 1)) /\ (n = 1 => Passed' = Passed + 1) /\ (n # 1 => Passed' = Passed)
      /\ Passed \in Nat
  BY <1>1, NowFacts, PosTakes DEF PosInv
<1>4. n = 1 => Now = module[Passed + 1]
  BY <1>1, <1>3, ModuleStatement
<1>5. \A i : KnownAt(i)' = KnownAt(i)
  BY <1>1 DEF KnownAt, ArraysTo
<1>6. RunningQuiet' <=> RunningQuiet
  <2> HIDE DEF n, m
  <2>1. \A d \in 1..m : Level(work', d).ends = "instance" => d \in 1..n
    BY <1>2
  <2>2. \A d \in 1..n : d \in 1..m
    BY <1>2
  <2>3. AllKnown' = AllKnown
    BY <1>1, <1>5 DEF AllKnown
  <2> QED BY <1>2, <2>1, <2>2, <2>3 DEF RunningQuiet, SameBlock, m, n
<1>7. InstancesQuiet' <=> InstancesQuiet
  BY <1>1, <1>5 DEF InstancesQuiet, AllKnown
<1>8. InnerQuiet' <=> \A d \in 2..m : LevelQuiet(work', scope', d)
  BY DEF InnerQuiet
<1> HIDE DEF m
<1>9. KnownInv'
  <2> SUFFICES Known(work', scope', 1) \subseteq KnownAt(Passed' + 1)
    BY <1>1, <1>5 DEF KnownInv
  <2>1. Known(work, scope, 1) \subseteq KnownAt(Passed + 1)
    BY <1>1 DEF KnownInv
  <2>2. 1 \in 1..n
    <3> HIDE DEF n
    <3> QED BY <1>2
  <2>3. Known(work', scope', 1) \subseteq Known(work, scope, 1) \cup (IF 1 = n THEN TaskArrays(Now, F.ends) ELSE {})
    BY <2>2, KnownTakes
  <2>4. KnownAt((Passed + 1) + 1) = KnownAt(Passed + 1) \cup TaskArrays(module[Passed + 1], "module")
    <3>1. Passed + 1 \in Nat /\ Passed + 1 > 0
      BY <1>3
    <3> QED BY <3>1, KnownGrows
  <2> HIDE DEF n
  <2> QED BY <1>3, <1>4, <2>1, <2>3, <2>4
<1>10. QuietInv'
  <2> SUFFICES ASSUME diags' = {}, InnerQuiet'
               PROVE  /\ \A i \in 1..Passed' : TaskQuiet(module[i], KnownAt(i), "module")
                      /\ InstancesQuiet /\ RunningQuiet
    <3>1. (\A i \in 1..Passed : TaskQuiet(module[i], KnownAt(i), "module"))'
          <=> \A i \in 1..Passed' : TaskQuiet(module[i], KnownAt(i), "module")
      BY <1>1, <1>5
    <3> QED BY <1>6, <1>7, <3>1 DEF QuietInv
  <2>1. diags = {}
    BY <1>1
  <2>2. \A d \in 2..m : LevelQuiet(work', scope', d)
    BY <1>8
  <2>3. TaskQuiet(Now, Known(work, scope, n), F.ends)
    <3>1. m # n => LevelQuiet(work', scope', n + 1)
      <4> HIDE DEF n
      <4>1. m # n => n + 1 \in 2..m
        BY <1>2
      <4> QED BY <2>2, <4>1
    <3> QED BY <3>1, NowQuiet DEF m
  <2>4. InnerQuiet
    <3> SUFFICES ASSUME NEW d \in 2..n PROVE LevelQuiet(work, scope, d)
      BY DEF InnerQuiet
    <3>1. d \in 1..n /\ d \in 2..m
      <4> HIDE DEF n
      <4> QED BY <1>2
    <3>2. LevelQuiet(work', scope', d)
      BY <2>2, <3>1
    <3>3. d = n => TaskQuiet(Now, Known(work, scope, d), F.ends)
      BY <2>3
    <3> QED BY <3>1, <3>2, <3>3, TakesQuiet
  <2>5. /\ \A i \in 1..Passed : TaskQuiet(module[i], KnownAt(i), "module")
        /\ InstancesQuiet /\ RunningQuiet
    BY <1>1, <2>1, <2>4 DEF QuietInv
  <2>6. CASE n # 1
    BY <1>3, <2>5, <2>6
  <2>7. CASE n = 1
    <3>1. TaskQuiet(module[Passed + 1], KnownAt(Passed + 1), "module")
      <4>1. Known(work, scope, 1) \subseteq KnownAt(Passed + 1)
        BY <1>1 DEF KnownInv
      <4> QED BY <1>3, <1>4, <2>3, <2>7, <4>1, QuietMore
    <3>2. \A i \in 1..(Passed + 1) : i \in 1..Passed \/ i = Passed + 1
      BY <1>3
    <3> QED BY <1>3, <2>5, <2>7, <3>1, <3>2
  <2> QED BY <2>6, <2>7
<1> QED BY <1>9, <1>10

LEMMA QuietInstance ==
    ASSUME TypeInv, PosInv, KnownInv, QuietInv, NEW key, NEW st, Requests(key, st)
    PROVE  KnownInv' /\ QuietInv'
<1> DEFINE n == Len(work)
           f == InstFrame(key, st)
<1>1. /\ Busy /\ stage = "check" /\ stage' = "check" /\ module' = module /\ pending' = pending
      /\ diags' = diags /\ st \in Statements /\ st.s = "proc"
  BY NowFacts DEF Requests
<1>2. /\ Len(work') = n + 1 /\ n \in Nat /\ n > 0 /\ Level(work', n + 1) = f
      /\ \A d \in 1..n : Level(work', d) = Level(work, d)
      /\ f = [todo |-> st.body, top |-> FALSE, ends |-> "instance",
              saved |-> scope, key |-> key, st |-> st]
  BY InstLevels
<1>3. f.todo = st.body /\ f.ends = "instance" /\ f.st = st
  BY <1>2
<1>4. /\ \A d \in 1..n : Known(work', scope', d) \subseteq Known(work, scope, d)
      /\ Known(work', scope', n + 1) \subseteq GArr(scope)
  BY KnownInstance
<1>5. GArr(scope) \subseteq Known(work, scope, 1)
  BY DEF Known
<1> HIDE DEF n, f
<1>6. 1 \in 1..n /\ 1..n \subseteq 1..(n + 1) /\ 2..n \subseteq 2..(n + 1) /\ 2..n \subseteq 1..n
      /\ n + 1 \in 2..(n + 1) /\ n + 1 \in 1..(n + 1) /\ \A d \in 1..(n + 1) : d = n + 1 \/ d \in 1..n
  BY <1>2
<1>7. Passed' = Passed /\ Passed \in Nat /\ Len(module) \in Nat /\ Passed <= Len(module)
  <2>1. Level(work', 1) = Level(work, 1)
    BY <1>2, <1>6
  <2>2. Len(Level(work, 1).todo) \in Nat
    BY <1>1, FirstLevel, SeqDomain
  <2>3. Passed \in Nat /\ Len(module) \in Nat
    BY <1>1, ModuleFacts DEF PosInv
  <2>4. Passed' = Passed
    BY <1>1, <2>1 DEF Passed
  <2>5. Passed <= Len(module)
    BY <2>2, <2>3 DEF Passed
  <2> QED BY <2>3, <2>4, <2>5
<1>8. \A i : KnownAt(i)' = KnownAt(i)
  BY <1>1 DEF KnownAt, ArraysTo
<1>9. AllKnown' = AllKnown
  BY <1>1, <1>8 DEF AllKnown
<1>10. KnownInv'
  BY <1>1, <1>4, <1>6, <1>7, <1>8 DEF KnownInv
<1>11. GArr(scope) \subseteq AllKnown
  <2>1. Passed + 1 \in Nat /\ Len(module) + 1 \in Nat /\ Passed + 1 <= Len(module) + 1
    BY <1>7
  <2>2. KnownAt(Passed + 1) \subseteq AllKnown
    BY <2>1, KnownGrows DEF AllKnown
  <2> QED BY <1>1, <1>5, <2>2 DEF KnownInv
<1>12. ASSUME InnerQuiet' PROVE InnerQuiet /\ BodyQuiet(st.body, AllKnown)
  <2>1. \A d \in 2..(n + 1) : LevelQuiet(work', scope', d)
    BY <1>2, <1>12 DEF InnerQuiet
  <2>2. ASSUME NEW d \in 2..n PROVE LevelQuiet(work, scope, d)
    <3>1. LevelQuiet(work', scope', d) /\ d \in 1..n
      BY <1>6, <2>1
    <3>2. Known(work', scope', d) \subseteq Known(work, scope, d) /\ Level(work', d) = Level(work, d)
      BY <1>2, <1>4, <3>1
    <3> QED BY <3>1, <3>2, QuietMore DEF LevelQuiet
  <2>3. BodyQuiet(st.body, AllKnown)
    <3>1. LevelQuiet(work', scope', n + 1)
      BY <1>6, <2>1
    <3>2. TasksQuiet(st.body, Known(work', scope', n + 1), "instance")
      BY <1>2, <1>3, <3>1 DEF LevelQuiet
    <3>3. st.body \in Seq(Statements)
      BY <1>1, StatementsAssumption DEF WellFormed
    <3>4. BodyQuiet(st.body, Known(work', scope', n + 1))
      BY <3>2, <3>3, QuietBody
    <3>5. Known(work', scope', n + 1) \subseteq AllKnown
      BY <1>4, <1>11
    <3> QED BY <3>4, <3>5, QuietMore
  <2> QED BY <2>2, <2>3 DEF InnerQuiet, n
<1>13. RunningQuiet /\ BodyQuiet(st.body, AllKnown) => RunningQuiet'
  BY <1>2, <1>3, <1>6, <1>9 DEF RunningQuiet, n
<1>14. InstancesQuiet' <=> InstancesQuiet
  BY <1>1, <1>9 DEF InstancesQuiet
<1>15. (\A i \in 1..Passed : TaskQuiet(module[i], KnownAt(i), "module"))'
       <=> \A i \in 1..Passed : TaskQuiet(module[i], KnownAt(i), "module")
  BY <1>1, <1>7, <1>8
<1> QED BY <1>1, <1>10, <1>12, <1>13, <1>14, <1>15 DEF QuietInv

LEMMA QuietEnds ==
    ASSUME TypeInv, PosInv, KnownInv, QuietInv, Ends
    PROVE  KnownInv' /\ QuietInv' /\ DoneQuiet'
<1> DEFINE n == Len(work)
<1>1. /\ stage = "check" /\ module' = module /\ diags' = diags /\ F.todo = <<>>
      /\ pending' = (IF F.ends = "instance" THEN Append(pending, [key |-> F.key, st |-> F.st]) ELSE pending)
      /\ stage' = (IF F.ends # "module" THEN stage ELSE IF diags = {} THEN "generate" ELSE "rejected")
  BY DEF Ends
<1>2. /\ Len(work') = n - 1 /\ n \in Nat /\ n > 0 /\ Level(work, n) = F
      /\ \A d \in 1..(n - 1) : Level(work', d) = Level(work, d)
  BY EndLevels
<1>3. (F.ends = "module") = (n = 1)
  <2>1. n \in 1..n /\ StackInv
    BY <1>1, <1>2 DEF TypeInv
  <2> QED BY <1>2, <2>1 DEF StackInv
<1>4. \A d \in 1..(n - 1) : Known(work', scope', d) \subseteq Known(work, scope, d)
  BY KnownEnds
<1>5. \A i : KnownAt(i)' = KnownAt(i)
  BY <1>1 DEF KnownAt, ArraysTo
<1>6. AllKnown' = AllKnown
  BY <1>1, <1>5 DEF AllKnown
<1> HIDE DEF n
<1>7. \A K : TasksQuiet(<<>>, K, F.ends)
  <2>1. \A i : i \notin DOMAIN <<>>
    OBVIOUS
  <2> QED BY <2>1 DEF TasksQuiet
<1>8. RunningQuiet <=> (\A d \in 1..(n - 1) : Level(work, d).ends = "instance"
                                              => BodyQuiet(Level(work, d).st.body, AllKnown))
                       /\ (F.ends = "instance" => BodyQuiet(F.st.body, AllKnown))
  <2>1. \A d \in 1..n : d = n \/ d \in 1..(n - 1)
    BY <1>2
  <2>2. n \in 1..n /\ \A d \in 1..(n - 1) : d \in 1..n
    BY <1>2
  <2> QED BY <1>2, <2>1, <2>2 DEF RunningQuiet, n
<1>9. InstancesQuiet' <=> InstancesQuiet /\ (F.ends = "instance" => BodyQuiet(F.st.body, AllKnown))
  <2>1. CASE F.ends # "instance"
    BY <1>1, <1>6, <2>1 DEF InstancesQuiet
  <2>2. CASE F.ends = "instance"
    <3> DEFINE e == [key |-> F.key, st |-> F.st]
               k == Len(pending)
    <3>1. e.st = F.st
      OBVIOUS
    <3> HIDE DEF e
    <3>2. /\ DOMAIN pending = 1..k /\ k \in Nat /\ DOMAIN pending' = 1..(k + 1)
          /\ pending'[k + 1] = e /\ \A i \in 1..k : pending'[i] = pending[i]
      <4>1. pending \in Seq({pending[i] : i \in DOMAIN pending})
        BY DEF TypeInv, IsSeq
      <4>2. pending' = Append(pending, e)
        BY <1>1, <2>2 DEF e
      <4>3. \A A : \A q \in Seq(A) :
               /\ DOMAIN q = 1..Len(q) /\ Len(q) \in Nat /\ DOMAIN Append(q, e) = 1..(Len(q) + 1)
               /\ Append(q, e)[Len(q) + 1] = e /\ \A i \in 1..Len(q) : Append(q, e)[i] = q[i]
        OBVIOUS
      <4> QED BY <4>1, <4>2, <4>3
    <3> HIDE DEF k
    <3>3. (\A i \in 1..(k + 1) : i = k + 1 \/ i \in 1..k) /\ k + 1 \in 1..(k + 1)
          /\ \A i \in 1..k : i \in 1..(k + 1)
      BY <3>2
    <3> QED BY <1>6, <2>2, <3>1, <3>2, <3>3 DEF InstancesQuiet
  <2> QED BY <2>1, <2>2
<1>10. CASE F.ends # "module"
  <2>1. stage' = "check" /\ n # 1 /\ n > 1
    BY <1>1, <1>2, <1>3, <1>10
  <2>2. 1 \in 1..(n - 1) /\ (\A d \in 2..n : d = n \/ (d \in 2..(n - 1) /\ d \in 1..(n - 1)))
    BY <1>2, <2>1
  <2>3. Passed' = Passed
    BY <1>1, <1>2, <2>2 DEF Passed
  <2>4. KnownInv'
    BY <1>1, <1>4, <1>5, <2>2, <2>3 DEF KnownInv
  <2>5. InnerQuiet' => InnerQuiet
    <3> SUFFICES ASSUME InnerQuiet', NEW d \in 2..n PROVE LevelQuiet(work, scope, d)
      BY DEF InnerQuiet, n
    <3>1. \A c \in 2..(n - 1) : LevelQuiet(work', scope', c)
      BY <1>2 DEF InnerQuiet
    <3>2. CASE d = n
      <4>1. Level(work, d).todo = <<>> /\ Level(work, d).ends = F.ends
        BY <1>1, <1>2, <3>2
      <4> QED BY <1>7, <4>1 DEF LevelQuiet
    <3>3. CASE d # n
      <4>1. LevelQuiet(work', scope', d) /\ d \in 1..(n - 1)
        BY <2>2, <3>1, <3>3
      <4>2. Known(work', scope', d) \subseteq Known(work, scope, d) /\ Level(work', d) = Level(work, d)
        BY <1>2, <1>4, <4>1
      <4> QED BY <4>1, <4>2, QuietMore DEF LevelQuiet
    <3> QED BY <3>2, <3>3
  <2>6. RunningQuiet' <=> \A d \in 1..(n - 1) : Level(work, d).ends = "instance"
                                                => BodyQuiet(Level(work, d).st.body, AllKnown)
    BY <1>2, <1>6 DEF RunningQuiet
  <2>7. (\A i \in 1..Passed : TaskQuiet(module[i], KnownAt(i), "module"))'
        <=> \A i \in 1..Passed : TaskQuiet(module[i], KnownAt(i), "module")
    BY <1>1, <1>5, <2>3
  <2>8. QuietInv'
    BY <1>1, <1>8, <1>9, <2>5, <2>6, <2>7 DEF QuietInv
  <2>9. DoneQuiet'
    BY <2>1 DEF DoneQuiet, Generating
  <2> QED BY <2>4, <2>8, <2>9
<1>11. CASE F.ends = "module"
  <2>1. stage' # "check" /\ n = 1
    BY <1>1, <1>3, <1>11
  <2>2. KnownInv' /\ QuietInv'
    BY <2>1 DEF KnownInv, QuietInv
  <2>3. InnerQuiet
    <3>1. 2..1 = {}
      OBVIOUS
    <3> QED BY <2>1, <3>1 DEF InnerQuiet, n
  <2>4. DOMAIN module = 1..Passed
    <3>1. Level(work, 1) = F /\ Len(module) \in Nat /\ DOMAIN module = 1..Len(module)
      BY <1>2, <2>1, ModuleFacts
    <3>2. Passed = Len(module)
      <4>1. Len(<<>>) = 0
        OBVIOUS
      <4>2. Len(Level(work, 1).todo) = 0
        BY <1>1, <3>1, <4>1
      <4>3. \A k \in Nat : k - 0 = k
        OBVIOUS
      <4>4. Passed = Len(module) - 0
        BY <4>2, Zenon DEF Passed
      <4> QED BY <3>1, <4>3, <4>4
    <3> QED BY <3>1, <3>2
  <2>5. ASSUME stage' \in Generating PROVE diags = {}
    BY <1>1, <1>11, <2>5 DEF Generating
  <2>6. DoneQuiet'
    BY <1>1, <1>5, <1>9, <1>11, <2>3, <2>4, <2>5 DEF DoneQuiet, QuietInv
  <2> QED BY <2>2, <2>6
<1> QED BY <1>10, <1>11

LEMMA QuietCollect ==
    ASSUME TypeInv, Step(CollectNames) \/ Step(CollectTypes)
    PROVE  KnownInv' /\ QuietInv' /\ DoneQuiet'
<1>1. CASE Step(CollectNames)
  <2>1. stage' = "collect types"
    BY <1>1 DEF Step, CollectNames
  <2> QED BY <2>1 DEF KnownInv, QuietInv, DoneQuiet, Generating
<1>2. CASE Step(CollectTypes)
  <2> DEFINE f == Frame(module, TRUE, "module")
  <2>1. /\ stage = "collect types" /\ stage' = "check" /\ module' = module /\ work' = <<f>>
        /\ pending' = pending /\ scope' = scope /\ f.todo = module /\ f.ends = "module"
    BY <1>2 DEF Step, CollectTypes, Frame
  <2>2. scope = EmptyScope /\ pending = <<>> /\ Len(module) \in Nat
    BY <2>1, ModuleFacts DEF TypeInv, Collecting
  <2> HIDE DEF f
  <2>3. Len(work') = 1 /\ Level(work', 1) = f
    <3>1. Len(<<f>>) = 1 /\ <<f>>[1] = f
      OBVIOUS
    <3>2. \A w : Len(w) = 1 => Level(w, 1) = w[1]
      BY DEF Level
    <3>3. Len(work') = 1 /\ work'[1] = f
      BY <2>1, <3>1
    <3> QED BY <3>2, <3>3
  <2>4. Passed' = 0
    <3>1. Passed' = Len(module') - Len(Level(work', 1).todo)
      BY DEF Passed
    <3>2. module' = module /\ Level(work', 1).todo = module
      BY <2>1, <2>3
    <3> QED BY <2>2, <3>1, <3>2
  <2>5. \A d \in 1..1 : d = 1
    OBVIOUS
  <2>6. KnownInv'
    <3>1. GArr(scope') = {} /\ LArr(scope') = {}
      <4>1. scope'.symbols = <<>> /\ scope'.locals = <<>>
        BY <2>1, <2>2 DEF EmptyScope
      <4>2. \A j : j \notin DOMAIN <<>>
        OBVIOUS
      <4> QED BY <4>1, <4>2 DEF GArr, LArr
    <3>2. \A e \in Near(work', 1) : e = 1
      BY <2>3, <2>5 DEF Near
    <3>3. View(scope', work', 1) = scope'
      BY <2>3 DEF View
    <3>4. Known(work', scope', 1) = {}
      BY <3>1, <3>2, <3>3 DEF Known
    <3> QED BY <3>4 DEF KnownInv
  <2>7. (\A i \in 1..Passed : TaskQuiet(module[i], KnownAt(i), "module"))'
    <3>1. 1..0 = {}
      OBVIOUS
    <3>2. 1..Passed' = {}
      BY <2>4, <3>1
    <3> QED BY <3>2
  <2>8. InstancesQuiet'
    <3>1. \A j : j \notin DOMAIN <<>>
      OBVIOUS
    <3>2. pending' = <<>>
      BY <2>1, <2>2
    <3> QED BY <3>1, <3>2 DEF InstancesQuiet
  <2>9. RunningQuiet'
    <3>1. \A d \in 1..Len(work') : Level(work', d) = f
      BY <2>3, <2>5
    <3>2. f.ends # "instance"
      BY <2>1
    <3> QED BY <3>1, <3>2 DEF RunningQuiet
  <2>10. QuietInv'
    BY <2>7, <2>8, <2>9 DEF QuietInv
  <2>11. DoneQuiet'
    BY <2>1 DEF DoneQuiet, Generating
  <2> QED BY <2>6, <2>10, <2>11
<1> QED BY <1>1, <1>2

-----------------------------------------------------------------------------
(* What checkExpr says of the statement at hand.  That it accepts UBOUND and  *)
(* LBOUND of arrays only (BoundsAreArrays) is assumed here: checkExpr is a    *)
(* parameter of this module.                                                 *)

JudgedInv == judged.done => Turn /\ DOMAIN judged.of = DOMAIN Evaluated(Now)

LEMMA JudgedNext == ASSUME JudgedInv, [Next]_vars PROVE JudgedInv'
<1>1. CASE UNCHANGED <<tables, scope, work, judged, stage>>
  <2>1. (Turn <=> Turn') /\ Evaluated(Now)' = Evaluated(Now)
    BY <1>1 DEF Turn, Busy, Skipped, Stray, Evaluated, Around, IsField, T, S, Now
  <2> QED BY <1>1, <2>1 DEF JudgedInv
<1>2. CASE UNCHANGED vars \/ Terminated
  BY <1>1, <1>2 DEF vars, Terminated
<1>3. CASE Step(CheckExpressions)
  <2>1. UNCHANGED <<tables, scope, work, stage>> /\ Turn
    BY <1>3 DEF Step, CheckExpressions
  <2>2. Turn' /\ Evaluated(Now)' = Evaluated(Now)
    BY <2>1 DEF Turn, Busy, Skipped, Stray, Evaluated, Around, IsField, T, S, Now
  <2>3. DOMAIN judged'.of = DOMAIN Evaluated(Now)
    BY <1>3 DEF Step, CheckExpressions
  <2> QED BY <2>2, <2>3 DEF JudgedInv
<1>4. CASE CodegenNext \/ Step(CollectNames) \/ Step(CollectTypes) \/ Step(EndBlock) \/ Step(instantiateGeneric)
  <2>1. judged' = judged
    BY <1>4, CodegenSteps DEF Step, CollectNames, CollectTypes, EndBlock, instantiateGeneric, Instantiate
  <2>2. ~(Turn /\ judged.done)
    BY <1>4, CodegenSteps DEF Step, CollectNames, CollectTypes, EndBlock, instantiateGeneric, Turn, Busy
  <2> QED BY <2>1, <2>2 DEF JudgedInv
<1>5. CASE judged' = NotYet
  BY <1>5 DEF JudgedInv, NotYet
<1>6. CASE Step(Dim) \/ Step(Redim) \/ Step(Const) \/ Step(Enum) \/ Step(Assign) \/ Step(Store)
           \/ Step(ReturnAssign) \/ Step(PrintStmt) \/ Step(CallStmt)
  BY <1>5, <1>6 DEF Step, Done, Dim, Redim, Const, Enum, Assign, Store, ReturnAssign, PrintStmt, CallStmt
<1>7. CASE Step(If) \/ Step(SelectCase) \/ Step(Arm) \/ Step(DoLoop) \/ Step(LoopUntil)
           \/ Step(ForNext) \/ Step(LoopBody) \/ Step(WhileWend)
  BY <1>5, <1>7 DEF Step, Done, Enter, If, SelectCase, Arm, DoLoop, LoopUntil, ForNext, LoopBody, WhileWend
<1>8. CASE Step(Goto) \/ Step(GoSub) \/ Step(Label) \/ Step(ExitLoop) \/ Step(Return) \/ Step(Yield)
           \/ Step(ProcDecl) \/ Step(SkipGeneric) \/ Step(NamespaceDecl)
           \/ Step(StrayMember) \/ Step(TypeDecl)
  BY <1>5, <1>8 DEF Step, Done, Enter, Goto, GoSub, Label, ExitLoop, Return, Yield, ProcDecl, SkipGeneric,
                    NamespaceDecl, StrayMember, TypeDecl
<1> QED BY <1>2, <1>3, <1>4, <1>6, <1>7, <1>8 DEF Next

\* An expression of the statement in which checkExpr finds no error.
Accepted(e) == \E i \in DOMAIN Evaluated(Now) : Evaluated(Now)[i] = e /\ Faulty(It(i)) = {}

LEMMA HeardFrom ==
    ASSUME JudgedInv, BoundsAreArrays, judged.done,
           diags' = {} => \A e \in Heard(Now) : e = NoExpr \/ Accepted(e)
    PROVE  HeardOK
<1>1. \A r : Faulty(r) = {} => r.errs = {}
  BY DEF Faulty, Check
<1>2. \A e : Accepted(e) => \A x \in BoundsIn(e) : lookupSymbol(S, x).array
  BY <1>1 DEF JudgedInv, BoundsAreArrays, Accepted
<1> QED BY <1>2 DEF HeardOK, Asked

LEMMA FewExpressions ==
    /\ \A a : DOMAIN <<a>> = {1} /\ <<a>>[1] = a
    /\ \A a, b : DOMAIN <<a, b>> = {1, 2} /\ <<a, b>>[1] = a /\ <<a, b>>[2] = b
    /\ \A a, b, c : /\ DOMAIN <<a, b, c>> = {1, 2, 3}
                    /\ <<a, b, c>>[1] = a /\ <<a, b, c>>[2] = b /\ <<a, b, c>>[3] = c
<1>1. 1..1 = {1} /\ 1..2 = {1, 2} /\ 1..3 = {1, 2, 3}
  OBVIOUS
<1> QED BY <1>1

LEMMA NoErrors ==
    ASSUME JudgedInv, judged.done
    PROVE  /\ DOMAIN judged.of = DOMAIN Evaluated(Now)
           /\ AllErrors = {} => \A i \in DOMAIN Evaluated(Now) : Faulty(It(i)) = {}
           /\ \A what : WholeNumbers(judged.of, what) = {} =>
                           \A i \in DOMAIN Evaluated(Now) : Faulty(It(i)) = {}
           /\ \A r, what : WholeNumbers(<<r>>, what) = {} => Faulty(r) = {}
           /\ \A e, r : checkCondition(e, r) = {} => e = NoExpr \/ Faulty(r) = {}
<1>1. DOMAIN judged.of = DOMAIN Evaluated(Now)
  BY DEF JudgedInv
<1>2. AllErrors = {} => \A i \in DOMAIN Evaluated(Now) : Faulty(It(i)) = {}
  BY <1>1 DEF AllErrors
<1>3. ASSUME NEW rs, NEW what, WholeNumbers(rs, what) = {}, NEW i \in DOMAIN rs PROVE Faulty(rs[i]) = {}
  <2>1. Faulty(rs[i]) \cup Check(isIntegerFamily(rs[i].t), what) \subseteq WholeNumbers(rs, what)
    BY DEF WholeNumbers
  <2> QED BY <1>3, <2>1
<1>4. \A what : WholeNumbers(judged.of, what) = {} =>
                   \A i \in DOMAIN Evaluated(Now) : Faulty(It(i)) = {}
  BY <1>1, <1>3 DEF It
<1>5. \A r, what : WholeNumbers(<<r>>, what) = {} => Faulty(r) = {}
  <2> SUFFICES ASSUME NEW r, NEW what, WholeNumbers(<<r>>, what) = {} PROVE Faulty(r) = {}
    OBVIOUS
  <2>1. 1 \in DOMAIN <<r>> /\ <<r>>[1] = r
    OBVIOUS
  <2>2. Faulty(<<r>>[1]) = {}
    BY <1>3, <2>1
  <2> QED BY <2>1, <2>2
<1>6. \A e, r : checkCondition(e, r) = {} => e = NoExpr \/ Faulty(r) = {}
  BY DEF checkCondition
<1> QED BY <1>1, <1>2, <1>4, <1>5, <1>6

\* What is at hand and what a step that has its results does with errors.
LEMMA AtJudged ==
    ASSUME NEW kind, At(kind)
    PROVE  Now.s = kind /\ judged.done
BY DEF At

LEMMA HeardDeclares ==
    ASSUME JudgedInv, BoundsAreArrays, Step(Dim) \/ Step(Redim) \/ Step(Const)
    PROVE  HeardOK
<1>1. CASE Step(Dim)
  <2>1. Now.s = "dim" /\ judged.done
    BY <1>1, AtJudged DEF Step, Dim
  <2>2. SUFFICES ASSUME diags' = {}, NEW e \in Heard(Now) PROVE Accepted(e)
    BY <2>1, HeardFrom
  <2>3. Now.array /\ e \in ToSet(Now.bounds)
    <3>1. e \in Spoken(Now)
      BY <2>1 DEF Heard
    <3> QED BY <2>1, <3>1 DEF Spoken
  <2>4. ~Taken(T, S, Now.x)
    <3>1. Taken(T, S, Now.x) => "declared twice" \in diags'
      BY <1>1 DEF Step, Dim, Done
    <3> QED BY <2>2, <3>1
  <2>5. WholeNumbers(judged.of, "bound type") \subseteq diags'
    BY <1>1, <2>3, <2>4 DEF Step, Dim, Done
  <2>6. Evaluated(Now) = Now.bounds
    BY <2>1, <2>4 DEF Evaluated
  <2> QED BY <2>1, <2>2, <2>3, <2>5, <2>6, NoErrors DEF Accepted, ToSet
<1>2. CASE Step(Redim)
  <2>1. Now.s = "redim" /\ judged.done
    BY <1>2, AtJudged DEF Step, Redim
  <2>2. SUFFICES ASSUME diags' = {}, NEW e \in Heard(Now) PROVE Accepted(e)
    BY <2>1, HeardFrom
  <2>3. e \in ToSet(Now.bounds)
    <3>1. e \in Spoken(Now)
      BY <2>1 DEF Heard
    <3> QED BY <2>1, <3>1 DEF Spoken
  <2> DEFINE var == lookupSymbol(S, Now.x)
             rest == Check(var.dynamic, "fixed array")
                     \cup Check(Now.t # Unknown => Assignable(T.structs, Now.t, var.t), "type mismatch")
                     \cup WholeNumbers(judged.of, "bound type")
  <2>4. diags' = diags \cup (IF var = NoSymbol THEN {"not declared"}
                             ELSE IF ~var.array THEN {"not an array"} ELSE rest)
    BY <1>2 DEF Step, Redim, Done
  <2> HIDE DEF rest, var
  <2>5. var.array /\ rest = {}
    BY <2>2, <2>4
  <2>6. WholeNumbers(judged.of, "bound type") = {}
    BY <2>5 DEF rest
  <2>7. Evaluated(Now) = Now.bounds
    BY <2>1, <2>5 DEF Evaluated, var
  <2> QED BY <2>1, <2>3, <2>6, <2>7, NoErrors DEF Accepted, ToSet
<1>3. CASE Step(Const)
  <2>1. Now.s = "const" /\ judged.done
    BY <1>3, AtJudged DEF Step, Const
  <2>2. SUFFICES ASSUME diags' = {}, NEW e \in Heard(Now) PROVE Accepted(e)
    BY <2>1, HeardFrom
  <2>3. e = Now.e
    <3>1. e \in Spoken(Now)
      BY <2>1 DEF Heard
    <3> QED BY <2>1, <3>1 DEF Spoken
  <2>4. ~Taken(T, S, Now.x)
    <3>1. Taken(T, S, Now.x) => "declared twice" \in diags'
      BY <1>3 DEF Step, Const, Done
    <3> QED BY <2>2, <3>1
  <2>5. Faulty(It(1)) \subseteq diags'
    BY <1>3, <2>4 DEF Step, Const, Done
  <2>6. Evaluated(Now) = <<Now.e>>
    BY <2>1, <2>4 DEF Evaluated
  <2> QED BY <2>2, <2>3, <2>5, <2>6, FewExpressions DEF Accepted
<1> QED BY <1>1, <1>2, <1>3

LEMMA HeardAssigns ==
    ASSUME JudgedInv, BoundsAreArrays,
           Step(Assign) \/ Step(Store) \/ Step(ReturnAssign) \/ Step(PrintStmt) \/ Step(CallStmt)
    PROVE  HeardOK
<1>1. CASE Step(Assign)
  <2>1. Now.s = "assign" /\ judged.done
    BY <1>1, AtJudged DEF Step, Assign
  <2>2. SUFFICES ASSUME diags' = {}, NEW e \in Heard(Now), e # NoExpr PROVE Accepted(e)
    BY <2>1, HeardFrom
  <2>3. e \in {Now.index, Now.e}
    <3>1. e \in Spoken(Now)
      BY <2>1 DEF Heard
    <3> QED BY <2>1, <3>1 DEF Spoken
  <2> DEFINE var == lookupSymbol(S, Now.x)
             field == FieldOf(T.structs, S.class, Now.x)
             rest == (IF Now.index # NoExpr
                      THEN Check(var.array, "not an array") \cup WholeNumbers(<<It(1)>>, "index type")
                      ELSE Check(~var.array, "array without index"))
                     \cup Faulty(It(2)) \cup Fits(var.t, It(2))
             member == Now.index = NoExpr /\ IsField(Now.x)
  <2>4. diags' = diags \cup (IF var = NoSymbol
                             THEN IF member THEN Faulty(It(2)) \cup Fits(field, It(2)) ELSE {"not declared"}
                             ELSE IF var.const THEN {"constant"} ELSE rest)
    BY <1>1 DEF Step, Assign, Done
  <2> HIDE DEF rest, var, field, member
  <2>5. CASE var = NoSymbol
    <3>1. member /\ Faulty(It(2)) = {}
      BY <2>2, <2>4, <2>5
    <3>2. e = Now.e
      BY <2>2, <2>3, <3>1 DEF member
    <3>3. Evaluated(Now) = <<Now.index, Now.e>>
      <4>1. ~var.const
        BY <2>5 DEF NoSymbol
      <4> QED BY <2>1, <3>1, <4>1 DEF Evaluated, var, member
    <3> QED BY <3>1, <3>2, <3>3, FewExpressions DEF Accepted
  <2>6. CASE var # NoSymbol
    <3>1. ~var.const /\ rest = {}
      BY <2>2, <2>4, <2>6
    <3>2. Faulty(It(2)) = {} /\ (Now.index # NoExpr => WholeNumbers(<<It(1)>>, "index type") = {})
      BY <3>1 DEF rest
    <3>3. Now.index # NoExpr => Faulty(It(1)) = {}
      BY <2>1, <3>2, NoErrors
    <3>4. Evaluated(Now) = <<Now.index, Now.e>>
      BY <2>1, <2>6, <3>1 DEF Evaluated, var
    <3>5. CASE e = Now.index
      <4>1. Faulty(It(1)) = {}
        BY <2>2, <3>3, <3>5
      <4> QED BY <3>4, <3>5, <4>1, FewExpressions DEF Accepted
    <3>6. CASE e = Now.e
      <4>1. Faulty(It(2)) = {}
        BY <3>2
      <4> QED BY <3>4, <3>6, <4>1, FewExpressions DEF Accepted
    <3> QED BY <2>3, <3>5, <3>6
  <2> QED BY <2>5, <2>6
<1>2. CASE Step(Store) \/ Step(ReturnAssign) \/ Step(PrintStmt) \/ Step(CallStmt)
  <2>1. Now.s \in {"store", "retassign", "print", "call"} /\ judged.done
    BY <1>2, AtJudged DEF Step, Store, ReturnAssign, PrintStmt, CallStmt
  <2>2. AllErrors \subseteq diags'
    BY <1>2 DEF Step, Done, Store, ReturnAssign, PrintStmt, CallStmt
  <2>3. diags' = {} => \A i \in DOMAIN Evaluated(Now) : Faulty(It(i)) = {}
    BY <2>1, <2>2, NoErrors
  <2>4. \A e \in Heard(Now) : \E i \in DOMAIN Evaluated(Now) : Evaluated(Now)[i] = e
    <3>1. Heard(Now) = Spoken(Now)
      BY <2>1 DEF Heard
    <3>2. CASE Now.s = "store"
      <4>1. Spoken(Now) = {Now.target, Now.e} /\ Evaluated(Now) = <<Now.target, Now.e>>
        BY <3>2 DEF Spoken, Evaluated
      <4> QED BY <3>1, <4>1, FewExpressions
    <3>3. CASE Now.s = "retassign"
      <4>1. Spoken(Now) = {Now.e} /\ Evaluated(Now) = <<Now.e>>
        BY <3>3 DEF Spoken, Evaluated
      <4> QED BY <3>1, <4>1, FewExpressions
    <3>4. CASE Now.s = "print"
      <4>1. Spoken(Now) = ToSet(Now.args) /\ Evaluated(Now) = Now.args
        BY <3>4 DEF Spoken, Evaluated
      <4> QED BY <3>1, <4>1 DEF ToSet
    <3>5. CASE Now.s = "call"
      <4> DEFINE c == [k |-> "callstmt", on |-> Now.on, x |-> Now.x, args |-> Now.args]
      <4>1. Spoken(Now) = {c} /\ Evaluated(Now) = <<c>>
        BY <3>5 DEF Spoken, Evaluated
      <4> HIDE DEF c
      <4> QED BY <3>1, <4>1, FewExpressions
    <3> QED BY <2>1, <3>2, <3>3, <3>4, <3>5
  <2> QED BY <2>1, <2>3, <2>4, HeardFrom DEF Accepted
<1> QED BY <1>1, <1>2

LEMMA HeardReturns ==
    ASSUME JudgedInv, BoundsAreArrays, Step(Return) \/ Step(Yield)
    PROVE  HeardOK
<1>1. Now.s \in {"return", "yield"} /\ judged.done
  BY AtJudged DEF Step, Return, Yield
<1>2. SUFFICES ASSUME diags' = {}, NEW e \in Heard(Now), e # NoExpr PROVE Accepted(e)
  BY <1>1, HeardFrom
<1>3. e = Now.e
  <2>1. e \in Spoken(Now)
    BY <1>1 DEF Heard
  <2> QED BY <1>1, <2>1 DEF Spoken
<1>4. Evaluated(Now) = <<Now.e>> /\ AllErrors = {}
  <2>1. CASE Step(Return)
    <3> DEFINE outside == Around = "none" /\ ~S.gosub
               none == Around # "Function" \/ IsGenerator(S.ret)
               value == AllErrors \cup Fits(Given(S.ret), It(1))
    <3>1. Now.s = "return" /\ diags' = diags \cup (IF outside THEN {"RETURN outside"} \cup AllErrors
                             ELSE IF none THEN Check(Now.e = NoExpr, "RETURN a value")
                             ELSE IF Now.e = NoExpr THEN {"RETURN no value"} ELSE value)
      BY <2>1 DEF Step, Return, Done, At
    <3> HIDE DEF outside, none, value
    <3>2. ~outside /\ ~none /\ value = {}
      BY <1>2, <1>3, <3>1 DEF Check
    <3>3. Around = "Function" /\ ~IsGenerator(S.ret) /\ AllErrors = {}
      BY <3>2 DEF none, value
    <3> QED BY <3>1, <3>3 DEF Evaluated, IsGenerator
  <2>2. CASE Step(Yield)
    <3>1. Now.s = "yield" /\ AllErrors \subseteq diags'
      BY <2>2 DEF Step, Yield, Done, At
    <3> QED BY <1>2, <3>1 DEF Evaluated
  <2> QED BY <2>1, <2>2
<1> QED BY <1>1, <1>3, <1>4, NoErrors, FewExpressions DEF Accepted

LEMMA HeardBlocks ==
    ASSUME JudgedInv, BoundsAreArrays, Step(If) \/ Step(SelectCase) \/ Step(Arm)
    PROVE  HeardOK
<1>1. Now.s \in {"if", "select", "arm"} /\ judged.done
  BY AtJudged DEF Step, If, SelectCase, Arm
<1>2. SUFFICES ASSUME diags' = {}, NEW e \in Heard(Now), e # NoExpr PROVE Accepted(e)
  BY <1>1, HeardFrom
<1>3. CASE Step(If)
  <2>1. /\ Now.s = "if"
        /\ UNION {checkCondition(Now.conds[i], It(i)) : i \in DOMAIN Now.conds} \subseteq diags'
    BY <1>3 DEF Step, If, Enter, At
  <2>2. Evaluated(Now) = Now.conds /\ e \in ToSet(Now.conds)
    BY <2>1 DEF Evaluated, Heard
  <2>3. PICK i \in DOMAIN Now.conds : Now.conds[i] = e
    BY <2>2 DEF ToSet
  <2>4. checkCondition(e, It(i)) = {}
    BY <1>2, <2>1, <2>3
  <2> QED BY <1>1, <1>2, <2>2, <2>3, <2>4, NoErrors DEF Accepted
<1>4. CASE Step(SelectCase)
  <2>1. Now.s = "select" /\ AllErrors \subseteq diags'
    BY <1>4 DEF Step, SelectCase, Enter, At
  <2>2. Evaluated(Now) = <<Now.e>> /\ e = Now.e
    BY <2>1 DEF Evaluated, Heard, Spoken
  <2> QED BY <1>1, <1>2, <2>1, <2>2, NoErrors, FewExpressions DEF Accepted
<1>5. CASE Step(Arm)
  <2>1. /\ Now.s = "arm"
        /\ UNION {Faulty(It(i)) \cup Check(isCaseCompatible(Now.sel, It(i).t), "CASE type")
                  : i \in DOMAIN Now.matches} \subseteq diags'
    BY <1>5 DEF Step, Arm, Enter, At
  <2>2. Evaluated(Now) = Now.matches /\ e \in ToSet(Now.matches)
    BY <2>1 DEF Evaluated, Heard
  <2>3. PICK i \in DOMAIN Now.matches : Now.matches[i] = e
    BY <2>2 DEF ToSet
  <2>4. Faulty(It(i)) = {}
    <3>1. Faulty(It(i)) \cup Check(isCaseCompatible(Now.sel, It(i).t), "CASE type") \subseteq diags'
      BY <2>1
    <3> QED BY <1>2, <3>1
  <2> QED BY <2>2, <2>3, <2>4 DEF Accepted
<1> QED BY <1>3, <1>4, <1>5

LEMMA HeardLoops ==
    ASSUME JudgedInv, BoundsAreArrays,
           Step(ForNext) \/ Step(DoLoop) \/ Step(LoopUntil) \/ Step(WhileWend)
    PROVE  HeardOK
<1>1. Now.s \in {"for", "do", "post", "while"} /\ judged.done
  BY AtJudged DEF Step, ForNext, DoLoop, LoopUntil, WhileWend
<1>2. SUFFICES ASSUME diags' = {}, NEW e \in Heard(Now), e # NoExpr PROVE Accepted(e)
  BY <1>1, HeardFrom
<1>3. CASE Step(ForNext)
  <2>1. /\ Now.s = "for"
        /\ checkCondition(Now.from, It(1)) \cup checkCondition(Now.to, It(2))
           \cup checkCondition(Now.step, It(3)) \subseteq diags'
    BY <1>3 DEF Step, ForNext, Enter, At
  <2>2. Evaluated(Now) = <<Now.from, Now.to, Now.step>> /\ e \in {Now.from, Now.to, Now.step}
    BY <2>1 DEF Evaluated, Heard, Spoken
  <2>3. /\ checkCondition(Now.from, It(1)) = {} /\ checkCondition(Now.to, It(2)) = {}
        /\ checkCondition(Now.step, It(3)) = {}
    BY <1>2, <2>1
  <2>4. \/ e = Now.from /\ Faulty(It(1)) = {}
        \/ e = Now.to /\ Faulty(It(2)) = {}
        \/ e = Now.step /\ Faulty(It(3)) = {}
    BY <1>1, <1>2, <2>2, <2>3, NoErrors
  <2> QED BY <2>2, <2>4, FewExpressions DEF Accepted
<1>4. CASE Step(DoLoop)
  <2>1. Now.s = "do" /\ checkCondition(Now.pre, It(1)) \subseteq diags'
    BY <1>4 DEF Step, DoLoop, Enter, At
  <2>2. Evaluated(Now) = <<Now.pre>> /\ e = Now.pre
    BY <2>1 DEF Evaluated, Heard, Spoken
  <2>3. Faulty(It(1)) = {}
    BY <1>1, <1>2, <2>1, <2>2, NoErrors
  <2> QED BY <2>2, <2>3, FewExpressions DEF Accepted
<1>5. CASE Step(LoopUntil)
  <2>1. Now.s = "post" /\ checkCondition(Now.e, It(1)) \subseteq diags'
    BY <1>5 DEF Step, LoopUntil, Done, At
  <2>2. Evaluated(Now) = <<Now.e>> /\ e = Now.e
    BY <2>1 DEF Evaluated, Heard
  <2>3. Faulty(It(1)) = {}
    BY <1>1, <1>2, <2>1, <2>2, NoErrors
  <2> QED BY <2>2, <2>3, FewExpressions DEF Accepted
<1>6. CASE Step(WhileWend)
  <2>1. Now.s = "while" /\ checkCondition(Now.e, It(1)) \subseteq diags'
    BY <1>6 DEF Step, WhileWend, Enter, At
  <2>2. Evaluated(Now) = <<Now.e>> /\ e = Now.e
    BY <2>1 DEF Evaluated, Heard, Spoken
  <2>3. Faulty(It(1)) = {}
    BY <1>1, <1>2, <2>1, <2>2, NoErrors
  <2> QED BY <2>2, <2>3, FewExpressions DEF Accepted
<1> QED BY <1>3, <1>4, <1>5, <1>6

\* The other statements have no expressions here, or are an error.
LEMMA HeardOthers ==
    ASSUME Step(Enum) \/ Step(LoopBody) \/ Step(Goto) \/ Step(GoSub) \/ Step(Label) \/ Step(ExitLoop)
           \/ Step(ProcDecl) \/ Step(SkipGeneric) \/ Step(NamespaceDecl) \/ Step(StrayMember)
           \/ Step(TypeDecl)
    PROVE  HeardOK
<1>1. CASE Step(StrayMember)
  <2>1. "namespace member" \in diags'
    BY <1>1 DEF Step, StrayMember, Done
  <2> QED BY <2>1 DEF HeardOK
<1>2. CASE Now.s \in {"enum", "round", "goto", "gosub", "label", "exit", "proc", "ns", "type"}
  <2>1. Heard(Now) = {}
    BY <1>2 DEF Heard, Spoken
  <2> QED BY <2>1 DEF HeardOK, Asked
<1> QED BY <1>1, <1>2 DEF Step, At, Enum, LoopBody, Goto, GoSub, Label, ExitLoop, ProcDecl, SkipGeneric,
                          Skipped, NamespaceDecl, TypeDecl

LEMMA HeardSteps ==
    ASSUME TypeInv, JudgedInv, BoundsAreArrays, stage = "check", [Next]_vars
    PROVE  (Takes /\ HeardOK) \/ Same \/ Ends \/ \E key, st : Requests(key, st)
<1>1. Takes \/ Same \/ Ends \/ \E key, st : Requests(key, st)
  BY WalkSteps
<1>2. CASE UNCHANGED vars \/ Terminated
  BY <1>2 DEF Terminated, vars, Same
<1>3. CASE Step(CheckExpressions)
  BY <1>3 DEF Step, CheckExpressions, codegenVars, Same
<1>4. CASE Step(instantiateGeneric) \/ Step(EndBlock)
  BY <1>4, InstanceStep, EndStep
<1>5. CASE CodegenNext \/ Step(CollectNames) \/ Step(CollectTypes)
  BY <1>5, CodegenSteps DEF Step, CollectNames, CollectTypes
<1>6. CASE HeardOK
  BY <1>1, <1>6
<1> QED BY <1>2, <1>3, <1>4, <1>5, <1>6, HeardDeclares, HeardAssigns, HeardReturns, HeardBlocks,
           HeardLoops, HeardOthers DEF Next

LEMMA QuietNext ==
    ASSUME TypeInv, JudgedInv, BoundsAreArrays, PosInv, KnownInv, QuietInv, DoneQuiet, [Next]_vars
    PROVE  KnownInv' /\ QuietInv' /\ DoneQuiet'
<1>1. CASE stage = "check" /\ Takes /\ HeardOK
  <2>1. DoneQuiet'
    <3>1. stage' = "check"
      BY <1>1 DEF Takes, Effects
    <3> QED BY <3>1 DEF DoneQuiet, Generating
  <2> QED BY <1>1, <2>1, QuietTakes
<1>2. CASE stage = "check" /\ Ends
  BY <1>2, QuietEnds
<1>3. ASSUME stage = "check", NEW key, NEW st, Requests(key, st)
      PROVE  KnownInv' /\ QuietInv' /\ DoneQuiet'
  <2>1. DoneQuiet'
    <3>1. stage' = "check"
      BY <1>3 DEF Requests
    <3> QED BY <3>1 DEF DoneQuiet, Generating
  <2> QED BY <1>3, <2>1, QuietInstance
<1>4. CASE Step(CollectNames) \/ Step(CollectTypes)
  BY <1>4, QuietCollect
<1>5. ASSUME UNCHANGED <<module, scope, work, diags, pending>>,
             stage' = stage \/ (stage = "generate" /\ stage' \in Generating)
      PROVE  KnownInv' /\ QuietInv' /\ DoneQuiet'
  <2>1. (\A i : KnownAt(i)' = KnownAt(i)) /\ Passed' = Passed
    BY <1>5 DEF KnownAt, ArraysTo, Passed
  <2>2. AllKnown' = AllKnown
    BY <1>5, <2>1 DEF AllKnown
  <2>3. /\ InnerQuiet' <=> InnerQuiet
        /\ InstancesQuiet' <=> InstancesQuiet
        /\ RunningQuiet' <=> RunningQuiet
    <3>1. InnerQuiet' <=> InnerQuiet
      BY <1>5 DEF InnerQuiet
    <3>2. InstancesQuiet' <=> InstancesQuiet
      BY <1>5, <2>2 DEF InstancesQuiet
    <3>3. RunningQuiet' <=> RunningQuiet
      BY <1>5, <2>2 DEF RunningQuiet
    <3> QED BY <3>1, <3>2, <3>3
  <2>4. /\ (\A i \in 1..Passed : TaskQuiet(module[i], KnownAt(i), "module"))'
           <=> \A i \in 1..Passed : TaskQuiet(module[i], KnownAt(i), "module")
        /\ (\A i \in DOMAIN module : TaskQuiet(module[i], KnownAt(i), "module"))'
           <=> \A i \in DOMAIN module : TaskQuiet(module[i], KnownAt(i), "module")
    BY <1>5, <2>1
  <2>5. stage' = "check" => stage = "check"
    BY <1>5 DEF Generating
  <2>6. KnownInv'
    BY <1>5, <2>1, <2>5 DEF KnownInv
  <2>7. QuietInv'
    BY <1>5, <2>3, <2>4, <2>5 DEF QuietInv
  <2>8. DoneQuiet'
    <3>1. stage' \in Generating => stage \in Generating
      BY <1>5 DEF Generating
    <3> QED BY <2>3, <2>4, <3>1 DEF DoneQuiet
  <2> QED BY <2>6, <2>7, <2>8
<1>6. CASE (stage = "check" /\ Same) \/ UNCHANGED vars \/ Terminated
  BY <1>5, <1>6 DEF Same, vars, Terminated
<1>7. CASE CodegenNext
  <2>1. /\ stage = "generate" /\ stage' \in {"generate", "written", "crashed"}
        /\ UNCHANGED <<module, scope, work, diags, pending>>
    BY <1>7, CodegenSteps
  <2> QED BY <1>5, <2>1 DEF Generating
<1> QED BY <1>1, <1>2, <1>3, <1>4, <1>6, <1>7, HeardSteps, StageSteps

-----------------------------------------------------------------------------
(* The generator: it knows at least that, and so no array is missed.         *)

FoundInv ==
    stage \in Generating =>
      /\ \A i \in 1..(Len(module) + 1) : i <= pos => KnownAt(i) \subseteq arrays
      /\ \A t \in out.main : ~IsMiss(t)
      /\ \A x \in DOMAIN out.subs : \A t \in out.subs[x] : ~IsMiss(t)
      /\ \A k \in DOMAIN out.procs : \A t \in out.procs[k] : ~IsMiss(t)

LEMMA UnitQuiet ==
    ASSUME Ready, DoneQuiet, FoundInv, stage = "generate", pos <= Units
    PROVE  /\ pos <= Len(module) => TaskQuiet(Unit(pos), arrays, "module")
           /\ ~(pos <= Len(module)) => BodyQuiet(Unit(pos).body, arrays)
<1>1. TypeInv /\ pos \in Nat /\ pos > 0
  BY ReadyFacts
<1>2. module \in Seq(Statements) /\ Len(module) \in Nat /\ DOMAIN module = 1..Len(module)
  BY <1>1, ModuleFacts
<1>3. IsSeq(pending)
  BY <1>1 DEF TypeInv
<1>4. DOMAIN pending = 1..Len(pending) /\ Len(pending) \in Nat
  BY <1>3, SeqDomain
<1>5. stage \in Generating
  BY DEF Generating
<1>6. CASE pos <= Len(module)
  <2>1. pos \in DOMAIN module /\ Unit(pos) = module[pos] /\ pos \in 1..(Len(module) + 1) /\ pos <= pos
    BY <1>1, <1>2, <1>6 DEF Unit
  <2>2. TaskQuiet(module[pos], KnownAt(pos), "module") /\ KnownAt(pos) \subseteq arrays
    BY <1>5, <2>1 DEF DoneQuiet, FoundInv
  <2> QED BY <1>6, <2>1, <2>2, QuietMore
<1>7. CASE ~(pos <= Len(module))
  <2> DEFINE i == pos - Len(module)
             n == Len(module) + 1
  <2>1. i \in DOMAIN pending /\ n \in 1..n /\ n <= pos
    BY <1>1, <1>2, <1>4, <1>7 DEF Units
  <2>2. Unit(pos) = pending[i].st
    BY <1>7 DEF Unit
  <2>3. BodyQuiet(pending[i].st.body, AllKnown) /\ AllKnown \subseteq arrays
    BY <1>5, <2>1 DEF DoneQuiet, InstancesQuiet, FoundInv, AllKnown
  <2> HIDE DEF i, n
  <2> QED BY <1>7, <2>2, <2>3, QuietMore
<1> QED BY <1>6, <1>7

LEMMA BodyMisses ==
    ASSUME NEW st \in Statements, st.s = "proc", NEW known \in SUBSET ArrayNames, BodyQuiet(st.body, known),
           NEW t \in ProcTokens(st, known)
    PROVE  ~IsMiss(t)
<1>1. t \in genBlock(st.body, known)
  BY DEF ProcTokens
<1>2. PICK i \in DOMAIN st.body : t \in genStmt[st.body[i], {}, known \cup ArraysBefore(st.body, i)]
  BY <1>1 DEF genBlock, BlockStep
<1>3. st.body \in Seq(Statements)
  BY StatementsAssumption DEF WellFormed
<1>4. known \cup ArraysBefore(st.body, i) \in SUBSET ArrayNames
  BY <1>3, ArraysInNamed
<1>5. Quiet(st.body[i], known \cup ArraysBefore(st.body, i))
  BY DEF BodyQuiet
<1>6. {} \in SUBSET Breakable
  OBVIOUS
<1> QED BY <1>2, <1>4, <1>5, <1>6 DEF Quiet

LEMMA FoundGrows ==
    ASSUME Ready, FoundInv, stage = "generate", pos <= Units, module' = module, pos' = pos + 1,
           arrays \subseteq arrays', pos <= Len(module) => TaskArrays(Unit(pos), "module") \subseteq arrays',
           \A t \in out'.main : t \in out.main \/ ~IsMiss(t),
           \A x \in DOMAIN out'.subs : \A t \in out'.subs[x] :
              (x \in DOMAIN out.subs /\ t \in out.subs[x]) \/ ~IsMiss(t),
           \A k \in DOMAIN out'.procs : \A t \in out'.procs[k] :
              (k \in DOMAIN out.procs /\ t \in out.procs[k]) \/ ~IsMiss(t)
    PROVE  FoundInv'
<1>1. TypeInv /\ pos \in Nat /\ pos > 0
  BY ReadyFacts
<1>2. Len(module) \in Nat
  BY <1>1, ModuleFacts
<1>3. stage \in Generating
  BY DEF Generating
<1>4. \A i : KnownAt(i)' = KnownAt(i)
  BY DEF KnownAt, ArraysTo
<1>5. ASSUME NEW i \in 1..(Len(module) + 1), i <= pos' PROVE KnownAt(i) \subseteq arrays'
  <2>1. CASE i <= pos
    BY <1>3, <2>1 DEF FoundInv
  <2>2. CASE ~(i <= pos)
    <3>1. i = pos + 1 /\ pos <= Len(module) /\ pos \in 1..(Len(module) + 1) /\ pos <= pos
      BY <1>1, <1>2, <1>5, <2>2
    <3>2. KnownAt(pos) \subseteq arrays
      BY <1>3, <3>1 DEF FoundInv
    <3>3. KnownAt(pos + 1) = KnownAt(pos) \cup TaskArrays(module[pos], "module")
      BY <1>1, KnownGrows
    <3>4. Unit(pos) = module[pos]
      BY <3>1 DEF Unit
    <3> QED BY <3>1, <3>2, <3>3, <3>4
  <2> QED BY <2>1, <2>2
<1>6. (\A i \in 1..(Len(module) + 1) : i <= pos => KnownAt(i) \subseteq arrays)'
  BY <1>4, <1>5
<1>7. (\A t \in out.main : ~IsMiss(t))'
  BY <1>3 DEF FoundInv, IsMiss
<1>8. (\A x \in DOMAIN out.subs : \A t \in out.subs[x] : ~IsMiss(t))'
  BY <1>3 DEF FoundInv, IsMiss
<1>9. (\A k \in DOMAIN out.procs : \A t \in out.procs[k] : ~IsMiss(t))'
  BY <1>3 DEF FoundInv, IsMiss
<1> QED BY <1>6, <1>7, <1>8, <1>9 DEF FoundInv

\* A label, a TYPE or a procedure declares no array where it stands.
LEMMA NoArrays ==
    ASSUME NEW st \in Statements, st.s \in {"label", "type", "proc"}
    PROVE  TaskArrays(st, "module") = {}
<1>1. TaskArrays(st, "module") = ArraysOf[st]
  BY DEF TaskArrays
<1>2. ArraysOf[st] = ArraysStep(ArraysOf, st)
  BY RecursionAssumption
<1>3. Parts(st) = <<>> /\ st.s # "dim"
  BY DEF Parts
<1>4. \A j : j \notin DOMAIN <<>>
  OBVIOUS
<1>5. ArraysStep(ArraysOf, st) = {}
  BY <1>3, <1>4 DEF ArraysStep
<1> QED BY <1>1, <1>2, <1>5

LEMMA LabelFound == ASSUME Ready, FoundInv, GenLabel PROVE FoundInv'
<1> DEFINE x == Unit(pos).x
<1>1. /\ stage = "generate" /\ pos <= Units /\ Unit(pos).s = "label"
      /\ module' = module /\ arrays' = arrays /\ pos' = pos + 1
      /\ x \in T.gosubs => out' = [out EXCEPT !.subs = Bind(@, x, {})]
      /\ x \notin T.gosubs => out' = [out EXCEPT !.main = @ \cup {<<"label", x>>}]
  BY DEF GenLabel, At2, Emit
<1>2. /\ TypeInv /\ KeysInv /\ EndInv /\ TargetInv /\ pos \in Nat /\ pos > 0 /\ IsOut(out)
  BY <1>1, ReadyFacts
<1>3. Unit(pos) \in Statements
  BY <1>1, <1>2, UnitFacts
<1>4. TaskArrays(Unit(pos), "module") = {}
  BY <1>1, <1>3, NoArrays
<1> HIDE DEF x
<1>5. /\ out'.main = IF x \in T.gosubs THEN out.main ELSE out.main \cup {<<"label", x>>}
      /\ out'.subs = IF x \in T.gosubs THEN Bind(out.subs, x, {}) ELSE out.subs
      /\ out'.procs = out.procs
  <2>1. CASE x \in T.gosubs
    BY <1>1, <1>2, <2>1 DEF IsOut
  <2>2. CASE x \notin T.gosubs
    BY <1>1, <1>2, <2>2 DEF IsOut
  <2> QED BY <2>1, <2>2
<1>6. ~IsMiss(<<"label", x>>)
  <2>1. <<"label", x>>[1] = "label"
    OBVIOUS
  <2> QED BY <2>1 DEF IsMiss
<1>7. \A t \in out'.main : t \in out.main \/ ~IsMiss(t)
  BY <1>5, <1>6
<1>8. \A y \in DOMAIN out'.subs : \A t \in out'.subs[y] :
         (y \in DOMAIN out.subs /\ t \in out.subs[y]) \/ ~IsMiss(t)
  <2>1. \A y \in DOMAIN Bind(out.subs, x, {}) :
            Bind(out.subs, x, {})[y] = {} \/ (y \in DOMAIN out.subs /\ Bind(out.subs, x, {})[y] = out.subs[y])
    BY DEF Bind
  <2> QED BY <1>5, <2>1
<1>9. \A k \in DOMAIN out'.procs : \A t \in out'.procs[k] :
         (k \in DOMAIN out.procs /\ t \in out.procs[k]) \/ ~IsMiss(t)
  BY <1>5
<1> QED BY <1>1, <1>4, <1>7, <1>8, <1>9, FoundGrows

LEMMA GlobalFound == ASSUME Ready, DoneQuiet, FoundInv, GenGlobal PROVE FoundInv'
<1> DEFINE st == Unit(pos)
           tokens == genStmt[st, {}, arrays]
<1>1. /\ stage = "generate" /\ pos <= Units /\ st.s \in Globals
      /\ module' = module /\ pos' = pos + 1
      /\ arrays' = arrays \cup ArraysOf[st]
      /\ out' = [out EXCEPT !.main = @ \cup tokens]
  BY DEF GenGlobal, At2, Emit
<1>2. /\ TypeInv /\ KeysInv /\ EndInv /\ TargetInv /\ CodeInv /\ pos \in Nat /\ pos > 0 /\ IsOut(out)
      /\ arrays \in SUBSET ArrayNames
  BY <1>1, ReadyFacts
<1>3. Quiet(st, arrays)
  <2>1. ~(pos <= Len(module)) => st.s = "proc"
    BY <1>1, <1>2, UnitFacts
  <2>2. TaskQuiet(st, arrays, "module")
    BY <1>1, <2>1, UnitQuiet DEF Globals
  <2> QED BY <1>1, <2>2 DEF TaskQuiet, Globals
<1>4. TaskArrays(Unit(pos), "module") \subseteq arrays'
  BY <1>1 DEF TaskArrays, Globals
<1>5. \A t \in tokens : ~IsMiss(t)
  <2>1. {} \in SUBSET Breakable
    OBVIOUS
  <2> QED BY <1>2, <1>3, <2>1 DEF Quiet
<1> HIDE DEF st, tokens
<1>6. out'.main = out.main \cup tokens /\ out'.subs = out.subs /\ out'.procs = out.procs
  BY <1>1, <1>2 DEF IsOut
<1>7. \A t \in out'.main : t \in out.main \/ ~IsMiss(t)
  BY <1>5, <1>6
<1>8. arrays \subseteq arrays'
  BY <1>1
<1> QED BY <1>1, <1>4, <1>6, <1>7, <1>8, FoundGrows

LEMMA TypeFound == ASSUME Ready, FoundInv, GenType PROVE FoundInv'
<1>1. /\ stage = "generate" /\ pos <= Units /\ module' = module /\ pos' = pos + 1
      /\ Unit(pos).s = "type" /\ arrays' = arrays
      /\ \E types : out' = [out EXCEPT !.types = types]
  BY DEF GenType, At2, Emit
<1>2. /\ TypeInv /\ KeysInv /\ EndInv /\ TargetInv /\ pos \in Nat /\ pos > 0 /\ IsOut(out)
  BY <1>1, ReadyFacts
<1>3. Unit(pos) \in Statements
  BY <1>1, <1>2, UnitFacts
<1>4. TaskArrays(Unit(pos), "module") \subseteq arrays'
  BY <1>1, <1>3, NoArrays
<1>5. out'.main = out.main /\ out'.subs = out.subs /\ out'.procs = out.procs
  BY <1>1, <1>2 DEF IsOut
<1>6. arrays \subseteq arrays'
  BY <1>1
<1> QED BY <1>1, <1>4, <1>5, <1>6, FoundGrows

LEMMA ProcFound == ASSUME Ready, DoneQuiet, FoundInv, GenProcedure PROVE FoundInv'
<1> DEFINE st == Unit(pos)
           tokens == ProcTokens(st, arrays)
           k0 == KeyOf(pos)
<1>1. /\ stage = "generate" /\ pos <= Units /\ st.s = "proc"
      /\ module' = module /\ pos' = pos + 1 /\ arrays' = arrays
      /\ st.generic # None => out' = out
      /\ st.generic = None => \E inside : out' = [out EXCEPT !.procs = Bind(@, k0, tokens), !.inside = inside]
  BY DEF GenProcedure, At2, Emit
<1>2. /\ TypeInv /\ KeysInv /\ EndInv /\ TargetInv /\ pos \in Nat /\ pos > 0 /\ IsOut(out)
      /\ arrays \in SUBSET ArrayNames
  BY <1>1, ReadyFacts
<1>3. st \in Statements
  BY <1>1, <1>2, UnitFacts
<1>4. ASSUME st.generic = None, NEW t \in tokens PROVE ~IsMiss(t)
  <2>1. BodyQuiet(st.body, arrays)
    <3>1. /\ pos <= Len(module) => TaskQuiet(st, arrays, "module")
          /\ ~(pos <= Len(module)) => BodyQuiet(st.body, arrays)
      BY <1>1, UnitQuiet
    <3> QED BY <1>1, <1>4, <3>1 DEF TaskQuiet
  <2> QED BY <1>1, <1>2, <1>3, <2>1, BodyMisses
<1>5. TaskArrays(Unit(pos), "module") = {}
  BY <1>1, <1>3, NoArrays
<1> HIDE DEF st, tokens, k0
<1>6. /\ out'.main = out.main /\ out'.subs = out.subs
      /\ st.generic # None => out'.procs = out.procs
      /\ st.generic = None => out'.procs = Bind(out.procs, k0, tokens)
  <2>1. CASE st.generic # None
    BY <1>1, <1>2, <2>1
  <2>2. CASE st.generic = None
    BY <1>1, <1>2, <2>2 DEF IsOut
  <2> QED BY <2>1, <2>2
<1>7. \A k \in DOMAIN out'.procs : \A t \in out'.procs[k] :
         (k \in DOMAIN out.procs /\ t \in out.procs[k]) \/ ~IsMiss(t)
  <2>1. CASE st.generic # None
    BY <1>6, <2>1
  <2>2. CASE st.generic = None
    BY <1>4, <1>6, <2>2 DEF Bind
  <2> QED BY <2>1, <2>2
<1> QED BY <1>1, <1>5, <1>6, <1>7, FoundGrows

LEMMA SpaceFound == ASSUME Ready, DoneQuiet, FoundInv, GenNamespace PROVE FoundInv'
<1> DEFINE ns == Unit(pos)
           procs == {i \in DOMAIN ns.body : ns.body[i].s = "proc"}
           Tokens(i) == ProcTokens(ns.body[i], arrays \cup ArraysBefore(ns.body, i))
           named(x) == {i \in procs : ns.body[i].x = x}
           new == [k \in {<<ns.x, ns.body[i].x>> : i \in procs} |-> UNION {Tokens(i) : i \in named(k[2])}]
           tokens == GlobalTokens(ns.body)
<1>1. /\ stage = "generate" /\ pos <= Units /\ ns.s = "ns"
      /\ module' = module /\ pos' = pos + 1
      /\ arrays' = arrays \cup ArraysIn(ns.body)
      /\ out' = [out EXCEPT !.main = @ \cup tokens, !.procs = Merge(new, @)]
  BY DEF GenNamespace, At2, Emit
<1>2. /\ TypeInv /\ KeysInv /\ EndInv /\ TargetInv /\ pos \in Nat /\ pos > 0 /\ IsOut(out)
      /\ arrays \in SUBSET ArrayNames
  BY <1>1, ReadyFacts
<1>3. ns \in Statements /\ WellFormed(ns) /\ SpaceQuiet(ns.body, arrays)
  <2>1. ns \in Statements /\ WellFormed(ns) /\ (~(pos <= Len(module)) => ns.s = "proc")
    BY <1>1, <1>2, UnitFacts
  <2>2. TaskQuiet(ns, arrays, "module")
    BY <1>1, <2>1, UnitQuiet
  <2> QED BY <1>1, <2>1, <2>2 DEF TaskQuiet
<1>4. TaskArrays(Unit(pos), "module") \subseteq arrays'
  BY <1>1 DEF TaskArrays
<1> HIDE DEF ns
<1>5. ns.body \in Seq(Statements)
  BY <1>1, <1>3 DEF WellFormed
<1>6. ASSUME NEW i \in procs, NEW t \in Tokens(i) PROVE ~IsMiss(t)
  <2> DEFINE st == ns.body[i]
             known == arrays \cup ArraysBefore(ns.body, i)
  <2>1. st \in Statements /\ st.s = "proc"
    BY <1>5
  <2>2. known \in SUBSET ArrayNames
    BY <1>2, <1>5, ArraysInNamed
  <2>3. BodyQuiet(st.body, known) /\ t \in ProcTokens(st, known)
    BY <1>3 DEF SpaceQuiet
  <2> HIDE DEF st, known
  <2> QED BY <2>1, <2>2, <2>3, BodyMisses
<1>7. \A k \in DOMAIN new : \A t \in new[k] : ~IsMiss(t)
  <2> SUFFICES ASSUME NEW k \in DOMAIN new, NEW t \in new[k] PROVE ~IsMiss(t)
    OBVIOUS
  <2>1. t \in UNION {Tokens(i) : i \in named(k[2])}
    OBVIOUS
  <2>2. PICK i \in named(k[2]) : t \in Tokens(i)
    BY <2>1
  <2> HIDE DEF Tokens
  <2> QED BY <1>6, <2>2
<1>8. ASSUME NEW t \in tokens PROVE ~IsMiss(t)
  <2>1. PICK i \in {j \in DOMAIN ns.body : ns.body[j].s \in Globals} :
           t \in genStmt[ns.body[i], {}, arrays \cup ArraysBefore(ns.body, i)]
    BY DEF GlobalTokens
  <2>2. Quiet(ns.body[i], arrays \cup ArraysBefore(ns.body, i))
    BY <1>3 DEF SpaceQuiet
  <2>3. arrays \cup ArraysBefore(ns.body, i) \in SUBSET ArrayNames
    BY <1>2, <1>5, ArraysInNamed
  <2>4. {} \in SUBSET Breakable
    OBVIOUS
  <2> QED BY <2>1, <2>2, <2>3, <2>4 DEF Quiet
<1> HIDE DEF new, tokens
<1>9. out'.main = out.main \cup tokens /\ out'.subs = out.subs /\ out'.procs = Merge(new, out.procs)
  BY <1>1, <1>2 DEF IsOut
<1>10. \A k \in DOMAIN out'.procs : \A t \in out'.procs[k] :
         (k \in DOMAIN out.procs /\ t \in out.procs[k]) \/ ~IsMiss(t)
  BY <1>7, <1>9 DEF Merge
<1>11. \A t \in out'.main : t \in out.main \/ ~IsMiss(t)
  BY <1>9, <1>8
<1>12. arrays \subseteq arrays'
  BY <1>1
<1> QED BY <1>1, <1>4, <1>9, <1>10, <1>12, <1>11, FoundGrows

LEMMA StatementFound == ASSUME Ready, DoneQuiet, FoundInv, GenStatement PROVE FoundInv'
<1> DEFINE st == Unit(pos)
           tokens == genStmt[st, {}, arrays]
<1>1. /\ stage = "generate" /\ pos <= Units
      /\ st.s \notin {"label", "proc", "type", "ns", "arm", "round", "post"}
      /\ module' = module /\ pos' = pos + 1
      /\ arrays' = arrays \cup ArraysOf[st]
      /\ open # None => out' = [out EXCEPT !.subs[open] = @ \cup tokens]
      /\ open = None => out' = [out EXCEPT !.main = @ \cup tokens]
  BY DEF GenStatement, At2, Emit, Into
<1>2. /\ TypeInv /\ KeysInv /\ EndInv /\ TargetInv /\ CodeInv /\ pos \in Nat /\ pos > 0 /\ IsOut(out)
      /\ arrays \in SUBSET ArrayNames
  BY <1>1, ReadyFacts
<1>3. Quiet(st, arrays)
  <2>1. ~(pos <= Len(module)) => st.s = "proc"
    BY <1>1, <1>2, UnitFacts
  <2>2. TaskQuiet(st, arrays, "module")
    BY <1>1, <2>1, UnitQuiet
  <2> QED BY <1>1, <2>2 DEF TaskQuiet
<1>4. TaskArrays(Unit(pos), "module") \subseteq arrays'
  BY <1>1 DEF TaskArrays
<1>5. \A t \in tokens : ~IsMiss(t)
  <2>1. {} \in SUBSET Breakable
    OBVIOUS
  <2> QED BY <1>2, <1>3, <2>1 DEF Quiet
<1> HIDE DEF st, tokens
<1>6. /\ out'.procs = out.procs
      /\ open # None => out'.main = out.main /\ out'.subs = [out.subs EXCEPT ![open] = @ \cup tokens]
      /\ open = None => out'.main = out.main \cup tokens /\ out'.subs = out.subs
  <2>1. CASE open # None
    BY <1>1, <1>2, <2>1 DEF IsOut
  <2>2. CASE open = None
    BY <1>1, <1>2, <2>2 DEF IsOut
  <2> QED BY <2>1, <2>2
<1>7. \A t \in out'.main : t \in out.main \/ ~IsMiss(t)
  BY <1>5, <1>6
<1>8. \A x \in DOMAIN out'.subs : \A t \in out'.subs[x] :
         (x \in DOMAIN out.subs /\ t \in out.subs[x]) \/ ~IsMiss(t)
  <2>1. CASE open # None
    BY <1>5, <1>6, <2>1
  <2>2. CASE open = None
    BY <1>6, <2>2
  <2> QED BY <2>1, <2>2
<1>9. \A k \in DOMAIN out'.procs : \A t \in out'.procs[k] :
         (k \in DOMAIN out.procs /\ t \in out.procs[k]) \/ ~IsMiss(t)
  BY <1>6
<1>10. arrays \subseteq arrays'
  BY <1>1
<1> QED BY <1>1, <1>4, <1>7, <1>8, <1>9, <1>10, FoundGrows

LEMMA FoundNext ==
    ASSUME Ready, DoneQuiet, FoundInv, StartInv, [Next]_vars
    PROVE  FoundInv'
<1>0. TypeInv
  BY DEF Ready
<1>1. CASE CodegenNext
  <2>1. CASE GenEnd
    <3>1. /\ stage \in Generating /\ UNCHANGED <<module, pos, arrays, out>>
      BY <2>1 DEF GenEnd, Generating
    <3>2. \A i : KnownAt(i)' = KnownAt(i)
      BY <3>1 DEF KnownAt, ArraysTo
    <3> QED BY <3>1, <3>2 DEF FoundInv, IsMiss
  <2> QED BY <1>1, <2>1, LabelFound, GlobalFound, TypeFound, ProcFound, SpaceFound, StatementFound DEF CodegenNext
<1>2. CASE UNCHANGED vars \/ Terminated
  <2>1. UNCHANGED <<module, pos, arrays, out, stage>>
    BY <1>2 DEF vars, Terminated
  <2>2. \A i : KnownAt(i)' = KnownAt(i)
    BY <2>1 DEF KnownAt, ArraysTo
  <2> QED BY <2>1, <2>2 DEF FoundInv, IsMiss
<1>3. CASE Step(CollectNames) \/ Step(CollectTypes)
  <2>1. stage' \in {"collect types", "check"}
    BY <1>3 DEF Step, CollectNames, CollectTypes
  <2> QED BY <2>1 DEF FoundInv, Generating
<1>4. CASE stage = "check" /\ ~Ends
  <2>1. stage' = "check"
    BY <1>0, <1>4, WalkSteps DEF Takes, Effects, Same, Requests
  <2> QED BY <2>1 DEF FoundInv, Generating
<1>5. CASE stage = "check" /\ Ends
  <2>1. UNCHANGED <<module, pos, arrays, out>>
    BY <1>5 DEF Ends
  <2>2. /\ pos = 1
        /\ out = [types |-> <<>>, main |-> {}, subs |-> <<>>, procs |-> <<>>, inside |-> {}]
    BY <1>5 DEF StartInv, Walking
  <2>3. out'.main = {} /\ out'.subs = <<>> /\ out'.procs = <<>> /\ pos' = 1
    BY <2>1, <2>2
  <2>4. \A j : j \notin DOMAIN <<>>
    OBVIOUS
  <2>5. ASSUME NEW i \in 1..(Len(module) + 1), i <= 1 PROVE KnownAt(i) = {}
    <3>1. i = 1
      BY <1>0, <2>5, ModuleFacts
    <3>2. \A k : k \notin 1..(1 - 1)
      OBVIOUS
    <3> QED BY <3>1, <3>2 DEF KnownAt, ArraysTo
  <2>6. \A i : KnownAt(i)' = KnownAt(i)
    BY <2>1 DEF KnownAt, ArraysTo
  <2>7. (\A i \in 1..(Len(module) + 1) : i <= pos => KnownAt(i) \subseteq arrays)'
    BY <2>1, <2>3, <2>5, <2>6
  <2> QED BY <2>3, <2>4, <2>7 DEF FoundInv
<1> QED BY <1>0, <1>1, <1>2, <1>3, <1>4, <1>5, StageSteps

\* What Sema accepts, the generator survives, for any program, if checkExpr
\* accepts UBOUND and LBOUND of arrays only, as the run checks of it: whatever
\* branch, loop, procedure or instance an array is declared and used in, by REDIM,
\* by a(i) = e or within an expression, the generator has it in its table when it
\* is used, and it throws only on an EXIT in the instance of a generic or on a
\* generic that is declared in a block.
THEOREM ThrowsCorrect == Spec /\ []BoundsAreArrays => []OnlyInstancesThrow
<1> DEFINE Walk == TypeInv /\ PosInv /\ SpanEq /\ HiInv /\ LoInv /\ EarlyInv /\ EndInv
           Arrays == KnownInv /\ QuietInv /\ DoneQuiet /\ FoundInv
           IInv == Walk /\ KeysInv /\ StartInv /\ TargetInv /\ CodeInv /\ JudgedInv /\ Arrays
<1>1. Init => IInv
  <2> SUFFICES ASSUME Init PROVE IInv
    OBVIOUS
  <2>1. /\ TypeInv /\ stage = "collect" /\ diags = {} /\ pos = 1 /\ open = None /\ arrays = {}
        /\ work = <<>> /\ pending = <<>>
        /\ out = [types |-> <<>>, main |-> {}, subs |-> <<>>, procs |-> <<>>, inside |-> {}]
    BY TypeInit DEF Init, SemaInit
  <2>2. Clean(diags)
    BY <2>1 DEF Clean
  <2>3. Walk
    BY <2>1, <2>2 DEF PosInv, SpanEq, HiInv, LoInv, EarlyInv, EndInv, Collecting
  <2>4. KeysInv
    BY <2>1 DEF KeysInv
  <2>5. StartInv /\ TargetInv /\ CodeInv
    BY <2>1 DEF StartInv, TargetInv, CodeInv, Generating, Collecting
  <2>6. Arrays
    BY <2>1 DEF KnownInv, QuietInv, DoneQuiet, FoundInv, Generating
  <2>7. JudgedInv
    BY DEF Init, SemaInit, JudgedInv, NotYet
  <2> QED BY <2>3, <2>4, <2>5, <2>6, <2>7
<1>2. IInv /\ BoundsAreArrays /\ [Next]_vars => IInv'
  <2> SUFFICES ASSUME IInv, BoundsAreArrays, [Next]_vars PROVE IInv'
    OBVIOUS
  <2>1. Walk'
    BY TypeNext, VerdictNext
  <2>2. KeysInv' /\ StartInv' /\ TargetInv'
    BY KeysNext, StartNext, TargetNext
  <2>3. CodeInv'
    BY CodeNext DEF Ready
  <2>4. Arrays'
    BY QuietNext, FoundNext DEF Ready
  <2>5. JudgedInv'
    BY JudgedNext
  <2> QED BY <2>1, <2>2, <2>3, <2>4, <2>5
<1>3. IInv => OnlyInstancesThrow
  <2> SUFFICES ASSUME CodeInv, FoundInv, stage = "crashed" PROVE OnlyInstancesThrow
    BY DEF OnlyInstancesThrow
  <2>1. TokenInv /\ stage \in Generating
    BY DEF CodeInv, Generating
  <2>2. \A t \in out.main : t[1] = "throw" => t[2] = "proc"
    BY <2>1 DEF TokenInv, InMain, Jumped, FoundInv, IsMiss
  <2>3. \A x \in DOMAIN out.subs : \A t \in out.subs[x] : t[1] = "throw" => t[2] = "proc"
    BY <2>1 DEF TokenInv, InSub, Jumped, FoundInv, IsMiss
  <2>4. \A k \in DOMAIN out.procs : \A t \in out.procs[k] :
           t[1] = "throw" => t[2] = "proc" \/ (t[2] = "EXIT" /\ Len(k) > 2)
    BY <2>1 DEF TokenInv, InBody, FoundInv, IsMiss
  <2> QED BY <2>2, <2>3, <2>4 DEF OnlyInstancesThrow
<1> QED BY <1>1, <1>2, <1>3, PTL DEF Spec
=============================================================================
