------------------------------- MODULE Scopes -------------------------------
(***************************************************************************)
(* What a name means where it stands (Sema::lookupSymbol and its kin).     *)
(*                                                                         *)
(* A key is a sequence of names: <<x>>, <<namespace, x>>, or for the       *)
(* instance of a generic <<x, "of", ...>>.                                 *)
(*                                                                         *)
(* T holds the tables of the module: structs, ops, procs, generics,        *)
(* namespaces, labels, gosubs.  S is the scope: symbols and locals         *)
(* (key -> [t, const, array, dynamic]), prefix, class, inProc, ret, loops, *)
(* gosub.                                                                  *)
(***************************************************************************)
EXTENDS Types

None == ""

Indices(seq)    == DOMAIN seq
Where(seq, P(_)) == {i \in DOMAIN seq : P(seq[i])}
Names(seq)      == {seq[i].x : i \in DOMAIN seq}
SameName(a, b)  == a.x = b.x
\* Elements that repeat an earlier one, in the sense of Same.
Repeats(seq, is, Same(_, _)) ==
    {i \in is : \E j \in is : j < i /\ Same(seq[i], seq[j])}

\* The table f with what g says put first, and with v for k.
Merge(g, f) == [x \in DOMAIN g \cup DOMAIN f |-> IF x \in DOMAIN g THEN g[x] ELSE f[x]]
Bind(f, k, v) == [x \in DOMAIN f \cup {k} |-> IF x = k THEN v ELSE f[x]]

\* The procedures of a block that are no methods and no operators.
Free(stmts) == Where(stmts, LAMBDA st : st.s = "proc" /\ st.owner = None /\ st.op = None)

NoExpr == [k |-> "none"]
NoSymbol == [t |-> Null, const |-> FALSE, array |-> FALSE, dynamic |-> FALSE]
NoProc == [fn |-> FALSE, t |-> Null, params |-> <<>>, extern |-> FALSE, conv |-> None]

qualifiedKey(S, x) == Append(S.prefix, x)
ScopeKey(S, x) == IF S.inProc THEN <<x>> ELSE qualifiedKey(S, x)
\* Locals, then the namespace around, then globals: in a table by key.
FindQualified(S, table, x, none) ==
    IF qualifiedKey(S, x) \in DOMAIN table THEN table[qualifiedKey(S, x)]
    ELSE IF <<x>> \in DOMAIN table THEN table[<<x>>] ELSE none

lookupSymbol(S, x) == IF <<x>> \in DOMAIN S.locals THEN S.locals[<<x>>]
                      ELSE FindQualified(S, S.symbols, x, NoSymbol)
findProcedure(T, S, x) == FindQualified(S, T.procs, x, NoProc)

\* What a declaration must not repeat: the table it goes to, procedures, TYPEs.
Taken(T, S, x) ==
    \/ ScopeKey(S, x) \in DOMAIN (IF S.inProc THEN S.locals ELSE S.symbols)
    \/ ScopeKey(S, x) \in DOMAIN T.procs
    \/ \E n \in DOMAIN T.structs : ScopeKey(S, x) = <<n>>

\* In the code one string, x_of_suffix, which a name could repeat (sema.cpp:1012-1022).
InstanceKey(x, suffix) == <<x, "of">> \o suffix

-----------------------------------------------------------------------------
(* What is reported; what is made of an expression. *)

Typed(t, errs) == [t |-> t, errs |-> errs]
Check(ok, what) == IF ok THEN {} ELSE {what}
ErrorsOf(results) == UNION {results[i].errs : i \in DOMAIN results}
=============================================================================
