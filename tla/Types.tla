------------------------------- MODULE Types -------------------------------
(***************************************************************************)
(* The types of eBasic and their families (ast.hpp): promotion of numbers, *)
(* and what a CASE may compare.                                            *)
(***************************************************************************)
EXTENDS Naturals, Sequences

-----------------------------------------------------------------------------
(* Types. *)

Basic(k) == [k |-> k]
Unknown  == Basic("Unknown")
Integer  == Basic("Integer")
LongInt  == Basic("LongInt")
Double   == Basic("Double")
Boolean  == Basic("Boolean")
StringT  == Basic("StringT")
ZStringT == Basic("ZStringT")

User(n)  == [k |-> "UserDefined", name |-> n]
Ptr(t)   == [k |-> "Pointer", to |-> t]
\* A null pointee, a null return type, a null value type.
Null     == Basic("Null")
AnyPtr   == Ptr(Null)
FnPtr(ret, params, conv) ==
    [k |-> "FunctionPointer", ret |-> ret, params |-> params, conv |-> conv]
Task(t)      == [k |-> "Coroutine", gen |-> FALSE, val |-> t]
Generator(t) == [k |-> "Coroutine", gen |-> TRUE, val |-> t]

Unsigneds == {"UByte", "UShort", "UInteger", "ULongInt"}
Integers  == Unsigneds \cup {"Byte", "Short", "Integer", "Long", "LongInt", "Boolean"}
Floats    == {"Single", "Double"}

isIntegerFamily(t) == t.k \in Integers
isFloatFamily(t)   == t.k \in Floats
isNumericType(t)   == t.k \in Integers \cup Floats

integerRank(t) ==
    CASE t.k \in {"Byte", "UByte", "Boolean"}     -> 1
      [] t.k \in {"Short", "UShort"}              -> 2
      [] t.k \in {"Integer", "Long", "UInteger"}  -> 4
      [] t.k \in {"LongInt", "ULongInt"}          -> 8
      [] OTHER                                    -> 0

promoteInteger(a, b) ==
    IF integerRank(a) # integerRank(b)
    THEN IF integerRank(a) > integerRank(b) THEN a ELSE b
    ELSE IF b.k \in Unsigneds /\ a.k \notin Unsigneds THEN b ELSE a

promoteNumeric(a, b) ==
    IF isFloatFamily(a) /\ isFloatFamily(b)
    THEN IF "Double" \in {a.k, b.k} THEN Double ELSE Basic("Single")
    ELSE IF isFloatFamily(a) THEN a
    ELSE IF isFloatFamily(b) THEN b
    ELSE promoteInteger(a, b)

isPtr(t) == t.k = "Pointer"
isAny(t) == isPtr(t) /\ t.to = Null
isFn(t)  == t.k = "FunctionPointer"
isText(t) == t.k \in {"StringT", "ZStringT"}
IsUser(t) == t.k = "UserDefined"

isCaseCompatible(a, b) ==
    (isNumericType(a) /\ isNumericType(b)) \/ (a = StringT /\ b = StringT)
=============================================================================
