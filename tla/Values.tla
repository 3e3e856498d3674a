------------------------------- MODULE Values -------------------------------
(***************************************************************************)
(* The values of the machine, src/svm/value.h, and the relations on them    *)
(* that value.c defines.  A value is a record with its tag and, where the   *)
(* tag has one, a payload: b, n, the string s, the function f, or a pointer *)
(* p.  Strings are interned, so that a string is its pointer.               *)
(*                                                                         *)
(* A number is an integer or one of the two doubles that = treats           *)
(* specially, NaN and -0.0.                                                 *)
(***************************************************************************)
EXTENDS Integers

CONSTANTS NaN, NegZero

nilValue == [tag |-> "Nil"]
emptylistValue == [tag |-> "Emptylist"]
mkNumberValue(n) == [tag |-> "Number", n |-> n]
mkBooleanValue(b) == [tag |-> "Boolean", b |-> b]
mkStringValue(s) == [tag |-> "String", s |-> s]
mkVMFunctionValue(f) == [tag |-> "VMFunction", f |-> f]
mkPointerValue(tag, p) == [tag |-> tag, p |-> p]

\* C's = on doubles.
NumberEq(m, n) == /\ NaN \notin {m, n}
                  /\ m = n \/ {m, n} = {0, NegZero}

\* The cast (uint32_t) of a double that is in the range of that type.
Truncate(n) == IF n = NegZero THEN 0 ELSE n

\* Object identity, needed for hashing.
identical(v1, v2) ==
  /\ v1.tag = v2.tag
  /\ CASE v1.tag \in {"Nil", "Emptylist"} -> TRUE
       [] v1.tag = "Boolean"             -> v1.b = v2.b
       [] v1.tag = "Number"              -> NumberEq(v1.n, v2.n)
       [] OTHER                          -> v1 = v2

\* The primitive =, which no cell, block or function ever satisfies.
eqvalue(v1, v2) ==
  /\ v1.tag \in {"Nil", "Boolean", "Number", "String", "Emptylist", "Table", "Seq"}
  /\ identical(v1, v2)

\* False is what nil and the Boolean false are.
asBool(v) == v # nilValue /\ v # mkBooleanValue(FALSE)

=============================================================================
