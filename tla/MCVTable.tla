------------------------------ MODULE MCVTable ------------------------------
(* A small instance of VTable for TLC: a string that collides with the       *)
(* zeros, which are one key, and two blocks, which always collide.           *)
EXTENDS VTable

CONSTANTS s1, b1, b2

MCObj == {s1, b1, b2}
MCObjTag == [o \in MCObj |-> IF o = s1 THEN "String" ELSE "Block"]
MCStringHash == [o \in {s1} |-> 7]
MCTagHash == [t \in {"Block"} |-> 22]
MCNumberHash(n) == 12 + n
MCPlaced == [o \in MCObj |-> CASE o = s1 -> 1 [] o = b1 -> 2 [] o = b2 -> 3]
MCUnboxed == {mkNumberValue(0), mkNumberValue(NegZero)}
MCBound == {b1, mkNumberValue(0)}
MCHint == {0, 12}

\* Nothing that an operation does depends on what the last one was.
MCView == <<where, binding, table, outcome>>

=============================================================================
