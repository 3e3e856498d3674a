---------------------------- MODULE KeyValueMap ----------------------------
(***************************************************************************)
(* What vtable.h promises of a table: a total map in which a missing entry  *)
(* is the value nil.  It has neither buckets nor addresses, and no memory   *)
(* to collect: a key is an identity, and so is a value.                     *)
(***************************************************************************)
EXTENDS FiniteSets

CONSTANTS Key, Val, Nil

VARIABLES
  map,    \* what each key is bound to
  last    \* the last operation and its result

vars == <<map, last>>

Init == /\ map = [k \in Key |-> Nil]
        /\ last = <<"new">>

\* VTable_put, and VTable_remove, which is "equivalent to putting nilValue".
Bind(k, v) == /\ last' = <<"put", k, v>>
              /\ map' = [map EXCEPT ![k] = v]

\* VTable_get, which always succeeds.
Get(k) == /\ last' = <<"get", k, map[k]>>
          /\ UNCHANGED map

\* VTable_length.
Length == /\ last' = <<"length", Cardinality({k \in Key : map[k] # Nil})>>
          /\ UNCHANGED map

Next == \/ \E k \in Key : Get(k) \/ \E v \in Val \cup {Nil} : Bind(k, v)
        \/ Length

Spec == Init /\ [][Next]_vars

=============================================================================
