---------------------------- MODULE LinkedLists ----------------------------
(***************************************************************************)
(* Lists of the kind that C programs make: a node has a link to the next    *)
(* one, the last one's link is null.  The links are a function `next' whose *)
(* domain is the set of nodes.                                              *)
(***************************************************************************)
EXTENDS Integers, Sequences, FiniteSets, Functions

\* The first n nodes of the list that begins with a.
Links(next, null) ==
  LET Nodes[n \in Nat] ==
        [a \in DOMAIN next \cup {null} |->
           IF n = 0 \/ a = null THEN <<>> ELSE <<a>> \o Nodes[n - 1][next[a]]]
  IN  Nodes

\* The list that begins with a.  One that is longer than this has a cycle.
List(next, null, a) == Links(next, null)[Cardinality(DOMAIN next) + 1][a]

=============================================================================
