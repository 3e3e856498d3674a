---------------------------- MODULE MCStringTable ----------------------------
(* A small instance of StringTable for TLC: two semispaces of MaxStrings     *)
(* addresses, a table that starts with two buckets and is doubled twice, and *)
(* hashes that collide in the first table, then less and less.               *)
EXTENDS StringTable

CONSTANTS s1, s2, s3, long

MCAddr == 1..2 * MaxStrings

MCFresh(free, used) ==
  free \cap IF used # {} THEN {a + 1 : a \in used}
            ELSE IF 1..MaxStrings \subseteq free THEN {1} ELSE {MaxStrings + 1}

MCShort == {s1, s2, s3}
MCLong == {long}
MCHashBytes == [s \in MCShort \cup MCLong |->
                  CASE s = s1 -> 1 [] s = s2 -> 3 [] s = s3 -> 5 [] s = long -> 7]
MCFillCount == [s \in MCShort |-> CASE s = s1 -> 1 [] s = s2 -> 2 [] s = s3 -> 4]

=============================================================================
