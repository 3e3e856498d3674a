---------------------------- MODULE MCCopyingGC ----------------------------
(* A small instance of CopyingGC for TLC: two semispaces of MaxObjects       *)
(* addresses.                                                                *)
EXTENDS CopyingGC

MCAddr == 1..2 * MaxObjects

\* The allocator starts in a semispace that is free and goes on upwards.
MCFresh(free, used) ==
  free \cap IF used # {} THEN {a + 1 : a \in used}
            ELSE IF 1..MaxObjects \subseteq free THEN {1} ELSE {MaxObjects + 1}

=============================================================================
