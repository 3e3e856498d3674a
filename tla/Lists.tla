-------------------------------- MODULE Lists --------------------------------
(* What the translator takes from the Standard ML basis for its lists.        *)
(* (Concatenation with the empty sequence makes TLC evaluate each element     *)
(* once.)                                                                    *)
EXTENDS Integers, SequencesExt, FiniteSetsExt

\* List.tabulate, from 1.
ListOf(n, F(_)) == [i \in 1..n |-> F(i)] \o <<>>

\* map, and ListUtil.concatMap.
Map(F(_), s)       == ListOf(Len(s), LAMBDA i : F(s[i]))
ConcatMap(F(_), s) == FlattenSeq(Map(F, s))

\* The parts of a list of pairs.
First(pairs)  == Map(LAMBDA pair : pair[1], pairs)
Second(pairs) == Map(LAMBDA pair : pair[2], pairs)

\* The place of the first element that is x, 0 when there is none.
Place(s, x) == SelectInSeq(s, LAMBDA y : y = x)
=============================================================================
