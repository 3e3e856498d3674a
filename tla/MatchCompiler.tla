---------------------------- MODULE MatchCompiler ----------------------------
(***************************************************************************)
(* The match compiler, src/uft/match-compiler.sml: from the choices of a    *)
(* case expression to a decision tree.                                      *)
(*                                                                         *)
(* A path is <<r>>, a register, or <<r, i>>, slot i of the block in register *)
(* r; a constraint is a path and a pattern; a frontier is a rule, what to    *)
(* evaluate, and the constraints under which it applies.                    *)
(*                                                                         *)
(* Where the source's tree holds a function that awaits the register for a  *)
(* child, that register is chosen here as treeGen (knormalize.sml) chooses   *)
(* it: the smallest available, n.                                           *)
(***************************************************************************)
EXTENDS Lists, TLC

IsApplication(constraint) == constraint[2][1] = "APPLY"
ConstructorOf(pat) == <<pat[2], Len(pat[3])>>

\* May a register r that holds an application of con satisfy the constraint?
Compatible(r, con, constraint) ==
  constraint[1] = <<r>> /\ IsApplication(constraint) => ConstructorOf(constraint[2]) = con

\* The constraints on the children that take the constraint's place.
RefineConstraint(r, constraint) ==
  IF constraint[1] = <<r>> /\ IsApplication(constraint)
  THEN ListOf(Len(constraint[2][3]), LAMBDA i : <<<<r, i>>, constraint[2][3][i]>>)
  ELSE <<constraint>>

\* The frontiers that may apply to an application of con in register r, refined.
RefineFrontiers(r, con, frontiers) ==
  LET compatible(f) == \A i \in DOMAIN f.pairs : Compatible(r, con, f.pairs[i])
      refine(f) == [f EXCEPT !.pairs = ConcatMap(LAMBDA c : RefineConstraint(r, c), @)]
      kept == SelectSeq(frontiers, compatible)
  IN  Map(refine, kept)

\* forPath.
SubstitutePath(new, old, frontiers) ==
  Map(LAMBDA f : [f EXCEPT !.pairs =
                    Map(LAMBDA c : IF c[1] = old THEN <<new, c[2]>> ELSE c, @)], frontiers)

\* The name of the form of the pattern at a path, VAR where there is none.
PatternAt(pi, f) ==
  LET i == SelectInSeq(f.pairs, LAMBDA c : c[1] = pi) IN IF i = 0 THEN <<"VAR">> ELSE f.pairs[i][2]

\* The last occurrences of the elements of a sequence (Set.ofList).
Nub(s) ==
  LET last == {i \in DOMAIN s : \A j \in DOMAIN s : j > i => s[j] # s[i]}
      order == SetToSortSeq(last, <)
  IN  Map(LAMBDA i : s[i], order)

\* The variables of a frontier that matches get a register each; wildcards none.
RECURSIVE Registerize(_, _, _, _)
Registerize(rule, pairs, env, n) ==
  IF pairs = <<>> THEN <<"MATCH", rule, env, n>>
  ELSE LET pi == pairs[1][1]
           pat == pairs[1][2]
       IN CASE pat[1] = "WILDCARD" -> Registerize(rule, Tail(pairs), env, n)
            [] pat[1] = "VAR" /\ Len(pi) = 1 ->
                 Registerize(rule, Tail(pairs), env @@ (pat[2] :> pi[1]), n)
            [] pat[1] = "VAR" /\ Len(pi) = 2 ->
                 <<"LET_CHILD", pi, n, Registerize(rule, Tail(pairs), env @@ (pat[2] :> n), n + 1)>>

\* A tree is <<"MATCH", rule, env, n>>, <<"LET_CHILD", path, register, tree>>, or
\* <<"TEST", register, edges, default>>, where a default is a sequence of at most
\* one tree.
RECURSIVE CompileMatch(_, _)
CompileMatch(frontiers, n) ==
  LET first == frontiers[1]
      applications == SelectSeq(first.pairs, IsApplication)
      pi == applications[1][1]
      at == Map(LAMBDA f : PatternAt(pi, f), frontiers)
      applied == SelectSeq(at, LAMBDA p : p[1] = "APPLY")
      constructors == Nub(Map(ConstructorOf, applied))
      defaults == SelectSeq(frontiers, LAMBDA f : PatternAt(pi, f)[1] = "VAR")
  IN CASE applications = <<>> -> Registerize(first.rule, first.pairs, <<>>, n)
       [] applications # <<>> /\ Len(pi) = 2 ->
            <<"LET_CHILD", pi, n, CompileMatch(SubstitutePath(<<n>>, pi, frontiers), n + 1)>>
       [] applications # <<>> /\ Len(pi) = 1 ->
            IF \E i \in DOMAIN at : at[i][1] = "WILDCARD"
            THEN <<"IMPOSSIBLE">>
            ELSE <<"TEST", pi[1],
                   Map(LAMBDA con :
                         <<con, CompileMatch(RefineFrontiers(pi[1], con, frontiers), n)>>,
                       constructors),
                   IF defaults = <<>> THEN <<>> ELSE <<CompileMatch(defaults, n)>> >>

\* The tree for a scrutinee in register r.
DecisionTree(r, choices, n) ==
  CompileMatch(Map(LAMBDA c : [rule |-> c[2],
                              pairs |-> IF c[1] = <<"WILDCARD">> THEN <<>>
                                        ELSE <<<<<<r>>, c[1]>>>>], choices), n)

=============================================================================
