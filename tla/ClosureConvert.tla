--------------------------- MODULE ClosureConvert ---------------------------
(***************************************************************************)
(* Closure conversion, src/uft/closure-convert.sml: from unambiguous vScheme *)
(* to closed Scheme, where a function names its captured variables by slot.  *)
(*                                                                         *)
(* An expression is a tuple with the name of its form and its parts, in the *)
(* order of the source's datatypes (vscheme.sml, clscheme.sml); a binding or *)
(* a choice is a pair.                                                      *)
(***************************************************************************)
EXTENDS Lists

\* Applies F to the expressions that a choice or a binding ends in.
MapSecond(F(_), pairs) == Map(LAMBDA pair : <<pair[1], F(pair[2])>>, pairs)

\* The variables that a pattern binds.
RECURSIVE PatBound(_)
PatBound(p) ==
  CASE p[1] = "VAR"      -> {p[2]}
    [] p[1] = "WILDCARD" -> {}
    [] p[1] = "APPLY"    -> UNION {PatBound(p[3][i]) : i \in DOMAIN p[3]}

RECURSIVE Free(_)
FreeIn(es) == UNION {Free(es[i]) : i \in DOMAIN es}

\* The free variables of an expression.
Free(e) ==
  CASE e[1] \in {"LITERAL", "GLOBAL"} -> {}
    [] e[1] = "LOCAL"       -> {e[2]}
    [] e[1] = "SETLOCAL"    -> {e[2]} \cup Free(e[3])
    [] e[1] = "SETGLOBAL"   -> Free(e[3])
    [] e[1] = "BEGIN"       -> FreeIn(e[2])
    [] e[1] \in {"IFX", "WHILEX"} -> FreeIn(Tail(e))
    [] e[1] = "FUNCALL"     -> Free(e[2]) \cup FreeIn(e[3])
    [] e[1] \in {"PRIMCALL", "CONSTRUCTED"} -> FreeIn(e[3])
    [] e[1] = "LET"         -> FreeIn(Second(e[2])) \cup (Free(e[3]) \ Range(First(e[2])))
    [] e[1] = "LETREC"      -> (FreeIn(Second(e[2])) \cup Free(e[3])) \ Range(First(e[2]))
    [] e[1] = "LAMBDA"      -> Free(e[3]) \ Range(e[2])
    [] e[1] = "CASE"        -> Free(e[2]) \cup
                               UNION {Free(e[3][i][2]) \ PatBound(e[3][i][1]) : i \in DOMAIN e[3]}

\* Mutant of SlotIfCaptured: slots are counted from 1.
SlotFromOne(x, captured) == Place(captured, x)

SlotIfCaptured(x, captured) == Place(captured, x) - 1

RECURSIVE CloseExp(_, _)

\* A variable in a context where the captured ones are in slots.
CloseVariable(captured, x) ==
  IF x \in Range(captured) THEN <<"CAPTURED", SlotIfCaptured(x, captured)>> ELSE <<"LOCAL", x>>

\* A lambda: its parameters, its body, and where its own captured variables come
\* from.  The order of the slots is the same in both; which it is does not matter.
Closure(captured, e) ==
  LET capturedNames == SetToSeq(Free(e)) IN
  <<"CLOSURE", e[2], CloseExp(capturedNames, e[3]),
    Map(LAMBDA x : CloseVariable(captured, x), capturedNames)>>

CloseExp(captured, e) ==
  LET close(e1)  == CloseExp(captured, e1)
      closeAll(es) == Map(close, es)
  IN CASE e[1] \in {"LITERAL", "GLOBAL"} -> e
       [] e[1] = "LOCAL"     -> CloseVariable(captured, e[2])
       [] e[1] = "SETLOCAL"  -> IF e[2] \in Range(captured) THEN <<"IMPOSSIBLE">>
                                ELSE <<"SETLOCAL", e[2], close(e[3])>>
       [] e[1] = "SETGLOBAL" -> <<"SETGLOBAL", e[2], close(e[3])>>
       [] e[1] = "BEGIN"     -> <<"BEGIN", closeAll(e[2])>>
       [] e[1] \in {"IFX", "WHILEX"} -> <<e[1]>> \o closeAll(Tail(e))
       [] e[1] = "FUNCALL"   -> <<"FUNCALL", close(e[2]), closeAll(e[3])>>
       [] e[1] \in {"PRIMCALL", "CONSTRUCTED"} -> <<e[1], e[2], closeAll(e[3])>>
       [] e[1] = "LET"       -> <<"LET", MapSecond(close, e[2]), close(e[3])>>
       [] e[1] = "LETREC"    -> <<"LETREC", MapSecond(LAMBDA f : Closure(captured, f), e[2]),
                                  close(e[3])>>
       [] e[1] = "LAMBDA"    -> Closure(captured, e)
       [] e[1] = "CASE"      -> <<"CASE", close(e[2]), MapSecond(close, e[3])>>

\* A definition: <<"VAL", x, e>>, <<"DEFINE", f, lambda>>, <<"EXP", e>>,
\* <<"CHECK_EXPECT", s, e, s', e'>>, <<"CHECK_ASSERT", s, e>> or <<"CHECK_ERROR", s, e>>.
Close(def) ==
  LET close(e) == CloseExp(<<>>, e) IN
  CASE def[1] = "EXP"          -> <<"EXP", close(def[2])>>
    [] def[1] = "DEFINE"       -> <<"DEFINE", def[2], def[3][2], close(def[3][3])>>
    [] def[1] = "CHECK_EXPECT" -> <<def[1], def[2], close(def[3]), def[4], close(def[5])>>
    [] OTHER                   -> <<def[1], def[2], close(def[3])>>

=============================================================================
