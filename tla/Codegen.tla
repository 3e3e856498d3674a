------------------------------- MODULE Codegen -------------------------------
(***************************************************************************)
(* The code generator, src/uft/codegen.sml: from K-normal form to assembly  *)
(* code, in three contexts: to put a value into a register, for effect      *)
(* only, and to return a value.                                             *)
(*                                                                         *)
(* An instruction is a record with its operator, its registers and an       *)
(* operand; a label is the place in the expression that asked for it, so     *)
(* that labels are fresh.                                                   *)
(***************************************************************************)
EXTENDS Values, Lists, TLC

I(op, r, k) == [op |-> op, r |-> r, k |-> k]

deflabel(l)  == I("DEFLABEL", <<>>, l)
goto(l)      == I("GOTO_LABEL", <<>>, l)
ifgoto(r, l) == I("IF_GOTO_LABEL", <<r>>, l)
copyreg(dest, src)   == I("copy", <<dest, src>>, 0)
loadlit(dest, v)     == I("loadliteral", <<dest>>, v)
return(r)            == I("return", <<r>>, 0)
mkclosure(x, y, n)   == I("mkclosure", <<x, y>>, n)
mkblock(x, y, n)     == I("mkblock", <<x, y>>, n)

\* The closure of the running function is in register 0.
captured(dest, i)    == I("getclslot", <<dest, 0>>, i)

mkerror(msg) == <<loadlit(0, mkStringValue(msg)), I("error", <<0>>, 0)>>

\* The table of primitives (primitives.sml): those with an effect and no result,
\* and the number of arguments, of which one may be a literal.
HasEffect ==
  {"print", "printu", "println", "inc", "dec", "error", "halt", "gc", "check", "expect",
   "check-assert", "check-error", "setglobal"}
Arity(p) ==
  CASE p \in {"halt", "gc"} -> 0
    [] p \in {"boolean?", "null?", "number?", "pair?", "function?", "nil?", "symbol?", "car",
              "cdr", "boolOf", "copy", "neg", "not", "gt0", "hash", "swap", "print", "printu", "println", "inc",
              "dec", "error", "getglobal", "loadliteral"} -> 1
    [] OTHER -> 2

\* What runs instead of a primitive with a wrong number of arguments.
OrErrorIfArityMismatch(p, n, good) ==
  IF Arity(p) = n THEN good ELSE mkerror("bad number of arguments in primitive")

EffectInValueContext == mkerror("effectful primitive used in register-setting context")

AreConsecutive(rs) == \A i \in 2..Len(rs) : rs[i] = rs[i - 1] + 1
Impossible == <<I("IMPOSSIBLE", <<>>, 0)>>

\* A register, constant-time constructor and arity, as a literal to match.
Digits == ("0" :> 0) @@ ("1" :> 1) @@ ("2" :> 2) @@ ("3" :> 3)
conLiteral(con) ==
  CASE con = <<"#t", 0>>  -> mkBooleanValue(TRUE)
    [] con = <<"#f", 0>>  -> mkBooleanValue(FALSE)
    [] con = <<"'()", 0>> -> emptylistValue
    [] con[2] = 0 /\ con[1] \in DOMAIN Digits -> mkNumberValue(Digits[con[1]])
    [] OTHER -> mkStringValue(con[1])

\* The code that F makes of every index of a list.
Each(F(_), s) == FlattenSeq(ListOf(Len(s), F))

TranslateIf(r, l, code1, code2) ==
  LET lab == Append(l, -1)
      lab1 == Append(l, -2)
  IN  <<ifgoto(r, lab)>> \o code2 \o <<goto(lab1), deflabel(lab)>> \o code1 \o <<deflabel(lab1)>>

\* Mutant of TranslateWhile: the jump at the end is to the test.
TranslateWhileToTest(r, l, test, body) ==
  LET lab == Append(l, -1)
      lab1 == Append(l, -2)
  IN  <<goto(lab), deflabel(lab1)>> \o body \o <<deflabel(lab)>> \o test \o <<ifgoto(r, lab)>>

TranslateWhile(r, l, test, body) ==
  LET lab == Append(l, -1)
      lab1 == Append(l, -2)
  IN  <<goto(lab), deflabel(lab1)>> \o body \o <<deflabel(lab)>> \o test \o <<ifgoto(r, lab1)>>

TranslateCall(dest, r, rs) ==
  IF AreConsecutive(<<r>> \o rs)
  THEN <<I("call", <<dest, r, Last(<<r>> \o rs)>>, 0)>>
  ELSE Impossible

\* The code of a switch: Branch(i) is the code of choice i, `finish` ends every
\* choice, and the code of the default comes first.
SwitchVcon(r, choices, l, Branch(_), finish, fallthru) ==
  LET label(i) == Append(l, -1 - i)
      cases == ListOf(Len(choices), LAMBDA i :
                 <<conLiteral(choices[i][1]), choices[i][1][2], label(i)>>)
  IN  <<I("GOTO_VCON", <<r>>, cases)>> \o fallthru
      \o Each(LAMBDA i : <<deflabel(label(i))>> \o Branch(i) \o finish, choices)

\* Mutant of SetSlots: the last slot is not set.
SetSlotsButLast(op, x, first, rs) ==
  [i \in 1..Max({0, Len(rs) - 1}) |-> I(op, <<x, rs[i]>>, first + i - 1)]

\* Registers that go into the slots, from the first one, of the object in x.
SetSlots(op, x, first, rs) == [i \in DOMAIN rs |-> I(op, <<x, rs[i]>>, first + i - 1)]

RECURSIVE ToReg(_, _, _), ForEffect(_, _), ToReturn(_, _)

LoadFunc(r, funcode, l) ==
  <<I("LOADFUNC", <<r>>, [arity |-> funcode[1], code |-> ToReturn(funcode[2], Append(l, 0))])>>

\* Mutant of PutClosure: a closure has a slot too few.
PutSmallClosure(r, funcode, regs, l) ==
  LoadFunc(r, funcode, l) \o <<mkclosure(r, r, Len(regs) - 1)>>
  \o SetSlots("setclslot", r, 0, regs)

PutClosure(r, funcode, regs, l) ==
  LoadFunc(r, funcode, l) \o <<mkclosure(r, r, Len(regs))>>
  \o SetSlots("setclslot", r, 0, regs)

\* All the closures of a letrec are allocated before any is filled.
LetrecCode(closures, l, body) ==
  Each(LAMBDA i : LoadFunc(closures[i][1], closures[i][2], Append(l, i))
                  \o <<mkclosure(closures[i][1], closures[i][1], Len(closures[i][3]))>>, closures)
  \o Each(LAMBDA i : SetSlots("setclslot", closures[i][1], 0, closures[i][3]), closures)
  \o body

ToReg(dest, e, l) ==
  CASE e[1] = "IMPOSSIBLE" -> Impossible
    [] e[1] = "LITERAL"  -> <<loadlit(dest, e[2])>>
    [] e[1] = "NAME"     -> <<copyreg(dest, e[2])>>
    [] e[1] = "VMOP" /\ e[2] \in HasEffect -> EffectInValueContext
    [] e[1] = "VMOP" /\ e[2] = "getblockslot" -> <<I("getblockslot", <<dest, e[3][1]>>, e[3][2])>>
    [] e[1] = "VMOP" /\ e[2] \notin HasEffect \cup {"getblockslot"} ->
         OrErrorIfArityMismatch(e[2], Len(e[3]), <<I(e[2], <<dest>> \o e[3], 0)>>)
    [] e[1] = "VMOPLIT" /\ e[2] \in HasEffect ->
         IF e[2] = "error" THEN mkerror(e[4].s) ELSE EffectInValueContext
    [] e[1] = "VMOPLIT" /\ e[2] \notin HasEffect -> <<I(e[2], <<dest>> \o e[3], e[4])>>
    [] e[1] = "VMOPINT"  -> <<I(e[2], <<dest, e[3]>>, e[4])>>
    [] e[1] = "FUNCALL"  -> TranslateCall(dest, e[2], e[3])
    [] e[1] = "IFX"      -> TranslateIf(e[2], l, ToReg(dest, e[3], Append(l, 1)),
                                                 ToReg(dest, e[4], Append(l, 2)))
    [] e[1] = "LETX"     -> ToReg(e[2], e[3], Append(l, 1)) \o ToReg(dest, e[4], Append(l, 2))
    [] e[1] = "BEGIN"    -> ForEffect(e[2], Append(l, 1)) \o ToReg(dest, e[3], Append(l, 2))
    [] e[1] = "SET"      -> ToReg(e[2], e[3], l) \o <<copyreg(dest, e[2])>>
    [] e[1] = "WHILEX"   -> ForEffect(e, l) \o <<loadlit(dest, mkBooleanValue(FALSE))>>
    [] e[1] = "FUNCODE"  -> LoadFunc(dest, e[2], l)
    [] e[1] = "CAPTURED" -> <<captured(dest, e[2])>>
    [] e[1] = "CLOSURE"  -> PutClosure(dest, e[2], e[3], l)
    [] e[1] = "LETREC"   -> LetrecCode(e[2], l, ToReg(dest, e[3], Append(l, 0)))
    [] e[1] = "BLOCK"    -> <<mkblock(dest, e[2][1], Len(e[2]))>>
                            \o SetSlots("setblockslot", dest, 1, Tail(e[2]))
    [] e[1] = "SWITCH_VCON" ->
         SwitchVcon(e[2], e[3], l, LAMBDA i : ToReg(dest, e[3][i][2], Append(l, i)),
                    <<goto(Append(l, -1))>>, ToReg(dest, e[4], Append(l, 0)))
         \o <<deflabel(Append(l, -1))>>

ForEffect(e, l) ==
  CASE e[1] = "IMPOSSIBLE" -> Impossible
    [] e[1] \in {"LITERAL", "NAME", "FUNCODE", "CAPTURED", "CLOSURE", "BLOCK"} -> <<>>
    [] e[1] = "VMOP"     -> OrErrorIfArityMismatch(e[2], Len(e[3]),
                              IF e[2] \in HasEffect THEN <<I(e[2], e[3], 0)>> ELSE <<>>)
    [] e[1] = "VMOPLIT"  -> IF e[2] \in HasEffect THEN <<I(e[2], e[3], e[4])>> ELSE <<>>
    [] e[1] = "VMOPINT"  -> <<>>
    [] e[1] = "FUNCALL"  -> TranslateCall(e[2], e[2], e[3])
    [] e[1] = "IFX"      -> TranslateIf(e[2], l, ForEffect(e[3], Append(l, 1)),
                                                 ForEffect(e[4], Append(l, 2)))
    [] e[1] = "LETX"     -> ToReg(e[2], e[3], Append(l, 1)) \o ForEffect(e[4], Append(l, 2))
    [] e[1] = "BEGIN"    -> ForEffect(e[2], Append(l, 1)) \o ForEffect(e[3], Append(l, 2))
    [] e[1] = "SET"      -> ToReg(e[2], e[3], l)
    [] e[1] = "WHILEX"   ->
         TranslateWhile(e[2], l, ToReg(e[2], e[3], Append(l, 1)), ForEffect(e[4], Append(l, 2)))
    [] e[1] = "LETREC"   -> LetrecCode(e[2], l, ForEffect(e[3], Append(l, 0)))
    [] e[1] = "SWITCH_VCON" ->
         SwitchVcon(e[2], e[3], l, LAMBDA i : ForEffect(e[3][i][2], Append(l, i)),
                    <<goto(Append(l, -1))>>, ForEffect(e[4], Append(l, 0)))
         \o <<deflabel(Append(l, -1))>>

ToReturn(e, l) ==
  CASE e[1] = "NAME"     -> <<return(e[2])>>
    [] e[1] = "IFX"      -> TranslateIf(e[2], l, ToReturn(e[3], Append(l, 1)),
                                                 ToReturn(e[4], Append(l, 2)))
    [] e[1] = "LETX"     -> ToReg(e[2], e[3], Append(l, 1)) \o ToReturn(e[4], Append(l, 2))
    [] e[1] = "BEGIN"    -> ForEffect(e[2], Append(l, 1)) \o ToReturn(e[3], Append(l, 2))
    [] e[1] = "SET"      -> ToReg(e[2], e[3], l) \o <<return(e[2])>>
    [] e[1] = "FUNCALL"  -> <<I("tailcall", <<e[2], Last(<<e[2]>> \o e[3])>>, 0)>>
    [] e[1] = "LETREC"   -> LetrecCode(e[2], l, ToReturn(e[3], Append(l, 0)))
    [] e[1] = "SWITCH_VCON" ->
         SwitchVcon(e[2], e[3], l, LAMBDA i : ToReturn(e[3][i][2], Append(l, i)),
                    <<>>, ToReturn(e[4], Append(l, 0)))
    [] OTHER             -> ToReg(0, e, l) \o <<return(0)>>

=============================================================================
