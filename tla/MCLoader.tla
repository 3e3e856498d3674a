------------------------------ MODULE MCLoader ------------------------------
(* A small instance of Loader for TLC: bytes of two bits, and a choice of    *)
(* lines with every parser, every kind of literal, the ends of the ranges of *)
(* integers, nested functions, and lines that are refused.                   *)
EXTENDS Loader

MCConsName == <<1, 2>>
MCGammaName == <<3>>

N(l) == Digits(l)

LoadLines ==
  {<<Sym(".load"), Sym("module"), N(n)>> : n \in {0, 2}}
    \cup {<<Sym(".load"), N(3), Sym("function"), N(1), N(1), N(0)>>,
          <<Sym(".load"), N(2), Sym("function"), N(2), N(0)>>,
          <<Sym(".load"), N(4), Sym("function"), N(0), N(0)>>,
          <<Sym(".load"), Sym("module"), N(1), N(1)>>,
          <<Sym(".load"), N(1), Sym("module"), N(1), N(1)>>}

Instructions ==
  {<<Sym("+"), N(1), N(3), N(0)>>, <<Sym("move"), N(0), N(2)>>, <<Sym("halt")>>,
   <<Sym("setblockslot"), N(1), N(1), N(3)>>, <<Sym("goto-vcon"), N(1), N(3)>>,
   <<Sym("goto"), N(-2)>>, <<Sym("goto"), N(255)>>,
   <<Sym("printl"), Sym("string"), N(2), N(1), N(2)>>,
   <<Sym("if-vcon-match"), N(2), Sym("nil")>>,
   <<Sym("getglobal"), N(2), Sym("string"), N(1), N(2)>>,
   <<Sym("setglobal"), N(0), Sym("string"), N(3), N(2), N(0), N(1)>>,
   <<Sym("getglobal"), N(0), Sym("string"), N(1), N(1)>>}
    \cup {<<Sym("loadliteral"), N(1), w>> : w \in {N(0), N(-1), N(255), N(300), Real(NegZero), Real(NaN)}}

Refused ==
  {<<>>, <<N(1)>>, <<Sym("no-such-opcode"), N(1)>>, <<Sym("="), N(1), N(2)>>,
   <<Sym("return"), N(4)>>, <<Sym("goto"), N(40)>>, <<Sym("halt"), N(0)>>,
   <<Sym("printl"), Sym("string"), N(2), N(1)>>,
   <<Sym("getglobal"), N(0), N(1)>>, <<Sym("loadliteral"), N(1), N(32768)>>}

MCLine == LoadLines \cup Instructions \cup Refused

=============================================================================
