------------------------------- MODULE Loader -------------------------------
(***************************************************************************)
(* The loader of virtual object code: loader.c with its tokens (tokens.c),  *)
(* instruction table (instructions.c, itable.c), parsers (iparsers.c),      *)
(* encodings (iformat.c) and the machine's literal pool and global names    *)
(* (vmstate.c).                                                             *)
(*                                                                         *)
(* A file is a sequence of lines, chosen one by one as the loader reads     *)
(* them; a line is a sequence of words.  A byte has ByteSize values, and    *)
(* every wider field has its width in bytes.  An opcode and the operand     *)
(* bits of an instruction word are two fields of a record.                  *)
(***************************************************************************)
EXTENDS Values, Sequences, SequencesExt

CONSTANTS Line,          \* lines that a file may hold
          ByteSize,
          ConsName, GammaName, \* the bytes of "cons" and of "&gamma"
          MAX_GLOBALS,
          MaxLines       \* bound on the lines of a file

ASSUME SizeAssumption ==
  /\ {ByteSize, MAX_GLOBALS, MaxLines} \subseteq Nat \ {0}
  /\ ByteSize > 1 /\ MAX_GLOBALS <= ByteSize * ByteSize

VARIABLES
  literals, globals,  \* the literal pool, and the names of the globals
  functions,          \* struct VMFunction, in the order of their .load lines
  frames,             \* the calls of loadfun that have not returned
  text,               \* the lines read so far
  outcome             \* "loading", "done", or "aborted"

vars == <<literals, globals, functions, frames, text, outcome>>

-----------------------------------------------------------------------------
(* Words and tokens *)

Sym(name) == [kind |-> "sym", name |-> name]
Digits(l) == [kind |-> "int", l |-> l]
Real(x) == [kind |-> "real", x |-> x]

I24 == ByteSize * ByteSize * ByteSize
Word == ByteSize * I24

\* The scanner reads an integer as a long long, and asserts that it fits.
LongLong == Word * Word
Overflows(line) ==
  \E w \in Range(line) : w.kind = "int" /\ w.l \notin -(LongLong \div 2)..(LongLong \div 2) - 1

\* An integer that either a signed or an unsigned word can hold becomes one of
\* 32 bits, any other a double.
Token(w) ==
  CASE w.kind = "sym" -> [type |-> "TNAME", name |-> w.name]
    [] w.kind = "int" -> IF w.l \in -(Word \div 2)..Word - 1
                         THEN [type |-> "TU32", n |-> w.l % Word]
                         ELSE [type |-> "TDOUBLE", x |-> w.l]
    [] w.kind = "real" -> [type |-> "TDOUBLE", x |-> w.x]

tokens(line) == [i \in DOMAIN line |-> Token(line[i])]

IsName(t, name) == t.type = "TNAME" /\ t.name = name
IsInt(t) == t.type = "TU32"
IsByte(t) == IsInt(t) /\ t.n < ByteSize
AreBytes(ts) == \A i \in DOMAIN ts : IsByte(ts[i])

\* A line is a sequence of words.  If it begins a function its integers are
\* nonnegative ints: loadfun has no check of a negative number of instructions.
ASSUME LineAssumption ==
  \A line \in Line :
    /\ line \in Seq(Range(line))
    /\ \A w \in Range(line) :
         w.kind \in {"sym", "int", "real"} /\ (w.kind = "int" => w.l \in Int)
    /\ line # <<>> /\ IsName(Token(line[1]), ".load") =>
         \A w \in Range(line) : w.kind = "int" => w.l \in 0..Word \div 2 - 1

\* The cast (int32_t).
Signed(n) == IF n >= Word \div 2 THEN n - Word ELSE n

-----------------------------------------------------------------------------
(* Instructions *)

\* The table: name, opcode, parser.
instructions == <<
  <<"halt", "Halt", "R0">>, <<"print", "Print", "R1">>,
  <<"println", "Println", "R1">>, <<"printu", "Printu", "R1">>,
  <<"printl", "Printl", "LIT">>, <<"printlnl", "Printlnl", "LIT">>,
  <<"error", "Error", "R1">>, <<"loadliteral", "LoadLiteral", "R1LIT">>,
  <<"getglobal", "GetGlobal", "R1GLO">>, <<"setglobal", "SetGlobal", "R1GLO">>,
  <<"check", "Check", "R1LIT">>, <<"expect", "Expect", "R1LIT">>,
  <<"check-assert", "CheckAssert", "R1LIT">>, <<"check-error", "CheckError", "R1LIT">>,
  <<"+", "Add", "R3">>, <<"-", "Sub", "R3">>, <<"*", "Mult", "R3">>,
  <<"/", "Div", "R3">>, <<"//", "IDiv", "R3">>, <<"idiv", "IDiv", "R3">>,
  <<"mod", "Mod", "R3">>, <<">", "Gt", "R3">>, <<"<", "Lt", "R3">>,
  <<">=", "Ge", "R3">>, <<"<=", "Le", "R3">>, <<"cons", "Cons", "R3">>,
  <<"=", "Eq", "R3">>, <<"inc", "Inc", "R1">>, <<"dec", "Dec", "R1">>,
  <<"neg", "Neg", "R2">>, <<"not", "Not", "R2">>, <<"car", "Car", "R2">>,
  <<"cdr", "Cdr", "R2">>, <<"hash", "Hash", "R2">>, <<"copy", "RegCopy", "R2">>,
  <<"move", "RegCopy", "R2">>, <<"swap", "Swap", "R2">>, <<"gt0", "Gt0", "R2">>,
  <<"+imm", "PlusImm", "R2U8">>, <<"nil?", "IsNil", "R2">>,
  <<"boolean?", "IsBoolean", "R2">>, <<"number?", "IsNumber", "R2">>,
  <<"symbol?", "IsSymbol", "R2">>, <<"null?", "IsNull", "R2">>,
  <<"pair?", "IsPair", "R2">>, <<"function?", "IsFunction", "R2">>,
  <<"return", "Return", "R1">>, <<"call", "Call", "R3">>,
  <<"tailcall", "Tailcall", "R2">>, <<"mkclosure", "MkClosure", "R2U8">>,
  <<"setclslot", "SetClSlot", "R2U8">>, <<"getclslot", "GetClSlot", "R2U8">>,
  <<"mkblock", "MkBlock", "R2U8">>, <<"getblockslot", "GetBlockSlot", "R2U8">>,
  <<"setblockslot", "SetBlockSlot", "R2U8">>, <<"goto-vcon", "GotoVcon", "R1U8">>,
  <<"if-vcon-match", "IfVconMatch", "U8LIT">>, <<"boolOf", "BoolOf", "R2">>,
  <<"=", "RegCopy", "R2">>, <<"swap", "Swap", "R2">>, <<"+imm", "PlusImm", "R2U8">>,
  <<"if", "If", "R1">>, <<"goto", "Goto", "R0I24">>, <<"gc", "Gc", "R0">> >>

\* The first entry with a name, and the first with an opcode, govern.
HasEntry(name) == \E i \in DOMAIN instructions : instructions[i][1] = name
FirstEntry(field, what) ==
  instructions[Min({i \in DOMAIN instructions : instructions[i][field] = what})]
itable_entry(name) == FirstEntry(1, name)
itable_entry_by_code(opcode) == FirstEntry(2, opcode)

\* What each parser takes: bytes, of which the first are registers that it
\* sees, and then nothing, an integer, a literal, or the name of a global.
F(bytes, seen, rest) == [bytes |-> bytes, seen |-> seen, rest |-> rest]
Format ==
  [R0 |-> F(0, 0, "none"), R1 |-> F(1, 1, "none"), R2 |-> F(2, 2, "none"),
   R3 |-> F(3, 3, "none"), R1U8 |-> F(2, 1, "none"), R2U8 |-> F(3, 2, "none"),
   R0I24 |-> F(0, 0, "integer"), R1LIT |-> F(1, 1, "literal"),
   U8LIT |-> F(1, 0, "literal"), LIT |-> F(0, 0, "literal"),
   R1GLO |-> F(1, 1, "global")]

eR3(opcode, x, y, z) ==
  [opcode |-> opcode, xyz |-> (x * ByteSize + y) * ByteSize + z]
eR1U16(opcode, x, yz) == [opcode |-> opcode, xyz |-> x * ByteSize * ByteSize + yz]

\* Mutant of eR0I24: does not clear the bits that belong to the opcode.
eR0I24Unmasked(opcode, xyz) == [opcode |-> opcode, xyz |-> xyz]

eR0I24(opcode, xyz) == [opcode |-> opcode, xyz |-> xyz % I24]

Halt == eR3("Halt", 0, 0, 0)

uX(inst) == inst.xyz \div (ByteSize * ByteSize)
uY(inst) == (inst.xyz \div ByteSize) % ByteSize
uZ(inst) == inst.xyz % ByteSize
uYZ(inst) == inst.xyz % (ByteSize * ByteSize)
iXYZ(inst) == IF inst.xyz >= I24 \div 2 THEN inst.xyz - I24 ELSE inst.xyz

-----------------------------------------------------------------------------
(* Literals and globals *)

NamedLiteral == [true |-> mkBooleanValue(TRUE), false |-> mkBooleanValue(FALSE),
                 nil |-> nilValue, emptylist |-> emptylistValue]

\* The tokens are one literal, and no more.
IsLiteral(ts) ==
  \/ Len(ts) = 1 /\ (ts[1].type = "TNAME" => ts[1].name \in DOMAIN NamedLiteral)
  \/ /\ Len(ts) > 1
     /\ IsName(ts[1], "string") /\ IsInt(ts[2])
     /\ ts[2].n = Len(ts) - 2 /\ AreBytes(SubSeq(ts, 3, Len(ts)))

\* Strings are interned: a string is its bytes.
get_literal(ts) ==
  IF Len(ts) > 1 THEN mkStringValue([i \in 1..Len(ts) - 2 |-> ts[i + 2].n])
  ELSE CASE ts[1].type = "TNAME"   -> NamedLiteral[ts[1].name]
         [] ts[1].type = "TU32"    -> mkNumberValue(Signed(ts[1].n))
         [] ts[1].type = "TDOUBLE" -> mkNumberValue(ts[1].x)

\* Mutant of WithLiteral: finds numbers only.
WithUnequalLiteral(v) ==
  IF \E i \in DOMAIN literals : v.tag = "Number" /\ eqvalue(literals[i], v) THEN literals
  ELSE Append(literals, v)

\* The pool after literal_slot has looked for a value, and the value's index.
\* Nothing compares the index of a new literal with MAX_LITERALS.
WithLiteral(v) ==
  IF \E i \in DOMAIN literals : identical(literals[i], v) THEN literals
  ELSE Append(literals, v)

\* Mutant of literal_slot: counts a new literal before it takes its index.
SlotAfterCounting(v) ==
  LET same == {i \in DOMAIN literals : identical(literals[i], v)}
  IN  IF same = {} THEN Len(literals) + 1 ELSE Min(same) - 1

literal_slot(v) ==
  LET same == {i \in DOMAIN literals : identical(literals[i], v)}
  IN  IF same = {} THEN Len(literals) ELSE Min(same) - 1

\* The assertion of eR1U16, on an index that is, if it is new, the pool's last.
Fits(pool) == Len(pool) <= ByteSize * ByteSize

\* The C string of a string value, which ends before its first null byte.
CString(v) == SubSeq(v.s, 1, Min({i \in DOMAIN v.s : v.s[i] = 0} \cup {Len(v.s) + 1}) - 1)

WithGlobal(name) == IF Contains(globals, name) THEN globals ELSE Append(globals, name)
global_slot(name) == IF Contains(globals, name) THEN SelectInSeq(globals, LAMBDA g : g = name) - 1
                     ELSE Len(globals)

-----------------------------------------------------------------------------
(* Parsing one instruction *)

\* What the parser of a format accepts.
Accepts(f, ts) ==
  LET rest == SubSeq(ts, f.bytes + 1, Len(ts)) IN
  /\ Len(ts) >= f.bytes
  /\ AreBytes(SubSeq(ts, 1, f.bytes))
  /\ CASE f.rest = "none"    -> rest = <<>>
       [] f.rest = "integer" -> /\ Len(rest) = 1 /\ IsInt(rest[1])
                                /\ Signed(rest[1].n) \in -(I24 \div 2)..(I24 \div 2) - 1
       [] f.rest = "literal" -> rest # <<>> /\ IsLiteral(rest)
       [] f.rest = "global"  -> /\ rest # <<>> /\ IsLiteral(rest)
                                /\ get_literal(rest).tag = "String"

\* The instruction that it makes of them, and what it adds to the machine.
Parse(opcode, f, ts) ==
  LET byte(i) == IF i <= f.bytes THEN ts[i].n ELSE 0
      rest == SubSeq(ts, f.bytes + 1, Len(ts))
  IN CASE f.rest = "none" ->
            [inst |-> eR3(opcode, byte(1), byte(2), byte(3)),
             literals |-> literals, globals |-> globals]
       [] f.rest = "integer" ->
            [inst |-> eR0I24(opcode, Signed(rest[1].n)),
             literals |-> literals, globals |-> globals]
       [] f.rest = "literal" ->
            LET v == get_literal(rest)
            IN [inst |-> eR1U16(opcode, byte(1), literal_slot(v)),
                literals |-> WithLiteral(v), globals |-> globals]
       [] OTHER ->
            LET name == CString(get_literal(rest))
            IN [inst |-> eR1U16(opcode, byte(1), global_slot(name)),
                literals |-> literals, globals |-> WithGlobal(name)]

\* Mutant of See: forgets the last register of an instruction that has several.
SeeAllButLast(maxreg, f, ts) ==
  Max({maxreg} \cup {ts[i].n : i \in 1..(IF f.seen > 1 THEN f.seen - 1 ELSE f.seen)})

\* SEE, for each register that the parser of a format sees.
See(maxreg, f, ts) == Max({maxreg} \cup {ts[i].n : i \in 1..f.seen})

-----------------------------------------------------------------------------
(* Loading *)

Top == frames[Len(frames)]
Complete == Len(functions[Top.fun].instructions) >= functions[Top.fun].size

\* newstate: one literal and one global are in use.
Init ==
  /\ literals = <<mkStringValue(ConsName)>>
  /\ globals = <<GammaName>>
  /\ functions = <<>>
  /\ frames = <<>>
  /\ text = <<>>
  /\ outcome = "loading"

Abort == outcome' = "aborted" /\ UNCHANGED <<literals, globals, functions, frames>>

\* The beginning of loadfun: a function whose instructions are still to come,
\* and which instruction loadliteral is to put in register reg of its parent.
BeginFunction(arity, count, reg) ==
  /\ functions' = Append(functions, [arity |-> arity, size |-> count, nregs |-> 0,
                                     instructions |-> <<>>])
  /\ frames' = Append(frames, [fun |-> Len(functions) + 1, maxreg |-> 0, reg |-> reg])
  /\ UNCHANGED <<literals, globals, outcome>>

\* loadmodule, up to its call of loadfun.
LoadModule(ts) ==
  IF /\ Len(ts) = 3 /\ IsName(ts[1], ".load") /\ IsName(ts[2], "module") /\ IsInt(ts[3])
  THEN BeginFunction(0, Signed(ts[3].n), 0)
  ELSE Abort

\* get_instruction of a function that is nested in another.  What follows the
\* count is not looked at.
LoadNested(ts) ==
  IF /\ Len(ts) >= 5 /\ IsInt(ts[2]) /\ IsName(ts[3], "function")
     /\ IsInt(ts[4]) /\ IsInt(ts[5])
  THEN BeginFunction(Signed(ts[4].n), Signed(ts[5].n), ts[2].n)
  ELSE Abort

\* get_instruction of any other line, with parse_instruction.  An unknown
\* opcode is reported, and is then the instruction 0.
ParseLine(name, ts) ==
  IF ~HasEntry(name)
  THEN /\ functions' = [functions EXCEPT ![Top.fun].instructions = Append(@, Halt)]
       /\ UNCHANGED <<literals, globals, frames, outcome>>
  ELSE LET entry == itable_entry(name)
           f == Format[entry[3]]
           parsed == Parse(entry[2], f, ts)
       IN IF ~Accepts(f, ts) \/ ~Fits(parsed.literals)
             \/ Len(parsed.globals) > MAX_GLOBALS THEN Abort
          ELSE /\ functions' = [functions EXCEPT ![Top.fun].instructions =
                                  Append(@, parsed.inst)]
               /\ frames' = [frames EXCEPT ![Len(frames)].maxreg = See(@, f, ts)]
               /\ literals' = parsed.literals
               /\ globals' = parsed.globals
               /\ UNCHANGED outcome

GetInstruction(ts) ==
  IF ts = <<>> \/ ts[1].type # "TNAME" THEN Abort
  ELSE IF ts[1].name = ".load" THEN LoadNested(ts)
  ELSE ParseLine(ts[1].name, Tail(ts))

\* getline, by loadmodule between two modules and by get_instruction in one; the
\* whole line is scanned before anything else is done with it.
ReadLine(line) ==
  /\ outcome = "loading"
  /\ Len(text) < MaxLines
  /\ frames # <<>> => ~Complete
  /\ text' = Append(text, line)
  /\ \/ Overflows(line) /\ Abort
     \/ ~Overflows(line) /\ frames = <<>> /\ LoadModule(tokens(line))
     \/ ~Overflows(line) /\ frames # <<>> /\ GetInstruction(tokens(line))

\* The end of the file is where a module may begin, and nowhere else.
EndOfFile ==
  /\ outcome = "loading"
  /\ \/ frames = <<>> /\ outcome' = "done"
     \/ frames # <<>> /\ ~Complete /\ outcome' = "aborted"
  /\ UNCHANGED <<literals, globals, functions, frames, text>>

\* The end of loadfun.
Finished(f, maxreg) == [f EXCEPT !.instructions = Append(@, Halt), !.nregs = maxreg + 1]

\* loadfun returns to loadmodule.
EndModule ==
  /\ outcome = "loading" /\ Len(frames) = 1 /\ Complete
  /\ functions' = [functions EXCEPT ![Top.fun] = Finished(@, Top.maxreg)]
  /\ frames' = <<>>
  /\ UNCHANGED <<literals, globals, text, outcome>>

\* loadfun returns to get_instruction, which makes the function a literal and
\* the rest of its .load line an instruction of the function around it.
EndNested ==
  LET parent == frames[Len(frames) - 1].fun
      v == mkVMFunctionValue(Top.fun)
  IN
  /\ outcome = "loading" /\ Len(frames) > 1 /\ Complete
  /\ UNCHANGED <<globals, text>>
  /\ IF Top.reg >= ByteSize \/ ~Fits(WithLiteral(v)) THEN Abort
     ELSE /\ functions' = [functions EXCEPT
               ![Top.fun] = Finished(@, Top.maxreg),
               ![parent].instructions =
                  Append(@, eR1U16("LoadLiteral", Top.reg, literal_slot(v)))]
          /\ literals' = WithLiteral(v)
          /\ frames' = Front(frames)
          /\ UNCHANGED outcome

Ended == outcome # "loading" /\ UNCHANGED vars

Next == (\E line \in Line : ReadLine(line)) \/ EndOfFile \/ EndModule \/ EndNested \/ Ended

Spec == Init /\ [][Next]_vars

-----------------------------------------------------------------------------
(* Properties *)

\* Type invariant.
TypeOK ==
  /\ \A f \in Range(functions) :
       /\ f.arity \in 0..Word \div 2 - 1 /\ f.nregs \in 0..ByteSize
       /\ Len(f.instructions) \in 0..f.size + 1
       /\ \A inst \in Range(f.instructions) : inst.xyz \in 0..I24 - 1
  /\ \A fr \in Range(frames) : fr.fun \in DOMAIN functions /\ fr.maxreg < ByteSize
  /\ text \in Seq(Line) /\ Len(text) <= MaxLines
  /\ outcome \in {"loading", "done", "aborted"}

\* How a reader of the file counts lines.  A line that begins a function
\* stands, with the lines of that function, for one instruction.
IsSym(w, name) == w.kind = "sym" /\ w.name = name
IsHeader(line) == line # <<>> /\ IsSym(line[1], ".load")
Count(line) == IF IsSym(line[2], "module") THEN line[3].l ELSE line[5].l

\* The lines among the first l of t that begin functions, and the k-th of all.
Headers(t, l) == {h \in 1..l : IsHeader(t[h])}
HeaderLine(k) ==
  CHOOSE l \in DOMAIN text : IsHeader(text[l]) /\ Cardinality(Headers(text, l)) = k

\* The instructions that the first l lines of t announce, as a line and a number,
\* and how many more they are than the lines.
Announced(t, l) == UNION {{h} \X (1..Count(t[h])) : h \in Headers(t, l)}
Owed(t, l) == Cardinality(Announced(t, l)) - l

\* The line that follows the n instructions which begin after line l: the first
\* before which n fewer are owed.
After(n, l) == Min({m \in l + 1..Len(text) : Owed(text, m - 1) = Owed(text, l) - n})

\* The operands that a line of text shows, and those of an instruction.
ShownNumber(w) == IF w.kind = "real" THEN w.x
                  ELSE IF w.l \in Word \div 2..Word - 1 THEN w.l - Word ELSE w.l

ShownLiteral(ws) ==
  IF Len(ws) > 1 THEN mkStringValue([i \in 1..Len(ws) - 2 |-> ws[i + 2].l])
  ELSE IF ws[1].kind = "sym" THEN NamedLiteral[ws[1].name]
  ELSE mkNumberValue(ShownNumber(ws[1]))

\* The bytes of an instruction of a format.
Bytes(f, inst) == SubSeq(<<uX(inst), uY(inst), uZ(inst)>>, 1, f.bytes)

\* An instruction is what its line says.
Says(inst, ws) ==
  LET f == Format[itable_entry_by_code(inst.opcode)[3]]
      rest == SubSeq(ws, f.bytes + 2, Len(ws))
      index == uYZ(inst) + 1
      Holds(v) == index \in DOMAIN literals /\ (literals[index] = v \/ identical(literals[index], v))
  IN
  /\ inst.opcode = itable_entry(ws[1].name)[2]
  /\ Bytes(f, inst) = [i \in 1..f.bytes |-> ws[i + 1].l]
  /\ f.rest = "none" => rest = <<>>
  /\ f.rest = "integer" => iXYZ(inst) = ShownNumber(rest[1])
  /\ f.rest = "literal" => Holds(ShownLiteral(rest))
  /\ f.rest = "global" =>
       index \in DOMAIN globals /\ globals[index] = CString(ShownLiteral(rest))

\* The instruction for a line that begins a function loads that function.
Loads(inst, l) ==
  LET index == uYZ(inst) + 1 IN
  /\ inst.opcode = "LoadLiteral" /\ uX(inst) = text[l][2].l
  /\ index \in DOMAIN literals /\ literals[index].tag = "VMFunction"
  /\ HeaderLine(literals[index].f) = l

\* Whatever has been loaded since, through whatever nesting of functions, each
\* instruction of each function is the one its own line shows, with the value
\* of its literal and the name of its global, and no line is read twice, is
\* skipped, or goes to another function.  An unknown opcode is a halt, and an
\* integer from 2^31 up to 2^32 is taken for a negative one.
LoadedAsWritten ==
  \A k \in DOMAIN functions :
    LET h == HeaderLine(k)
        f == functions[k]
    IN
    /\ f.size = Count(text[h])
    /\ \A i \in DOMAIN f.instructions :
         LET inst == f.instructions[i]
             l == After(i - 1, h)
         IN IF i > f.size THEN inst = Halt
            ELSE IF IsHeader(text[l]) THEN Loads(inst, l)
            ELSE IF HasEntry(text[l][1].name) THEN Says(inst, text[l])
            ELSE inst = Halt

\* Two literals of the pool are never identical, and two globals never have the
\* same name, so that one value has one index and one global one slot.
SlotsAreUnique ==
  /\ \A i, j \in DOMAIN literals : i # j => ~identical(literals[i], literals[j])
  /\ IsInjective(globals)

\* The registers that an instruction mentions.
Mentioned(inst) ==
  LET f == Format[itable_entry_by_code(inst.opcode)[3]]
  IN Range(SubSeq(Bytes(f, inst), 1, f.seen))

\* The instruction was made from the line of a nested function.
FromNested(inst) ==
  inst.opcode = "LoadLiteral" /\ literals[uYZ(inst) + 1].tag = "VMFunction"

Loaded == {f \in Range(functions) : Len(f.instructions) = f.size + 1}

\* Every register that the lines of a function mention, those of .load lines apart, is
\* one of the nregs that a call makes room for, and the last of these is mentioned:
\* no register of a nested function or of another module is counted with them.
OwnRegistersCovered ==
  \A f \in Loaded :
    /\ \A inst \in Range(f.instructions) :
         ~FromNested(inst) => \A r \in Mentioned(inst) : r < f.nregs
    /\ f.nregs - 1 \in {0} \cup UNION {Mentioned(inst) : inst \in Range(f.instructions)}

\* What loader.c says of nregs: it is one more than the largest register mentioned in
\* any instruction.  The register of a .load line is the exception.
RegistersCovered ==
  \A f \in Loaded :
    f.nregs = 1 + Max({0} \cup UNION {Mentioned(inst) : inst \in Range(f.instructions)})

=============================================================================
