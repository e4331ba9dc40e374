------------------------------ MODULE FieldCodec ------------------------------
(***************************************************************************)
(* The way of the operands of one instruction: from the symbolic harness   *)
(* (main of yaml-to-cpp.py, --output-klee) or any caller through           *)
(* InstPrinter.append of assemble.py into an instruction word; through the *)
(* field definitions that yaml-to-cpp.py writes (--output-decode) and the  *)
(* extraction decodetree-disas.py generates for them; through the trans_*  *)
(* function into the parameter of the translated code.                     *)
(*                                                                         *)
(* An integer is the set of the positions of its 1 bits.                   *)
(***************************************************************************)
EXTENDS Integers, Sequences, FiniteSets

CONSTANTS
  Instruction,  \* [operands, fixed, ones, grouped]: the operands in order, the
                \* fixed positions of the match string, those that are 1, and
                \* whether the instruction overlaps another one
  Input,        \* values that callers of append pass
  Size,         \* length of the match strings
  Xlen,         \* 32: bits of an int
  MinC          \* 8: bits of the narrowest C integer

VARIABLES
  file,    \* the instructions, in the order of the script
  pick,    \* the one that is assembled, decoded and translated
  stage,   \* the step of the tool chain
  i,       \* index of the instruction or operand at hand
  k,       \* index of the range at hand; loops run from the last range down
  defs,    \* the field definitions by name and ranges
  isTest,  \* the values come from the symbolic harness
  value,   \* the value of each operand before it is encoded
  offset,  \* bits of the operand done so far
  enc,     \* the instruction word
  ret,     \* the expression built by str_extract, evaluated
  arg      \* the argument structure: one int per operand

vars == <<file, pick, stage, i, k, defs, isTest, value, offset, enc, ret, arg>>

-----------------------------------------------------------------------------
Shl(s, n) == {b + n : b \in s}
Shr(s, n) == {b - n : b \in {c \in s : c >= n}}
Low(s, n) == {b \in s : b < n}
SignExtend(s, len, width) == IF len - 1 \in s THEN s \cup (len .. width - 1) ELSE s

PowerOfTwo(n) == CHOOSE p \in {2^e : e \in 0 .. n} :
                   /\ p >= n
                   /\ \A q \in {2^e : e \in 0 .. n} : q >= n => p <= q

(* A 48 bit word is decoded at the top of 64 bits; Width is bitop_width. *)
Width == PowerOfTwo(Size)
Lift == Width - Size

(* bit_to_c_size: the C integer that holds n bits. *)
CSize(n) ==
  LET least == IF PowerOfTwo(n) > MinC THEN PowerOfTwo(n) ELSE MinC
  IN  IF least < 2 * Xlen THEN least ELSE 2 * Xlen

(* The bits a range, or a location, names. *)
Bits(r) == r.start .. (r.start + r.len - 1)
LocationFrom(o, m) == UNION {Bits(o.ranges[j]) : j \in {n \in DOMAIN o.ranges : n > m}}
Location(o) == LocationFrom(o, 0)
VarSize(o) == Cardinality(Location(o))

Key(o) == <<o.name, o.ranges>>
Operands(inst) == {inst.operands[v] : v \in DOMAIN inst.operands}
AllKeys == {Key(o) : o \in UNION {Operands(inst) : inst \in Instruction}}
Fields(inst) == UNION {Location(o) : o \in Operands(inst)}

(* Of the ranges of one operand no two need be apart: the decoder refuses  *)
(* them. Operands of one instruction are in different places.              *)
ASSUME SizeAssumption ==
  /\ Size \in Nat \ {0} /\ Xlen \in Nat \ {0} /\ MinC \in Nat \ {0}
  /\ Width \in Nat /\ Width >= Size
ASSUME InputAssumption == Input \subseteq SUBSET Nat
ASSUME InstructionAssumption ==
  \A inst \in Instruction :
    /\ inst.operands \in Seq(Operands(inst))
    /\ inst.fixed \in SUBSET Nat /\ inst.ones \subseteq inst.fixed
    /\ inst.grouped \in BOOLEAN
    /\ \A o \in Operands(inst) :
         /\ o.ranges \in Seq([start : Nat, len : Nat \ {0}])
         /\ o.ranges # <<>>
         /\ o.sign \in BOOLEAN /\ o.shift \in Nat /\ o.not \in SUBSET SUBSET Nat
    /\ \A v, w \in DOMAIN inst.operands :
         v # w => Location(inst.operands[v]) \cap Location(inst.operands[w]) = {}

(* The C type of an operand holds it, and int is one of these types. (That *)
(* is so for any powers of two; the prover has no rules for exponents.)    *)
ASSUME TypeSizeAssumption ==
  /\ \A n \in 1 .. Xlen : CSize(n) \in Nat /\ n <= CSize(n)
  /\ CSize(Xlen) = Xlen

(* No operand of the extension is larger than an int, and the `not' values *)
(* of an operand are values of its field.                                  *)
ASSUME OperandAssumption ==
  \A inst \in Instruction : \A o \in Operands(inst) :
    /\ VarSize(o) <= Xlen
    /\ \A x \in o.not : x \subseteq 0 .. VarSize(o) - 1

Inst == file[pick]
Op(v) == Inst.operands[v]
Last(v) == IF v \in DOMAIN Inst.operands THEN Len(Op(v).ranges) ELSE 0

-----------------------------------------------------------------------------
Init ==
  /\ file \in UNION {[1 .. n -> Instruction] : n \in {1, 2}}
  /\ pick \in DOMAIN file
  /\ stage = "groups"
  /\ i = 1 /\ k = 0
  /\ defs = [key \in AllKeys |-> "none"]
  /\ isTest = FALSE
  /\ value = <<>>
  /\ offset = 0
  /\ enc = {} /\ ret = {}
  /\ arg = <<>>

Define(keys, def) == defs' = [key \in AllKeys |-> IF key \in keys THEN def ELSE defs[key]]
KeysOf(inst, sign) == {Key(o) : o \in {p \in Operands(inst) : p.sign = sign}}

(* The lines of groups are written first, and never with a sign. *)
DefineGrouped ==
  /\ stage = "groups" /\ i \in DOMAIN file
  /\ IF file[i].grouped
     THEN Define(KeysOf(file[i], TRUE) \cup KeysOf(file[i], FALSE), "plain")
     ELSE UNCHANGED defs
  /\ i' = i + 1
  /\ UNCHANGED <<file, pick, stage, k, isTest, value, offset, enc, ret, arg>>

EndGroups ==
  /\ stage = "groups" /\ i \notin DOMAIN file
  /\ stage' = "singles"
  /\ i' = 1
  /\ UNCHANGED <<file, pick, k, defs, isTest, value, offset, enc, ret, arg>>

(* Seeded fault: a definition that is there already is kept. *)
DefineSingleOnce ==
  /\ stage = "singles" /\ i \in DOMAIN file
  /\ IF file[i].grouped
     THEN UNCHANGED defs
     ELSE defs' = [key \in AllKeys |->
                     IF defs[key] # "none" THEN defs[key]
                     ELSE IF key \in KeysOf(file[i], TRUE) THEN "signed"
                     ELSE IF key \in KeysOf(file[i], FALSE) THEN "plain" ELSE "none"]
  /\ i' = i + 1
  /\ UNCHANGED <<file, pick, stage, k, isTest, value, offset, enc, ret, arg>>

(* A definition replaces an earlier one of the same name and ranges. *)
DefineSingle ==
  /\ stage = "singles" /\ i \in DOMAIN file
  /\ IF file[i].grouped
     THEN UNCHANGED defs
     ELSE defs' = [key \in AllKeys |->
                     IF key \in KeysOf(file[i], TRUE) THEN "signed"
                     ELSE IF key \in KeysOf(file[i], FALSE) THEN "plain" ELSE defs[key]]
  /\ i' = i + 1
  /\ UNCHANGED <<file, pick, stage, k, isTest, value, offset, enc, ret, arg>>

EndSingles ==
  /\ stage = "singles" /\ i \notin DOMAIN file
  /\ stage' = "parse"
  /\ UNCHANGED <<file, pick, i, k, defs, isTest, value, offset, enc, ret, arg>>

(* parse_field and the masks of parse_generic *)
FieldOK(o) ==
  /\ \A j \in DOMAIN o.ranges : o.ranges[j].start + Lift + o.ranges[j].len <= Width
  /\ \A j1, j2 \in DOMAIN o.ranges :
       j1 # j2 => Bits(o.ranges[j1]) \cap Bits(o.ranges[j2]) = {}
LineOK(inst) ==
  /\ \A o \in Operands(inst) : FieldOK(o)
  /\ Fields(inst) \cap inst.fixed = {}
  /\ Fields(inst) \cup inst.fixed = 0 .. Size - 1

ParseFile ==
  /\ stage = "parse"
  /\ stage' = IF \A f \in DOMAIN file : LineOK(file[f]) THEN "input" ELSE "error"
  /\ UNCHANGED <<file, pick, i, k, defs, isTest, value, offset, enc, ret, arg>>

(* The next loop over the operands begins. *)
Begin(s) == stage' = s /\ i' = 1 /\ k' = Last(1) /\ offset' = 0

(* The symbolic value: sextract, then <<=, within its C type. *)
Harness(o, raw) ==
  LET c == CSize(VarSize(o))
  IN  Low(Shl(IF o.sign THEN SignExtend(Low(raw, VarSize(o)), VarSize(o), c) ELSE raw,
              o.shift), c)

(* Seeded fault: no klee_assume of the size. *)
AssumedNotOnly(o, x) == x \notin o.not

(* klee_assume: not one of the `not' values, and no larger than the field. *)
Assumed(o, x) ==
  /\ x \notin o.not
  /\ VarSize(o) \notin {Xlen, 2 * Xlen} => x \subseteq 0 .. VarSize(o) - 1

(* All operands as immediates: of a register the harness has the value, and *)
(* assemble.py chooses the number (TestProgram).                           *)
Generate ==
  /\ stage = "input"
  /\ isTest' = TRUE
  /\ value' \in {f \in [DOMAIN Inst.operands ->
                          UNION {{Harness(o, raw) : raw \in SUBSET (0 .. CSize(VarSize(o)) - 1)} :
                                   o \in Operands(Inst)}] :
                   \A v \in DOMAIN Inst.operands :
                     /\ Assumed(Op(v), f[v])
                     /\ \E raw \in SUBSET (0 .. CSize(VarSize(Op(v))) - 1) :
                          f[v] = Harness(Op(v), raw)}
  /\ enc' = Inst.ones
  /\ Begin("append")
  /\ UNCHANGED <<file, pick, defs, ret, arg>>

(* Any other caller of append. *)
Call ==
  /\ stage = "input"
  /\ value' \in [DOMAIN Inst.operands -> Input]
  /\ enc' = Inst.ones
  /\ Begin("append")
  /\ UNCHANGED <<file, pick, defs, isTest, ret, arg>>

(* Seeded fault: the chunk is not masked to the length of its range. *)
ChunkUnmasked(x, r) == Shr(x, offset)

(* (arg_value & mask) >> offset *)
Chunk(x, r) == Shr({b \in x : offset <= b /\ b < offset + r.len}, offset)

ArgValue(v) == Shr(value[v], Op(v).shift)

AppendRange ==
  /\ stage = "append" /\ i \in DOMAIN Inst.operands /\ k > 0
  /\ enc' = enc \cup Shl(Chunk(ArgValue(i), Op(i).ranges[k]), Op(i).ranges[k].start)
  /\ offset' = offset + Op(i).ranges[k].len
  /\ k' = k - 1
  /\ UNCHANGED <<file, pick, stage, i, defs, isTest, value, ret, arg>>

AppendNext ==
  /\ stage = "append" /\ i \in DOMAIN Inst.operands /\ k = 0
  /\ i' = i + 1
  /\ k' = Last(i + 1)
  /\ offset' = 0
  /\ UNCHANGED <<file, pick, stage, defs, isTest, value, enc, ret, arg>>

(* The bytes are packed; the decoder loads them at the top of its word. *)
EndAppend ==
  /\ stage = "append" /\ i \notin DOMAIN Inst.operands
  /\ enc' = Shl(enc, Lift)
  /\ Begin("extract")
  /\ UNCHANGED <<file, pick, defs, isTest, value, ret, arg>>

(* extract and sextract; of several parts the first carries the sign. *)
Extract(v, j) ==
  LET r     == Op(v).ranges[j]
      plain == Low(Shr(enc, r.start + Lift), r.len)
  IN  IF j = 1 /\ defs[Key(Op(v))] = "signed" THEN SignExtend(plain, r.len, Width) ELSE plain

(* Seeded fault: deposit at the place of the part in the word. *)
DepositInPlace(x, part) == Low(x, offset) \cup Low(Shl(part, Op(i).ranges[k].start), Width)

(* Seeded fault: the upper part is not cut to the word. *)
DepositUncut(x, part) == Low(x, offset) \cup Shl(part, offset)

(* deposit(ret, pos, width - pos, part) *)
Deposit(x, part) == Low(x, offset) \cup Low(Shl(part, offset), Width)

ExtractRange ==
  /\ stage = "extract" /\ i \in DOMAIN Inst.operands /\ k > 0
  /\ ret' = IF offset = 0 THEN Extract(i, k) ELSE Deposit(ret, Extract(i, k))
  /\ offset' = offset + Op(i).ranges[k].len
  /\ k' = k - 1
  /\ UNCHANGED <<file, pick, stage, i, defs, isTest, value, enc, arg>>

(* The argument structure has ints. *)
ExtractNext ==
  /\ stage = "extract" /\ i \in DOMAIN Inst.operands /\ k = 0
  /\ arg' = Append(arg, Low(ret, Xlen))
  /\ ret' = {}
  /\ i' = i + 1
  /\ k' = Last(i + 1)
  /\ offset' = 0
  /\ UNCHANGED <<file, pick, stage, defs, isTest, value, enc>>

EndExtract ==
  /\ stage = "extract" /\ i \notin DOMAIN Inst.operands
  /\ Begin("trans")
  /\ UNCHANGED <<file, pick, defs, isTest, value, enc, ret, arg>>

Refuse ==
  /\ stage = "trans" /\ i \in DOMAIN arg
  /\ arg[i] \in Op(i).not
  /\ stage' = "refused"
  /\ UNCHANGED <<file, pick, i, k, defs, isTest, value, offset, enc, ret, arg>>

(* arg->name <<= left_shift *)
ShiftArg ==
  /\ stage = "trans" /\ i \in DOMAIN arg
  /\ arg[i] \notin Op(i).not
  /\ arg' = [arg EXCEPT ![i] = Low(Shl(@, Op(i).shift), Xlen)]
  /\ i' = i + 1
  /\ UNCHANGED <<file, pick, stage, k, defs, isTest, value, offset, enc, ret>>

Emit ==
  /\ stage = "trans" /\ i \notin DOMAIN arg
  /\ stage' = "done"
  /\ UNCHANGED <<file, pick, i, k, defs, isTest, value, offset, enc, ret, arg>>

Next ==
  \/ DefineGrouped \/ EndGroups \/ DefineSingle \/ EndSingles \/ ParseFile
  \/ Generate \/ Call
  \/ AppendRange \/ AppendNext \/ EndAppend
  \/ ExtractRange \/ ExtractNext \/ EndExtract
  \/ Refuse \/ ShiftArg \/ Emit

Spec == Init /\ [][Next]_vars

-----------------------------------------------------------------------------
(* Every variable has its type. *)
TypeOK ==
  /\ file \in Seq(Instruction) /\ pick \in DOMAIN file
  /\ stage \in {"groups", "singles", "parse", "input", "error", "append", "extract",
                "trans", "refused", "done"}
  /\ i \in Nat \ {0} /\ k \in Nat
  /\ defs \in [AllKeys -> {"none", "plain", "signed"}]
  /\ isTest \in BOOLEAN
  /\ stage \in {"append", "extract", "trans", "refused", "done"} =>
       /\ DOMAIN value = DOMAIN Inst.operands
       /\ \A v \in DOMAIN value : value[v] \in SUBSET Nat
  /\ offset \in Nat
  /\ enc \in SUBSET Nat /\ ret \in SUBSET (0 .. Width - 1)
  /\ arg \in Seq(SUBSET (0 .. Xlen - 1))

(* Whatever values append is given, the assembled word still matches the   *)
(* match string of its instruction: no chunk spills over a fixed bit.      *)
WordMatches ==
  stage \in {"extract", "trans", "done"} =>
    enc \cap Shl(Inst.fixed, Lift) = Shl(Inst.ones, Lift)

(* The definition in the file is the one this instruction asked for. *)
SignKept(v) == (defs[Key(Op(v))] = "signed") <=> Op(v).sign

(* What the translated code shall receive for an encoded value: the field, *)
(* sign-extended if it is signed, and shifted.                             *)
FieldValue(v) ==
  LET field == Low(ArgValue(v), VarSize(Op(v)))
  IN  IF Op(v).sign THEN SignExtend(field, VarSize(Op(v)), Width) ELSE field
Meaning(v) == Low(Shl(Low(FieldValue(v), Xlen), Op(v).shift), Xlen)

(* An operand comes out of assembling, decoding and translating as the     *)
(* field of the value that went in, with its sign and shift, for every     *)
(* cut into ranges, provided the file defines its field with its sign      *)
(* (definitions are shared by name and ranges, and groups drop the sign).  *)
OperandsArrive ==
  stage = "done" =>
    \A v \in DOMAIN Inst.operands : SignKept(v) => arg[v] = Meaning(v)

(* Instruction f, one of those before n, has defined the field of operand  *)
(* v with the other sign after the picked instruction had its say.         *)
Redefines(f, v, n) ==
  /\ f < n /\ ~ file[f].grouped
  /\ Inst.grouped \/ f > pick
  /\ Key(Op(v)) \in KeysOf(file[f], ~ Op(v).sign)

SignKeptOrTaken(v, n) ==
  SignKept(v) \/ (Inst.grouped /\ Op(v).sign) \/ \E f \in DOMAIN file : Redefines(f, v, n)

(* An operand arrives with another sign than its own only because its      *)
(* instruction is in a group or because a later instruction uses the same  *)
(* name and ranges with the other sign; and then the bits of the field are *)
(* those of the value all the same, only what is above them differs.       *)
SignLost ==
  stage = "done" =>
    \A v \in DOMAIN Inst.operands :
      /\ SignKeptOrTaken(v, Len(file) + 1)
      /\ LET n == VarSize(Op(v)) + Op(v).shift
         IN  Low(arg[v], n) = Low(Meaning(v), n)

(* A value from the symbolic harness is one the instruction is executed    *)
(* with: trans_* does not refuse it and hands over the value that KLEE     *)
(* computed the expected results from, in the type of the parameter. A     *)
(* `not' value other than 0 of a shifted operand is excluded, since the    *)
(* harness compares after the shift and trans_* before it; so is an        *)
(* unsigned operand whose definition another instruction made signed.      *)
TestsArrive ==
  isTest /\ (\A v \in DOMAIN Inst.operands :
               /\ Op(v).shift = 0 \/ Op(v).not \subseteq {{}}
               /\ Op(v).sign \/ SignKept(v)) =>
    /\ stage # "refused"
    /\ stage = "done" =>
         \A v \in DOMAIN Inst.operands : Low(arg[v], CSize(VarSize(Op(v)))) = value[v]

-----------------------------------------------------------------------------
(* Where in its operand the part for range j begins. *)
Off(o, j) == Cardinality(LocationFrom(o, j))

Decoded == {"extract", "trans", "refused", "done"}
Encoded == Decoded \cup {"append"}

(* The bits of a range hold the part of the value that belongs there.      *)
Holds(v, j, lift) ==
  LET r == Op(v).ranges[j]
  IN  \A b \in 0 .. r.len - 1 : (r.start + lift + b \in enc) <=> (Off(Op(v), j) + b \in ArgValue(v))

(* Loops over operands and ranges: the offset is the size of the ranges    *)
(* that are done.                                                          *)
CursorInv ==
  /\ stage \in Encoded \cup {"input"} => LineOK(Inst)
  /\ stage \in {"append", "extract"} =>
       /\ i \in 1 .. Len(Inst.operands) + 1
       /\ i \in DOMAIN Inst.operands => k \in 0 .. Len(Op(i).ranges) /\ offset = Off(Op(i), k)

(* The word has the parts of the operands that are done, nothing yet of    *)
(* the others, and the match string between them.                          *)
WordInv ==
  /\ stage = "append" =>
       /\ enc \cap Inst.fixed = Inst.ones
       /\ \A v \in DOMAIN Inst.operands : \A j \in DOMAIN Op(v).ranges :
            IF v < i \/ (v = i /\ j > k) THEN Holds(v, j, 0) ELSE enc \cap Bits(Op(v).ranges[j]) = {}
  /\ stage \in Decoded =>
       /\ enc \cap Shl(Inst.fixed, Lift) = Shl(Inst.ones, Lift)
       /\ \A v \in DOMAIN Inst.operands : \A j \in DOMAIN Op(v).ranges : Holds(v, j, Lift)

(* What the definition in the file makes of the field of an operand. *)
Extracted(v) ==
  LET field == Low(ArgValue(v), VarSize(Op(v)))
  IN  IF defs[Key(Op(v))] = "signed" THEN SignExtend(field, VarSize(Op(v)), Width) ELSE field

RetInv ==
  /\ stage \notin Decoded => ret = {} /\ arg = <<>>
  /\ stage = "extract" =>
       /\ Len(arg) = i - 1
       /\ i \in DOMAIN Inst.operands =>
            ret = IF k = 0 THEN Extracted(i) ELSE Low(ArgValue(i), offset)

(* The arguments are extracted, and then shifted from the first on. *)
ArgInv ==
  stage \in Decoded =>
    /\ stage # "extract" => i \in Nat /\ Len(arg) = Len(Inst.operands)
    /\ stage = "done" => i \notin DOMAIN arg
    /\ stage = "refused" => i \in DOMAIN arg /\ arg[i] \in Op(i).not
    /\ \A v \in DOMAIN arg :
         arg[v] = IF stage # "extract" /\ v < i
                  THEN Low(Shl(Low(Extracted(v), Xlen), Op(v).shift), Xlen)
                  ELSE Low(Extracted(v), Xlen)

HarnessInv ==
  isTest =>
    /\ stage \in Encoded
    /\ \A v \in DOMAIN Inst.operands :
         /\ Assumed(Op(v), value[v])
         /\ \E raw \in SUBSET (0 .. CSize(VarSize(Op(v))) - 1) : value[v] = Harness(Op(v), raw)

(* What has become of the signs while the definitions are written.         *)
DefsInv ==
  /\ stage = "groups" => \A key \in AllKeys : defs[key] # "signed"
  /\ \A v \in DOMAIN Inst.operands :
       /\ stage = "singles" /\ (Inst.grouped \/ pick < i) => SignKeptOrTaken(v, i)
       /\ stage \notin {"groups", "singles"} => SignKeptOrTaken(v, Len(file) + 1)

(* At every step of assembling, decoding and translating, what has become  *)
(* of the operands is a part of the value that went in.                    *)
CodecInv == CursorInv /\ WordInv /\ RetInv /\ ArgInv /\ HarnessInv
=============================================================================
