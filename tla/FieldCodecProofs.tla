--------------------------- MODULE FieldCodecProofs ---------------------------
(***************************************************************************)
(* Proofs about FieldCodec, for every set of instructions, cut of operands *)
(* into ranges, word size and width of int.  CodecInv says what has become *)
(* of each operand at each step; the offset is the size of the ranges that *)
(* are done (OffStep), so that the parts that append cuts off a value and  *)
(* the parts that the decoder puts together are the same.                  *)
(***************************************************************************)
EXTENDS FieldCodec, FiniteSetTheorems, SequenceTheorems, TLAPS

(* The numbers of the instance. *)
LEMMA Sizes ==
  /\ Size \in Nat \ {0} /\ Xlen \in Nat \ {0} /\ Width \in Nat
  /\ Lift \in Nat /\ Width = Size + Lift
BY SizeAssumption DEF Lift

(* What an operand of an instruction is. *)
OperandType(o) ==
  /\ o.ranges \in Seq([start : Nat, len : Nat \ {0}])
  /\ o.ranges # <<>>
  /\ o.sign \in BOOLEAN /\ o.shift \in Nat

(* The type of an operand of an instruction.                               *)
LEMMA OperandFacts ==
  ASSUME NEW inst \in Instruction, NEW v \in DOMAIN inst.operands
  PROVE  /\ OperandType(inst.operands[v]) /\ inst.operands[v] \in Operands(inst)
         /\ Len(inst.operands) \in Nat /\ DOMAIN inst.operands = 1 .. Len(inst.operands)
<1>1. inst.operands[v] \in Operands(inst)
  BY DEF Operands
<1>2. OperandType(inst.operands[v])
  BY <1>1, InstructionAssumption, Zenon DEF OperandType
<1>3. inst.operands \in Seq(Operands(inst))
  BY InstructionAssumption
<1>. QED  BY <1>1, <1>2, <1>3

(* A sequence that is not empty.                                           *)
LEMMA SeqFacts ==
  ASSUME NEW S, NEW s \in Seq(S), s # <<>>
  PROVE  /\ Len(s) \in Nat \ {0} /\ DOMAIN s = 1 .. Len(s)
         /\ \A j \in DOMAIN s : s[j] \in S
<1>1. Len(s) \in Nat /\ DOMAIN s = 1 .. Len(s) /\ \A j \in DOMAIN s : s[j] \in S
  OBVIOUS
<1>2. Len(s) # 0
  BY EmptySeq
<1>. QED  BY <1>1, <1>2

(* The type of the ranges of an operand.                                   *)
LEMMA RangeFacts ==
  ASSUME NEW o, OperandType(o)
  PROVE  /\ Len(o.ranges) \in Nat \ {0} /\ DOMAIN o.ranges = 1 .. Len(o.ranges)
         /\ \A j \in DOMAIN o.ranges : o.ranges[j].start \in Nat /\ o.ranges[j].len \in Nat \ {0}
<1>1. o.ranges \in Seq([start : Nat, len : Nat \ {0}]) /\ o.ranges # <<>>
  BY DEF OperandType
<1>2. Len(o.ranges) \in Nat \ {0} /\ DOMAIN o.ranges = 1 .. Len(o.ranges)
  BY <1>1, SeqFacts
<1>3. ASSUME NEW j \in DOMAIN o.ranges
      PROVE  o.ranges[j].start \in Nat /\ o.ranges[j].len \in Nat \ {0}
  <2>1. o.ranges[j] \in [start : Nat, len : Nat \ {0}]
    BY <1>1, SeqFacts
  <2>. QED  BY <2>1
<1>. QED  BY <1>2, <1>3

-----------------------------------------------------------------------------
(* The bits of a range are as many as its length. *)
LEMMA BitsFacts ==
  ASSUME NEW r, r.start \in Nat, r.len \in Nat \ {0}
  PROVE  IsFiniteSet(Bits(r)) /\ Cardinality(Bits(r)) = r.len
<1>1. r.start \in Int /\ r.start + r.len - 1 \in Int /\ ~ r.start > r.start + r.len - 1
  OBVIOUS
<1>2. (r.start + r.len - 1) - r.start + 1 = r.len
  OBVIOUS
<1>. QED  BY <1>1, <1>2, FS_Interval DEF Bits

(* The ranges after j are in the word, so there are finitely many bits.    *)
LEMMA LocationFacts ==
  ASSUME NEW o, OperandType(o), FieldOK(o), NEW j \in Nat
  PROVE  /\ LocationFrom(o, j) \subseteq 0 .. Size - 1
         /\ IsFiniteSet(LocationFrom(o, j))
         /\ Off(o, j) \in Nat /\ Off(o, j) <= Size
<1>1. \A n \in DOMAIN o.ranges : Bits(o.ranges[n]) \subseteq 0 .. Size - 1
  <2>1. TAKE n \in DOMAIN o.ranges
  <2>2. o.ranges[n].start \in Nat /\ o.ranges[n].len \in Nat
    BY RangeFacts
  <2>3. o.ranges[n].start + Lift + o.ranges[n].len <= Width
    BY DEF FieldOK
  <2>4. o.ranges[n].start + o.ranges[n].len <= Size
    BY <2>2, <2>3, Sizes
  <2>5. o.ranges[n].start >= 0 /\ o.ranges[n].start + o.ranges[n].len - 1 <= Size - 1
    BY <2>2, <2>4, Sizes
  <2>. QED  BY <2>2, <2>5, Sizes DEF Bits
<1>2. LocationFrom(o, j) \subseteq 0 .. Size - 1
  BY <1>1 DEF LocationFrom
<1>3. IsFiniteSet(0 .. Size - 1) /\ Cardinality(0 .. Size - 1) = Size
  <2>1. 0 \in Int /\ Size - 1 \in Int /\ ~ 0 > Size - 1 /\ (Size - 1) - 0 + 1 = Size
    BY Sizes
  <2>. QED  BY <2>1, FS_Interval
<1>4. IsFiniteSet(LocationFrom(o, j)) /\ Cardinality(LocationFrom(o, j)) <= Size
  <2>1. LocationFrom(o, j) \in SUBSET (0 .. Size - 1)
    BY <1>2
  <2>2. /\ IsFiniteSet(LocationFrom(o, j))
        /\ Cardinality(LocationFrom(o, j)) <= Cardinality(0 .. Size - 1)
    BY <1>3, <2>1, FS_Subset, Zenon
  <2>. QED  BY <1>3, <2>2, Zenon
<1>. QED  BY <1>2, <1>4, FS_CardinalityType DEF Off

(* One range more is its length more. *)
LEMMA OffStep ==
  ASSUME NEW o, OperandType(o), FieldOK(o), NEW j \in DOMAIN o.ranges
  PROVE  Off(o, j - 1) = Off(o, j) + o.ranges[j].len
<1>. DEFINE r == o.ranges[j]
<1>1. j \in Nat /\ j - 1 \in Nat /\ DOMAIN o.ranges = 1 .. Len(o.ranges) /\ Len(o.ranges) \in Nat
  BY RangeFacts
<1>2. LocationFrom(o, j - 1) = LocationFrom(o, j) \cup Bits(r)
  <2>1. {n \in DOMAIN o.ranges : n > j - 1} = {n \in DOMAIN o.ranges : n > j} \cup {j}
    BY <1>1
  <2>. QED  BY <2>1 DEF LocationFrom
<1>3. LocationFrom(o, j) \cap Bits(r) = {}
  <2>1. \A j1, j2 \in DOMAIN o.ranges : j1 # j2 => Bits(o.ranges[j1]) \cap Bits(o.ranges[j2]) = {}
    BY Zenon DEF FieldOK
  <2>2. \A n \in DOMAIN o.ranges : n > j => n # j
    BY <1>1
  <2>3. \A n \in DOMAIN o.ranges : n > j => Bits(o.ranges[n]) \cap Bits(r) = {}
    BY <2>1, <2>2, Zenon
  <2>. QED  BY <2>3 DEF LocationFrom
<1>4. IsFiniteSet(LocationFrom(o, j)) /\ IsFiniteSet(Bits(r)) /\ Cardinality(Bits(r)) = r.len
  BY <1>1, LocationFacts, BitsFacts, RangeFacts
<1>5. /\ Cardinality(LocationFrom(o, j) \cup Bits(r)) =
            Cardinality(LocationFrom(o, j)) + Cardinality(Bits(r)) - Cardinality(LocationFrom(o, j) \cap Bits(r))
      /\ Cardinality(LocationFrom(o, j)) \in Nat /\ r.len \in Nat
  BY <1>4, <1>1, FS_Union, FS_CardinalityType, RangeFacts
<1>6. Cardinality(LocationFrom(o, j) \cap Bits(r)) = 0
  BY <1>3, FS_EmptySet
<1>7. Cardinality(LocationFrom(o, j) \cup Bits(r)) = Cardinality(LocationFrom(o, j)) + r.len
  BY <1>4, <1>5, <1>6
<1>. QED  BY <1>2, <1>7, Zenon DEF Off

(* The first part that is done is that of the last range, and all of them  *)
(* are the variable.                                                       *)
LEMMA OffEnds ==
  ASSUME NEW o, OperandType(o)
  PROVE  Off(o, Len(o.ranges)) = 0 /\ Off(o, 0) = VarSize(o)
<1>1. LocationFrom(o, Len(o.ranges)) = {}
  BY RangeFacts DEF LocationFrom
<1>. QED  BY <1>1, FS_EmptySet DEF Off, VarSize, Location

(* The field is not empty and is not wider than an int. *)
LEMMA VarSizeFacts ==
  ASSUME NEW inst \in Instruction, NEW o \in Operands(inst), FieldOK(o), OperandType(o)
  PROVE  VarSize(o) \in 1 .. Xlen /\ VarSize(o) <= Width
<1>1. VarSize(o) <= Xlen /\ VarSize(o) \in Nat /\ VarSize(o) <= Size
  BY OperandAssumption, LocationFacts, OffEnds
<1>2. 1 \in DOMAIN o.ranges /\ Off(o, 1) \in Nat /\ o.ranges[1].len \in Nat \ {0}
  BY RangeFacts, LocationFacts
<1>3. Off(o, 1 - 1) = Off(o, 1) + o.ranges[1].len
  BY <1>2, OffStep
<1>. QED  BY <1>1, <1>2, <1>3, OffEnds, Sizes

-----------------------------------------------------------------------------
(* The instruction at hand and its operands. *)
LEMMA InstFacts ==
  ASSUME TypeOK
  PROVE  /\ Inst \in Instruction /\ pick \in DOMAIN file
         /\ Len(Inst.operands) \in Nat /\ DOMAIN Inst.operands = 1 .. Len(Inst.operands)
         /\ Inst.fixed \subseteq Nat /\ Inst.ones \subseteq Inst.fixed
<1>1. Inst \in Instruction /\ pick \in DOMAIN file
  BY DEF TypeOK, Inst
<1>2. Inst.operands \in Seq(Operands(Inst)) /\ Inst.fixed \subseteq Nat /\ Inst.ones \subseteq Inst.fixed
  BY <1>1, InstructionAssumption
<1>. QED  BY <1>1, <1>2

(* The type of the operand picked.                                         *)
LEMMA OpFacts ==
  ASSUME TypeOK, NEW v \in DOMAIN Inst.operands
  PROVE  /\ OperandType(Op(v)) /\ Op(v) \in Operands(Inst) /\ Op(v).shift \in Nat
         /\ Op(v).sign \in BOOLEAN
         /\ Len(Op(v).ranges) \in Nat \ {0} /\ DOMAIN Op(v).ranges = 1 .. Len(Op(v).ranges)
         /\ \A j \in DOMAIN Op(v).ranges :
              Op(v).ranges[j].start \in Nat /\ Op(v).ranges[j].len \in Nat \ {0}
         /\ Last(v) = Len(Op(v).ranges)
         /\ Key(Op(v)) \in AllKeys
<1>1. OperandType(Op(v)) /\ Op(v) \in Operands(Inst)
  BY InstFacts, OperandFacts DEF Op
<1>2. Key(Op(v)) \in AllKeys
  BY <1>1, InstFacts DEF AllKeys
<1>3. Op(v).shift \in Nat /\ Op(v).sign \in BOOLEAN
  BY <1>1 DEF OperandType
<1>. QED  BY <1>1, <1>2, <1>3, RangeFacts DEF Last

(* The offsets of the ranges of a field add up to its size and stay within *)
(* the word.                                                               *)
LEMMA FieldFacts ==
  ASSUME TypeOK, LineOK(Inst), NEW v \in DOMAIN Inst.operands
  PROVE  /\ FieldOK(Op(v))
         /\ VarSize(Op(v)) \in 1 .. Xlen /\ VarSize(Op(v)) <= Width
         /\ Off(Op(v), Len(Op(v).ranges)) = 0 /\ Off(Op(v), 0) = VarSize(Op(v))
         /\ \A j \in Nat : Off(Op(v), j) \in Nat /\ Off(Op(v), j) <= Size
         /\ \A j \in DOMAIN Op(v).ranges :
              /\ Off(Op(v), j - 1) = Off(Op(v), j) + Op(v).ranges[j].len
              /\ Op(v).ranges[j].start + Lift + Op(v).ranges[j].len <= Width
<1>1. FieldOK(Op(v))
  BY OpFacts, Zenon DEF LineOK
<1>2. VarSize(Op(v)) \in 1 .. Xlen /\ VarSize(Op(v)) <= Width
  BY <1>1, OpFacts, InstFacts, VarSizeFacts, Zenon
<1>3. Off(Op(v), Len(Op(v).ranges)) = 0 /\ Off(Op(v), 0) = VarSize(Op(v))
  BY OpFacts, OffEnds, Zenon
<1>4. \A j \in Nat : Off(Op(v), j) \in Nat /\ Off(Op(v), j) <= Size
  BY <1>1, OpFacts, LocationFacts, Zenon
<1>5. \A j \in DOMAIN Op(v).ranges : Off(Op(v), j - 1) = Off(Op(v), j) + Op(v).ranges[j].len
  BY <1>1, OpFacts, OffStep, Zenon
<1>6. \A j \in DOMAIN Op(v).ranges : Op(v).ranges[j].start + Lift + Op(v).ranges[j].len <= Width
  BY <1>1, Zenon DEF FieldOK
<1>. QED  BY <1>1, <1>2, <1>3, <1>4, <1>5, <1>6

(* Bits of different ranges are different, and none of them is fixed. *)
LEMMA Apart ==
  ASSUME TypeOK, LineOK(Inst),
         NEW v \in DOMAIN Inst.operands, NEW j \in DOMAIN Op(v).ranges
  PROVE  /\ Bits(Op(v).ranges[j]) \cap Inst.fixed = {}
         /\ \A w \in DOMAIN Inst.operands : \A l \in DOMAIN Op(w).ranges :
              w # v \/ l # j => Bits(Op(v).ranges[j]) \cap Bits(Op(w).ranges[l]) = {}
<1>1. \A w \in DOMAIN Inst.operands : \A l \in DOMAIN Op(w).ranges :
        Bits(Op(w).ranges[l]) \subseteq Location(Op(w))
  <2>1. \A w \in DOMAIN Inst.operands : \A l \in DOMAIN Op(w).ranges : l > 0
    BY OpFacts
  <2>. QED  BY <2>1 DEF Location, LocationFrom
<1>2. Location(Op(v)) \subseteq Fields(Inst)
  BY OpFacts DEF Fields
<1>3. Fields(Inst) \cap Inst.fixed = {}
  BY DEF LineOK
<1>4. ASSUME NEW w \in DOMAIN Inst.operands, NEW l \in DOMAIN Op(w).ranges, w # v \/ l # j
      PROVE  Bits(Op(v).ranges[j]) \cap Bits(Op(w).ranges[l]) = {}
  <2>1. CASE w # v
    <3>1. Location(Op(v)) \cap Location(Op(w)) = {}
      BY <2>1, InstFacts, InstructionAssumption DEF Op
    <3>. QED  BY <3>1, <1>1
  <2>2. CASE w = v /\ l # j
    BY <2>2, FieldFacts DEF FieldOK
  <2>. QED  BY <1>4, <2>1, <2>2
<1>. QED  BY <1>1, <1>2, <1>3, <1>4

-----------------------------------------------------------------------------
(* The cursor at the start of a loop over the operands. *)
LEMMA StartFacts ==
  ASSUME TypeOK
  PROVE  /\ \A v \in Nat : Last(v) \in Nat
         /\ \A v \in DOMAIN Inst.operands : Last(v) = Len(Op(v).ranges) /\ Last(v) > 0
<1>1. \A v \in DOMAIN Inst.operands : Last(v) = Len(Op(v).ranges) /\ Last(v) \in Nat /\ Last(v) > 0
  BY OpFacts
<1>2. \A v : v \notin DOMAIN Inst.operands => Last(v) = 0
  BY DEF Last
<1>. QED  BY <1>1, <1>2

(* What stays as long as the file and the choice of the instruction do. *)
LEMMA SameInst ==
  ASSUME UNCHANGED <<file, pick>>
  PROVE  /\ Inst' = Inst /\ LineOK(Inst)' = LineOK(Inst)
         /\ \A v : Op(v)' = Op(v) /\ Last(v)' = Last(v)
BY DEF Inst, Op, Last, LineOK, FieldOK, Fields, Operands, Location, LocationFrom

(* Harness values and inputs are sets of bits. *)
LEMMA ValueType ==
  ASSUME TypeOK, LineOK(Inst), Generate \/ Call
  PROVE  DOMAIN value' = DOMAIN Inst.operands /\ \A v \in DOMAIN value' : value'[v] \in SUBSET Nat
<1>1. CASE Call
  BY <1>1, InputAssumption DEF Call
<1>2. CASE Generate
  <2>1. ASSUME NEW v \in DOMAIN Inst.operands
        PROVE  CSize(VarSize(Op(v))) \in Nat /\ VarSize(Op(v)) \in Nat \ {0}
    BY FieldFacts, Sizes, TypeSizeAssumption
  <2>2. ASSUME NEW v \in DOMAIN Inst.operands, NEW raw \in SUBSET (0 .. CSize(VarSize(Op(v))) - 1)
        PROVE  Harness(Op(v), raw) \in SUBSET Nat
    BY <2>1, OpFacts DEF Harness, SignExtend, Low, Shl
  <2>3. DOMAIN value' = DOMAIN Inst.operands
    BY <1>2 DEF Generate
  <2>4. \A v \in DOMAIN Inst.operands : \E raw \in SUBSET (0 .. CSize(VarSize(Op(v))) - 1) : value'[v] = Harness(Op(v), raw)
    BY <1>2 DEF Generate
  <2>. QED  BY <2>2, <2>3, <2>4
<1>. QED  BY <1>1, <1>2

-----------------------------------------------------------------------------
(* Sets of bits: what shifting and cutting leave of them. *)
LEMMA LowType ==
  ASSUME NEW s \in SUBSET Nat, NEW n \in Nat
  PROVE  Low(s, n) \in SUBSET (0 .. n - 1)
<1>1. \A b \in s : b < n => b \in 0 .. n - 1
  OBVIOUS
<1>. QED  BY <1>1 DEF Low

(* Shifts of bit sets.                                                     *)
LEMMA ShiftType ==
  ASSUME NEW s \in SUBSET Nat, NEW n \in Nat
  PROVE  Shl(s, n) \in SUBSET Nat /\ Shr(s, n) \in SUBSET Nat
<1>1. \A b \in s : b + n \in Nat
  OBVIOUS
<1>2. \A b \in {c \in s : c >= n} : b - n \in Nat
  OBVIOUS
<1>. QED  BY <1>1, <1>2 DEF Shl, Shr

(* A sign extension stays in its width.                                    *)
LEMMA SignExtendType ==
  ASSUME NEW n \in Nat, NEW w \in Nat, n <= w, NEW s \in SUBSET (0 .. n - 1)
  PROVE  SignExtend(s, n, w) \in SUBSET (0 .. w - 1)
<1>1. s \in SUBSET (0 .. w - 1) /\ (n .. w - 1) \in SUBSET (0 .. w - 1)
  OBVIOUS
<1>. QED  BY <1>1 DEF SignExtend

(* Updating a place of a sequence of one type. *)
LEMMA ExceptType ==
  ASSUME NEW S, NEW s \in Seq(S), NEW n \in DOMAIN s, NEW e \in S
  PROVE  [s EXCEPT ![n] = e] \in Seq(S)
BY ExceptSeq

-----------------------------------------------------------------------------
(* Fields are no longer than the word, so what is extracted fits in it. *)
LEMMA ExtractType ==
  ASSUME TypeOK, LineOK(Inst), NEW v \in DOMAIN Inst.operands, NEW j \in DOMAIN Op(v).ranges
  PROVE  Extract(v, j) \in SUBSET (0 .. Width - 1)
<1>1. /\ Op(v).ranges[j].start \in Nat /\ Op(v).ranges[j].len \in Nat
      /\ Op(v).ranges[j].start + Lift + Op(v).ranges[j].len <= Width
  BY OpFacts, FieldFacts
<1>2. Op(v).ranges[j].len <= Width /\ Lift \in Nat /\ Width \in Nat
  BY <1>1, Sizes
<1>3. Low(Shr(enc, Op(v).ranges[j].start + Lift), Op(v).ranges[j].len)
        \in SUBSET (0 .. Op(v).ranges[j].len - 1)
  <2>1. enc \in SUBSET Nat /\ Op(v).ranges[j].start + Lift \in Nat
    BY <1>1, <1>2 DEF TypeOK
  <2>. QED  BY <1>1, <2>1, LowType, ShiftType
<1>4. SUBSET (0 .. Op(v).ranges[j].len - 1) \subseteq SUBSET (0 .. Width - 1)
  BY <1>1, <1>2
<1>. QED  BY <1>1, <1>2, <1>3, <1>4, SignExtendType DEF Extract

(* A deposit stays in the word.                                            *)
LEMMA DepositType ==
  ASSUME TypeOK, NEW x \in SUBSET (0 .. Width - 1), NEW part \in SUBSET Nat
  PROVE  Deposit(x, part) \in SUBSET (0 .. Width - 1)
<1>1. Low(x, offset) \in SUBSET (0 .. Width - 1)
  BY DEF Low
<1>2. Low(Shl(part, offset), Width) \in SUBSET (0 .. Width - 1)
  BY LowType, ShiftType, Sizes DEF TypeOK
<1>. QED  BY <1>1, <1>2 DEF Deposit

(* What TypeOK says of the value while it is there. *)
ValueOK == stage \in Encoded =>
  /\ DOMAIN value = DOMAIN Inst.operands
  /\ \A v \in DOMAIN value : value[v] \in SUBSET Nat

TypeParts ==
  /\ file \in Seq(Instruction) /\ pick \in DOMAIN file
  /\ stage \in Encoded \cup {"groups", "singles", "parse", "input", "error"}
  /\ i \in Nat \ {0} /\ k \in Nat /\ offset \in Nat
  /\ defs \in [AllKeys -> {"none", "plain", "signed"}]
  /\ isTest \in BOOLEAN
  /\ ValueOK
  /\ enc \in SUBSET Nat /\ ret \in SUBSET (0 .. Width - 1)
  /\ arg \in Seq(SUBSET (0 .. Xlen - 1))

(* The types, in parts.                                                    *)
LEMMA TypeSplit == (TypeOK <=> TypeParts) /\ (TypeOK' <=> TypeParts')
BY DEF TypeOK, TypeParts, ValueOK, Encoded, Decoded

(* The types hold initially.                                               *)
LEMMA TypeInit == Init => TypeOK
<1>. SUFFICES ASSUME Init PROVE TypeOK
  OBVIOUS
<1>1. file \in Seq(Instruction) /\ pick \in DOMAIN file
  <2>1. PICK n \in {1, 2} : file \in [1 .. n -> Instruction]
    BY DEF Init
  <2>. QED  BY <2>1, IsASeq DEF Init
<1>2. arg \in Seq(SUBSET (0 .. Xlen - 1))
  BY EmptySeq DEF Init
<1>3. defs \in [AllKeys -> {"none", "plain", "signed"}]
  BY DEF Init
<1>4. ret \in SUBSET (0 .. Width - 1)
  BY DEF Init
<1>5. stage = "groups" /\ i \in Nat \ {0} /\ k \in Nat /\ offset \in Nat /\ enc \in SUBSET Nat
  BY DEF Init
<1>6. isTest \in BOOLEAN
  BY DEF Init
<1>7. ValueOK
  BY <1>5 DEF ValueOK, Encoded, Decoded
<1>. QED  BY <1>1, <1>2, <1>3, <1>4, <1>5, <1>6, <1>7, TypeSplit DEF TypeParts

(* A step that leaves the file, the choice and the values alone. *)
LEMMA ValueSame ==
  ASSUME ValueOK, UNCHANGED <<file, pick, value>>, stage' \in Encoded => stage \in Encoded
  PROVE  ValueOK'
BY SameInst DEF ValueOK, Encoded, Decoded

(* Every step keeps the types.                                             *)
LEMMA TypeStep ==
  ASSUME TypeOK, CursorInv, ArgInv, [Next]_vars
  PROVE  TypeOK'
<1>. /\ file \in Seq(Instruction) /\ pick \in DOMAIN file
     /\ i \in Nat \ {0} /\ k \in Nat /\ offset \in Nat
     /\ defs \in [AllKeys -> {"none", "plain", "signed"}]
     /\ isTest \in BOOLEAN
     /\ ValueOK
     /\ enc \in SUBSET Nat /\ ret \in SUBSET (0 .. Width - 1)
     /\ arg \in Seq(SUBSET (0 .. Xlen - 1))
  BY TypeSplit DEF TypeParts
<1>1. CASE UNCHANGED vars
  BY <1>1, ValueSame, TypeSplit DEF TypeParts, vars
<1>2. CASE DefineGrouped \/ EndGroups \/ DefineSingle \/ EndSingles
  <2>1. defs' \in [AllKeys -> {"none", "plain", "signed"}]
    BY <1>2 DEF DefineGrouped, EndGroups, DefineSingle, EndSingles, Define
  <2>2. ValueOK'
    BY <1>2 DEF ValueOK, Encoded, Decoded, DefineGrouped, EndGroups, DefineSingle, EndSingles
  <2>3. (i' = i + 1 \/ i' = 1 \/ i' = i) /\ stage' \in {"groups", "singles", "parse"}
    BY <1>2, Zenon DEF DefineGrouped, EndGroups, DefineSingle, EndSingles
  <2>4. UNCHANGED <<file, pick, k, isTest, value, offset, enc, ret, arg>>
    BY <1>2, Zenon DEF DefineGrouped, EndGroups, DefineSingle, EndSingles
  <2>5. i' \in Nat \ {0}
    BY <2>3
  <2>. QED  BY <2>1, <2>2, <2>3, <2>4, <2>5, TypeSplit DEF TypeParts
<1>3. CASE ParseFile
  <2>1. ValueOK' /\ stage' \in {"input", "error"}
    BY <1>3 DEF ParseFile, ValueOK, Encoded, Decoded
  <2>. QED  BY <1>3, <2>1, TypeSplit DEF TypeParts, ParseFile
<1>4. CASE Generate \/ Call
  <2>1. LineOK(Inst) /\ stage' = "append" /\ UNCHANGED <<file, pick, defs, ret, arg>> /\ isTest' \in BOOLEAN
    BY <1>4 DEF Generate, Call, Begin, CursorInv
  <2>2. DOMAIN value' = DOMAIN Inst.operands /\ \A v \in DOMAIN value' : value'[v] \in SUBSET Nat
    BY <1>4, <2>1, ValueType
  <2>3. ValueOK'
    BY <2>1, <2>2, SameInst DEF ValueOK
  <2>4. enc' \in SUBSET Nat /\ i' \in Nat \ {0} /\ k' \in Nat /\ offset' \in Nat
    <3>1. Inst.ones \in SUBSET Nat /\ Last(1) \in Nat
      BY InstFacts, StartFacts
    <3>. QED  BY <1>4, <3>1 DEF Generate, Call, Begin
  <2>. QED  BY <2>1, <2>3, <2>4, TypeSplit DEF TypeParts, Encoded
<1>5. CASE AppendRange \/ AppendNext
  <2>1. ValueOK' /\ UNCHANGED <<file, pick, stage, defs, isTest, value, ret, arg>>
    BY <1>5, ValueSame DEF AppendRange, AppendNext
  <2>2. enc' \in SUBSET Nat
    <3>1. CASE AppendRange
      <4>1. k \in DOMAIN Op(i).ranges
        BY <3>1, OpFacts DEF AppendRange, CursorInv
      <4>2. Op(i).ranges[k].start \in Nat /\ Op(i).ranges[k].len \in Nat
        BY <3>1, <4>1, OpFacts DEF AppendRange
      <4>3. Chunk(ArgValue(i), Op(i).ranges[k]) \in SUBSET Nat
        <5>1. ArgValue(i) \in SUBSET Nat
          BY <3>1, OpFacts, ShiftType DEF ArgValue, ValueOK, AppendRange, Encoded, Decoded
        <5>2. {b \in ArgValue(i) : offset <= b /\ b < offset + Op(i).ranges[k].len} \in SUBSET Nat
          BY <5>1
        <5>. QED  BY <5>2, ShiftType DEF Chunk
      <4>. QED  BY <3>1, <4>2, <4>3, ShiftType DEF AppendRange
    <3>. QED  BY <1>5, <3>1 DEF AppendNext
  <2>3. i' \in Nat \ {0} /\ k' \in Nat /\ offset' \in Nat
    <3>1. CASE AppendRange
      <4>1. i \in DOMAIN Inst.operands /\ k \in Nat \ {0} /\ k \in DOMAIN Op(i).ranges
        BY <3>1, OpFacts DEF AppendRange, CursorInv
      <4>2. Op(i).ranges[k].len \in Nat /\ i \in Nat \ {0} /\ offset \in Nat
        BY <4>1, OpFacts, TypeSplit DEF TypeParts
      <4>3. i' = i /\ k' = k - 1 /\ offset' = offset + Op(i).ranges[k].len
        BY <3>1 DEF AppendRange
      <4>. QED  BY <4>1, <4>2, <4>3
    <3>2. CASE AppendNext
      BY <3>2, StartFacts DEF AppendNext
    <3>. QED  BY <1>5, <3>1, <3>2
  <2>. QED  BY <2>1, <2>2, <2>3, TypeSplit DEF TypeParts

<1>6. CASE EndAppend
  <2>1. ValueOK' /\ UNCHANGED <<file, pick, defs, isTest, value, ret, arg>> /\ stage' = "extract"
    BY <1>6, ValueSame DEF EndAppend, Begin, Encoded, Decoded
  <2>2. enc' \in SUBSET Nat
    BY <1>6, ShiftType, Sizes DEF EndAppend
  <2>3. i' \in Nat \ {0} /\ k' \in Nat /\ offset' \in Nat
    BY <1>6, StartFacts DEF EndAppend, Begin
  <2>. QED  BY <2>1, <2>2, <2>3, TypeSplit DEF TypeParts, Encoded, Decoded
<1>7. CASE ExtractRange
  <2>1. ValueOK' /\ UNCHANGED <<file, pick, stage, i, defs, isTest, value, enc, arg>> /\ LineOK(Inst)
    BY <1>7, ValueSame DEF ExtractRange, CursorInv, Encoded, Decoded
  <2>2. k \in DOMAIN Op(i).ranges /\ Op(i).ranges[k].len \in Nat
    BY <1>7, OpFacts DEF ExtractRange, CursorInv
  <2>3. ret' \in SUBSET (0 .. Width - 1)
    <3>1. Extract(i, k) \in SUBSET (0 .. Width - 1)
      BY <1>7, <2>1, <2>2, ExtractType DEF ExtractRange
    <3>2. Extract(i, k) \in SUBSET Nat
      BY <3>1, Sizes
    <3>. QED  BY <1>7, <3>1, <3>2, DepositType DEF ExtractRange
  <2>4. k' \in Nat /\ offset' \in Nat
    BY <1>7, <2>2 DEF ExtractRange
  <2>. QED  BY <2>1, <2>3, <2>4, TypeSplit DEF TypeParts
<1>8. CASE ExtractNext
  <2>1. ValueOK' /\ UNCHANGED <<file, pick, stage, defs, isTest, value, enc>>
    BY <1>8, ValueSame DEF ExtractNext
  <2>2. i' \in Nat \ {0} /\ k' \in Nat /\ offset' \in Nat
    BY <1>8, StartFacts DEF ExtractNext
  <2>3. ret' \in SUBSET (0 .. Width - 1)
    BY <1>8 DEF ExtractNext
  <2>4. arg' \in Seq(SUBSET (0 .. Xlen - 1))
    <3>1. ret \in SUBSET Nat /\ arg' = Append(arg, Low(ret, Xlen))
      BY <1>8 DEF ExtractNext
    <3>2. Low(ret, Xlen) \in SUBSET (0 .. Xlen - 1)
      BY <3>1, LowType, Sizes
    <3>. QED  BY <3>1, <3>2, AppendProperties, Zenon
  <2>. QED  BY <2>1, <2>2, <2>3, <2>4, TypeSplit DEF TypeParts
<1>9. CASE EndExtract
  <2>1. ValueOK' /\ UNCHANGED <<file, pick, defs, isTest, value, enc, ret, arg>> /\ stage' = "trans"
    BY <1>9, ValueSame DEF EndExtract, Begin, Encoded, Decoded
  <2>2. i' \in Nat \ {0} /\ k' \in Nat /\ offset' \in Nat
    BY <1>9, StartFacts DEF EndExtract, Begin
  <2>. QED  BY <2>1, <2>2, TypeSplit DEF TypeParts, Encoded, Decoded
<1>10. CASE Refuse \/ Emit
  <2>1. /\ ValueOK' /\ UNCHANGED <<file, pick, i, k, defs, isTest, value, offset, enc, ret, arg>>
        /\ stage' \in Encoded
    BY <1>10, ValueSame DEF Refuse, Emit, Encoded, Decoded
  <2>. QED  BY <2>1, TypeSplit DEF TypeParts
<1>11. CASE ShiftArg
  <2>1. ValueOK' /\ UNCHANGED <<file, pick, stage, k, defs, isTest, value, offset, enc, ret>> /\ i' = i + 1
    BY <1>11, ValueSame DEF ShiftArg
  <2>2. i \in DOMAIN arg /\ i \in DOMAIN Inst.operands
    BY <1>11, InstFacts DEF ShiftArg, ArgInv, Decoded
  <2>3. arg[i] \in SUBSET Nat /\ Op(i).shift \in Nat
    BY <2>2, OpFacts, Sizes
  <2>4. Low(Shl(arg[i], Op(i).shift), Xlen) \in SUBSET (0 .. Xlen - 1)
    BY <2>3, LowType, ShiftType, Sizes
  <2>5. arg' = [arg EXCEPT ![i] = Low(Shl(arg[i], Op(i).shift), Xlen)]
    BY <1>11 DEF ShiftArg
  <2>6. arg' \in Seq(SUBSET (0 .. Xlen - 1))
    BY <2>2, <2>4, <2>5, ExceptType
  <2>. QED  BY <2>1, <2>6, TypeSplit DEF TypeParts
<1>. QED  BY <1>1, <1>2, <1>3, <1>4, <1>5, <1>6, <1>7, <1>8, <1>9, <1>10, <1>11 DEF Next

-----------------------------------------------------------------------------
(* The cursor in the operands of an instruction that stays. *)
Cursor(inst, n, l, off) ==
  /\ n \in 1 .. Len(inst.operands) + 1
  /\ n \in DOMAIN inst.operands =>
       /\ l \in 0 .. Len(inst.operands[n].ranges)
       /\ off = Off(inst.operands[n], l)

(* The invariant of the cursor, in parts.                                  *)
LEMMA CursorSplit ==
  /\ CursorInv <=>
       /\ stage \in Encoded \cup {"input"} => LineOK(Inst)
       /\ stage \in {"append", "extract"} => Cursor(Inst, i, k, offset)
  /\ UNCHANGED <<file, pick>> =>
       (CursorInv' <=>
          /\ stage' \in Encoded \cup {"input"} => LineOK(Inst)
          /\ stage' \in {"append", "extract"} => Cursor(Inst, i', k', offset'))
<1>1. CursorInv <=>
        /\ stage \in Encoded \cup {"input"} => LineOK(Inst)
        /\ stage \in {"append", "extract"} => Cursor(Inst, i, k, offset)
  BY DEF CursorInv, Cursor, Op
<1>2. ASSUME UNCHANGED <<file, pick>>
      PROVE  CursorInv' <=>
               /\ stage' \in Encoded \cup {"input"} => LineOK(Inst)
               /\ stage' \in {"append", "extract"} => Cursor(Inst, i', k', offset')
  <2>1. Inst' = Inst /\ LineOK(Inst)' = LineOK(Inst)
    BY <1>2, SameInst
  <2>2. Off(Op(i), k)' = Off(Inst.operands[i'], k')
    BY <2>1 DEF Off, LocationFrom, Op
  <2>3. (i \in DOMAIN Inst.operands => k \in 0 .. Len(Op(i).ranges) /\ offset = Off(Op(i), k))'
          <=> (i' \in DOMAIN Inst.operands =>
                 k' \in 0 .. Len(Inst.operands[i'].ranges) /\ offset' = Off(Inst.operands[i'], k'))
    BY <2>1, <2>2 DEF Op
  <2>. QED  BY <2>1, <2>3 DEF CursorInv, Cursor, Encoded, Decoded
<1>. QED  BY <1>1, <1>2

(* A loop over the operands begins at the last range of the next one. *)
LEMMA CursorBegin ==
  ASSUME TypeOK, LineOK(Inst), NEW n \in 1 .. Len(Inst.operands) + 1
  PROVE  Cursor(Inst, n, Last(n), 0)
<1>1. CASE n \in DOMAIN Inst.operands
  <2>1. Last(n) = Len(Op(n).ranges) /\ Len(Op(n).ranges) \in Nat /\ Off(Op(n), Len(Op(n).ranges)) = 0
    BY <1>1, OpFacts, FieldFacts, Zenon
  <2>. QED  BY <2>1 DEF Cursor, Op
<1>2. CASE n \notin DOMAIN Inst.operands
  BY <1>2 DEF Cursor
<1>. QED  BY <1>1, <1>2

(* Every step keeps the cursor within the ranges of the operand.           *)
LEMMA CursorStep ==
  ASSUME TypeOK, CursorInv, [Next]_vars
  PROVE  CursorInv'
<1>. UNCHANGED <<file, pick>>
  BY DEF Next, vars, DefineGrouped, EndGroups, DefineSingle, EndSingles, ParseFile, Generate, Call,
         AppendRange, AppendNext, EndAppend, ExtractRange, ExtractNext, EndExtract, Refuse, ShiftArg, Emit
<1>1. CASE UNCHANGED vars
  BY <1>1, CursorSplit DEF vars
<1>2. CASE DefineGrouped \/ EndGroups \/ DefineSingle \/ EndSingles
  <2>1. stage' \in {"groups", "singles", "parse"}
    BY <1>2, Zenon DEF DefineGrouped, EndGroups, DefineSingle, EndSingles
  <2>. QED  BY <2>1, CursorSplit DEF Encoded, Decoded
<1>3. CASE ParseFile
  <2>1. stage' \in {"input", "error"} /\ (stage' = "input" => LineOK(Inst))
    BY <1>3, InstFacts DEF ParseFile, Inst
  <2>. QED  BY <2>1, CursorSplit DEF Encoded, Decoded
<1>4. CASE Generate \/ Call \/ EndAppend \/ EndExtract
  <2>1. /\ stage \in Encoded \cup {"input"} /\ stage' \in Encoded
        /\ i' = 1 /\ k' = Last(1) /\ offset' = 0
    BY <1>4 DEF Generate, Call, EndAppend, EndExtract, Begin, Encoded, Decoded
  <2>2. Cursor(Inst, 1, Last(1), 0)
    BY <2>1, CursorSplit, CursorBegin, InstFacts
  <2>. QED  BY <2>1, <2>2, CursorSplit
<1>5. CASE AppendRange \/ ExtractRange
  <2>1. /\ stage \in {"append", "extract"} /\ stage' = stage /\ i' = i /\ i \in DOMAIN Inst.operands
        /\ k > 0 /\ k' = k - 1 /\ offset' = offset + Op(i).ranges[k].len
    BY <1>5 DEF AppendRange, ExtractRange
  <2>2. LineOK(Inst) /\ k \in DOMAIN Op(i).ranges /\ offset = Off(Op(i), k) /\ i \in 1 .. Len(Inst.operands) + 1
    BY <2>1, OpFacts DEF CursorInv, Encoded, Decoded
  <2>3. k' \in 0 .. Len(Op(i).ranges) /\ offset' = Off(Op(i), k')
    <3>1. Off(Op(i), k - 1) = Off(Op(i), k) + Op(i).ranges[k].len
      BY <2>1, <2>2, FieldFacts, Zenon
    <3>2. DOMAIN Op(i).ranges = 1 .. Len(Op(i).ranges) /\ Len(Op(i).ranges) \in Nat
      BY <2>1, OpFacts
    <3>. QED  BY <2>1, <2>2, <3>1, <3>2
  <2>. QED  BY <2>1, <2>2, <2>3, CursorSplit DEF Cursor, Op
<1>6. CASE AppendNext \/ ExtractNext
  <2>1. /\ stage \in {"append", "extract"} /\ stage' = stage /\ i \in DOMAIN Inst.operands
        /\ i' = i + 1 /\ k' = Last(i + 1) /\ offset' = 0
    BY <1>6 DEF AppendNext, ExtractNext
  <2>2. LineOK(Inst) /\ i + 1 \in 1 .. Len(Inst.operands) + 1
    BY <2>1, InstFacts DEF CursorInv, Encoded, Decoded
  <2>. QED  BY <2>1, <2>2, CursorSplit, CursorBegin
<1>7. CASE Refuse \/ ShiftArg \/ Emit
  <2>1. stage = "trans" /\ stage' \in {"trans", "refused", "done"}
    BY <1>7 DEF Refuse, ShiftArg, Emit
  <2>. QED  BY <2>1, CursorSplit DEF Encoded, Decoded
<1>. QED  BY <1>1, <1>2, <1>3, <1>4, <1>5, <1>6, <1>7 DEF Next

-----------------------------------------------------------------------------
(* WordInv as a predicate on the values and the word, for steps on which   *)
(* the instruction stays.                                                  *)
HoldsIn(val, e, v, j, lift) ==
  \A b \in 0 .. Op(v).ranges[j].len - 1 :
    (Op(v).ranges[j].start + lift + b \in e) <=> (Off(Op(v), j) + b \in Shr(val[v], Op(v).shift))

Filled(val, e, n, l) ==
  /\ e \cap Inst.fixed = Inst.ones
  /\ \A v \in DOMAIN Inst.operands : \A j \in DOMAIN Op(v).ranges :
       IF v < n \/ (v = n /\ j > l) THEN HoldsIn(val, e, v, j, 0) ELSE e \cap Bits(Op(v).ranges[j]) = {}

Complete(val, e) ==
  /\ e \cap Shl(Inst.fixed, Lift) = Shl(Inst.ones, Lift)
  /\ \A v \in DOMAIN Inst.operands : \A j \in DOMAIN Op(v).ranges : HoldsIn(val, e, v, j, Lift)

(* The invariant of the word, in parts.                                    *)
LEMMA WordSplit ==
  /\ WordInv <=> /\ stage = "append" => Filled(value, enc, i, k)
                 /\ stage \in Decoded => Complete(value, enc)
  /\ UNCHANGED <<file, pick>> =>
       (WordInv' <=> /\ stage' = "append" => Filled(value', enc', i', k')
                     /\ stage' \in Decoded => Complete(value', enc'))
<1>1. WordInv <=> /\ stage = "append" => Filled(value, enc, i, k)
                  /\ stage \in Decoded => Complete(value, enc)
  BY Zenon DEF WordInv, Filled, Complete, Holds, HoldsIn, ArgValue
<1>2. ASSUME UNCHANGED <<file, pick>>
      PROVE  WordInv' <=> /\ stage' = "append" => Filled(value', enc', i', k')
                          /\ stage' \in Decoded => Complete(value', enc')
  <2>1. Inst' = Inst /\ \A v : Op(v)' = Op(v)
    BY <1>2, SameInst
  <2>2. ASSUME NEW v, NEW j, NEW l
        PROVE  Holds(v, j, l)' <=> HoldsIn(value', enc', v, j, l)
    BY <2>1 DEF Holds, HoldsIn, ArgValue, Off, LocationFrom
  <2>. QED  BY <2>1, <2>2, Zenon DEF WordInv, Filled, Complete, Decoded, Bits, Shl
<1>. QED  BY <1>1, <1>2

(* A part is put in its range and nowhere else. *)
LEMMA ChunkPlaced ==
  ASSUME offset \in Nat, NEW x \in SUBSET Nat, NEW r, r.start \in Nat, r.len \in Nat \ {0}
  PROVE  /\ Shl(Chunk(x, r), r.start) \subseteq Bits(r)
         /\ \A b \in 0 .. r.len - 1 :
              (r.start + 0 + b \in Shl(Chunk(x, r), r.start)) <=> (offset + b \in x)
<1>. DEFINE s == r.start
            n == r.len
            part == {b \in x : offset <= b /\ b < offset + n}
<1>0. s \in Nat /\ n \in Nat
  OBVIOUS
<1>1. {b \in part : b >= offset} = part
  BY <1>0
<1>2. Shl(Chunk(x, r), r.start) = {c + s : c \in {b - offset : b \in part}}
  BY <1>1 DEF Shl, Chunk, Shr
<1>. HIDE DEF s, n
<1>3. \A y : y \in {c + s : c \in {b - offset : b \in part}} <=> \E b \in part : y = (b - offset) + s
  OBVIOUS
<1>4. \A b \in part : (b - offset) + s \in s .. s + n - 1
  BY <1>0
<1>5. \A b \in 0 .. n - 1 : offset + b \in x => offset + b \in part /\ s + b = ((offset + b) - offset) + s
  BY <1>0
<1>6. \A b \in 0 .. n - 1 : \A d \in part : s + b = (d - offset) + s => d = offset + b
  BY <1>0
<1>7. \A b \in 0 .. n - 1 : s + 0 + b = s + b
  BY <1>0
<1>8. {c + s : c \in {b - offset : b \in part}} \subseteq s .. s + n - 1
  BY <1>3, <1>4
<1>9. ASSUME NEW b \in 0 .. n - 1
      PROVE  (s + 0 + b \in {c + s : c \in {d - offset : d \in part}}) <=> (offset + b \in x)
  <2>1. CASE offset + b \in x
    BY <2>1, <1>3, <1>5, <1>7
  <2>2. ASSUME NEW d \in part, s + b = (d - offset) + s
        PROVE  offset + b \in x
    BY <2>2, <1>6
  <2>. HIDE DEF part
  <2>. QED  BY <2>1, <2>2, <1>3, <1>7
<1>10. n = r.len /\ s = r.start
  BY DEF n, s
<1>. HIDE DEF part
<1>. QED  BY <1>2, <1>8, <1>9, <1>10 DEF Bits

(* The values of the operands while they are on their way. *)
LEMMA ValueFacts ==
  ASSUME TypeOK, stage \in Encoded, NEW v \in DOMAIN Inst.operands
  PROVE  ArgValue(v) \in SUBSET Nat /\ value[v] \in SUBSET Nat
<1>1. value[v] \in SUBSET Nat
  BY TypeSplit DEF TypeParts, ValueOK
<1>. QED  BY <1>1, OpFacts, ShiftType DEF ArgValue

(* Appending a range fills the word by one range.                          *)
LEMMA FillRange ==
  ASSUME TypeOK, CursorInv, WordInv, AppendRange
  PROVE  WordInv'
<1>. DEFINE new == Shl(Chunk(ArgValue(i), Op(i).ranges[k]), Op(i).ranges[k].start)
<1>1. /\ stage = "append" /\ stage' = "append" /\ UNCHANGED <<file, pick, value>>
      /\ i \in DOMAIN Inst.operands /\ i' = i /\ k > 0 /\ k' = k - 1 /\ enc' = enc \cup new
  BY DEF AppendRange
<1>2. LineOK(Inst) /\ k \in DOMAIN Op(i).ranges /\ offset = Off(Op(i), k) /\ Filled(value, enc, i, k)
  BY <1>1, OpFacts, WordSplit DEF CursorInv, Encoded, Decoded
<1>3. /\ new \subseteq Bits(Op(i).ranges[k])
      /\ \A b \in 0 .. Op(i).ranges[k].len - 1 :
           (Op(i).ranges[k].start + 0 + b \in new) <=> (offset + b \in ArgValue(i))
  <2>1. ArgValue(i) \in SUBSET Nat /\ offset \in Nat
    BY <1>1, ValueFacts DEF TypeOK, Encoded
  <2>. QED  BY <1>1, <1>2, <2>1, OpFacts, ChunkPlaced
<1>. HIDE DEF new
<1>4. (enc \cup new) \cap Inst.fixed = Inst.ones
  <2>1. Bits(Op(i).ranges[k]) \cap Inst.fixed = {}
    BY <1>1, <1>2, Apart
  <2>. QED  BY <1>2, <1>3, <2>1 DEF Filled
<1>5. HoldsIn(value, enc \cup new, i, k, 0)
  <2>1. enc \cap Bits(Op(i).ranges[k]) = {}
    <3>1. ~(i < i \/ (i = i /\ k > k))
      BY DEF TypeOK
    <3>. QED  BY <1>1, <1>2, <3>1, Zenon DEF Filled
  <2>2. \A b \in 0 .. Op(i).ranges[k].len - 1 : Op(i).ranges[k].start + 0 + b \in Bits(Op(i).ranges[k])
    <3>1. Op(i).ranges[k].start \in Nat /\ Op(i).ranges[k].len \in Nat
      BY <1>1, <1>2, OpFacts
    <3>. QED  BY <3>1 DEF Bits
  <2>. QED  BY <1>2, <1>3, <2>1, <2>2, Zenon DEF HoldsIn, ArgValue
<1>6. ASSUME NEW v \in DOMAIN Inst.operands, NEW j \in DOMAIN Op(v).ranges, v # i \/ j # k
      PROVE  IF v < i \/ (v = i /\ j > k - 1) THEN HoldsIn(value, enc \cup new, v, j, 0)
             ELSE (enc \cup new) \cap Bits(Op(v).ranges[j]) = {}
  <2>1. Bits(Op(v).ranges[j]) \cap new = {}
    BY <1>1, <1>2, <1>3, <1>6, Apart
  <2>2. v < i \/ (v = i /\ j > k - 1) <=> v < i \/ (v = i /\ j > k)
    BY <1>1, <1>2, <1>6, OpFacts
  <2>3. HoldsIn(value, enc, v, j, 0) => HoldsIn(value, enc \cup new, v, j, 0)
    <3>1. \A b \in 0 .. Op(v).ranges[j].len - 1 : Op(v).ranges[j].start + 0 + b \in Bits(Op(v).ranges[j])
      BY OpFacts DEF Bits
    <3>. QED  BY <2>1, <3>1, Zenon DEF HoldsIn
  <2>. QED  BY <1>2, <2>1, <2>2, <2>3 DEF Filled
<1>7. i \in Nat /\ k \in Nat
  BY DEF TypeOK
<1>8. Filled(value, enc \cup new, i, k - 1)
  <2>1. k > k - 1
    BY <1>7
  <2>. QED  BY <1>4, <1>5, <1>6, <2>1, Zenon DEF Filled
<1>. QED  BY <1>1, <1>8, WordSplit DEF Decoded

(* Going to the next operand keeps the word filled.                        *)
LEMMA FillNext ==
  ASSUME TypeOK, CursorInv, WordInv, AppendNext
  PROVE  WordInv'
<1>1. /\ stage = "append" /\ stage' = "append" /\ UNCHANGED <<file, pick, value, enc>>
      /\ i \in DOMAIN Inst.operands /\ i' = i + 1 /\ k = 0 /\ k' = Last(i + 1)
  BY DEF AppendNext
<1>2. Filled(value, enc, i, k)
  BY <1>1, WordSplit
<1>3. ASSUME NEW v \in DOMAIN Inst.operands, NEW j \in DOMAIN Op(v).ranges
      PROVE  v < i + 1 \/ (v = i + 1 /\ j > Last(i + 1)) <=> v < i \/ (v = i /\ j > 0)
  BY <1>1, <1>3, InstFacts, OpFacts
<1>4. Filled(value, enc, i + 1, Last(i + 1))
  BY <1>1, <1>2, <1>3 DEF Filled
<1>. QED  BY <1>1, <1>4, WordSplit DEF Decoded

(* The word is lifted as a whole. *)
LEMMA LiftFacts ==
  ASSUME NEW e \in SUBSET Nat, NEW n \in Nat
  PROVE  /\ \A y \in Nat : (y + n \in Shl(e, n)) <=> (y \in e)
         /\ \A f \in SUBSET Nat : Shl(e, n) \cap Shl(f, n) = Shl(e \cap f, n)
<1>1. \A y \in Nat : (y + n \in Shl(e, n)) <=> (y \in e)
  <2>1. \A y, b \in Nat : y + n = b + n => y = b
    OBVIOUS
  <2>. QED  BY <2>1 DEF Shl
<1>2. ASSUME NEW f \in SUBSET Nat
      PROVE  Shl(e, n) \cap Shl(f, n) = Shl(e \cap f, n)
  <2>1. \A b \in e, c \in f : b + n = c + n => b = c
    OBVIOUS
  <2>. QED  BY <2>1 DEF Shl
<1>. QED  BY <1>1, <1>2

(* The end of append completes the word.                                   *)
LEMMA LiftWord ==
  ASSUME TypeOK, CursorInv, WordInv, EndAppend
  PROVE  WordInv'
<1>1. /\ stage = "append" /\ stage' = "extract" /\ UNCHANGED <<file, pick, value>>
      /\ i \notin DOMAIN Inst.operands /\ enc' = Shl(enc, Lift)
  BY DEF EndAppend, Begin
<1>2. LineOK(Inst) /\ i = Len(Inst.operands) + 1 /\ Filled(value, enc, i, k)
  BY <1>1, InstFacts, WordSplit DEF CursorInv, Encoded
<1>3. enc \in SUBSET Nat /\ Lift \in Nat /\ Inst.fixed \in SUBSET Nat
  BY InstFacts, Sizes DEF TypeOK
<1>4. Shl(enc, Lift) \cap Shl(Inst.fixed, Lift) = Shl(Inst.ones, Lift)
  <2>1. enc \cap Inst.fixed = Inst.ones
    BY <1>2, Zenon DEF Filled
  <2>2. Shl(enc, Lift) \cap Shl(Inst.fixed, Lift) = Shl(enc \cap Inst.fixed, Lift)
    BY <1>3, LiftFacts, Zenon
  <2>. QED  BY <2>1, <2>2, Zenon
<1>5. ASSUME NEW v \in DOMAIN Inst.operands, NEW j \in DOMAIN Op(v).ranges
      PROVE  HoldsIn(value, Shl(enc, Lift), v, j, Lift)
  <2>1. HoldsIn(value, enc, v, j, 0)
    <3>1. v < i
      BY <1>2, InstFacts
    <3>. QED  BY <1>2, <3>1, Zenon DEF Filled
  <2>2. ASSUME NEW b \in 0 .. Op(v).ranges[j].len - 1
        PROVE  (Op(v).ranges[j].start + Lift + b \in Shl(enc, Lift)) <=> (Op(v).ranges[j].start + 0 + b \in enc)
    <3>1. /\ Op(v).ranges[j].start + b \in Nat
          /\ Op(v).ranges[j].start + Lift + b = (Op(v).ranges[j].start + b) + Lift
          /\ Op(v).ranges[j].start + 0 + b = Op(v).ranges[j].start + b
      BY <1>3, OpFacts
    <3>. QED  BY <1>3, <3>1, LiftFacts
  <2>. QED  BY <2>1, <2>2, Zenon DEF HoldsIn
<1>. QED  BY <1>1, <1>4, <1>5, WordSplit DEF Complete

(* Every step keeps what is in the word.                                   *)
LEMMA WordStep ==
  ASSUME TypeOK, CursorInv, WordInv, [Next]_vars
  PROVE  WordInv'
<1>1. CASE UNCHANGED vars
  BY <1>1, WordSplit DEF vars
<1>2. CASE DefineGrouped \/ EndGroups \/ DefineSingle \/ EndSingles \/ ParseFile
  <2>1. stage' \in {"groups", "singles", "parse", "input", "error"} /\ UNCHANGED <<file, pick>>
    BY <1>2, Zenon DEF DefineGrouped, EndGroups, DefineSingle, EndSingles, ParseFile
  <2>. QED  BY <2>1, WordSplit DEF Decoded
<1>3. CASE Generate \/ Call
  <2>1. /\ stage = "input" /\ stage' = "append" /\ UNCHANGED <<file, pick>>
        /\ enc' = Inst.ones /\ i' = 1 /\ k' = Last(1)
    BY <1>3 DEF Generate, Call, Begin
  <2>2. LineOK(Inst) /\ Inst.ones \cap Inst.fixed = Inst.ones
    BY <2>1, InstFacts DEF CursorInv
  <2>3. ASSUME NEW v \in DOMAIN Inst.operands, NEW j \in DOMAIN Op(v).ranges
        PROVE  ~(v < 1 \/ (v = 1 /\ j > Last(1))) /\ Inst.ones \cap Bits(Op(v).ranges[j]) = {}
    <3>1. ~(v < 1 \/ (v = 1 /\ j > Last(1)))
      BY InstFacts, OpFacts
    <3>2. Bits(Op(v).ranges[j]) \cap Inst.fixed = {}
      BY <2>2, Apart
    <3>. QED  BY <3>1, <3>2, InstFacts
  <2>4. Filled(value', Inst.ones, 1, Last(1))
    BY <2>2, <2>3 DEF Filled
  <2>. QED  BY <2>1, <2>4, WordSplit DEF Decoded
<1>4. CASE ExtractRange \/ ExtractNext \/ EndExtract \/ Refuse \/ ShiftArg \/ Emit
  <2>1. stage \in Decoded /\ stage' \in Decoded /\ UNCHANGED <<file, pick, value, enc>>
    BY <1>4 DEF ExtractRange, ExtractNext, EndExtract, Begin, Refuse, ShiftArg, Emit, Decoded
  <2>2. stage' # "append"
    BY <2>1 DEF Decoded
  <2>. QED  BY <2>1, <2>2, WordSplit
<1>. QED  BY <1>1, <1>2, <1>3, <1>4, FillRange, FillNext, LiftWord DEF Next

-----------------------------------------------------------------------------
(* The part of a value of which a range of the word has the bits. *)
Part(x, off, len) == {b \in 0 .. len - 1 : off + b \in x}

SameBits(e, p, x, off, len) == \A b \in 0 .. len - 1 : (p + b \in e) <=> (off + b \in x)

(* The bits of a word that hold a part of a value are that part.           *)
LEMMA PlainPart ==
  ASSUME NEW e \in SUBSET Nat, NEW x \in SUBSET Nat, NEW p \in Nat, NEW off \in Nat, NEW len \in Nat,
         SameBits(e, p, x, off, len)
  PROVE  Low(Shr(e, p), len) = Part(x, off, len)
<1>. USE DEF SameBits
<1>1. \A b : b \in Shr(e, p) <=> b \in Nat /\ p + b \in e
  <2>1. \A b \in Nat : p + b \in e => p + b >= p /\ (p + b) - p = b
    OBVIOUS
  <2>2. \A c \in e : c >= p => c - p \in Nat /\ p + (c - p) = c
    OBVIOUS
  <2>. QED  BY <2>1, <2>2 DEF Shr
<1>2. \A b : b \in Nat /\ b < len <=> b \in 0 .. len - 1
  OBVIOUS
<1>. QED  BY <1>1, <1>2 DEF Low, Part

(* The part from bit 0 is the low bits.                                    *)
LEMMA FirstPart ==
  ASSUME NEW x \in SUBSET Nat, NEW len \in Nat
  PROVE  Part(x, 0, len) = Low(x, len)
<1>1. \A b \in 0 .. len - 1 : 0 + b = b /\ b < len
  OBVIOUS
<1>2. \A b \in x : b < len => b \in 0 .. len - 1
  OBVIOUS
<1>. QED  BY <1>1, <1>2 DEF Part, Low

(* What deposit makes of the parts that are done and the next one. *)
Combined(x, off, part, w) == Low(Low(x, off), off) \cup Low(Shl(part, off), w)

(* Deposited on the parts that are done, a part is the next of the value. *)
LEMMA DepositPart ==
  ASSUME NEW x \in SUBSET Nat, NEW off \in Nat, NEW len \in Nat, NEW w \in Nat, off + len <= w
  PROVE  Combined(x, off, Part(x, off, len), w) = Low(x, off + len)
<1>. USE DEF Combined
<1>1. Low(Low(x, off), off) = {b \in x : b < off}
  BY DEF Low
<1>2. Low(Shl(Part(x, off, len), off), w) = {b \in x : off <= b /\ b < off + len}
  <2>1. ASSUME NEW b \in Part(x, off, len)
        PROVE  b + off \in x /\ off <= b + off /\ b + off < off + len
    BY DEF Part
  <2>2. ASSUME NEW c \in x, off <= c, c < off + len
        PROVE  c - off \in Part(x, off, len) /\ c = (c - off) + off /\ c < w
    BY <2>2 DEF Part
  <2>. QED  BY <2>1, <2>2 DEF Low, Shl
<1>3. {b \in x : b < off} \cup {b \in x : off <= b /\ b < off + len} = {b \in x : b < off + len}
  <2>1. \A b \in x : b < off \/ (off <= b /\ b < off + len) <=> b < off + len
    OBVIOUS
  <2>. QED  BY <2>1, Zenon
<1>. QED  BY <1>1, <1>2, <1>3 DEF Low

(* The last part carries the sign of the value. *)
LEMMA DepositSign ==
  ASSUME NEW x \in SUBSET Nat, NEW off \in Nat, NEW len \in Nat \ {0}, NEW w \in Nat, off + len <= w
  PROVE  Combined(x, off, SignExtend(Part(x, off, len), len, w), w)
           = SignExtend(Low(x, off + len), off + len, w)
<1>. USE DEF Combined
<1>1. len - 1 \in Part(x, off, len) <=> off + len - 1 \in Low(x, off + len)
  BY DEF Part, Low
<1>2. CASE len - 1 \notin Part(x, off, len)
  <2>1. SignExtend(Part(x, off, len), len, w) = Part(x, off, len)
    BY <1>2 DEF SignExtend
  <2>2. SignExtend(Low(x, off + len), off + len, w) = Low(x, off + len)
    BY <1>1, <1>2 DEF SignExtend
  <2>. QED  BY <2>1, <2>2, DepositPart
<1>3. CASE len - 1 \in Part(x, off, len)
  <2>1. Low(Shl(Part(x, off, len) \cup (len .. w - 1), off), w)
          = Low(Shl(Part(x, off, len), off), w) \cup Low(Shl(len .. w - 1, off), w)
    BY DEF Shl, Low
  <2>2. Low(Shl(len .. w - 1, off), w) = off + len .. w - 1
    <3>1. \A b \in len .. w - 1 : b + off < w => b + off \in off + len .. w - 1
      OBVIOUS
    <3>2. \A c \in off + len .. w - 1 : c - off \in len .. w - 1 /\ c = (c - off) + off /\ c < w
      OBVIOUS
    <3>. QED  BY <3>1, <3>2 DEF Shl, Low
  <2>3. SignExtend(Part(x, off, len), len, w) = Part(x, off, len) \cup (len .. w - 1)
    BY <1>3 DEF SignExtend
  <2>4. SignExtend(Low(x, off + len), off + len, w) = Low(x, off + len) \cup (off + len .. w - 1)
    BY <1>1, <1>3 DEF SignExtend
  <2>5. Low(Low(x, off), off) \cup Low(Shl(Part(x, off, len), off), w) = Low(x, off + len)
    BY DepositPart
  <2>. QED  BY <2>1, <2>2, <2>3, <2>4, <2>5
<1>. QED  BY <1>2, <1>3

-----------------------------------------------------------------------------
(* What an extracted field is does not change while it is put together. *)
LEMMA SameValue ==
  ASSUME UNCHANGED <<file, pick, value, defs>>
  PROVE  \A v : ArgValue(v)' = ArgValue(v) /\ Extracted(v)' = Extracted(v)
<1>1. \A v : Op(v)' = Op(v)
  BY SameInst
<1>2. \A v : ArgValue(v)' = ArgValue(v)
  BY <1>1 DEF ArgValue, Shr
<1>. QED  BY <1>1, <1>2 DEF Extracted, Low, SignExtend, VarSize, Location, LocationFrom, Key

(* Before the first range of an operand nothing of it is there. *)
LEMMA NothingYet ==
  ASSUME TypeOK, stage \in Encoded, NEW v \in DOMAIN Inst.operands
  PROVE  Low(ArgValue(v), 0) = {}
BY ValueFacts DEF Low

(* One range more is extracted. *)
LEMMA RangeExtracted ==
  ASSUME TypeOK, CursorInv, WordInv, RetInv, ExtractRange
  PROVE  ret' = IF k - 1 = 0 THEN Extracted(i) ELSE Low(ArgValue(i), offset + Op(i).ranges[k].len)
<1>. DEFINE x == ArgValue(i)
            r == Op(i).ranges[k]
            part == Part(x, offset, r.len)
<1>1. /\ stage = "extract" /\ i \in DOMAIN Inst.operands /\ k > 0 /\ stage \in Decoded
      /\ ret' = IF offset = 0 THEN Extract(i, k) ELSE Deposit(ret, Extract(i, k))
  BY DEF ExtractRange, Decoded
<1>2. LineOK(Inst) /\ k \in DOMAIN Op(i).ranges /\ offset = Off(Op(i), k)
  BY <1>1, OpFacts DEF CursorInv, Encoded
<1>3. /\ r.start \in Nat /\ r.len \in Nat \ {0} /\ offset \in Nat /\ offset + r.len <= Width
      /\ Lift \in Nat /\ Width \in Nat /\ enc \in SUBSET Nat /\ x \in SUBSET Nat /\ k \in Nat
  <2>1. Off(Op(i), k - 1) = offset + r.len /\ Off(Op(i), k - 1) <= Size /\ k - 1 \in Nat
    <3>1. k \in 1 .. Len(Op(i).ranges) /\ Len(Op(i).ranges) \in Nat
      BY <1>1, <1>2, OpFacts
    <3>2. k - 1 \in Nat
      BY <3>1
    <3>. QED  BY <1>1, <1>2, <3>2, FieldFacts
  <2>2. offset \in Nat /\ enc \in SUBSET Nat /\ k \in Nat
    BY DEF TypeOK
  <2>3. x \in SUBSET Nat
    BY <1>1, ValueFacts DEF Encoded
  <2>4. r.start \in Nat /\ r.len \in Nat \ {0}
    BY <1>1, <1>2, OpFacts
  <2>. HIDE DEF x, r
  <2>. QED  BY <2>1, <2>2, <2>3, <2>4, Sizes
<1>4. k - 1 = 0 => offset + r.len = VarSize(Op(i))
  BY <1>1, <1>2, FieldFacts
<1>5. Low(Shr(enc, r.start + Lift), r.len) = part
  <2>1. HoldsIn(value, enc, i, k, Lift)
    BY <1>1, <1>2, WordSplit DEF Complete
  <2>2. SameBits(enc, r.start + Lift, x, offset, r.len)
    BY <1>2, <2>1, Zenon DEF HoldsIn, ArgValue, SameBits
  <2>. QED  BY <1>3, <2>2, PlainPart
<1>6. CASE k = 1 /\ defs[Key(Op(i))] = "signed"
  <2>1. Extract(i, k) = SignExtend(part, r.len, Width)
    BY <1>5, <1>6 DEF Extract
  <2>2. Extracted(i) = SignExtend(Low(x, offset + r.len), offset + r.len, Width)
    <3>1. VarSize(Op(i)) = offset + r.len
      BY <1>4, <1>6
    <3>. QED  BY <1>6, <3>1, Zenon DEF Extracted
  <2>3. offset = 0 => SignExtend(part, r.len, Width) = SignExtend(Low(x, offset + r.len), offset + r.len, Width)
    <3>. HIDE DEF x, r
    <3>1. offset = 0 => part = Low(x, r.len) /\ offset + r.len = r.len
      BY <1>3, FirstPart
    <3>. QED  BY <3>1, Zenon
  <2>4. offset # 0 => Deposit(ret, SignExtend(part, r.len, Width))
                        = SignExtend(Low(x, offset + r.len), offset + r.len, Width)
    <3>1. ret = Low(x, offset)
      BY <1>1, <1>6 DEF RetInv
    <3>2. Combined(x, offset, SignExtend(part, r.len, Width), Width)
           = SignExtend(Low(x, offset + r.len), offset + r.len, Width)
      BY <1>3, DepositSign
    <3>. QED  BY <3>1, <3>2, Zenon DEF Deposit, Combined
  <2>. QED  BY <1>1, <1>6, <2>1, <2>2, <2>3, <2>4
<1>7. CASE ~(k = 1 /\ defs[Key(Op(i))] = "signed")
  <2>1. Extract(i, k) = part
    BY <1>5, <1>7 DEF Extract
  <2>2. k - 1 = 0 => Extracted(i) = Low(x, offset + r.len)
    <3>1. k - 1 = 0 => VarSize(Op(i)) = offset + r.len /\ defs[Key(Op(i))] # "signed"
      BY <1>3, <1>4, <1>7
    <3>. QED  BY <3>1, Zenon DEF Extracted
  <2>3. offset = 0 => part = Low(x, offset + r.len)
    <3>. HIDE DEF x, r
    <3>1. offset = 0 => part = Low(x, r.len) /\ offset + r.len = r.len
      BY <1>3, FirstPart
    <3>. QED  BY <3>1, Zenon
  <2>4. Deposit(ret, part) = Low(x, offset + r.len)
    <3>1. ret = Low(x, offset)
      BY <1>1 DEF RetInv, TypeOK
    <3>2. Combined(x, offset, part, Width) = Low(x, offset + r.len)
      BY <1>3, DepositPart
    <3>. QED  BY <3>1, <3>2, Zenon DEF Deposit, Combined
  <2>. QED  BY <1>1, <2>1, <2>2, <2>3, <2>4
<1>. QED  BY <1>6, <1>7

(* Every step keeps the expression that is put together.                   *)
LEMMA RetStep ==
  ASSUME TypeOK, CursorInv, WordInv, RetInv, [Next]_vars
  PROVE  RetInv'
<1>. UNCHANGED <<file, pick>>
  BY DEF Next, vars, DefineGrouped, EndGroups, DefineSingle, EndSingles, ParseFile, Generate, Call,
         AppendRange, AppendNext, EndAppend, ExtractRange, ExtractNext, EndExtract, Refuse, ShiftArg, Emit
<1>0. Inst' = Inst
  BY SameInst
<1>1. CASE UNCHANGED vars
  BY <1>1, SameValue, <1>0 DEF vars, RetInv, Low, Decoded
<1>2. CASE \/ DefineGrouped \/ EndGroups \/ DefineSingle \/ EndSingles \/ ParseFile
           \/ Generate \/ Call \/ AppendRange \/ AppendNext
  <2>1. stage \notin Decoded /\ stage' \notin Decoded /\ UNCHANGED <<ret, arg>>
    BY <1>2, Zenon DEF DefineGrouped, EndGroups, DefineSingle, EndSingles, ParseFile, Generate, Call, Begin,
                AppendRange, AppendNext, Decoded
  <2>. QED  BY <2>1 DEF RetInv, Decoded
<1>3. CASE EndAppend
  <2>1. /\ stage \in Encoded /\ stage \notin Decoded /\ stage' = "extract" /\ stage' \in Decoded
        /\ UNCHANGED <<file, pick, value, defs, ret, arg>> /\ i' = 1 /\ k' = Last(1) /\ offset' = 0
    BY <1>3 DEF EndAppend, Begin, Encoded, Decoded
  <2>2. ret = {} /\ Len(arg) = 0
    BY <2>1 DEF RetInv
  <2>3. 1 \in DOMAIN Inst.operands => Last(1) # 0 /\ Low(ArgValue(1), 0) = {}
    BY <2>1, StartFacts, NothingYet
  <2>4. ArgValue(i)' = ArgValue(1)
    BY <2>1, SameInst DEF ArgValue, Shr, Op
  <2>. QED  BY <1>0, <2>1, <2>2, <2>3, <2>4 DEF RetInv, Low
<1>4. CASE ExtractRange
  <2>1. /\ stage' = "extract" /\ stage = "extract" /\ stage \in Decoded /\ UNCHANGED <<file, pick, value, defs, arg, i>>
        /\ k' = k - 1 /\ offset' = offset + Op(i).ranges[k].len
    BY <1>4 DEF ExtractRange, Decoded
  <2>2. ArgValue(i)' = ArgValue(i) /\ Extracted(i)' = Extracted(i)
    BY <2>1, SameInst DEF ArgValue, Shr, Op, Extracted, Low, SignExtend, VarSize, Location, LocationFrom, Key
  <2>3. ret' = IF k' = 0 THEN Extracted(i) ELSE Low(ArgValue(i), offset')
    BY <1>4, <2>1, RangeExtracted
  <2>. QED  BY <1>0, <2>1, <2>2, <2>3 DEF RetInv, Low, Decoded
<1>5. CASE ExtractNext
  <2>1. /\ stage' = "extract" /\ stage = "extract" /\ stage \in Encoded /\ UNCHANGED <<file, pick, value, defs>>
        /\ arg' = Append(arg, Low(ret, Xlen)) /\ ret' = {}
        /\ i' = i + 1 /\ k' = Last(i + 1) /\ offset' = 0
    BY <1>5 DEF ExtractNext, Encoded, Decoded
  <2>2. Len(arg') = i' - 1
    <3>1. Len(arg) = i - 1 /\ i \in Nat
      BY <2>1 DEF RetInv, TypeOK
    <3>2. Len(arg') = Len(arg) + 1
      BY <2>1 DEF TypeOK
    <3>. QED  BY <2>1, <3>1, <3>2
  <2>3. i + 1 \in DOMAIN Inst.operands => Last(i + 1) # 0 /\ Low(ArgValue(i + 1), 0) = {}
    BY <2>1, StartFacts, NothingYet
  <2>4. ArgValue(i)' = ArgValue(i + 1)
    BY <2>1, SameInst DEF ArgValue, Shr, Op
  <2>. QED  BY <1>0, <2>1, <2>2, <2>3, <2>4 DEF RetInv, Low, Decoded
<1>6. CASE EndExtract \/ Refuse \/ ShiftArg \/ Emit
  <2>1. stage' \in {"trans", "refused", "done"}
    BY <1>6 DEF EndExtract, Refuse, ShiftArg, Emit, Begin
  <2>. QED  BY <2>1 DEF RetInv, Decoded
<1>. QED  BY <1>1, <1>2, <1>3, <1>4, <1>5, <1>6 DEF Next

(* What is in the argument structure. *)
Given(v, shifted) ==
  IF shifted THEN Low(Shl(Low(Extracted(v), Xlen), Op(v).shift), Xlen) ELSE Low(Extracted(v), Xlen)

(* Every step keeps the arguments.                                         *)
LEMMA ArgStep ==
  ASSUME TypeOK, CursorInv, RetInv, ArgInv, [Next]_vars
  PROVE  ArgInv'
<1>. UNCHANGED <<file, pick>>
  BY DEF Next, vars, DefineGrouped, EndGroups, DefineSingle, EndSingles, ParseFile, Generate, Call,
         AppendRange, AppendNext, EndAppend, ExtractRange, ExtractNext, EndExtract, Refuse, ShiftArg, Emit
<1>0. Inst' = Inst /\ i \in Nat /\ arg \in Seq(SUBSET (0 .. Xlen - 1)) /\ \A v : Op(v)' = Op(v)
  BY SameInst DEF TypeOK
<1>1. CASE \/ DefineGrouped \/ EndGroups \/ DefineSingle \/ EndSingles \/ ParseFile
           \/ Generate \/ Call \/ AppendRange \/ AppendNext
  <2>1. stage' \notin Decoded
    BY <1>1, Zenon DEF DefineGrouped, EndGroups, DefineSingle, EndSingles, ParseFile, Generate, Call, Begin,
                AppendRange, AppendNext, Decoded
  <2>. QED  BY <2>1 DEF ArgInv, Decoded
<1>2. CASE EndAppend
  <2>1. stage' = "extract" /\ arg' = <<>>
    BY <1>2 DEF EndAppend, Begin, RetInv, Decoded
  <2>. QED  BY <2>1 DEF ArgInv, Decoded
<1>3. ASSUME stage \in Decoded, UNCHANGED <<value, defs>>
      PROVE  /\ \A v : Extracted(v)' = Extracted(v)
             /\ \A v \in DOMAIN arg : arg[v] = Given(v, stage # "extract" /\ v < i)
             /\ stage # "extract" => Len(arg) = Len(Inst.operands)
  BY <1>3, SameValue DEF ArgInv, Given
<1>4. ASSUME stage' \in Decoded, stage \in Decoded, UNCHANGED <<value, defs>>,
             stage' # "extract" => Len(arg') = Len(Inst.operands),
             stage' = "done" => i' \notin DOMAIN arg',
             stage' = "refused" => i' \in DOMAIN arg' /\ arg'[i'] \in Inst.operands[i'].not,
             i' \in Nat,
             \A v \in DOMAIN arg' : arg'[v] = Given(v, stage' # "extract" /\ v < i')
      PROVE  ArgInv'
  <2>1. \A v : Extracted(v)' = Extracted(v)
    BY <1>4, SameValue
  <2>2. \A v \in DOMAIN arg' :
          arg'[v] = IF stage' # "extract" /\ v < i'
                    THEN Low(Shl(Low(Extracted(v)', Xlen), Op(v)'.shift), Xlen)
                    ELSE Low(Extracted(v)', Xlen)
    BY <1>0, <1>4, <2>1 DEF Given
  <2>. QED  BY <1>0, <1>4, <2>2 DEF ArgInv, Op, Low, Shl

<1>5. CASE UNCHANGED vars
  <2>1. stage \in Decoded => ArgInv'
    BY <1>0, <1>3, <1>4, <1>5 DEF vars, ArgInv, Op
  <2>. QED  BY <1>5, <2>1 DEF ArgInv, Decoded, vars
<1>6. CASE ExtractRange
  <2>1. /\ stage \in Decoded /\ stage = "extract" /\ stage' = stage /\ i' = i
        /\ UNCHANGED <<value, defs, arg>>
    BY <1>6 DEF ExtractRange, Decoded
  <2>. QED  BY <1>0, <1>3, <1>4, <2>1
<1>7. CASE ExtractNext
  <2>1. /\ stage \in Decoded /\ stage = "extract" /\ stage' = stage /\ i' = i + 1 /\ i \in DOMAIN Inst.operands
        /\ k = 0 /\ UNCHANGED <<value, defs>> /\ arg' = Append(arg, Low(ret, Xlen))
    BY <1>7 DEF ExtractNext, Decoded
  <2>2. ret = Extracted(i) /\ Len(arg) = i - 1
    BY <2>1 DEF RetInv
  <2>3. Low(ret, Xlen) \in SUBSET (0 .. Xlen - 1)
    <3>1. ret \in SUBSET Nat
      BY Sizes DEF TypeOK
    <3>. QED  BY <3>1, LowType, Sizes
  <2>4. /\ DOMAIN arg' = 1 .. i /\ arg'[i] = Low(ret, Xlen)
        /\ \A v \in 1 .. i - 1 : arg'[v] = arg[v]
    <3>. HIDE <1>3, <1>4
    <3>. QED  BY <1>0, <2>1, <2>2, <2>3, AppendProperties
  <2>5. \A v \in DOMAIN arg' : arg'[v] = Given(v, FALSE)
    <3>1. \A v \in 1 .. i - 1 : arg[v] = Given(v, FALSE)
      BY <1>0, <1>3, <2>1, <2>2 DEF Given
    <3>2. \A v \in 1 .. i : v = i \/ v \in 1 .. i - 1
      BY <1>0
    <3>3. arg'[i] = Given(i, FALSE)
      BY <2>2, <2>4 DEF Given
    <3>. QED  BY <2>4, <3>1, <3>2, <3>3
  <2>. QED  BY <1>0, <1>4, <2>1, <2>5 DEF Given
<1>8. CASE EndExtract
  <2>1. /\ stage \in Decoded /\ stage' \in Decoded /\ stage = "extract" /\ stage' = "trans" /\ i' = 1
        /\ UNCHANGED <<value, defs, arg>> /\ i \notin DOMAIN Inst.operands
    BY <1>8 DEF EndExtract, Begin, Decoded
  <2>2. Len(arg) = Len(Inst.operands)
    BY <2>1, InstFacts DEF RetInv, CursorInv
  <2>3. \A v \in DOMAIN arg : ~(v < 1)
    BY <1>0
  <2>. QED  BY <1>0, <1>3, <1>4, <2>1, <2>2, <2>3 DEF Given
<1>9. CASE Refuse \/ Emit
  <2>1. /\ stage \in Decoded /\ stage' \in Decoded /\ stage = "trans" /\ stage' \in {"refused", "done"}
        /\ UNCHANGED <<value, defs, arg, i>>
    BY <1>9 DEF Refuse, Emit, Decoded
  <2>2. stage' = "done" => i' \notin DOMAIN arg'
    BY <1>9, <2>1 DEF Refuse, Emit
  <2>3. stage' = "refused" => i' \in DOMAIN arg' /\ arg'[i'] \in Inst.operands[i'].not
    BY <1>9, <2>1 DEF Refuse, Emit, Op
  <2>. QED  BY <1>0, <1>3, <1>4, <2>1, <2>2, <2>3
<1>10. CASE ShiftArg
  <2>1. /\ stage \in Decoded /\ stage = "trans" /\ stage' = stage /\ i \in DOMAIN arg /\ i' = i + 1
        /\ UNCHANGED <<value, defs>> /\ arg' = [arg EXCEPT ![i] = Low(Shl(arg[i], Op(i).shift), Xlen)]
    BY <1>10 DEF ShiftArg, Decoded
  <2>2. DOMAIN arg' = DOMAIN arg /\ Len(arg') = Len(arg)
    BY <1>0, <2>1
  <2>3. \A v \in DOMAIN arg : arg'[v] = IF v = i THEN Low(Shl(arg[i], Op(i).shift), Xlen) ELSE arg[v]
    BY <1>0, <2>1
  <2>4. ASSUME NEW v \in DOMAIN arg
        PROVE  arg'[v] = Given(v, v < i + 1)
    <3>1. v \in Nat
      BY <1>0
    <3>2. arg[v] = Given(v, v < i)
      BY <1>3, <2>1
    <3>3. CASE v = i
      BY <1>0, <2>1, <2>3, <3>2, <3>3 DEF Given
    <3>4. CASE v # i
      <4>1. v < i + 1 <=> v < i
        BY <1>0, <3>1, <3>4
      <4>. QED  BY <2>3, <3>2, <3>4, <4>1 DEF Given
    <3>. QED  BY <3>3, <3>4
  <2>. QED  BY <1>0, <1>3, <1>4, <2>1, <2>2, <2>4 DEF Given
<1>. QED  BY <1>1, <1>2, <1>5, <1>6, <1>7, <1>8, <1>9, <1>10 DEF Next

(* Every step keeps the assumptions of the harness.                        *)
LEMMA HarnessStep ==
  ASSUME TypeOK, HarnessInv, [Next]_vars
  PROVE  HarnessInv'
<1>. UNCHANGED <<file, pick>>
  BY DEF Next, vars, DefineGrouped, EndGroups, DefineSingle, EndSingles, ParseFile, Generate, Call,
         AppendRange, AppendNext, EndAppend, ExtractRange, ExtractNext, EndExtract, Refuse, ShiftArg, Emit
<1>. DEFINE Tested(v, x) ==
       /\ Assumed(Op(v), x)
       /\ \E raw \in SUBSET (0 .. CSize(VarSize(Op(v))) - 1) : x = Harness(Op(v), raw)
<1>1. HarnessInv <=> (isTest => stage \in Encoded /\ \A v \in DOMAIN Inst.operands : Tested(v, value[v]))
  BY DEF HarnessInv
<1>2. HarnessInv' <=>
        (isTest' => stage' \in Encoded /\ \A v \in DOMAIN Inst.operands : Tested(v, value'[v]))
  <2>1. Inst' = Inst /\ \A v : Op(v)' = Op(v)
    BY SameInst
  <2>2. ASSUME NEW v
        PROVE  CSize(VarSize(Op(v)))' = CSize(VarSize(Op(v))) /\ VarSize(Op(v))' = VarSize(Op(v))
    <3>1. VarSize(Op(v))' = VarSize(Op(v))
      BY <2>1, Zenon DEF VarSize, Location, LocationFrom
    <3>. QED  BY <3>1
  <2>3. ASSUME NEW v
        PROVE  Assumed(Op(v), value[v])' <=> Assumed(Op(v), value'[v])
    BY <2>1, <2>2, Zenon DEF Assumed
  <2>4. ASSUME NEW v, NEW raw
        PROVE  Harness(Op(v), raw)' = Harness(Op(v), raw)
    BY <2>1, <2>2, Zenon DEF Harness, Low, Shl, SignExtend
  <2>. QED  BY <2>1, <2>2, <2>3, <2>4, Zenon DEF HarnessInv, Encoded, Decoded
<1>. HIDE DEF Tested
<1>3. CASE UNCHANGED vars
  BY <1>1, <1>2, <1>3 DEF vars
<1>4. CASE DefineGrouped \/ EndGroups \/ DefineSingle \/ EndSingles \/ ParseFile \/ Call
  <2>1. stage \notin Encoded /\ isTest' = isTest
    BY <1>4, Zenon DEF DefineGrouped, EndGroups, DefineSingle, EndSingles, ParseFile, Call, Encoded, Decoded
  <2>. QED  BY <1>1, <1>2, <2>1
<1>5. CASE Generate
  <2>1. \A v \in DOMAIN Inst.operands : Tested(v, value'[v])
    BY <1>5 DEF Generate, Tested
  <2>2. stage' \in Encoded
    BY <1>5 DEF Generate, Begin, Encoded
  <2>. QED  BY <1>2, <2>1, <2>2
<1>6. CASE \/ AppendRange \/ AppendNext \/ EndAppend
           \/ ExtractRange \/ ExtractNext \/ EndExtract \/ Refuse \/ ShiftArg \/ Emit
  <2>1. stage \in Encoded /\ stage' \in Encoded /\ UNCHANGED <<isTest, value>>
    BY <1>6 DEF AppendRange, AppendNext, EndAppend, ExtractRange, ExtractNext, EndExtract, Begin,
                Refuse, ShiftArg, Emit, Encoded, Decoded
  <2>. QED  BY <1>1, <1>2, <2>1
<1>. QED  BY <1>3, <1>4, <1>5, <1>6 DEF Next

-----------------------------------------------------------------------------
(* What TypeOK and CodecInv say holds from the start and at every step.    *)
LEMMA Invariance == Spec => [](TypeOK /\ CodecInv)
<1>1. Init => TypeOK /\ CodecInv
  BY TypeInit DEF Init, CodecInv, CursorInv, WordInv, RetInv, ArgInv, HarnessInv, Encoded, Decoded
<1>2. TypeOK /\ CodecInv /\ [Next]_vars => (TypeOK /\ CodecInv)'
  BY TypeStep, CursorStep, WordStep, RetStep, ArgStep, HarnessStep DEF CodecInv
<1>. QED  BY <1>1, <1>2, PTL DEF Spec

(* Every variable keeps its type; what is extracted of a field is never    *)
(* wider than the word.                                                    *)
THEOREM TypeCorrect == Spec => []TypeOK
BY Invariance, PTL

(* At every step of assembling, decoding and translating, the word, the    *)
(* expression and the arguments hold the parts of the values of append     *)
(* that have been placed so far (InstPrinter.append, str_extract, trans_). *)
THEOREM CodecInvariant == Spec => []CodecInv
BY Invariance, PTL

(* Whatever values append is given, no chunk spills over a fixed bit.      *)
THEOREM WordMatchesAlways == Spec => []WordMatches
<1>1. CodecInv => WordMatches
  BY DEF CodecInv, WordInv, WordMatches, Decoded
<1>. QED  BY <1>1, Invariance, PTL

(* An operand whose definition has its sign arrives, with its sign and     *)
(* shift, for every cut into ranges, word size and number of operands.     *)
THEOREM OperandsArriveAlways == Spec => []OperandsArrive
<1>1. ASSUME TypeOK, CodecInv, stage = "done", NEW v \in DOMAIN Inst.operands, SignKept(v)
      PROVE  arg[v] = Meaning(v)
  <2>1. Len(arg) = Len(Inst.operands) /\ i \notin DOMAIN arg /\ DOMAIN arg = 1 .. Len(arg)
        /\ Len(arg) \in Nat /\ i \in Nat \ {0}
    BY <1>1 DEF CodecInv, ArgInv, Decoded, TypeOK
  <2>2. v \in DOMAIN arg /\ v < i
    BY <2>1, InstFacts, <1>1
  <2>3. arg[v] = Low(Shl(Low(Extracted(v), Xlen), Op(v).shift), Xlen)
    BY <1>1, <2>2 DEF CodecInv, ArgInv, Decoded
  <2>4. Extracted(v) = FieldValue(v)
    BY <1>1, OpFacts DEF SignKept, Extracted, FieldValue
  <2>. QED  BY <2>3, <2>4, Zenon DEF Meaning
<1>2. TypeOK /\ CodecInv => OperandsArrive
  BY <1>1 DEF OperandsArrive
<1>. QED  BY <1>2, Invariance, PTL

-----------------------------------------------------------------------------
(* Signs that are lost.                                                    *)

(* No operand of an instruction has the name and ranges of another one, so *)
(* that an instruction does not define a field with both signs.            *)
LEMMA OneSign ==
  ASSUME TypeOK, NEW v \in DOMAIN Inst.operands
  PROVE  /\ Key(Op(v)) \in KeysOf(Inst, Op(v).sign)
         /\ Key(Op(v)) \notin KeysOf(Inst, ~ Op(v).sign)
<1>1. Op(v) \in Operands(Inst) /\ Op(v).sign \in BOOLEAN
  BY OpFacts
<1>2. Key(Op(v)) \in KeysOf(Inst, Op(v).sign)
  BY <1>1 DEF KeysOf
<1>3. SUFFICES ASSUME Key(Op(v)) \in KeysOf(Inst, ~ Op(v).sign)
               PROVE  FALSE
  BY <1>2
<1>4. PICK o \in Operands(Inst) : o.sign = (~ Op(v).sign) /\ Key(o) = Key(Op(v))
  BY <1>3 DEF KeysOf
<1>5. PICK w \in DOMAIN Inst.operands : o = Op(w)
  BY <1>4 DEF Operands, Op
<1>6. w # v
  BY <1>1, <1>4, <1>5
<1>7. Location(Op(w)) = Location(Op(v))
  <2>1. o.ranges = Op(v).ranges
    BY <1>4 DEF Key
  <2>. QED  BY <1>5, <2>1 DEF Location, LocationFrom
<1>8. Location(Op(w)) \cap Location(Op(v)) = {}
  BY <1>6, InstFacts, InstructionAssumption DEF Op
<1>9. Location(Op(v)) # {}
  <2>1. 1 \in DOMAIN Op(v).ranges /\ Op(v).ranges[1].start \in Nat /\ Op(v).ranges[1].len \in Nat \ {0}
    BY OpFacts
  <2>2. Op(v).ranges[1].start \in Bits(Op(v).ranges[1])
    BY <2>1 DEF Bits
  <2>3. Bits(Op(v).ranges[1]) \subseteq Location(Op(v))
    BY <2>1 DEF Location, LocationFrom
  <2>. QED  BY <2>2, <2>3
<1>. QED  BY <1>7, <1>8, <1>9

(* An instruction without a group defines its fields with their signs; a   *)
(* later one may replace them, if it uses them with the other sign.        *)
LEMMA DefsSingle ==
  ASSUME TypeOK, DefsInv, DefineSingle, NEW v \in DOMAIN Inst.operands,
         Inst.grouped \/ pick <= i
  PROVE  \/ (defs'[Key(Op(v))] = "signed") <=> Op(v).sign
         \/ Inst.grouped /\ Op(v).sign
         \/ \E f \in DOMAIN file : Redefines(f, v, i + 1)
<1> DEFINE key == Key(Op(v))
<1>1. /\ stage = "singles" /\ i \in DOMAIN file
      /\ file[i].grouped => defs' = defs
      /\ ~ file[i].grouped =>
           defs' = [x \in AllKeys |->
                      IF x \in KeysOf(file[i], TRUE) THEN "signed"
                      ELSE IF x \in KeysOf(file[i], FALSE) THEN "plain" ELSE defs[x]]
  BY DEF DefineSingle
<1>2. key \in AllKeys /\ Op(v).sign \in BOOLEAN /\ pick \in Nat /\ i \in Nat
  <2>1. file \in Seq(Instruction) /\ pick \in DOMAIN file /\ i \in Nat \ {0}
    BY DEF TypeOK
  <2>2. pick \in Nat
    BY <2>1
  <2>. QED  BY <2>1, <2>2, OpFacts
<1>3. \A f \in DOMAIN file : Redefines(f, v, i) => Redefines(f, v, i + 1)
  <2>1. \A f \in DOMAIN file : f \in Nat
    BY DEF TypeOK
  <2>2. \A f \in DOMAIN file : f < i => f < i + 1
    BY <1>2, <2>1
  <2>. QED  BY <2>2 DEF Redefines
<1>4. ASSUME Inst.grouped \/ pick < i, defs'[key] = defs[key]
      PROVE  SignKeptOrTaken(v, i) /\ ((defs'[key] = "signed") <=> (defs[key] = "signed"))
  BY <1>1, <1>4 DEF DefsInv
<1>5. CASE file[i].grouped
  <2>1. Inst.grouped \/ pick < i
    BY <1>2, <1>5 DEF Inst
  <2>. QED  BY <1>1, <1>3, <1>4, <1>5, <2>1 DEF SignKeptOrTaken, SignKept
<1>6. CASE ~ file[i].grouped /\ key \in KeysOf(file[i], ~ Op(v).sign)
  <2>1. i # pick
    BY <1>6, OneSign DEF Inst
  <2>2. Redefines(i, v, i + 1)
    BY <1>2, <1>6, <2>1 DEF Redefines
  <2>. QED  BY <1>1, <2>2
<1>7. CASE ~ file[i].grouped /\ key \notin KeysOf(file[i], ~ Op(v).sign)
  <2>1. CASE key \in KeysOf(file[i], Op(v).sign)
    <3>1. CASE Op(v).sign = TRUE
      BY <1>1, <1>2, <1>7, <2>1, <3>1
    <3>2. CASE Op(v).sign = FALSE
      BY <1>1, <1>2, <1>7, <2>1, <3>2
    <3>. QED  BY <1>2, <3>1, <3>2
  <2>2. CASE key \notin KeysOf(file[i], Op(v).sign)
    <3>1. key \notin KeysOf(file[i], TRUE) /\ key \notin KeysOf(file[i], FALSE)
      BY <1>2, <1>7, <2>2
    <3>2. defs'[key] = defs[key]
      BY <1>1, <1>2, <1>7, <3>1
    <3>3. i # pick
      BY <2>2, OneSign DEF Inst
    <3>4. Inst.grouped \/ pick < i
      BY <1>2, <3>3
    <3>. QED  BY <1>3, <1>4, <3>2, <3>4 DEF SignKeptOrTaken, SignKept
  <2>. QED  BY <2>1, <2>2
<1>. QED  BY <1>5, <1>6, <1>7

(* What has become of the signs, at every step.                            *)
LEMMA DefsStep ==
  ASSUME TypeOK, DefsInv, [Next]_vars
  PROVE  DefsInv'
<1>1. UNCHANGED <<file, pick>>
  BY DEF Next, vars, DefineGrouped, EndGroups, DefineSingle, EndSingles, ParseFile, Generate, Call,
         AppendRange, AppendNext, EndAppend, ExtractRange, ExtractNext, EndExtract, Refuse, ShiftArg, Emit
<1>2. Inst' = Inst /\ \A v : Op(v)' = Op(v) /\ Key(Op(v))' = Key(Op(v))
  BY <1>1, SameInst DEF Key
<1>3. \A f, v, n : Redefines(f, v, n)' <=> Redefines(f, v, n)
  BY <1>1, <1>2 DEF Redefines
<1>4. ASSUME NEW v, NEW n
      PROVE  SignKeptOrTaken(v, n)' <=>
               \/ (defs'[Key(Op(v))] = "signed") <=> Op(v).sign
               \/ Inst.grouped /\ Op(v).sign
               \/ \E f \in DOMAIN file : Redefines(f, v, n)
  BY <1>1, <1>2, <1>3 DEF SignKeptOrTaken, SignKept
<1>5. CASE DefineGrouped
  <2>1. stage = "groups" /\ stage' = "groups"
    BY <1>5 DEF DefineGrouped
  <2>2. ASSUME NEW key \in AllKeys
        PROVE  defs'[key] # "signed"
    <3>1. defs[key] # "signed"
      BY <2>1 DEF DefsInv
    <3>2. CASE UNCHANGED defs
      BY <3>1, <3>2
    <3>3. CASE Define(KeysOf(file[i], TRUE) \cup KeysOf(file[i], FALSE), "plain")
      <4>1. defs'[key] \in {"plain", defs[key]}
        BY <3>3 DEF Define
      <4>. QED  BY <3>1, <4>1
    <3>. QED  BY <1>5, <3>2, <3>3 DEF DefineGrouped
  <2>. QED  BY <2>1, <2>2 DEF DefsInv
<1>6. CASE EndGroups
  <2>1. stage = "groups" /\ stage' = "singles" /\ i' = 1 /\ defs' = defs
    BY <1>6 DEF EndGroups
  <2>2. ~ (pick < 1)
    BY DEF TypeOK
  <2>3. ASSUME NEW v \in DOMAIN Inst.operands, Inst.grouped
        PROVE  SignKeptOrTaken(v, i)'
    <3>1. defs[Key(Op(v))] # "signed"
      BY <2>1, OpFacts DEF DefsInv
    <3>. QED  BY <1>4, <2>1, <2>3, <3>1
  <2>. QED  BY <1>1, <1>2, <2>1, <2>2, <2>3 DEF DefsInv
<1>7. CASE DefineSingle
  <2>1. stage' = "singles" /\ i' = i + 1
    BY <1>7 DEF DefineSingle
  <2>2. pick < i + 1 => pick <= i
    BY DEF TypeOK
  <2>3. ASSUME NEW v \in DOMAIN Inst.operands, Inst.grouped \/ pick < i + 1
        PROVE  SignKeptOrTaken(v, i)'
    <3>1. Inst.grouped \/ pick <= i
      BY <2>2, <2>3
    <3>. QED  BY <1>3, <1>4, <1>7, <2>1, <3>1, DefsSingle
  <2>. QED  BY <1>1, <1>2, <2>1, <2>3 DEF DefsInv
<1>8. CASE EndSingles
  <2>1. stage = "singles" /\ stage' = "parse" /\ i \notin DOMAIN file /\ UNCHANGED <<defs, i>>
    BY <1>8 DEF EndSingles
  <2>2. pick < i /\ \A f \in DOMAIN file : f < Len(file) + 1
    <3>1. DOMAIN file = 1 .. Len(file) /\ Len(file) \in Nat /\ pick \in DOMAIN file /\ i \in Nat \ {0}
      BY DEF TypeOK
    <3>. QED  BY <2>1, <3>1
  <2>3. ASSUME NEW v \in DOMAIN Inst.operands
        PROVE  SignKeptOrTaken(v, Len(file) + 1)'
    <3>1. SignKeptOrTaken(v, i)
      BY <2>1, <2>2 DEF DefsInv
    <3>2. \A f \in DOMAIN file : Redefines(f, v, i) => Redefines(f, v, Len(file) + 1)
      BY <2>2 DEF Redefines
    <3>3. \/ (defs'[Key(Op(v))] = "signed") <=> Op(v).sign
          \/ Inst.grouped /\ Op(v).sign
          \/ \E f \in DOMAIN file : Redefines(f, v, Len(file) + 1)
      BY <2>1, <3>1, <3>2 DEF SignKeptOrTaken, SignKept
    <3>. QED  BY <1>1, <1>4, <3>3
  <2>. QED  BY <1>1, <1>2, <2>1, <2>3 DEF DefsInv
<1>9. ASSUME UNCHANGED <<defs, i, stage>> \/ (UNCHANGED defs /\ {stage, stage'} \cap {"groups", "singles"} = {})
      PROVE  DefsInv'
  <2>1. \A v, n : SignKeptOrTaken(v, n)' <=> SignKeptOrTaken(v, n)
    BY <1>4, <1>9 DEF SignKeptOrTaken, SignKept
  <2>. QED  BY <1>1, <1>2, <1>9, <2>1 DEF DefsInv
<1>10. CASE ~ (DefineGrouped \/ EndGroups \/ DefineSingle \/ EndSingles)
  BY <1>9, <1>10 DEF Next, vars, ParseFile, Generate, Call, AppendRange, AppendNext, EndAppend,
         ExtractRange, ExtractNext, EndExtract, Refuse, ShiftArg, Emit, Begin
<1>. QED  BY <1>5, <1>6, <1>7, <1>8, <1>10

(* Shifting values that agree below a bit into an int.                     *)
LEMMA LowAgrees ==
  ASSUME NEW x \in SUBSET Nat, NEW y \in SUBSET Nat, NEW n \in Nat, NEW s \in Nat, Low(x, n) = Low(y, n)
  PROVE  Low(Low(Shl(Low(x, Xlen), s), Xlen), n + s) = Low(Low(Shl(Low(y, Xlen), s), Xlen), n + s)
<1> DEFINE Shifted(z) == Low(Low(Shl(Low(z, Xlen), s), Xlen), n + s)
<1>1. ASSUME NEW u \in SUBSET Nat, NEW w \in SUBSET Nat, Low(u, n) = Low(w, n)
      PROVE  Shifted(u) \subseteq Shifted(w)
  <2>1. SUFFICES ASSUME NEW b \in Shifted(u)
                 PROVE  b \in Shifted(w)
    OBVIOUS
  <2>2. PICK c \in u : c < Xlen /\ b = c + s /\ b < Xlen /\ b < n + s
    BY DEF Low, Shl
  <2>3. c \in Nat /\ c < n
    BY <2>2
  <2>4. c \in Low(w, n)
    BY <1>1, <2>3 DEF Low
  <2>. QED  BY <2>2, <2>4 DEF Low, Shl
<1>. QED  BY <1>1

(* Wherever an operand has lost its sign, that is the doing of a group or  *)
(* of a later instruction of the file, and the bits of its field arrive    *)
(* all the same, for every file, cut into ranges and word size.            *)
THEOREM SignLostAlways == Spec => []SignLost
<1>1. Init => DefsInv
  BY DEF Init, DefsInv
<1>2. TypeOK /\ DefsInv /\ [Next]_vars => DefsInv'
  BY DefsStep
<1>3. ASSUME TypeOK, CodecInv, stage = "done", NEW v \in DOMAIN Inst.operands
      PROVE  LET n == VarSize(Op(v)) + Op(v).shift
             IN  Low(arg[v], n) = Low(Meaning(v), n)
  <2> DEFINE n == VarSize(Op(v))
             s == Op(v).shift
             field == Low(ArgValue(v), n)
  <2>1. Len(arg) = Len(Inst.operands) /\ i \notin DOMAIN arg /\ DOMAIN arg = 1 .. Len(arg)
        /\ Len(arg) \in Nat /\ i \in Nat \ {0}
    BY <1>3 DEF CodecInv, ArgInv, Decoded, TypeOK
  <2>2. v \in DOMAIN arg /\ v < i
    BY <2>1, InstFacts, <1>3
  <2>3. arg[v] = Low(Shl(Low(Extracted(v), Xlen), s), Xlen)
    BY <1>3, <2>2 DEF CodecInv, ArgInv, Decoded
  <2>4. LineOK(Inst) /\ value[v] \in SUBSET Nat
    BY <1>3, InstFacts DEF CodecInv, CursorInv, Encoded, Decoded, TypeOK
  <2>5. n \in Nat \ {0} /\ s \in Nat /\ Width \in Nat
    <3>1. n \in 1 .. Xlen
      BY <1>3, <2>4, FieldFacts, Zenon
    <3>2. s \in Nat
      BY <1>3, OpFacts, Zenon
    <3>. QED  BY <3>1, <3>2, Sizes
  <2>6. field \in SUBSET (0 .. n - 1)
    BY <2>4, <2>5, ShiftType, LowType DEF ArgValue
  <2>7. ASSUME NEW x \in {field, SignExtend(field, n, Width)}
        PROVE  x \in SUBSET Nat /\ Low(x, n) = field
    <3>. HIDE DEF field, n
    <3>1. x \subseteq field \cup (n .. Width - 1) /\ field \subseteq x
      <4>1. CASE x = field
        BY <4>1
      <4>2. CASE x = SignExtend(field, n, Width) /\ n - 1 \in field
        <5>1. x = field \cup (n .. Width - 1)
          BY <4>2 DEF SignExtend
        <5>. QED  BY <5>1
      <4>3. CASE x = SignExtend(field, n, Width) /\ n - 1 \notin field
        BY <4>3 DEF SignExtend
      <4>. QED  BY <2>7, <4>1, <4>2, <4>3
    <3>2. \A b \in x : b \in Nat /\ (b < n => b \in field)
      BY <2>5, <2>6, <3>1
    <3>3. \A b \in field : b \in x /\ b < n
      BY <2>5, <2>6, <3>1
    <3>. QED  BY <3>2, <3>3 DEF Low
  <2>8. Extracted(v) \in {field, SignExtend(field, n, Width)}
    BY Zenon DEF Extracted
  <2>9. FieldValue(v) \in {field, SignExtend(field, n, Width)}
    BY Zenon DEF FieldValue
  <2>10. Extracted(v) \in SUBSET Nat /\ FieldValue(v) \in SUBSET Nat
         /\ Low(Extracted(v), n) = Low(FieldValue(v), n)
    BY <2>7, <2>8, <2>9
  <2>11. Low(arg[v], n + s) = Low(Meaning(v), n + s)
    <3>. HIDE DEF n
    <3>. QED  BY <2>3, <2>5, <2>10, LowAgrees DEF Meaning
  <2>. QED  BY <2>11
<1>4. TypeOK /\ CodecInv /\ DefsInv => SignLost
  BY <1>3 DEF SignLost, DefsInv
<1>. QED  BY <1>1, <1>2, <1>4, Invariance, PTL DEF Spec

-----------------------------------------------------------------------------
(* A value whose bits are all above the shift is what its shift was of.    *)
LEMMA ShiftBack ==
  ASSUME NEW x \in SUBSET Nat, NEW n \in Nat, \A b \in x : b >= n
  PROVE  Shl(Shr(x, n), n) = x /\ (\A c \in Shr(x, n) : c \in Nat /\ c + n \in x)
<1>1. {c \in x : c >= n} = x
  OBVIOUS
<1>2. \A b \in x : b - n \in Nat /\ (b - n) + n = b
  OBVIOUS
<1>3. Shr(x, n) = {b - n : b \in x}
  BY <1>1 DEF Shr
<1>4. Shl(Shr(x, n), n) = x
  <2>1. Shl(Shr(x, n), n) = {c + n : c \in {b - n : b \in x}}
    BY <1>3, Zenon DEF Shl
  <2>2. {c + n : c \in {b - n : b \in x}} = {(b - n) + n : b \in x}
    OBVIOUS
  <2>3. {(b - n) + n : b \in x} = x
    BY <1>2, Zenon
  <2>. QED  BY <2>1, <2>2, <2>3, Zenon
<1>. QED  BY <1>2, <1>3, <1>4

(* A value of the harness has its bits between the shift and the end of    *)
(* the field: it is assumed to be no larger, or its C type is an int.      *)
LEMMA TestBits ==
  ASSUME TypeOK, CodecInv, isTest, NEW v \in DOMAIN Inst.operands
  PROVE  /\ LineOK(Inst) /\ stage \in Encoded
         /\ CSize(VarSize(Op(v))) \in Nat /\ VarSize(Op(v)) <= CSize(VarSize(Op(v)))
         /\ value[v] \subseteq Op(v).shift .. VarSize(Op(v)) - 1
         /\ value[v] \notin Op(v).not
         /\ \E raw \in SUBSET (0 .. CSize(VarSize(Op(v))) - 1) : value[v] = Harness(Op(v), raw)
<1>1. /\ LineOK(Inst) /\ stage \in Encoded /\ Assumed(Op(v), value[v])
      /\ \E raw \in SUBSET (0 .. CSize(VarSize(Op(v))) - 1) : value[v] = Harness(Op(v), raw)
  BY DEF CodecInv, CursorInv, HarnessInv
<1>. DEFINE n == VarSize(Op(v))
            c == CSize(n)
            s == Op(v).shift
<1>2. n \in 1 .. Xlen /\ c \in Nat /\ n <= c /\ s \in Nat /\ (n = Xlen => c = n)
  BY <1>1, FieldFacts, OpFacts, TypeSizeAssumption
<1>3. PICK raw \in SUBSET (0 .. c - 1) : value[v] = Harness(Op(v), raw)
  BY <1>1
<1>4. \E t \in SUBSET (0 .. c - 1) : value[v] = Low(Shl(t, s), c)
  <2>1. Low(raw, n) \in SUBSET (0 .. n - 1)
    <3>. HIDE DEF n, c
    <3>. QED  BY <1>2, LowType
  <2>2. SignExtend(Low(raw, n), n, c) \in SUBSET (0 .. c - 1)
    <3>. HIDE DEF n, c
    <3>. QED  BY <1>2, <2>1, SignExtendType
  <2>. QED  BY <1>3, <2>2, Zenon DEF Harness
<1>5. value[v] \subseteq s .. c - 1
  <2>1. PICK t \in SUBSET (0 .. c - 1) : value[v] = Low(Shl(t, s), c)
    BY <1>4
  <2>2. \A b \in t : b + s >= s /\ b + s \in Nat
    <3>. HIDE DEF n, c, s
    <3>. QED  BY <1>2
  <2>. HIDE DEF n, c, s
  <2>. QED  BY <1>2, <2>1, <2>2 DEF Low, Shl
<1>6. n # Xlen => value[v] \subseteq 0 .. n - 1
  <2>1. n # 2 * Xlen
    <3>. HIDE DEF n
    <3>. QED  BY <1>2, Sizes
  <2>. QED  BY <1>1, <2>1 DEF Assumed
<1>7. value[v] \subseteq s .. n - 1
  <2>. HIDE DEF n, c, s
  <2>. QED  BY <1>2, <1>5, <1>6
<1>8. value[v] \notin Op(v).not
  BY <1>1 DEF Assumed
<1>. QED  BY <1>1, <1>2, <1>7, <1>8

(* So append encodes all of it, and the field can only be sign-extended by *)
(* the decoder.                                                            *)
LEMMA TestField ==
  ASSUME TypeOK, CodecInv, isTest, NEW v \in DOMAIN Inst.operands
  PROVE  /\ ArgValue(v) \subseteq 0 .. VarSize(Op(v)) - 1
         /\ Shl(ArgValue(v), Op(v).shift) = value[v]
         /\ Op(v).shift = 0 => ArgValue(v) = value[v]
         /\ VarSize(Op(v)) - 1 \in ArgValue(v) => Op(v).shift = 0
         /\ Extracted(v) = IF defs[Key(Op(v))] = "signed" /\ VarSize(Op(v)) - 1 \in ArgValue(v)
                           THEN ArgValue(v) \cup (VarSize(Op(v)) .. Width - 1) ELSE ArgValue(v)
<1>. DEFINE n == VarSize(Op(v))
            s == Op(v).shift
            x == value[v]
<1>1. x \subseteq s .. n - 1 /\ n \in Nat \ {0} /\ s \in Nat
  BY TestBits, OpFacts, FieldFacts
<1>2. Shl(Shr(x, s), s) = x /\ \A c \in Shr(x, s) : c \in Nat /\ c + s \in x
  <2>. HIDE DEF n, s, x
  <2>1. x \in SUBSET Nat /\ \A b \in x : b >= s
    BY <1>1
  <2>. QED  BY <1>1, <2>1, ShiftBack
<1>3. ArgValue(v) = Shr(x, s)
  BY DEF ArgValue
<1>4. Shr(x, s) \subseteq 0 .. n - 1 /\ (n - 1 \in Shr(x, s) => s = 0)
  <2>. HIDE DEF n, s, x
  <2>. QED  BY <1>1, <1>2
<1>5. s = 0 => Shr(x, s) = x
  <2>. HIDE DEF n, s, x
  <2>1. s = 0 => \A b \in Shr(x, s) : b + s = b
    BY <1>2
  <2>2. s = 0 => Shl(Shr(x, s), s) = Shr(x, s)
    BY <2>1 DEF Shl
  <2>. QED  BY <1>2, <2>2
<1>6. Low(ArgValue(v), n) = ArgValue(v)
  <2>. HIDE DEF n, s, x
  <2>. QED  BY <1>1, <1>3, <1>4 DEF Low
<1>7. Extracted(v) = IF defs[Key(Op(v))] = "signed" THEN SignExtend(ArgValue(v), n, Width) ELSE ArgValue(v)
  BY <1>6 DEF Extracted
<1>. QED  BY <1>2, <1>3, <1>4, <1>5, <1>7 DEF SignExtend

(* Cut to a width that holds the field, a field stays; a sign above the    *)
(* field is outside of it.                                                 *)
LEMMA CutField ==
  ASSUME NEW n \in Nat, NEW m \in Nat, n <= m, NEW w \in Nat, NEW a \in SUBSET (0 .. n - 1)
  PROVE  /\ Low(a, m) = a
         /\ Low(a \cup (n .. w - 1), m) \cap (0 .. n - 1) = a
         /\ Low(Low(Shl(Low(a \cup (n .. w - 1), m), 0), m), n) = a
<1>1. \A b \in a : b < m /\ b < n /\ b \in 0 .. n - 1
  OBVIOUS
<1>2. \A b \in n .. w - 1 : ~(b < n) /\ b \notin 0 .. n - 1
  OBVIOUS
<1>3. Low(a, m) = a
  BY <1>1 DEF Low
<1>4. Low(a \cup (n .. w - 1), m) \cap (0 .. n - 1) = a
  BY <1>1, <1>2 DEF Low
<1>5. Shl(Low(a \cup (n .. w - 1), m), 0) = Low(a \cup (n .. w - 1), m)
  <2>1. \A b \in a \cup (n .. w - 1) : b + 0 = b
    OBVIOUS
  <2>. QED  BY <2>1 DEF Shl, Low
<1>6. Low(Low(Low(a \cup (n .. w - 1), m), m), n) = a
  BY <1>1, <1>2 DEF Low
<1>. QED  BY <1>3, <1>4, <1>5, <1>6

(* A sign-extended operand of the harness that has its sign bit is as long *)
(* as its C type: a shorter one is assumed to have no bits above.          *)
LEMMA SignFillsType ==
  ASSUME TypeOK, CodecInv, isTest, NEW v \in DOMAIN Inst.operands,
         Op(v).sign, VarSize(Op(v)) - 1 \in ArgValue(v)
  PROVE  CSize(VarSize(Op(v))) = VarSize(Op(v))
<1>. DEFINE n == VarSize(Op(v))
            c == CSize(n)
            x == value[v]
<1>1. /\ Op(v).shift = 0 /\ n - 1 \in x /\ x \subseteq 0 .. n - 1
      /\ n \in Nat \ {0} /\ c \in Nat /\ n <= c
  <2>1. Op(v).shift = 0 /\ n - 1 \in x
    BY TestField
  <2>2. x \subseteq Op(v).shift .. n - 1 /\ c \in Nat /\ n <= c /\ n \in Nat \ {0}
    <3>1. LineOK(Inst) /\ x \subseteq Op(v).shift .. n - 1 /\ c \in Nat /\ n <= c
      BY TestBits
    <3>2. n \in 1 .. Xlen
      BY <3>1, FieldFacts, Zenon
    <3>. QED  BY <3>1, <3>2, Sizes
  <2>. QED  BY <2>1, <2>2
<1>2. PICK raw \in SUBSET (0 .. c - 1) : x = Low(Shl(SignExtend(Low(raw, n), n, c), 0), c)
  <2>1. PICK raw \in SUBSET (0 .. c - 1) : x = Harness(Op(v), raw)
    BY TestBits
  <2>. QED  BY <1>1, <2>1, Zenon DEF Harness
<1>. HIDE DEF n, c, x
<1>3. CASE n - 1 \in Low(raw, n)
  <2>1. SignExtend(Low(raw, n), n, c) = Low(raw, n) \cup (n .. c - 1)
    BY <1>3 DEF SignExtend
  <2>2. ASSUME n < c PROVE FALSE
    <3>1. c - 1 \in n .. c - 1 /\ (c - 1) + 0 = c - 1 /\ c - 1 < c
      BY <1>1, <2>2
    <3>2. c - 1 \in x
      BY <1>2, <2>1, <3>1 DEF Shl, Low
    <3>. QED  BY <1>1, <2>2, <3>2
  <2>. QED  BY <1>1, <2>2 DEF n, c
<1>4. CASE n - 1 \notin Low(raw, n)
  <2>1. x = Low(Shl(Low(raw, n), 0), c)
    BY <1>2, <1>4 DEF SignExtend
  <2>2. PICK b \in Low(raw, n) : n - 1 = b + 0
    BY <1>1, <2>1 DEF Shl, Low
  <2>3. b \in Nat
    BY DEF Low
  <2>4. b = n - 1
    BY <1>1, <2>2, <2>3
  <2>. QED  BY <1>4, <2>4
<1>. QED  BY <1>3, <1>4

(* A value that KLEE found is not refused and comes out as it was, in the  *)
(* type of its parameter: the sign that the decoder adds above the field   *)
(* is then outside of that type, or no `not' value.                        *)
THEOREM TestsArriveAlways == Spec => []TestsArrive
<1>1. ASSUME TypeOK, CodecInv, isTest, NEW v \in DOMAIN Inst.operands,
             stage \in {"refused", "done"}
      PROVE  /\ Len(arg) = Len(Inst.operands) /\ DOMAIN arg = DOMAIN Inst.operands
             /\ stage = "done" => arg[v] = Low(Shl(Low(Extracted(v), Xlen), Op(v).shift), Xlen)
             /\ stage = "refused" /\ v = i => arg[v] = Low(Extracted(v), Xlen) /\ arg[v] \in Op(v).not
  <2>1. stage \in Decoded /\ stage # "extract" /\ i \in Nat /\ arg \in Seq(SUBSET (0 .. Xlen - 1))
    BY <1>1 DEF Decoded, TypeOK
  <2>2. Len(arg) = Len(Inst.operands) /\ DOMAIN arg = DOMAIN Inst.operands
    BY <1>1, <2>1, InstFacts DEF CodecInv, ArgInv
  <2>3. stage = "done" => v < i
    <3>1. stage = "done" => i \notin DOMAIN arg /\ i \in Nat \ {0}
      BY <1>1, <2>1 DEF CodecInv, ArgInv, TypeOK
    <3>. QED  BY <2>1, <2>2, <3>1, InstFacts
  <2>4. v = i => ~(v < i)
    BY <2>1
  <2>5. arg[v] = IF v < i THEN Low(Shl(Low(Extracted(v), Xlen), Op(v).shift), Xlen) ELSE Low(Extracted(v), Xlen)
    BY <1>1, <2>1, <2>2 DEF CodecInv, ArgInv
  <2>6. stage = "refused" /\ v = i => arg[v] \in Op(v).not
    BY <1>1, <2>1 DEF CodecInv, ArgInv
  <2>. QED  BY <2>2, <2>3, <2>4, <2>5, <2>6
<1>2. ASSUME TypeOK, CodecInv, isTest, NEW v \in DOMAIN Inst.operands
      PROVE  /\ VarSize(Op(v)) \in Nat \ {0} /\ VarSize(Op(v)) <= Xlen /\ Xlen \in Nat /\ Width \in Nat
             /\ CSize(VarSize(Op(v))) \in Nat /\ VarSize(Op(v)) <= CSize(VarSize(Op(v)))
             /\ ArgValue(v) \in SUBSET (0 .. VarSize(Op(v)) - 1)
             /\ value[v] \in SUBSET (0 .. VarSize(Op(v)) - 1)
  <2>1. value[v] \subseteq Op(v).shift .. VarSize(Op(v)) - 1 /\ Op(v).shift \in Nat
    BY <1>2, TestBits, OpFacts
  <2>2. VarSize(Op(v)) \in 1 .. Xlen /\ Xlen \in Nat /\ Width \in Nat
    BY <1>2, TestBits, FieldFacts, Sizes
  <2>3. value[v] \in SUBSET (0 .. VarSize(Op(v)) - 1)
    BY <2>1, <2>2
  <2>. QED  BY <1>2, <2>2, <2>3, TestBits, TestField
<1>3. ASSUME TypeOK, CodecInv, isTest, NEW v \in DOMAIN Inst.operands, stage = "done",
             Op(v).sign \/ SignKept(v)
      PROVE  Low(arg[v], CSize(VarSize(Op(v)))) = value[v]
  <2>. DEFINE n == VarSize(Op(v))
              c == CSize(n)
              a == ArgValue(v)
  <2>1. arg[v] = Low(Shl(Low(Extracted(v), Xlen), Op(v).shift), Xlen)
    BY <1>1, <1>3
  <2>2. CASE Extracted(v) = a
    <3>1. Low(a, Xlen) = a
      BY <1>2, <1>3, CutField
    <3>2. Shl(a, Op(v).shift) = value[v]
      BY <1>3, TestField
    <3>3. Low(value[v], Xlen) = value[v] /\ Low(value[v], c) = value[v]
      BY <1>2, <1>3, CutField
    <3>. QED  BY <2>1, <2>2, <3>1, <3>2, <3>3
  <2>3. CASE Extracted(v) # a
    <3>1. /\ defs[Key(Op(v))] = "signed" /\ n - 1 \in a /\ Extracted(v) = a \cup (n .. Width - 1)
          /\ Op(v).shift = 0 /\ a = value[v]
      BY <1>3, <2>3, TestField
    <3>2. Op(v).sign
      BY <1>3, <3>1 DEF SignKept
    <3>3. c = n
      BY <1>3, <3>1, <3>2, SignFillsType
    <3>4. Low(Low(Shl(Low(a \cup (n .. Width - 1), Xlen), 0), Xlen), n) = a
      BY <1>2, <1>3, CutField
    <3>. QED  BY <2>1, <3>1, <3>3, <3>4
  <2>. QED  BY <2>2, <2>3
<1>4. ASSUME TypeOK, CodecInv, isTest, stage = "refused",
             \A v \in DOMAIN Inst.operands : Op(v).shift = 0 \/ Op(v).not \subseteq {{}}
      PROVE  FALSE
  <2>. DEFINE n == VarSize(Op(i))
              a == ArgValue(i)
              y == Low(Extracted(i), Xlen)
  <2>1. i \in DOMAIN arg /\ Len(arg) = Len(Inst.operands)
    BY <1>4 DEF CodecInv, ArgInv, Decoded
  <2>2. i \in DOMAIN Inst.operands
    BY <2>1, InstFacts, <1>4 DEF TypeOK
  <2>3. y \in Op(i).not
    BY <1>1, <1>4, <2>2
  <2>4. y \subseteq 0 .. n - 1
    BY <1>4, <2>2, <2>3, InstFacts, OpFacts, OperandAssumption
  <2>5. Low(a, Xlen) = a /\ Low(a \cup (n .. Width - 1), Xlen) \cap (0 .. n - 1) = a
    <3>1. n \in Nat /\ n <= Xlen /\ Xlen \in Nat /\ Width \in Nat /\ a \in SUBSET (0 .. n - 1)
      BY <1>2, <1>4, <2>2
    <3>. HIDE DEF n, a
    <3>. QED  BY <3>1, CutField
  <2>6. Extracted(i) \in {a, a \cup (n .. Width - 1)}
    BY <1>4, <2>2, TestField
  <2>7. y = a
    BY <2>4, <2>5, <2>6
  <2>8. a = value[i]
    <3>1. CASE Op(i).shift = 0
      BY <1>4, <2>2, <3>1, TestField
    <3>2. CASE Op(i).shift # 0
      <4>1. a = {}
        BY <1>4, <2>2, <2>3, <2>7, <3>2
      <4>2. Shl(a, Op(i).shift) = value[i]
        BY <1>4, <2>2, TestField
      <4>. QED  BY <4>1, <4>2 DEF Shl
    <3>. QED  BY <3>1, <3>2
  <2>. QED  BY <1>4, <2>2, <2>3, <2>7, <2>8, TestBits
<1>5. TypeOK /\ CodecInv => TestsArrive
  BY <1>3, <1>4 DEF TestsArrive
<1>. QED  BY <1>5, Invariance, PTL
=============================================================================
