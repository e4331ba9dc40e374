-------------------------- MODULE MultiWordProofs --------------------------
(***************************************************************************)
(* Proofs about MultiWord, for every number of registers and words and for *)
(* every initial state: an instruction that faults and starts again any    *)
(* number of times still has the effect it has when nothing faults.        *)
(***************************************************************************)
EXTENDS MultiWord, TLAPS

-----------------------------------------------------------------------------
(* Addresses.                                                              *)

(* The sum of two words is a word. *)
LEMMA AddType ==
  ASSUME NEW a \in Word, NEW b \in Word
  PROVE  Add(a, b) \in Word
  BY SizeAssumption DEF Add, Word

(* Two words of one instruction have different addresses. *)
LEMMA AddInjective ==
  ASSUME NEW a \in Word, NEW j \in Word, NEW k \in Word, Add(a, j) = Add(a, k)
  PROVE  j = k
  BY SizeAssumption DEF Add, Word

(* The helper's running address is the base plus the index. *)
LEMMA AddNext ==
  ASSUME NEW a \in Word, NEW k \in Word, k + 1 \in Word
  PROVE  Add(Add(a, k), 1) = Add(a, k + 1)
  BY SizeAssumption DEF Add, Word

(* Adding nothing to a word.                                               *)
LEMMA AddZero ==
  ASSUME NEW a \in Word
  PROVE  Add(a, 0) = a
  BY SizeAssumption DEF Add, Word

-----------------------------------------------------------------------------
(* Types.                                                                  *)

(* Base and length of an instruction are words. *)
LEMMA OperandsType ==
  ASSUME insn \in Instruction, NEW g \in [Reg -> Word]
  PROVE  /\ BaseFrom(g) \in Word /\ LengthFrom(g) \in Word
         /\ insn.op \in {"lwm", "swm", "setwm"}
         /\ insn.rs1 \in Reg /\ insn.r3 \in Reg /\ insn.len \in Reg
         /\ insn.immediate \in BOOLEAN
  <1>1. /\ insn.op \in {"lwm", "swm", "setwm"}
        /\ insn.rs1 \in Reg /\ insn.r3 \in Reg /\ insn.len \in Reg
        /\ insn.immediate \in BOOLEAN /\ insn.imm \in Imm
    BY DEF Instruction
  <1>2. insn.imm \in Word /\ g[insn.rs1] \in Word
    BY <1>1, SizeAssumption
  <1>3. BaseFrom(g) \in Word
    BY <1>2, AddType DEF BaseFrom
  <1>4. LengthFrom(g) \in Word
    BY <1>1, SizeAssumption DEF LengthFrom, Reg, Word
  <1> QED BY <1>1, <1>3, <1>4

(* Every action keeps the types. *)
LEMMA TypeStep ==
  ASSUME TypeOK, [Next]_vars
  PROVE  TypeOK'
  <1> USE DEF TypeOK
  <1>0. 0 \in Word /\ 1 \in Word
    BY SizeAssumption DEF Word
  <1>1. CASE RaiseIllegal
    BY <1>1 DEF RaiseIllegal, helper
  <1>2. CASE CallHelper
    <2>1. vaddr' \in Word /\ length' \in Word
      BY <1>2, OperandsType DEF CallHelper
    <2>2. value' \in Word /\ i' \in Word
      BY <1>2, <1>0, OperandsType DEF CallHelper
    <2> QED BY <1>2, <2>1, <2>2 DEF CallHelper
  <1>3. ASSUME NextWord, More
        PROVE  vaddr' \in Word /\ i' \in Word /\ length' = length /\ value' = value
    BY <1>3, <1>0, AddType, SizeAssumption DEF NextWord, More, Word
  <1>4. CASE LoadWord
    <2>1. gpr' \in [Reg -> Word]
      BY <1>4 DEF LoadWord
    <2> QED BY <1>3, <1>4, <2>1 DEF LoadWord
  <1>5. CASE StoreWord
    <2>0. insn.r3 \in Reg /\ i \in Nat
      BY OperandsType, SizeAssumption DEF Word
    <2>1. insn.r3 + i \in Reg
      BY <1>5, <2>0, SizeAssumption DEF StoreWord, InRegs, Reg
    <2>2. mem' \in [Word -> Word]
      BY <1>5, <2>1 DEF StoreWord
    <2> QED BY <1>3, <1>5, <2>2 DEF StoreWord
  <1>6. CASE SetWord
    <2>1. mem' \in [Word -> Word]
      BY <1>6 DEF SetWord
    <2> QED BY <1>3, <1>6, <2>1 DEF SetWord
  <1>7. CASE Retire
    BY <1>7 DEF Retire, helper
  <1>8. CASE Fault
    BY <1>8 DEF Fault, helper
  <1>9. CASE LeaveRegs
    BY <1>9 DEF LeaveRegs, helper
  <1>10. CASE HandleTrap
    BY <1>10 DEF HandleTrap, helper
  <1>11. CASE UNCHANGED vars
    BY <1>11 DEF vars
  <1> QED BY <1>1, <1>2, <1>4, <1>5, <1>6, <1>7, <1>8, <1>9, <1>10, <1>11 DEF Next

(* The types hold initially.                                               *)
LEMMA TypeInit ==
  ASSUME Init
  PROVE  TypeOK
  <1>1. gpr \in [Reg -> Word] /\ mem \in [Word -> Word] /\ mapped \in SUBSET Word
    BY SizeAssumption DEF Init
  <1>2. 0 \in Word
    BY SizeAssumption DEF Word
  <1> QED BY <1>1, <1>2 DEF Init, TypeOK

(* The types of MultiWord: in particular no address, length or register    *)
(* value ever leaves its width.                                            *)
THEOREM TypeCorrect == Spec => []TypeOK
  <1>1. Init => TypeOK
    BY TypeInit
  <1>2. TypeOK /\ [Next]_vars => TypeOK'
    BY TypeStep
  <1> QED BY <1>1, <1>2, PTL DEF Spec

-----------------------------------------------------------------------------
(* Restarts.                                                               *)

(* Whenever the instruction is executed again, its operands are those of   *)
(* the first time: a load that is RestartSafe has spared them.             *)
LEMMA OperandsAgree ==
  ASSUME TypeOK, RestartInv, Claimed, stage = "fetch"
  PROVE  /\ LengthFrom(gpr) = Words /\ BaseFrom(gpr) = Base
         /\ OutOfRange(gpr) <=> OutOfRange(pre.gpr)
         /\ insn.op = "setwm" => gpr[insn.r3] = pre.gpr[insn.r3]
  <1>1. CASE gpr = pre.gpr
    BY <1>1 DEF Words, Base, LengthFrom, BaseFrom, OutOfRange
  <1>2. CASE gpr # pre.gpr
    <2>1. insn.op = "lwm" /\ RestartSafe
      BY <1>2 DEF RestartInv, SourceInv, Claimed
    <2>2. insn.rs1 \in Reg /\ insn.len \in Reg
      BY OperandsType DEF TypeOK
    <2>3. gpr[insn.rs1] = pre.gpr[insn.rs1]
      BY <2>1, <2>2 DEF RestartInv, Partial, RestartSafe, FinalReg
    <2>4. insn.immediate \/ gpr[insn.len] = pre.gpr[insn.len]
      BY <2>1, <2>2 DEF RestartInv, Partial, RestartSafe, LengthKept, FinalReg
    <2>5. LengthFrom(gpr) = Words /\ BaseFrom(gpr) = Base
      BY <2>3, <2>4 DEF LengthFrom, BaseFrom, Words, Base
    <2>6. OutOfRange(gpr) <=> OutOfRange(pre.gpr)
      BY <2>5 DEF OutOfRange, Words
    <2> QED BY <2>1, <2>5, <2>6
  <1> QED BY <1>1, <1>2

(* What the moved word is, as seen from the state before the instruction.  *)
LEMMA MovedWord ==
  ASSUME TypeOK, RestartInv, Claimed, stage = "loop", More
  PROVE  /\ Words \in Word /\ Base \in Word /\ insn.r3 \in Nat /\ i \in Nat
         /\ vaddr = Add(Base, i) /\ i + 1 <= Words /\ i + 1 \in Word
         /\ insn.op = "lwm" => FinalReg(insn.r3 + i) = pre.mem[Add(Base, i)]
         /\ insn.op # "lwm" => Stores(i)
         /\ ~ OutOfRange(pre.gpr)
  <1>1. pre.gpr \in [Reg -> Word]
    BY DEF TypeOK
  <1>2. Words \in Word /\ Base \in Word /\ insn.r3 \in Reg
    BY <1>1, OperandsType DEF TypeOK, Words, Base
  <1>3. insn.r3 \in Nat /\ i \in Nat /\ Words \in Nat
    BY <1>2, SizeAssumption DEF TypeOK, Reg, Word
  <1>4. vaddr = Add(Base, i) /\ length = Words /\ ~ OutOfRange(pre.gpr)
    BY DEF RestartInv, LocalsInv, InHelper
  <1>5. i + 1 <= Words
    BY <1>3, <1>4 DEF More
  <1>6. i + 1 \in Word
    BY <1>2, <1>3, <1>5, SizeAssumption DEF Word
  <1>7. insn.op = "lwm" => FinalReg(insn.r3 + i) = pre.mem[Add(Base, i)]
    <2>1. insn.r3 <= insn.r3 + i /\ insn.r3 + i < insn.r3 + Words /\ (insn.r3 + i) - insn.r3 = i
      BY <1>3, <1>5
    <2> QED BY <2>1 DEF FinalReg, Loads
  <1>8. insn.op # "lwm" => Stores(i)
    BY <1>3, <1>5 DEF Stores
  <1> QED BY <1>2, <1>3, <1>4, <1>5, <1>6, <1>7, <1>8

(* The index and the address move on together. *)
LEMMA NextLocals ==
  ASSUME TypeOK, RestartInv, Claimed, stage = "loop", More, NextWord,
         UNCHANGED <<insn, stage, pre>>
  PROVE  LocalsInv'
  <1>1. vaddr' = Add(Base, i + 1)
    BY MovedWord, AddNext, SizeAssumption DEF NextWord, TypeOK, Word
  <1>2. i' = i + 1 /\ i + 1 <= Words /\ length' = length /\ value' = value
    BY MovedWord DEF NextWord
  <1>3. LocalsInv /\ InHelper
    BY DEF RestartInv, InHelper
  <1> QED BY <1>1, <1>2, <1>3
    DEF LocalsInv, InHelper, Words, Base, LengthFrom, BaseFrom, OutOfRange

(* Loading a word keeps the restart invariant.                             *)
LEMMA LoadStep ==
  ASSUME TypeOK, RestartInv, Claimed, LoadWord
  PROVE  RestartInv'
  <1> DEFINE r0 == insn.r3 + i
  <1>1. stage = "loop" /\ More /\ insn.op = "lwm" /\ NextWord /\ r0 < NR
    BY DEF LoadWord, InRegs
  <1>2. /\ UNCHANGED <<insn, mem, mapped, stage, restarted, pre>>
        /\ i' = i + 1
        /\ gpr' = [gpr EXCEPT ![r0] = mem[vaddr]]
    BY DEF LoadWord, NextWord
  <1>3. mem = pre.mem
    BY <1>1 DEF RestartInv, SourceInv
  <1>4. r0 \in Reg
    BY <1>1, MovedWord, SizeAssumption DEF Reg
  <1>5. gpr'[r0] = pre.mem[Add(Base, i)] /\ FinalReg(r0) = pre.mem[Add(Base, i)]
    BY <1>1, <1>2, <1>3, <1>4, MovedWord DEF TypeOK
  <1>6. \A r \in Reg : r # r0 => gpr'[r] = gpr[r]
    BY <1>2 DEF TypeOK
  <1>7. LocalsInv'
    BY <1>1, <1>2, NextLocals
  <1>8. Partial'
    <2>1. \A r \in Reg : gpr'[r] \in {pre.gpr[r], FinalReg(r)}
      BY <1>5, <1>6 DEF RestartInv, Partial
    <2>2. \A r : FinalReg(r)' = FinalReg(r)
      BY <1>2 DEF FinalReg, Loads, Words, Base, LengthFrom, BaseFrom
    <2>3. \A k : ~ Stores(k)'
      BY <1>1, <1>2 DEF Stores
    <2>4. mem' = pre'.mem
      BY <1>2, <1>3
    <2> QED BY <1>2, <2>1, <2>2, <2>3, <2>4 DEF Partial
  <1>9. MovedInv'
    <2>1. SUFFICES ASSUME NEW k \in Word, k < i + 1
                   PROVE  insn.r3 + k < NR /\ gpr'[insn.r3 + k] = pre.mem[Add(Base, k)]
      BY <1>1, <1>2 DEF MovedInv, Base, BaseFrom
    <2>2. CASE k = i
      BY <1>1, <1>5, <2>2
    <2>3. CASE k # i
      <3>1. k \in Nat /\ i \in Nat /\ insn.r3 \in Nat
        BY MovedWord, <1>1, SizeAssumption DEF Word
      <3>2. k < i /\ insn.r3 + k # r0
        BY <2>1, <2>3, <3>1
      <3>3. insn.r3 + k < NR /\ gpr[insn.r3 + k] = pre.mem[Add(Base, k)]
        BY <1>1, <3>2 DEF RestartInv, MovedInv, InHelper
      <3>4. insn.r3 + k \in Reg
        BY <3>1, <3>3, SizeAssumption DEF Reg
      <3> QED BY <1>6, <3>2, <3>3, <3>4
    <2> QED BY <2>2, <2>3
  <1>10. SourceInv'
    <2>1. ~ OutOfRange(pre.gpr)'
      BY <1>1, <1>2, MovedWord DEF OutOfRange, LengthFrom
    <2> QED BY <1>1, <1>2, <1>3, <2>1 DEF SourceInv
  <1> QED BY <1>7, <1>8, <1>9, <1>10 DEF RestartInv

(* One word stored by qc.swm or qc.setwm. *)
LEMMA StoreStep ==
  ASSUME TypeOK, TypeOK', RestartInv, Claimed, StoreWord \/ SetWord
  PROVE  RestartInv'
  <1> DEFINE a0 == Add(Base, i)
  <1>1. stage = "loop" /\ More /\ insn.op # "lwm" /\ NextWord
    BY DEF StoreWord, SetWord
  <1>2. UNCHANGED <<insn, gpr, mapped, stage, restarted, pre>> /\ i' = i + 1
    BY DEF StoreWord, SetWord, NextWord
  <1>3. gpr = pre.gpr
    BY <1>1 DEF RestartInv, SourceInv
  <1>4. Source(i) < NR /\ mem' = [mem EXCEPT ![a0] = pre.gpr[Source(i)]]
    <2>1. CASE StoreWord
      BY <2>1, <1>1, <1>3, MovedWord DEF StoreWord, Source, InRegs
    <2>2. CASE SetWord
      <3>1. value = pre.gpr[insn.r3] /\ insn.op = "setwm"
        BY <2>2, <1>1 DEF SetWord, RestartInv, LocalsInv, InHelper
      <3>2. insn.r3 < NR
        BY OperandsType, SizeAssumption DEF TypeOK, Reg
      <3> QED BY <2>2, <3>1, <3>2, <1>1, MovedWord DEF SetWord, Source
    <2> QED BY <2>1, <2>2
  <1>5. i \in Word /\ Base \in Word /\ a0 \in Word
    BY <1>1, MovedWord, AddType DEF TypeOK
  <1>6. mem'[a0] = pre.gpr[Source(i)] /\ \A a \in Word : a # a0 => mem'[a] = mem[a]
    BY <1>4, <1>5 DEF TypeOK
  <1>7. \A k \in Word : k # i => Add(Base, k) # a0
    BY <1>5, AddInjective
  <1>8. \A k \in Word : Add(Base, k) \in Word
    BY <1>5, AddType
  <1>9. LocalsInv'
    BY <1>1, <1>2, NextLocals
  <1>10. Partial'
    <2>1. \A r : FinalReg(r)' = FinalReg(r)
      BY <1>2 DEF FinalReg, Loads, Words, Base, LengthFrom, BaseFrom
    <2>2. \A k : (Stores(k)' <=> Stores(k)) /\ Source(k)' = Source(k)
      BY <1>2 DEF Stores, Source, Words, LengthFrom
    <2>3. Base' = Base
      BY <1>2 DEF Base, BaseFrom
    <2>4. \A k \in Word : Stores(k) /\ Source(k) \in Reg =>
             mem'[Add(Base, k)] \in {pre.mem[Add(Base, k)], pre.gpr[Source(k)]}
      BY <1>6, <1>7, <1>8 DEF RestartInv, Partial
    <2>5. \A a \in Word : mem'[a] # pre.mem[a] => \E k \in Word : Stores(k) /\ a = Add(Base, k)
      BY <1>1, <1>5, <1>6, MovedWord DEF RestartInv, Partial
    <2>6. \A r \in Reg : gpr[r] \in {pre.gpr[r], FinalReg(r)}
      BY DEF RestartInv, Partial
    <2> QED BY <1>2, <2>1, <2>2, <2>3, <2>4, <2>5, <2>6 DEF Partial
  <1>11. MovedInv'
    <2>1. \A k : Source(k)' = Source(k)
      BY <1>2 DEF Source
    <2>2. Base' = Base
      BY <1>2 DEF Base, BaseFrom
    <2>3. SUFFICES ASSUME NEW k \in Word, k < i + 1
                   PROVE  Source(k) < NR /\ mem'[Add(Base, k)] = pre.gpr[Source(k)]
      BY <1>1, <1>2, <2>1, <2>2 DEF MovedInv
    <2>4. CASE k = i
      BY <1>4, <1>6, <2>4
    <2>5. CASE k # i
      <3>1. k < i
        BY <1>5, <2>3, <2>5, SizeAssumption DEF Word
      <3> QED BY <1>1, <1>6, <1>7, <1>8, <2>5, <3>1 DEF RestartInv, MovedInv, InHelper
    <2> QED BY <2>4, <2>5
  <1>12. SourceInv'
    <2>1. ~ OutOfRange(pre.gpr)'
      BY <1>1, <1>2, MovedWord DEF OutOfRange, LengthFrom
    <2> QED BY <1>1, <1>2, <1>3, <2>1 DEF SourceInv
  <1> QED BY <1>9, <1>10, <1>11, <1>12 DEF RestartInv

(* A step that changes neither registers nor memory keeps what they hold.  *)
LEMMA PartialStable ==
  ASSUME RestartInv, UNCHANGED <<insn, gpr, mem, pre>>, restarted => restarted'
  PROVE  Partial' /\ (Claimed' => Claimed)
  <1>1. /\ RestartSafe' <=> RestartSafe
        /\ \A r : FinalReg(r)' = FinalReg(r)
        /\ \A k : (Stores(k)' <=> Stores(k)) /\ Source(k)' = Source(k)
        /\ Base' = Base
    BY DEF RestartSafe, LengthKept, FinalReg, Loads, Stores, Source, Words, Base, LengthFrom, BaseFrom
  <1>2. Claimed' => Claimed
    BY <1>1 DEF Claimed
  <1> QED BY <1>1, <1>2 DEF Partial, RestartInv

(* Entering the helper, for the first time or again. *)
LEMMA CallStep ==
  ASSUME TypeOK, RestartInv, CallHelper
  PROVE  RestartInv'
  <1>1. UNCHANGED <<insn, gpr, mem, restarted, pre>> /\ stage = "fetch" /\ stage' = "loop"
    BY DEF CallHelper
  <1>2. Partial' /\ (Claimed' => Claimed)
    BY <1>1, PartialStable
  <1>3. SUFFICES ASSUME Claimed
                 PROVE  LocalsInv' /\ MovedInv' /\ SourceInv'
    BY <1>2 DEF RestartInv
  <1>4. LocalsInv'
    <2>1. /\ ~ OutOfRange(pre.gpr) /\ BaseFrom(gpr) = Base /\ LengthFrom(gpr) = Words
          /\ insn.op = "setwm" => gpr[insn.r3] = pre.gpr[insn.r3]
      BY <1>1, <1>3, OperandsAgree DEF CallHelper
    <2>2. Base \in Word /\ Words \in Word
      BY OperandsType DEF TypeOK, Base, Words
    <2>3. Add(Base, 0) = Base /\ 0 <= Words
      BY <2>2, AddZero, SizeAssumption DEF Word
    <2>4. vaddr' = Base /\ length' = Words /\ i' = 0 /\ value' = gpr[insn.r3]
      BY <2>1 DEF CallHelper
    <2> QED BY <1>1, <2>1, <2>3, <2>4
      DEF LocalsInv, Words, Base, LengthFrom, BaseFrom, OutOfRange
  <1>5. MovedInv'
    BY SizeAssumption DEF CallHelper, MovedInv, Word
  <1>6. SourceInv'
    BY <1>1, <1>3 DEF RestartInv, SourceInv, OutOfRange, LengthFrom
  <1> QED BY <1>4, <1>5, <1>6

(* The steps that touch neither registers nor memory. *)
LEMMA QuietStep ==
  ASSUME TypeOK, RestartInv,
         RaiseIllegal \/ Retire \/ Fault \/ LeaveRegs \/ HandleTrap \/ UNCHANGED vars
  PROVE  RestartInv'
  <1>1. /\ UNCHANGED <<insn, gpr, mem, helper, pre>>
        /\ restarted => restarted'
    BY DEF RaiseIllegal, Retire, Fault, LeaveRegs, HandleTrap, vars, helper
  <1>2. Partial' /\ (Claimed' => Claimed)
    BY <1>1, PartialStable
  <1>3. SUFFICES ASSUME Claimed
                 PROVE  LocalsInv' /\ MovedInv' /\ SourceInv'
    BY <1>2 DEF RestartInv
  <1>4. InHelper' => InHelper
    BY DEF RaiseIllegal, Retire, Fault, LeaveRegs, HandleTrap, vars, InHelper
  <1>5. LocalsInv'
    BY <1>1, <1>3, <1>4
    DEF RestartInv, LocalsInv, Words, Base, LengthFrom, BaseFrom, OutOfRange, helper
  <1>6. MovedInv'
    BY <1>1, <1>3, <1>4 DEF RestartInv, MovedInv, Base, BaseFrom, Source, helper
  <1>7. SourceInv'
    <2>1. SourceInv
      BY <1>3 DEF RestartInv
    <2>2. stage' = "illegal" => OutOfRange(pre.gpr)
      BY <1>3, <2>1, OperandsAgree
      DEF RaiseIllegal, Retire, Fault, LeaveRegs, HandleTrap, vars, SourceInv
    <2>3. stage' = "retired" => i = Words
      <3>1. CASE Retire
        <4>1. Words \in Word
          BY OperandsType DEF TypeOK, Words
        <4>2. length = Words /\ i <= Words
          BY <1>3, <3>1 DEF Retire, RestartInv, LocalsInv, InHelper
        <4> QED BY <3>1, <4>1, <4>2, SizeAssumption DEF Retire, More, TypeOK, Word
      <3>2. CASE ~ Retire
        BY <3>2, <2>1 DEF RaiseIllegal, Fault, LeaveRegs, HandleTrap, vars, SourceInv
      <3> QED BY <3>1, <3>2
    <2>4. stage' = "fetch" /\ ~ restarted' => stage = "fetch" /\ ~ restarted
      BY DEF RaiseIllegal, Retire, Fault, LeaveRegs, HandleTrap, vars
    <2> QED BY <1>1, <2>1, <2>2, <2>3, <2>4
      DEF SourceInv, OutOfRange, LengthFrom, Words, helper
  <1> QED BY <1>5, <1>6, <1>7

(* Once nothing is claimed of an instruction, nothing is claimed again.    *)
LEMMA UnclaimedStep ==
  ASSUME ~ Claimed, [Next]_vars
  PROVE  RestartInv'
  <1>1. UNCHANGED <<insn, pre>> /\ (restarted => restarted')
    BY DEF Next, vars, RaiseIllegal, CallHelper, LoadWord, StoreWord, SetWord, Retire,
           Fault, LeaveRegs, HandleTrap
  <1>2. ~ Claimed'
    BY <1>1 DEF Claimed, RestartSafe, LengthKept, Loads, Words, LengthFrom
  <1> QED BY <1>2 DEF RestartInv, Partial

(* The restart invariant holds initially.                                  *)
LEMMA RestartInit ==
  ASSUME Init
  PROVE  RestartInv
  <1>1. gpr = pre.gpr /\ mem = pre.mem /\ stage = "fetch"
    BY DEF Init
  <1> QED BY <1>1 DEF RestartInv, Partial, LocalsInv, MovedInv, SourceInv, InHelper

(* The helper's locals, the words moved so far and the registers that are  *)
(* still unread agree with the state before the instruction, through any   *)
(* number of faults and restarts.                                          *)
THEOREM RestartInvariant == Spec => [](TypeOK /\ RestartInv)
  <1>1. Init => TypeOK /\ RestartInv
    BY TypeInit, RestartInit
  <1>2. TypeOK /\ RestartInv /\ [Next]_vars => (TypeOK /\ RestartInv)'
    <2>1. SUFFICES ASSUME TypeOK, RestartInv, [Next]_vars
                   PROVE  TypeOK' /\ RestartInv'
      OBVIOUS
    <2>2. TypeOK'
      BY <2>1, TypeStep
    <2>3. RestartInv'
      <3>1. CASE ~ Claimed
        BY <2>1, <3>1, UnclaimedStep
      <3>2. CASE Claimed
        BY <2>1, <2>2, <3>2, LoadStep, StoreStep, CallStep, QuietStep DEF Next
      <3> QED BY <3>1, <3>2
    <2> QED BY <2>2, <2>3
  <1> QED BY <1>1, <1>2, PTL DEF Spec

(* A register or a word of memory is never seen with a third value.        *)
THEOREM PartialAlways == Spec => []Partial
  <1>1. RestartInv => Partial
    BY DEF RestartInv
  <1> QED BY <1>1, RestartInvariant, PTL

(* A retired instruction has moved exactly its words, restarted or not.    *)
THEOREM RetiredExactAlways == Spec => []RetiredExact
  <1>1. TypeOK /\ RestartInv => RetiredExact
    <2>1. SUFFICES ASSUME TypeOK, RestartInv, stage = "retired", Claimed
                   PROVE  /\ \A r \in Reg : gpr[r] = FinalReg(r)
                          /\ \A k \in Word : Stores(k) => mem[Add(Base, k)] = pre.gpr[Source(k)]
      BY DEF RetiredExact
    <2>2. i = Words /\ MovedInv /\ InHelper /\ SourceInv
      BY <2>1 DEF RestartInv, SourceInv, InHelper
    <2>3. Words \in Word /\ insn.r3 \in Reg
      BY <2>1, OperandsType DEF TypeOK, Words
    <2>4. ASSUME NEW r \in Reg
          PROVE  gpr[r] = FinalReg(r)
      <3>1. CASE Loads(r)
        <4> DEFINE k == r - insn.r3
        <4>1. k \in Word /\ k < Words /\ insn.r3 + k = r
          BY <2>3, <3>1, SizeAssumption DEF Loads, Word, Reg
        <4>2. gpr[insn.r3 + k] = pre.mem[Add(Base, k)]
          BY <2>2, <3>1, <4>1 DEF MovedInv, Loads
        <4> QED BY <3>1, <4>1, <4>2 DEF FinalReg
      <3>2. CASE ~ Loads(r)
        BY <2>1, <3>2 DEF RestartInv, Partial, FinalReg
      <3> QED BY <3>1, <3>2
    <2>5. \A k \in Word : Stores(k) => mem[Add(Base, k)] = pre.gpr[Source(k)]
      BY <2>2 DEF MovedInv, Stores
    <2> QED BY <2>4, <2>5
  <1> QED BY <1>1, RestartInvariant, PTL

-----------------------------------------------------------------------------
(* Refusals.                                                               *)

(* What an instruction is to do stays while it is executed.                *)
LEMMA PlanStable ==
  ASSUME [Next]_vars
  PROVE  /\ UNCHANGED <<insn, pre>>
         /\ (OutOfRange(pre.gpr)' <=> OutOfRange(pre.gpr))
         /\ (LengthKept' <=> LengthKept) /\ Words' = Words
  <1>1. UNCHANGED <<insn, pre>>
    BY DEF Next, vars, RaiseIllegal, CallHelper, LoadWord, StoreWord, SetWord, Retire,
           Fault, LeaveRegs, HandleTrap
  <1> QED BY <1>1 DEF OutOfRange, LengthKept, Loads, Words, LengthFrom

(* The check has the same outcome as before the instruction as long as the *)
(* length register holds what it did.                                      *)
LEMMA CheckAgrees ==
  ASSUME insn.immediate \/ gpr[insn.len] = pre.gpr[insn.len]
  PROVE  LengthFrom(gpr) = Words /\ (OutOfRange(gpr) <=> OutOfRange(pre.gpr))
  BY DEF LengthFrom, Words, OutOfRange

(* Nothing has an effect before the first attempt.                         *)
LEMMA RefusalInit ==
  ASSUME Init
  PROVE  RefusalInv
  <1>1. gpr = pre.gpr /\ mem = pre.mem /\ stage = "fetch"
    BY DEF Init
  <1> QED BY <1>1 DEF RefusalInv

(* A loaded word goes to a register from the first one on, and not to a    *)
(* length register that is kept.                                           *)
LEMMA RefusalLoad ==
  ASSUME TypeOK, RefusalInv, LoadWord
  PROVE  RefusalInv'
  <1> DEFINE r0 == insn.r3 + i
  <1>1. /\ stage = "loop" /\ i < length /\ insn.op = "lwm" /\ r0 < NR
        /\ UNCHANGED <<insn, mem, stage, restarted, pre>> /\ length' = length
        /\ gpr' = [gpr EXCEPT ![r0] = mem[vaddr]]
    BY DEF LoadWord, More, InRegs, NextWord
  <1>2. /\ (OutOfRange(pre.gpr)' <=> OutOfRange(pre.gpr))
        /\ (LengthKept' <=> LengthKept) /\ Words' = Words
    BY PlanStable DEF Next
  <1>3. insn.r3 \in Nat /\ i \in Nat /\ length \in Nat /\ insn.len \in Reg
    <2>1. insn.r3 \in Reg /\ insn.len \in Reg /\ i \in Word /\ length \in Word
      BY OperandsType DEF TypeOK
    <2> QED BY <2>1, SizeAssumption DEF Reg, Word
  <1>4. r0 \in Reg /\ insn.r3 <= r0
    BY <1>1, <1>3, SizeAssumption DEF Reg
  <1>5. ~ OutOfRange(pre.gpr) /\ mem = pre.mem
    BY <1>1 DEF RefusalInv
  <1>6. gpr'[r0] = pre.mem[vaddr] /\ \A r \in Reg : r # r0 => gpr'[r] = gpr[r]
    BY <1>1, <1>4, <1>5 DEF TypeOK
  <1>7. \A r \in Reg : gpr'[r] # pre.gpr[r] =>
           insn.r3 <= r /\ \E a \in Word : gpr'[r] = pre.mem[a]
    BY <1>1, <1>4, <1>6 DEF RefusalInv, TypeOK
  <1>8. LengthKept => length = Words /\ (insn.immediate \/ gpr'[insn.len] = pre.gpr[insn.len])
    <2>1. SUFFICES ASSUME LengthKept, ~ insn.immediate
                   PROVE  length = Words /\ gpr'[insn.len] = pre.gpr[insn.len]
      BY <1>1 DEF RefusalInv
    <2>2. length = Words /\ gpr[insn.len] = pre.gpr[insn.len]
      BY <1>1, <2>1 DEF RefusalInv
    <2>3. r0 < insn.r3 + length
      BY <1>1, <1>3
    <2>4. insn.len # r0
      BY <1>1, <1>4, <2>1, <2>2, <2>3 DEF LengthKept, Loads
    <2> QED BY <1>3, <1>6, <2>2, <2>4
  <1> QED BY <1>1, <1>2, <1>5, <1>7, <1>8 DEF RefusalInv

(* A stored word leaves the registers alone.                               *)
LEMMA RefusalStore ==
  ASSUME RefusalInv, StoreWord \/ SetWord
  PROVE  RefusalInv'
  <1>1. /\ stage = "loop" /\ insn.op # "lwm"
        /\ UNCHANGED <<insn, gpr, stage, restarted, pre>> /\ length' = length
    BY DEF StoreWord, SetWord, NextWord
  <1>2. /\ (OutOfRange(pre.gpr)' <=> OutOfRange(pre.gpr))
        /\ (LengthKept' <=> LengthKept) /\ Words' = Words
    BY PlanStable DEF Next
  <1>3. ~ OutOfRange(pre.gpr)
    BY <1>1 DEF RefusalInv
  <1> QED BY <1>1, <1>2, <1>3 DEF RefusalInv

(* An instruction that is out of range at first never passes the check.    *)
LEMMA RefusalCall ==
  ASSUME RefusalInv, CallHelper
  PROVE  RefusalInv'
  <1>1. /\ stage' = "loop" /\ UNCHANGED <<insn, gpr, mem, restarted, pre>>
        /\ ~ OutOfRange(gpr) /\ length' = LengthFrom(gpr)
    BY DEF CallHelper
  <1>2. /\ (OutOfRange(pre.gpr)' <=> OutOfRange(pre.gpr))
        /\ (LengthKept' <=> LengthKept) /\ Words' = Words
    BY PlanStable DEF Next
  <1>3. ~ OutOfRange(pre.gpr)
    <2>1. SUFFICES ASSUME OutOfRange(pre.gpr)
                   PROVE  FALSE
      OBVIOUS
    <2>2. gpr = pre.gpr
      BY <2>1 DEF RefusalInv
    <2> QED BY <1>1, <2>1, <2>2
  <1>4. LengthKept => LengthFrom(gpr) = Words
    BY CheckAgrees DEF RefusalInv
  <1> QED BY <1>1, <1>2, <1>3, <1>4 DEF RefusalInv

(* The other steps change neither registers nor memory nor the length.     *)
LEMMA RefusalQuiet ==
  ASSUME RefusalInv,
         RaiseIllegal \/ Retire \/ Fault \/ LeaveRegs \/ HandleTrap \/ UNCHANGED vars
  PROVE  RefusalInv'
  <1>1. UNCHANGED <<insn, gpr, mem, length, pre>> /\ (stage' = "loop" => stage = "loop")
    BY DEF RaiseIllegal, Retire, Fault, LeaveRegs, HandleTrap, vars, helper
  <1>2. /\ (OutOfRange(pre.gpr)' <=> OutOfRange(pre.gpr))
        /\ (LengthKept' <=> LengthKept) /\ Words' = Words
    BY PlanStable DEF Next
  <1>3. OutOfRange(pre.gpr) => stage' \in {"fetch", "illegal"}
    BY DEF RefusalInv, RaiseIllegal, Retire, Fault, LeaveRegs, HandleTrap, vars
  <1>4. ~ restarted' /\ stage' \in {"fetch", "illegal"} =>
           ~ restarted /\ stage \in {"fetch", "illegal"}
    BY DEF RaiseIllegal, Retire, Fault, LeaveRegs, HandleTrap, vars
  <1>5. stage' = "illegal" => OutOfRange(gpr)'
    <2>1. OutOfRange(gpr)' <=> OutOfRange(gpr)
      BY <1>1 DEF OutOfRange, LengthFrom
    <2>2. stage' = "illegal" => OutOfRange(gpr)
      BY DEF RefusalInv, RaiseIllegal, Retire, Fault, LeaveRegs, HandleTrap, vars
    <2> QED BY <2>1, <2>2
  <1> QED BY <1>1, <1>2, <1>3, <1>4, <1>5 DEF RefusalInv

(* Only a load changes registers, only from its first one on and only to   *)
(* words of memory; a length register that is not loaded is kept; and what *)
(* was out of range before it began is refused at once, for all            *)
(* instructions and any number of faults.                                  *)
THEOREM RefusalInvariant == Spec => []RefusalInv
  <1>1. Init => RefusalInv
    BY RefusalInit
  <1>2. TypeOK /\ RefusalInv /\ [Next]_vars => RefusalInv'
    BY RefusalLoad, RefusalStore, RefusalCall, RefusalQuiet DEF Next
  <1> QED BY <1>1, <1>2, TypeCorrect, PTL DEF Spec

(* An instruction that is refused after it has had an effect is a load, in *)
(* range at first, that was restarted with a word of memory in its length  *)
(* register; it has changed nothing before its first register and nothing  *)
(* in memory.  Every other instruction is refused before it has any effect *)
(* or never.                                                               *)
THEOREM RefusedAfterEffectAlways == Spec => []RefusedAfterEffect
  <1>1. TypeOK /\ RefusalInv => RefusedAfterEffect
    <2>1. SUFFICES ASSUME TypeOK, RefusalInv, stage = "illegal",
                          gpr # pre.gpr \/ mem # pre.mem
                   PROVE  /\ restarted /\ ~ OutOfRange(pre.gpr)
                          /\ ~ LengthKept /\ \E a \in Word : gpr[insn.len] = pre.mem[a]
                          /\ \A r \in Reg : r < insn.r3 => gpr[r] = pre.gpr[r]
                          /\ mem = pre.mem
      BY DEF RefusedAfterEffect
    <2>2. restarted /\ ~ OutOfRange(pre.gpr) /\ OutOfRange(gpr)
      BY <2>1 DEF RefusalInv, TypeOK
    <2>3. ~ insn.immediate /\ gpr[insn.len] # pre.gpr[insn.len]
      BY <2>2, CheckAgrees
    <2>4. ~ LengthKept
      BY <2>1, <2>3 DEF RefusalInv
    <2>5. insn.op = "lwm"
      BY <2>4 DEF LengthKept, Loads
    <2>6. insn.len \in Reg /\ insn.r3 \in Nat /\ \A r \in Reg : r \in Nat
      BY <2>1, OperandsType, SizeAssumption DEF TypeOK, Reg
    <2>7. \E a \in Word : gpr[insn.len] = pre.mem[a]
      BY <2>1, <2>3, <2>5, <2>6 DEF RefusalInv
    <2>8. ASSUME NEW r \in Reg, r < insn.r3
          PROVE  gpr[r] = pre.gpr[r]
      <3>1. ~ (insn.r3 <= r)
        BY <2>6, <2>8
      <3> QED BY <2>1, <2>5, <3>1 DEF RefusalInv
    <2> QED BY <2>1, <2>2, <2>4, <2>5, <2>7, <2>8 DEF RefusalInv
  <1> QED BY <1>1, TypeCorrect, RefusalInvariant, PTL
=============================================================================
