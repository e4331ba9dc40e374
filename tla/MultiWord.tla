----------------------------- MODULE MultiWord -----------------------------
(***************************************************************************)
(* The multi-word loads and stores of xqciu_tcg_manual.c.inc: qc.lwm(i),   *)
(* qc.swm(i) and qc.setwm(i), from the translation of the instruction      *)
(* (emit_qc_*, which reads the registers) through the helper's loop.       *)
(*                                                                         *)
(* A helper touches guest memory one word at a time and any access may     *)
(* fault: the emulator then leaves the helper, the guest's trap handler    *)
(* runs, and the instruction is executed again from its beginning, with    *)
(* the registers as the helper left them.  What a load has written to      *)
(* registers stays written.                                                *)
(*                                                                         *)
(* Memory is addressed in words, so the code's `vaddr += 4' adds one, and  *)
(* a page is one word.                                                     *)
(***************************************************************************)
EXTENDS Naturals

CONSTANTS
  Size,       \* number of values of target_ulong
  NR,         \* number of registers
  Imm,        \* the immediates added to rs1
  InitGpr,    \* register contents before the instruction
  InitMem,    \* memory contents before the instruction
  InitMapped  \* the addresses that are mapped before the instruction

Word == 0 .. (Size - 1)
Reg == 0 .. (NR - 1)

ASSUME SizeAssumption ==
  /\ NR \in Nat /\ Size \in Nat
  /\ 0 < NR /\ NR < Size
  /\ Imm \subseteq Word
  /\ InitGpr \subseteq {g \in [Reg -> Word] : g[0] = 0}
  /\ InitMem \subseteq [Word -> Word]
  /\ InitMapped \subseteq SUBSET Word

VARIABLES
  insn,       \* the instruction
  gpr, mem,   \* the guest's registers and memory
  mapped,     \* addresses that can be accessed
  stage,      \* "fetch", "loop", "trapped", "retired", "illegal", "undefined"
  vaddr, length, value, i,   \* arguments and locals of the helper
  restarted,  \* an access has faulted
  pre         \* registers and memory before the instruction

vars == <<insn, gpr, mem, mapped, stage, vaddr, length, value, i, restarted, pre>>
helper == <<vaddr, length, value, i>>

-----------------------------------------------------------------------------
(* r3 is rd of a load.  len is the register rs2 or an immediate; rd and    *)
(* rs3 of swm are not 0, nor are rs2 and an immediate length.              *)
Instruction ==
  {n \in [op : {"lwm", "swm", "setwm"}, rs1 : Reg, r3 : Reg, imm : Imm,
          immediate : BOOLEAN, len : Reg \ {0}] :
     n.op = "setwm" \/ n.r3 # 0}

(* Seeded fault: the sum is as wide as it needs to be. *)
AddWide(a, b) == a + b

(* Sum of two target_ulong. *)
Add(a, b) == IF a + b < Size THEN a + b ELSE (a + b) - Size

LengthFrom(g) == IF insn.immediate THEN insn.len ELSE g[insn.len]
BaseFrom(g) == Add(g[insn.rs1], insn.imm)

(* The helper's check; setwm has none. *)
OutOfRange(g) == insn.op # "setwm" /\ Add(insn.r3, LengthFrom(g)) > NR

Init ==
  /\ insn \in Instruction
  /\ gpr \in InitGpr
  /\ mem \in InitMem
  /\ mapped \in InitMapped
  /\ stage = "fetch"
  /\ vaddr = 0 /\ length = 0 /\ value = 0 /\ i = 0
  /\ restarted = FALSE
  /\ pre = [gpr |-> gpr, mem |-> mem]

(* riscv_raise_exception(env, RISCV_EXCP_ILLEGAL_INST, ...) *)
RaiseIllegal ==
  /\ stage = "fetch"
  /\ OutOfRange(gpr)
  /\ stage' = "illegal"
  /\ UNCHANGED <<insn, gpr, mem, mapped, helper, restarted, pre>>

(* Seeded fault: the loop goes on with the index where it was left. *)
CallHelperResuming ==
  /\ stage = "fetch"
  /\ ~ OutOfRange(gpr)
  /\ vaddr' = BaseFrom(gpr)
  /\ length' = LengthFrom(gpr)
  /\ value' = gpr[insn.r3]
  /\ stage' = "loop"
  /\ UNCHANGED <<insn, gpr, mem, mapped, i, restarted, pre>>

CallHelper ==
  /\ stage = "fetch"
  /\ ~ OutOfRange(gpr)
  /\ vaddr' = BaseFrom(gpr)
  /\ length' = LengthFrom(gpr)
  /\ value' = gpr[insn.r3]
  /\ i' = 0
  /\ stage' = "loop"
  /\ UNCHANGED <<insn, gpr, mem, mapped, restarted, pre>>

(* Seeded fault: off by one. *)
MoreButOne == i + 1 < length

(* i < length *)
More == i < length

(* Seeded fault: the loop variable stays. *)
NextWordNotCounted == vaddr' = Add(vaddr, 1) /\ UNCHANGED <<length, value, i>>

NextWord ==
  /\ vaddr' = Add(vaddr, 1)
  /\ i' = i + 1
  /\ UNCHANGED <<length, value>>

(* rs3 + i or rd + i is a register. *)
InRegs == insn.r3 + i < NR

LoadWord ==
  /\ stage = "loop" /\ insn.op = "lwm"
  /\ More /\ InRegs
  /\ vaddr \in mapped
  /\ gpr' = [gpr EXCEPT ![insn.r3 + i] = mem[vaddr]]
  /\ NextWord
  /\ UNCHANGED <<insn, mem, mapped, stage, restarted, pre>>

StoreWord ==
  /\ stage = "loop" /\ insn.op = "swm"
  /\ More /\ InRegs
  /\ vaddr \in mapped
  /\ mem' = [mem EXCEPT ![vaddr] = gpr[insn.r3 + i]]
  /\ NextWord
  /\ UNCHANGED <<insn, gpr, mapped, stage, restarted, pre>>

SetWord ==
  /\ stage = "loop" /\ insn.op = "setwm"
  /\ More
  /\ vaddr \in mapped
  /\ mem' = [mem EXCEPT ![vaddr] = value]
  /\ NextWord
  /\ UNCHANGED <<insn, gpr, mapped, stage, restarted, pre>>

Retire ==
  /\ stage = "loop"
  /\ ~ More
  /\ stage' = "retired"
  /\ UNCHANGED <<insn, gpr, mem, mapped, helper, restarted, pre>>

(* The access faults and the emulator leaves the helper. *)
Fault ==
  /\ stage = "loop"
  /\ More
  /\ vaddr \notin mapped
  /\ stage' = "trapped"
  /\ UNCHANGED <<insn, gpr, mem, mapped, helper, restarted, pre>>

(* Seeded fault: the range is checked at the register that is out of it. *)
RefuseLate ==
  /\ stage = "loop" /\ insn.op # "setwm"
  /\ More /\ ~ InRegs
  /\ vaddr \in mapped
  /\ stage' = "illegal"
  /\ UNCHANGED <<insn, gpr, mem, mapped, helper, restarted, pre>>

(* The sum of the check was reduced modulo Size and the loop has reached a *)
(* place outside of env->gpr: what happens is not modelled any further.    *)
LeaveRegs ==
  /\ stage = "loop" /\ insn.op # "setwm"
  /\ More /\ ~ InRegs
  /\ vaddr \in mapped
  /\ stage' = "undefined"
  /\ UNCHANGED <<insn, gpr, mem, mapped, helper, restarted, pre>>

(* External: the guest's handler maps the page, leaves the registers and   *)
(* the memory alone and returns to the instruction.                        *)
HandleTrap ==
  /\ stage = "trapped"
  /\ mapped' = mapped \cup {vaddr}
  /\ restarted' = TRUE
  /\ stage' = "fetch"
  /\ UNCHANGED <<insn, gpr, mem, helper, pre>>

Next ==
  \/ RaiseIllegal \/ CallHelper
  \/ LoadWord \/ StoreWord \/ SetWord \/ Retire
  \/ Fault \/ LeaveRegs \/ HandleTrap

(* One virtual processor, whose trap handler always comes to its end. *)
Spec == Init /\ [][Next]_vars /\ WF_vars(Next)

-----------------------------------------------------------------------------
(* Type invariant. *)
TypeOK ==
  /\ insn \in Instruction
  /\ gpr \in [Reg -> Word] /\ mem \in [Word -> Word]
  /\ mapped \in SUBSET Word
  /\ stage \in {"fetch", "loop", "trapped", "retired", "illegal", "undefined"}
  /\ vaddr \in Word /\ length \in Word /\ value \in Word /\ i \in Word
  /\ restarted \in BOOLEAN
  /\ pre \in [gpr : [Reg -> Word], mem : [Word -> Word]]

(* What the instruction has to do, from the state before it. *)
Words == LengthFrom(pre.gpr)
Base == BaseFrom(pre.gpr)
Loads(r) == insn.op = "lwm" /\ insn.r3 <= r /\ r < insn.r3 + Words
FinalReg(r) == IF Loads(r) THEN pre.mem[Add(Base, r - insn.r3)] ELSE pre.gpr[r]

Stores(k) == insn.op # "lwm" /\ k < Words
Source(k) == IF insn.op = "setwm" THEN insn.r3 ELSE insn.r3 + k

(* A load that overwrites its own base or length register cannot be        *)
(* executed again: after a fault it may go to other addresses or to other  *)
(* registers, and Partial and RetiredExact claim nothing of it.            *)
LengthKept == insn.immediate \/ ~ Loads(insn.len)
RestartSafe == ~ Loads(insn.rs1) /\ LengthKept
Claimed == RestartSafe \/ ~ restarted

(* At any time, also in the trap handler and after a restart, a register   *)
(* has its old value or the one it must end with, and so has each word of  *)
(* memory; what the instruction does not name is never touched.            *)
Partial ==
  Claimed =>
    /\ \A r \in Reg : gpr[r] \in {pre.gpr[r], FinalReg(r)}
    /\ \A k \in Word : Stores(k) /\ Source(k) \in Reg =>
          mem[Add(Base, k)] \in {pre.mem[Add(Base, k)], pre.gpr[Source(k)]}
    /\ \A a \in Word : mem[a] # pre.mem[a] => \E k \in Word : Stores(k) /\ a = Add(Base, k)

(* Why that is so.  The helper's locals agree with the state before the    *)
(* instruction, the words before the index have been moved, and the kind   *)
(* of instruction decides what can have changed.                           *)
InHelper == stage \in {"loop", "trapped", "retired"}

LocalsInv ==
  InHelper =>
    /\ ~ OutOfRange(pre.gpr)
    /\ length = Words /\ i <= Words /\ vaddr = Add(Base, i)
    /\ insn.op = "setwm" => value = pre.gpr[insn.r3]

MovedInv ==
  InHelper =>
    \A k \in Word : k < i =>
      IF insn.op = "lwm"
      THEN insn.r3 + k < NR /\ gpr[insn.r3 + k] = pre.mem[Add(Base, k)]
      ELSE Source(k) < NR /\ mem[Add(Base, k)] = pre.gpr[Source(k)]

SourceInv ==
  /\ insn.op = "lwm" => mem = pre.mem
  /\ insn.op # "lwm" => gpr = pre.gpr
  /\ OutOfRange(pre.gpr) => gpr = pre.gpr /\ mem = pre.mem
  /\ stage = "fetch" /\ ~ restarted => gpr = pre.gpr
  /\ stage = "illegal" => OutOfRange(pre.gpr)
  /\ stage = "retired" => i = Words

RestartInv == Partial /\ (Claimed => LocalsInv /\ MovedInv /\ SourceInv)

(* However often it was restarted, a retired instruction has moved all its *)
(* words, each to its place and with the value from before the             *)
(* instruction.                                                            *)
RetiredExact ==
  stage = "retired" /\ Claimed =>
    /\ \A r \in Reg : gpr[r] = FinalReg(r)
    /\ \A k \in Word : Stores(k) => mem[Add(Base, k)] = pre.gpr[Source(k)]

(* The range is checked again at every restart, with the length register   *)
(* as it is by then, so an instruction may be refused after it has had an  *)
(* effect.  That happens to a load by register only, which was in range at *)
(* first, whose length register is one of those it loads and now holds a   *)
(* word of memory; no register before the first one and no word of memory  *)
(* has changed.  Every other instruction, a load that has overwritten its  *)
(* base register included, is refused before it has any effect or never.   *)
RefusedAfterEffect ==
  stage = "illegal" /\ (gpr # pre.gpr \/ mem # pre.mem) =>
    /\ restarted /\ ~ OutOfRange(pre.gpr)
    /\ ~ LengthKept /\ \E a \in Word : gpr[insn.len] = pre.mem[a]
    /\ \A r \in Reg : r < insn.r3 => gpr[r] = pre.gpr[r]
    /\ mem = pre.mem

(* Why that is so, for all instructions and however often they fault: a    *)
(* length that is not loaded stays, and so does the outcome of the check.  *)
RefusalInv ==
  /\ insn.op = "lwm" =>
       /\ mem = pre.mem
       /\ \A r \in Reg : gpr[r] # pre.gpr[r] => insn.r3 <= r /\ \E a \in Word : gpr[r] = pre.mem[a]
  /\ insn.op # "lwm" => gpr = pre.gpr
  /\ OutOfRange(pre.gpr) \/ (~ restarted /\ stage \in {"fetch", "illegal"}) =>
       gpr = pre.gpr /\ mem = pre.mem
  /\ OutOfRange(pre.gpr) => stage \in {"fetch", "illegal"}
  /\ LengthKept => /\ insn.immediate \/ gpr[insn.len] = pre.gpr[insn.len]
                   /\ stage = "loop" => length = Words
  /\ stage = "illegal" => OutOfRange(gpr)

(* The instruction is not restarted for ever, although a restarted load    *)
(* may go to other addresses than before.                                  *)
Completes == <>(stage \in {"retired", "illegal", "undefined"})

(* "The number of words is in rs2 bits [4:0]": a register length counts    *)
(* modulo the number of registers.                                         *)
WordsFromLowBits == stage = "retired" /\ Claimed => i = Words % NR
=============================================================================
