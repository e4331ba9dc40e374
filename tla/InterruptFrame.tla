--------------------------- MODULE InterruptFrame ---------------------------
(***************************************************************************)
(* Interrupt entry and exit of xqciu_tcg_manual.c.inc: qc.c.mienter,       *)
(* qc.c.mienter.nest and qc.c.mileaveret, which save the registers that a  *)
(* handler may use in a frame on the stack and restore them, one memory    *)
(* access after the other.                                                 *)
(*                                                                         *)
(* Any access may fault; the guest's trap handler then runs and the        *)
(* instruction is executed again from its beginning.  After a nesting      *)
(* entry further interrupts come at any time in the handler.               *)
(*                                                                         *)
(* Memory is addressed in words: slot k of a frame is what the code calls  *)
(* vaddr - 4 * k, and gpr[2] moves by Frame (96 bytes in the code).        *)
(***************************************************************************)
EXTENDS Naturals, Sequences

CONSTANTS
  Saved,      \* the registers in a frame, apart from x8
  Fp,         \* x8
  RetPc, Cause, Zero,   \* what else has a slot in a frame
  Slots,      \* number of slots in use
  Layout,     \* the content of each slot, in the order of the stores
  Frame,      \* words that gpr[2] moves by
  Top,        \* the highest word: an address or a value
  MieBit,     \* the MIE bit of qc.mcause, above all causes
  CauseCode,  \* causes of interrupts
  FaultCode,  \* cause of a fault
  Junk,       \* what a handler leaves in registers and in its part of the stack
  InitReg,    \* register contents of the interrupted program
  InitSp,     \* its stack pointer
  InitMapped, \* the addresses that are mapped at first
  MaxLevel    \* bound on nested interrupts

Reg == Saved \cup {Fp}
Word == 0 .. Top
Slot == 1 .. Slots

(* The code's layout has the return address first, then x8, mcause and the *)
(* other registers, with one word that is always 0.                        *)
ASSUME LayoutAssumption ==
  /\ Slots \in Nat /\ Frame \in Nat /\ 5 <= Slots /\ Slots <= Frame
  /\ Fp \notin Saved
  /\ {RetPc, Cause, Zero} \cap Reg = {} /\ RetPc # Cause /\ RetPc # Zero /\ Cause # Zero
  /\ Layout \in [Slot -> Reg \cup {RetPc, Cause, Zero}]
  /\ Layout[1] = RetPc /\ Layout[2] = Fp /\ Layout[3] = Cause
  /\ \A r \in Reg : \E k \in Slot : Layout[k] = r
  /\ \A j, k \in Slot : Layout[j] = Layout[k] => j = k

ASSUME ValueAssumption ==
  /\ Top \in Nat /\ InitSp \in Word
  /\ MieBit \in Nat /\ 2 * MieBit <= Top
  /\ CauseCode \subseteq 0 .. (MieBit - 1) /\ FaultCode \in 0 .. (MieBit - 1)
  /\ Junk \subseteq Word
  /\ InitReg \subseteq [Reg -> Word]
  /\ InitMapped \subseteq SUBSET Word
  /\ MaxLevel \in Nat

VARIABLES
  reg, sp,     \* gpr, and gpr[2]
  mem, mapped, \* memory, and the addresses that can be accessed
  mie,         \* mstatus.MIE
  mcause,      \* mcause
  qc,          \* qc_mcause
  stage,       \* "run", "vector", "enter", "leave", "trapped"
  nest,        \* the entry is a nesting one
  k,           \* the slot to be accessed next
  cause,       \* the local mcause of an entry, qc_mcause_val of an exit
  qcval,       \* the local qc_mcause_val of a nesting entry
  resume,      \* where a trapped instruction is executed again
  saved        \* the interrupted contexts, innermost last

locals == <<k, cause, qcval>>
vars == <<reg, sp, mem, mapped, mie, mcause, qc, stage, nest, locals, resume, saved>>

Level == Len(saved)
Context == saved[Level]

(* Seeded fault: bits are added instead of or-ed. *)
AddMie(v) == v + MieBit

(* v | (1 << 26) *)
SetMie(v) == IF v < MieBit THEN v + MieBit ELSE v

(* Seeded fault: gpr[2] moves by less than what is stored. *)
BelowPartOfFrame(s) == s - (Slots - 1)

BelowFrame(s) == s - Frame

Init ==
  /\ reg \in InitReg
  /\ sp = InitSp
  /\ mem = [a \in Word |-> 0]
  /\ mapped \in InitMapped
  /\ mie = TRUE
  /\ mcause = 0
  /\ qc = 0
  /\ stage = "run"
  /\ nest = FALSE
  /\ k = 1 /\ cause = 0 /\ qcval = 0
  /\ resume = "vector"
  /\ saved = <<>>

-----------------------------------------------------------------------------
(* External: interrupts, handlers and the trap handler of the guest.       *)

(* An interrupt is taken between two instructions.  The bound is that the  *)
(* stack has room for another frame; the code does not check that.         *)
Interrupt ==
  /\ stage = "run" /\ mie
  /\ Level < MaxLevel /\ Frame <= sp
  /\ mcause' \in CauseCode
  /\ mie' = FALSE
  /\ nest' \in BOOLEAN
  /\ stage' = "vector"
  /\ saved' = Append(saved, [reg |-> reg, sp |-> sp, qc |-> qc])
  /\ UNCHANGED <<reg, sp, mem, mapped, qc, locals, resume>>

(* A handler uses the registers as it likes. *)
HandlerComputes ==
  /\ stage = "run" /\ Level > 0
  /\ \E r \in Reg, v \in Junk : reg' = [reg EXCEPT ![r] = v]
  /\ UNCHANGED <<sp, mem, mapped, mie, mcause, qc, stage, nest, locals, resume, saved>>

(* It keeps data of its own on the stack, below its frame. *)
HandlerPushes ==
  /\ stage = "run" /\ Level > 0
  /\ sp = BelowFrame(Context.sp) /\ 0 < sp
  /\ sp' = sp - 1
  /\ \E v \in Junk : mem' = [mem EXCEPT ![sp - 1] = v]
  /\ UNCHANGED <<reg, mapped, mie, mcause, qc, stage, nest, locals, resume, saved>>

HandlerPops ==
  /\ stage = "run" /\ Level > 0
  /\ sp < BelowFrame(Context.sp)
  /\ sp' = BelowFrame(Context.sp)
  /\ UNCHANGED <<reg, mem, mapped, mie, mcause, qc, stage, nest, locals, resume, saved>>

(* The handler's own return, or its early csrsi mstatus, MIE. *)
EnableInterrupts ==
  /\ stage = "run" /\ ~ mie
  /\ mie' = TRUE
  /\ UNCHANGED <<reg, sp, mem, mapped, mcause, qc, stage, nest, locals, resume, saved>>

(* The trap handler maps the page and returns to the instruction. *)
HandleTrap(a) ==
  /\ stage = "trapped"
  /\ mapped' = mapped \cup {a}
  /\ stage' = resume
  /\ UNCHANGED <<reg, sp, mem, mie, mcause, qc, nest, locals, resume, saved>>

(* Taking the trap sets mcause. *)
FaultAt(a, again) ==
  /\ a \notin mapped
  /\ stage' = "trapped"
  /\ resume' = again
  /\ mcause' = FaultCode
  /\ UNCHANGED <<reg, sp, mem, mapped, mie, qc, nest, locals, saved>>

-----------------------------------------------------------------------------
(* mienter_copy_cpustate and the entries.                                  *)

(* Seeded fault: gpr[8] is set before the frame is stored. *)
EnterSettingFp ==
  /\ stage = "vector"
  /\ k' = 2
  /\ cause' = mcause
  /\ qcval' = qc
  /\ reg' = [reg EXCEPT ![Fp] = sp]
  /\ stage' = "enter"
  /\ UNCHANGED <<sp, mem, mapped, mie, mcause, qc, nest, resume, saved>>

Enter ==
  /\ stage = "vector"
  /\ k' = 2
  /\ cause' = mcause
  /\ qcval' = qc
  /\ stage' = "enter"
  /\ UNCHANGED <<reg, sp, mem, mapped, mie, mcause, qc, nest, resume, saved>>

Stored(c) == IF c \in Reg THEN reg[c] ELSE IF c = Cause THEN cause ELSE 0

StoreSlot ==
  /\ stage = "enter" /\ k \in Slot
  /\ sp - k \in mapped
  /\ mem' = [mem EXCEPT ![sp - k] = Stored(Layout[k])]
  /\ k' = k + 1
  /\ UNCHANGED <<reg, sp, mapped, mie, mcause, qc, stage, nest, cause, qcval, resume, saved>>

StoreFault == stage = "enter" /\ k \in Slot /\ FaultAt(sp - k, "vector")

FinishEnter ==
  /\ stage = "enter" /\ k \notin Slot
  /\ reg' = [reg EXCEPT ![Fp] = sp]
  /\ sp' = BelowFrame(sp)
  /\ IF nest
     THEN mie' = TRUE /\ qc' = SetMie(qcval)
     ELSE UNCHANGED <<mie, qc>>
  /\ stage' = "run"
  /\ UNCHANGED <<mem, mapped, mcause, nest, locals, resume, saved>>

-----------------------------------------------------------------------------
(* HELPER(xqci_mileaveret).                                                *)

(* vaddr *)
FrameTop == sp + Frame

(* The handler must have given back its own part of the stack.  Exit is    *)
(* executed again as long as its accesses fault.                           *)
Leave ==
  /\ \/ stage = "run" /\ Level > 0 /\ sp = BelowFrame(Context.sp)
     \/ stage = "again"
  /\ k' = 1
  /\ stage' = "leave"
  /\ UNCHANGED <<reg, sp, mem, mapped, mie, mcause, qc, nest, cause, qcval, resume, saved>>

(* Slot 3 is read before slot 2, and the word that is always 0 is not read *)
(* at all.                                                                 *)
Loading == IF k = 2 THEN 3 ELSE IF k = 3 THEN 2 ELSE k

(* Seeded fault: the loads make no progress. *)
SameLoad == k' = k

(* Seeded fault: the register after the word that is not read is left out. *)
NextLoadTooFar == k' = IF k + 1 \in Slot /\ Layout[k + 1] = Zero THEN k + 3 ELSE k + 1

NextLoad == k' = IF k + 1 \in Slot /\ Layout[k + 1] = Zero THEN k + 2 ELSE k + 1

(* qc_mcause is written together with gpr[8]. *)
LoadSlot ==
  /\ stage = "leave" /\ k \in Slot
  /\ FrameTop - Loading \in mapped
  /\ LET c == Layout[Loading]
         v == mem[FrameTop - Loading]
     IN /\ reg' = IF c \in Reg THEN [reg EXCEPT ![c] = v] ELSE reg
        /\ cause' = IF c = Cause THEN v ELSE cause
        /\ qc' = IF c = Fp THEN cause ELSE qc
  /\ NextLoad
  /\ UNCHANGED <<sp, mem, mapped, mie, mcause, stage, nest, qcval, resume, saved>>

LoadFault == stage = "leave" /\ k \in Slot /\ FaultAt(FrameTop - Loading, "again")

(* MIE, the privilege mode and the pc are not restored by the code. *)
FinishLeave ==
  /\ stage = "leave" /\ k \notin Slot
  /\ sp' = FrameTop
  /\ saved' = SubSeq(saved, 1, Level - 1)
  /\ stage' = "run"
  /\ UNCHANGED <<reg, mem, mapped, mie, mcause, qc, nest, locals, resume>>

-----------------------------------------------------------------------------
(* The address a trapped instruction could not access. *)
FaultAddress == IF resume = "vector" THEN sp - k ELSE FrameTop - Loading

Helper ==
  \/ Enter \/ StoreSlot \/ StoreFault \/ FinishEnter
  \/ Leave \/ LoadSlot \/ LoadFault \/ FinishLeave

Guest ==
  \/ Interrupt \/ EnableInterrupts
  \/ HandlerComputes \/ HandlerPushes \/ HandlerPops

Next == Helper \/ HandleTrap(FaultAddress) \/ Guest

(* An instruction that has begun goes on, and a trap handler comes to its  *)
(* end; nothing else is forced to happen.                                  *)
Progress == stage # "run" /\ (Helper \/ HandleTrap(FaultAddress))

Spec == Init /\ [][Next]_vars /\ WF_vars(Progress)

-----------------------------------------------------------------------------
(* Type invariant. *)
TypeOK ==
  /\ reg \in [Reg -> Word] /\ sp \in Word
  /\ mem \in [Word -> Word] /\ mapped \in SUBSET Word
  /\ mie \in BOOLEAN /\ nest \in BOOLEAN
  /\ mcause \in Word /\ cause \in Word
  /\ qc \in Word /\ qcval \in Word
  /\ stage \in {"run", "vector", "enter", "leave", "again", "trapped"}
  /\ resume \in {"vector", "again"}
  /\ k \in 1 .. (Slots + 2)
  /\ saved \in Seq([reg : [Reg -> Word], sp : Word, qc : Word])
  /\ Level <= MaxLevel

(* A frame is being made: the innermost context has none yet. *)
Entering == stage \in {"vector", "enter"} \/ (stage = "trapped" /\ resume = "vector")
Leaving == stage \in {"leave", "again"} \/ (stage = "trapped" /\ resume = "again")

Complete == IF Entering THEN Level - 1 ELSE Level

(* As long as an interrupted context has not been resumed, its frame holds *)
(* its registers: neither a handler nor the frame of a nested interrupt    *)
(* gets in the way.                                                        *)
FramesIntact ==
  \A n \in 1 .. Complete : \A j \in Slot :
    Layout[j] \in Reg => mem[saved[n].sp - j] = saved[n].reg[Layout[j]]

(* An entry that is under way, perhaps after faults, has changed no        *)
(* register, so it can be executed again.                                  *)
EnterRestartable == Entering => reg = Context.reg /\ sp = Context.sp

(* Why that is so.  The frames lie below each other, and gpr[2] below the  *)
(* last one that is complete, except when a frame is being made.           *)
StackInv ==
  /\ Entering \/ Leaving => 0 < Level
  /\ \A n \in 1 .. Level : Frame <= saved[n].sp
  /\ \A m, n \in 1 .. Level : m < n => saved[n].sp <= BelowFrame(saved[m].sp)
  /\ stage = "run" /\ 0 < Level => sp <= BelowFrame(Context.sp)
  /\ Leaving => sp = BelowFrame(Context.sp)
  /\ stage = "trapped" => FaultAddress \in Word

(* The slots before k are filled when a frame is being made. *)
StoredInv ==
  stage = "enter" =>
    /\ 1 < k
    /\ \A j \in Slot : 1 < j /\ j < k /\ Layout[j] \in Reg => mem[sp - j] = reg[Layout[j]]

(* The slots that were read before the k-th load: 3 comes before 2. *)
Read(j) == IF j = 2 THEN 3 < k ELSE IF j = 3 THEN 2 < k ELSE j < k

LoadedInv ==
  stage = "leave" =>
    \A j \in Slot : Read(j) /\ Layout[j] \in Reg => reg[Layout[j]] = mem[FrameTop - j]

FrameInv == StackInv /\ StoredInv /\ LoadedInv /\ FramesIntact /\ EnterRestartable

(* When the exit is done, the registers and the stack pointer are those of *)
(* the interrupted context.                                                *)
LeaveRestores ==
  [][Level' < Level => reg' = Context.reg /\ sp' = Context.sp]_vars

(* Entry and exit come to an end, whatever they fault on. *)
HelperEnds == (stage # "run") ~> (stage = "run")

(* "write_memory<32>(virtual_address - 12, qc_mcause_val)": a frame holds  *)
(* the qc.mcause of the interrupted context.                               *)
FramesHoldQcMcause ==
  \A n \in 1 .. Complete : mem[saved[n].sp - 3] = saved[n].qc
=============================================================================
