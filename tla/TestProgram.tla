------------------------------ MODULE TestProgram ------------------------------
(***************************************************************************)
(* assemble.py: one ELF per entry of the io file. An item of the text is   *)
(* one instruction, or the two of li, or the three of an exit.             *)
(***************************************************************************)
EXTENDS KleeHarness, SequencesExt

VARIABLES
  stage,  \* what the script writes next
  t,      \* index of the entry
  todo,   \* addresses of the entry still to be written
  v,      \* index of the variable
  args,   \* the operands of the instruction
  text    \* the items, in the order of their addresses

pvars == <<stage, t, todo, v, args, text>>

ExpectedReg == 8
DstReg == 9
AddressReg == 10

TestInit ==
  /\ stage = "klee"
  /\ t = 0 /\ v = 0
  /\ todo = {}
  /\ args = <<>> /\ text = <<>>

-----------------------------------------------------------------------------
Item(op, size, r, n) == [op |-> op, size |-> size, r |-> r, n |-> n]
LoadReg(r, n) == Item("li", 8, r, n)
StoreWord == Item("sw", 4, DstReg, 0)
LoadWord == Item("lw", 4, DstReg, 0)
SkipIfExpected(off) == Item("beq", 4, 0, off)
JumpOver(off) == Item("j", 4, 0, off)
Exit(code) == Item("exit", 12, 0, code)

Emit(s) == text' = text \o s

(* Seeded fault: the branch leads to the exit it should skip. *)
CheckResultShort(n) == <<LoadReg(ExpectedReg, n), SkipIfExpected(12), Exit(255)>>

CheckResult(n) == <<LoadReg(ExpectedReg, n), SkipIfExpected(16), Exit(255)>>
CheckBranchAndResult(n) == <<JumpOver(16)>> \o CheckResult(n)
CheckBranch == <<JumpOver(8), JumpOver(16), Exit(255)>>

Entry == tests[t]
Outputs == {w \in Vars : inst.vars[w].role = "rd"}

(* Seeded fault: an expected result of 0 counts as none. *)
HasNonzeroExpected(e) == \E w \in Outputs : e.x[w] # 0

(* expected_result is not None: it is the last `out'. *)
HasExpected(e) == Outputs # {}
Expected(e) == LET w == CHOOSE w \in Outputs : \A z \in Outputs : z <= w IN e.x[w]

(* No access of the entry was in the data. *)
SkippedMemory(e) == (e.load \/ e.store) /\ ~ e.memop

Skipped(e) == (e.jump /\ ~ e.valid) \/ SkippedMemory(e)

-----------------------------------------------------------------------------
io == <<inst, path, tests>>

NextTest ==
  /\ stage = "tests" /\ t \in DOMAIN tests
  /\ text' = <<>> /\ args' = <<>>
  /\ IF Skipped(Entry)
     THEN t' = t + 1 /\ UNCHANGED <<stage, todo>>
     ELSE /\ stage' = "loads"
          /\ todo' = DOMAIN Entry.rmem
          /\ UNCHANGED t
  /\ UNCHANGED v /\ UNCHANGED io

(* The loads in the order of the unordered_map. *)
EmitLoad ==
  /\ stage = "loads"
  /\ \E a \in todo :
       /\ Emit(<<LoadReg(AddressReg, a), LoadReg(DstReg, Entry.rmem[a]), StoreWord>>)
       /\ todo' = todo \ {a}
  /\ UNCHANGED <<stage, t, v, args>> /\ UNCHANGED io

EndLoads ==
  /\ stage = "loads" /\ todo = {}
  /\ stage' = "variables"
  /\ v' = 1
  /\ UNCHANGED <<t, todo, args, text>> /\ UNCHANGED io

(* Seeded fault: the first variable is loaded into the register of the     *)
(* result.                                                                 *)
InputRegTooLow(w) == IF w \in Outputs THEN DstReg ELSE DstReg + w - 1

(* dst_reg + 1 + i, where i counts from 0 *)
InputReg(w) == IF w \in Outputs THEN DstReg ELSE DstReg + w

EmitVariable ==
  /\ stage = "variables" /\ v \in Vars
  /\ IF inst.vars[v].role = "imm"
     THEN args' = Append(args, [kind |-> "i", n |-> Entry.in[v]]) /\ UNCHANGED text
     ELSE /\ Emit(<<LoadReg(InputReg(v), Entry.in[v])>>)
          /\ args' = Append(args, [kind |-> "r",
                                   n |-> InputReg(v) - (IF inst.vars[v].compressed THEN 8 ELSE 0)])
  /\ v' = v + 1
  /\ UNCHANGED <<stage, t, todo>> /\ UNCHANGED io

EmitInstruction ==
  /\ stage = "variables" /\ v \notin Vars
  /\ Emit(<<Item("inst", inst.size, t, args)>>)
  /\ stage' = "checks"
  /\ UNCHANGED <<t, todo, v, args>> /\ UNCHANGED io

EmitChecks ==
  /\ stage = "checks"
  /\ Emit(CASE Entry.jump /\ HasExpected(Entry)     -> CheckBranchAndResult(Expected(Entry))
            [] Entry.jump /\ ~ HasExpected(Entry)   -> CheckBranch
            [] ~ Entry.jump /\ HasExpected(Entry)   -> CheckResult(Expected(Entry))
            [] ~ Entry.jump /\ ~ HasExpected(Entry) -> <<>>)
  /\ stage' = "stores"
  /\ todo' = DOMAIN Entry.wmem
  /\ UNCHANGED <<t, v, args>> /\ UNCHANGED io

EmitStoreCheck ==
  /\ stage = "stores"
  /\ \E a \in todo :
       /\ Emit(<<LoadReg(AddressReg, a), LoadWord>> \o CheckResult(Entry.wmem[a]))
       /\ todo' = todo \ {a}
  /\ UNCHANGED <<stage, t, v, args>> /\ UNCHANGED io

(* exit_success, and the ELF file. An entry that stores has recorded one,  *)
(* or is skipped: no instruction both loads and stores, for which the list *)
(* in the file could be missing and the script would stop.                 *)
Finish ==
  /\ stage = "stores" /\ todo = {}
  /\ Emit(<<Exit(0)>>)
  /\ stage' = "load"
  /\ UNCHANGED <<t, todo, v, args>> /\ UNCHANGED io

TestNext ==
  \/ NextTest \/ EmitLoad \/ EndLoads \/ EmitVariable \/ EmitInstruction
  \/ EmitChecks \/ EmitStoreCheck \/ Finish
=============================================================================
