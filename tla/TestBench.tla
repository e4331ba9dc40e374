------------------------------- MODULE TestBench -------------------------------
(***************************************************************************)
(* The tests at work: KleeHarness finds entries, TestProgram and CProgram  *)
(* turn them into programs, and the programs run on an implementation of   *)
(* the instruction that may be wrong. The machine and the implementation   *)
(* are external: a text, registers, and the data segment of the ELF file,  *)
(* or of the section the C program declares, zeroed before each program.   *)
(***************************************************************************)
EXTENDS CProgram

VARIABLES
  impl,     \* "right", or what the implementation gets wrong
  pc, regs, mem,
  verdict,  \* of the program last run
  effects   \* what each executed entry has done, for the properties

bench == <<impl, pc, regs, mem, verdict, effects>>
vars == <<inst, path, tests, stage, t, todo, v, args, text, format, outs,
          impl, pc, regs, mem, verdict, effects>>

Reg == 0 .. 15

Idle ==
  [impl |-> "right", pc |-> 0, regs |-> [r \in Reg |-> 0], mem |-> [a \in Addresses |-> 0],
   verdict |-> "none", effects |-> Empty]

Init ==
  /\ KleeInit /\ TestInit
  /\ CInit
  /\ impl = Idle.impl /\ pc = Idle.pc /\ regs = Idle.regs /\ mem = Idle.mem
  /\ verdict = Idle.verdict /\ effects = Idle.effects

-----------------------------------------------------------------------------
Mapped(a, width) ==
  /\ a \in Addresses /\ a + width - 1 \in Addresses
  /\ format = "elf" \/ HasData

(* Little-endian. *)
ReadMem(m, a, width) ==
  LET sum[b \in 0 .. width] == IF b = 0 THEN 0 ELSE sum[b - 1] + m[a + b - 1] * Bytes[b - 1]
  IN  sum[width]
WriteMem(m, a, width, n) ==
  [b \in Addresses |-> IF b \in a .. a + width - 1 THEN (n \div Bytes[b - a]) % Byte ELSE m[b]]

Index(w, operand) ==
  operand.n + (IF format = "elf" /\ inst.vars[w].compressed THEN 8 ELSE 0)
OperandValue(w, operand) == IF operand.kind = "i" THEN operand.n ELSE regs[Index(w, operand)]

(* One step of the operation on the machine. *)
Execute(s, step) ==
  IF ~ s.ok \/ ~ Taken(step, s.acc) THEN s
  ELSE CASE step.do = "addr" -> [s EXCEPT !.ea = (@ + s.x[step.v]) % Word]
         [] step.do = "add"  -> [s EXCEPT !.acc = (@ + s.x[step.v]) % Word]
         [] step.do = "out"  ->
              [s EXCEPT !.x[step.v] = (s.acc + (IF impl = "out" THEN 1 ELSE 0)) % Word]
         [] step.do = "jump" ->
              IF impl = "jump" THEN s ELSE [s EXCEPT !.jumped = TRUE, !.to = s.x[step.v]]
         [] step.do = "ld"   ->
              IF Mapped(s.ea, step.width)
              THEN [s EXCEPT !.acc = (@ + ReadMem(s.mem, s.ea, step.width)) % Word]
              ELSE [s EXCEPT !.ok = FALSE]
         [] step.do = "st"   ->
              IF ~ Mapped(s.ea, step.width) THEN [s EXCEPT !.ok = FALSE]
              ELSE IF impl = "store" THEN s
              ELSE [s EXCEPT !.mem = WriteMem(@, s.ea, step.width, s.x[step.v])]

Reset(operands) ==
  [x |-> [w \in Vars |-> OperandValue(w, operands[w])], ea |-> 0, acc |-> 0,
   mem |-> mem, jumped |-> FALSE, to |-> 0, ok |-> TRUE]
Effect(operands) ==
  LET run[k \in 0 .. Len(inst.script)] ==
        IF k = 0 THEN Reset(operands) ELSE Execute(run[k - 1], inst.script[k])
  IN  run[Len(inst.script)]

-----------------------------------------------------------------------------
Load ==
  /\ stage = "load"
  /\ stage' = "run"
  /\ impl' \in {"right", "out", "store", "jump"}
  /\ UNCHANGED <<t, todo, v, args, text, cvars, pc, regs, mem, verdict, effects>> /\ UNCHANGED io

(* The address after the first j items. *)
End[j \in 0 .. Len(text)] == IF j = 0 THEN 0 ELSE End[j - 1] + text[j].size
Here == text[CHOOSE j \in DOMAIN text : End[j - 1] = pc]
OnItem == \E j \in DOMAIN text : End[j - 1] = pc
Fetch(op) == stage = "run" /\ OnItem /\ Here.op = op
Keep == UNCHANGED <<t, todo, v, args, text, cvars, impl>> /\ UNCHANGED io
Next1 == pc' = pc + Here.size

SetReg ==
  /\ Fetch("li") \/ Fetch("let")
  /\ regs' = With(regs, Here.r, IF Here.op = "li" THEN Li(Here.n) ELSE Here.n)
  /\ Next1
  /\ UNCHANGED <<stage, mem, verdict, effects>> /\ Keep

(* The address of a memory item, and the value of a store. *)
Place == IF Here.op \in {"sw", "lw"} THEN regs[AddressReg] ELSE Here.r

Store ==
  /\ Fetch("sw") \/ Fetch("poke")
  /\ Mapped(Place, WordBytes)
  /\ mem' = WriteMem(mem, Place, WordBytes, IF Here.op = "sw" THEN regs[Here.r] ELSE Here.n)
  /\ Next1
  /\ UNCHANGED <<stage, regs, verdict, effects>> /\ Keep

LoadIntoReg ==
  /\ Fetch("lw")
  /\ Mapped(Place, WordBytes)
  /\ regs' = [regs EXCEPT ![Here.r] = ReadMem(mem, Place, WordBytes)]
  /\ Next1
  /\ UNCHANGED <<stage, mem, verdict, effects>> /\ Keep

Branch ==
  /\ Fetch("beq") \/ Fetch("j")
  /\ pc' = pc + (IF Here.op = "j" \/ regs[ExpectedReg] = regs[DstReg] THEN Here.n ELSE Here.size)
  /\ UNCHANGED <<stage, regs, mem, verdict, effects>> /\ Keep

Instr ==
  /\ Fetch("inst")
  /\ LET e == Effect(Here.n)
     IN  /\ e.ok
         /\ regs' = [r \in DOMAIN regs |->
                       IF \E w \in Outputs : Here.n[w].kind = "r" /\ Index(w, Here.n[w]) = r
                       THEN e.x[CHOOSE w \in Outputs : Index(w, Here.n[w]) = r] ELSE regs[r]]
         /\ mem' = e.mem
         /\ pc' = pc + (IF e.jumped THEN e.to ELSE Here.size)
         /\ effects' = With(effects, Here.r, e)
  /\ UNCHANGED <<stage, verdict>> /\ Keep

(* check() of the C program *)
Check ==
  /\ Fetch("check") \/ (Fetch("checkmem") /\ Mapped(Place, WordBytes))
  /\ LET got == IF Here.op = "check" THEN regs[Here.r] ELSE ReadMem(mem, Place, WordBytes)
     IN  IF got = Here.n THEN Next1 /\ UNCHANGED <<stage, verdict>>
         ELSE stage' = "verdict" /\ verdict' = "fail" /\ UNCHANGED pc
  /\ UNCHANGED <<regs, mem, effects>> /\ Keep

ExitSyscall ==
  /\ Fetch("exit")
  /\ stage' = "verdict"
  /\ verdict' = IF Here.n = 0 THEN "pass" ELSE "fail"
  /\ UNCHANGED <<pc, regs, mem, effects>> /\ Keep

(* An access outside the data, or an address where no item begins. *)
Crash ==
  /\ stage = "run"
  /\ \/ ~ OnItem
     \/ OnItem /\ Here.op = "inst" /\ ~ Effect(Here.n).ok
     \/ OnItem /\ Here.op \in {"sw", "lw", "poke", "checkmem"} /\ ~ Mapped(Place, WordBytes)
  /\ stage' = "verdict" /\ verdict' = "crash"
  /\ UNCHANGED <<pc, regs, mem, effects>> /\ Keep

NextProgram ==
  /\ stage = "verdict" \/ (stage = "tests" /\ t \notin DOMAIN tests)
  /\ IF stage = "verdict" /\ format = "elf"
     THEN stage' = "tests" /\ t' = t + 1
     ELSE stage' = "ended" /\ UNCHANGED t
  /\ impl' = Idle.impl /\ pc' = Idle.pc /\ regs' = Idle.regs /\ mem' = Idle.mem
  /\ verdict' = Idle.verdict /\ effects' = Idle.effects
  /\ UNCHANGED <<todo, v, args, text, cvars>> /\ UNCHANGED io

Generate ==
  \/ stage = "klee" /\ KleeNext /\ UNCHANGED pvars /\ UNCHANGED cvars
  \/ TestNext /\ UNCHANGED cvars
  \/ CNext
Machine ==
  \/ Load \/ SetReg \/ Store \/ LoadIntoReg \/ Branch \/ Instr \/ Check
  \/ ExitSyscall \/ Crash \/ NextProgram

Next == (Generate /\ UNCHANGED bench) \/ Machine
Spec == Init /\ [][Next]_vars
FairSpec == Spec /\ WF_vars(Next)

-----------------------------------------------------------------------------
(* Every variable has its type. *)
Value == 0 .. Word - 1
EntryOK(e) ==
  /\ \A w \in DOMAIN e.in : e.in[w] \in Value /\ e.x[w] \in Value
  /\ \A a \in DOMAIN e.rmem : a \in Value /\ e.rmem[a] \in Value
  /\ \A a \in DOMAIN e.wmem : a \in Addresses /\ e.wmem[a] \in Value
TypeOK ==
  /\ inst \in Instruction /\ impl \in {"right", "out", "store", "jump"}
  /\ path.u \in Nat /\ path.acc \in Value /\ EntryOK(path)
  /\ \A j \in DOMAIN tests : EntryOK(tests[j])
  /\ stage \in {"klee", "tests", "loads", "variables", "checks", "stores", "load", "run",
                "ctests", "cloads", "cvariables", "cstores", "verdict", "ended"}
  /\ format \in {"none", "elf", "c"}
  /\ t \in Nat /\ v \in Nat /\ todo \subseteq Value
  /\ \A j \in DOMAIN text : text[j].size \in Nat \ {0}
  /\ pc \in Nat
  /\ Reg \subseteq DOMAIN regs /\ (\A r \in DOMAIN regs : regs[r] \in Value)
  /\ mem \in [Addresses -> 0 .. Byte - 1]
  /\ verdict \in {"none", "pass", "fail", "crash"}
  /\ DOMAIN effects \subseteq DOMAIN tests

Apart(a, b) == a + WordBytes <= b \/ b + WordBytes <= a

(* When the instruction is reached, its operands name the values of the    *)
(* entry, and the words it may load are in memory: writing one input does  *)
(* not destroy another. Loads of neighbouring words are excluded, the      *)
(* later of their words overwrites a part of the other.                    *)
InputsReady ==
  Fetch("inst") =>
    LET e == tests[Here.r]
    IN  /\ inst.rdLast \/ format = "elf" =>
             \A w \in Vars : OperandValue(w, Here.n[w]) = e.in[w]
        /\ \A a \in DOMAIN e.rmem :
             (\A b \in DOMAIN e.rmem \ {a} : Apart(a, b)) =>
               ReadMem(mem, a, WordBytes) = e.rmem[a]

(* The words of all accesses are in the data and apart from each other.    *)
Touched == UNION {{j} \X DOMAIN tests[j].touched : j \in DOMAIN tests}
Address(jk) == tests[jk[1]].touched[jk[2]].at
Separate(js) ==
  LET those == {jk \in Touched : jk[1] \in js}
  IN  /\ \A jk \in those : Mapped(Address(jk), WordBytes)
      /\ \A jk1, jk2 \in those : jk1 # jk2 => Apart(Address(jk1), Address(jk2))

Tested == {j \in DOMAIN tests : ~ Skipped(tests[j])}

(* A right implementation passes every test that is written for it, if the *)
(* words of its accesses are apart and in the data: the tests move whole   *)
(* words, and the harness keeps what is read apart from what is written.   *)
(* The entries of a C program share the data; its operands are numbered    *)
(* right if rd is the last variable.                                       *)
CorrectPasses ==
  stage = "verdict" /\ impl = "right"
  /\ (format = "elf" => Separate({t}))
  /\ (format = "c" => inst.rdLast /\ Separate(Tested)) =>
    verdict = "pass"

(* A test that passes has seen what it is for: the instruction was         *)
(* executed for each of its entries, left the expected value in rd, stored *)
(* what KLEE recorded, and jumped if KLEE's path did.                      *)
PassMeansChecked ==
  stage = "verdict" /\ verdict = "pass" =>
    \A j \in IF format = "elf" THEN {t} ELSE Tested :
      /\ j \in DOMAIN effects
      /\ inst.rdLast \/ format = "elf" =>
           \A w \in Outputs : effects[j].x[w] = tests[j].x[w]
      /\ \A a \in DOMAIN tests[j].wmem : ReadMem(effects[j].mem, a, WordBytes) = tests[j].wmem[a]
      /\ tests[j].jump => effects[j].jumped

(* Every io file is worked off: no test loops, whatever the implementation *)
(* gets wrong.                                                             *)
Ends == <>(stage = "ended")
=============================================================================
