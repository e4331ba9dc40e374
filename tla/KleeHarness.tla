------------------------------ MODULE KleeHarness ------------------------------
(***************************************************************************)
(* The program yaml-to-cpp.py --output-klee writes for one instruction: it *)
(* makes the variables symbolic, runs the operation() on a register file   *)
(* and a memory of its own and prints what a test needs. KLEE runs it once *)
(* per path; what it prints is the io file.                                *)
(*                                                                         *)
(* The operation is a script of steps on an address ea and a sum acc.      *)
(***************************************************************************)
EXTENDS LoadImmediate, Sequences, FiniteSets

CONSTANTS
  Instruction,  \* [vars, size, script, paths, cskip, rdLast]
  Input,        \* values KLEE finds for a register
  Immediate,    \* and for an immediate, encodable and extended already
  Byte,         \* 2^8
  WordBytes,    \* 4
  Base, Top,    \* 0x1000 and 0x2000
  Pattern       \* read_pattern

VARIABLES
  inst,   \* the instruction
  path,   \* the state of the program on this path
  tests   \* the io file

(* The values of k bytes: Byte to the power of k. *)
Bytes[k \in 0 .. WordBytes] == IF k = 0 THEN 1 ELSE Byte * Bytes[k - 1]

ASSUME MemoryAssumption ==
  /\ Byte \in Nat \ {0, 1} /\ WordBytes \in Nat \ {0}
  /\ Bytes[WordBytes] = Word
  /\ Base \in Nat /\ Top \in Nat /\ Base < Top /\ Top <= Word
  /\ Pattern \in Nat
  /\ Input \subseteq 0 .. Word - 1 /\ Immediate \subseteq 0 .. Word - 1

(* An instruction has one destination at most. Those that jump do it last, *)
(* to an immediate; they leave memory alone and read no register they have *)
(* written; c.py skips them unless rd is their last variable.              *)
WellFormed(i) ==
  /\ i.vars \in Seq([role : {"imm", "reg", "rd"}, compressed : BOOLEAN, not : SUBSET Nat])
  /\ i.size \in Nat \ {0} /\ i.paths \in Nat /\ i.cskip \in BOOLEAN
  /\ i.script \in Seq([do : {"addr", "add", "out", "ld", "st", "jump"}, v : DOMAIN i.vars,
                       width : 1 .. WordBytes, if : BOOLEAN])
  /\ \A w, z \in DOMAIN i.vars : i.vars[w].role = "rd" /\ i.vars[z].role = "rd" => w = z
  /\ i.rdLast <=> \A w \in DOMAIN i.vars : i.vars[w].role = "rd" => w = Len(i.vars)
  /\ \A k \in DOMAIN i.script : i.script[k].do = "out" => i.vars[i.script[k].v].role = "rd"
  /\ \A k \in DOMAIN i.script : i.script[k].do = "jump" =>
       /\ k = Len(i.script) /\ i.vars[i.script[k].v].role = "imm"
       /\ i.rdLast \/ i.cskip
       /\ \A l \in DOMAIN i.script :
            /\ i.script[l].do \notin {"ld", "st"}
            /\ i.script[l].do = "out" => \A m \in l + 1 .. k : i.script[m].v # i.script[l].v

ASSUME InstructionAssumption == \A i \in Instruction : WellFormed(i)

Vars == DOMAIN inst.vars
Addresses == Base .. Top - 1
InRange(a) == a \in Addresses

(* A partial function with one more point: the unordered_map of a path. *)
With(f, a, b) == [x \in DOMAIN f \cup {a} |-> IF x = a THEN b ELSE f[x]]
Empty == [a \in {} |-> 0]

Begin == [u |-> 0, in |-> <<>>, x |-> <<>>, ea |-> 0, acc |-> 0, reads |-> 0,
          load |-> FALSE, store |-> FALSE, jump |-> FALSE, valid |-> FALSE, memop |-> FALSE,
          rmem |-> Empty, wmem |-> Empty, touched |-> <<>>]

KleeInit ==
  /\ inst \in Instruction
  /\ path = Begin
  /\ tests = <<>>

(* klee_make_symbolic and klee_assume; register v + 1 holds variable v.    *)
MakeSymbolic ==
  /\ path.u = 0 /\ Len(tests) < inst.paths
  /\ \E in \in [Vars -> Input \cup Immediate] :
       /\ \A v \in Vars :
            /\ in[v] \in IF inst.vars[v].role = "imm" THEN Immediate ELSE Input
            /\ in[v] \notin inst.vars[v].not
       /\ path' = [path EXCEPT !.u = 1, !.in = in, !.x = in]
  /\ UNCHANGED <<inst, tests>>

(* The next step of the operation; a step may be under an `if'. *)
At(do) == path.u \in DOMAIN inst.script /\ inst.script[path.u].do = do
Taken(step, acc) == step.if => acc # 0
Step == inst.script[path.u]
Ready(do) == At(do) /\ Taken(Step, path.acc)

SkipStep ==
  /\ path.u \in DOMAIN inst.script /\ ~ Taken(Step, path.acc)
  /\ path' = [path EXCEPT !.u = @ + 1]
  /\ UNCHANGED <<inst, tests>>

AddAddress ==
  /\ Ready("addr")
  /\ path' = [path EXCEPT !.u = @ + 1, !.ea = (@ + path.x[Step.v]) % Word]
  /\ UNCHANGED <<inst, tests>>

Add ==
  /\ Ready("add")
  /\ path' = [path EXCEPT !.u = @ + 1, !.acc = (@ + path.x[Step.v]) % Word]
  /\ UNCHANGED <<inst, tests>>

SetRegister ==
  /\ Ready("out")
  /\ path' = [path EXCEPT !.u = @ + 1, !.x[Step.v] = path.acc]
  /\ UNCHANGED <<inst, tests>>

(* Seeded fault: the value is not cut to the width of the access. *)
WholePattern(n, width) == n * Pattern

PatternOf(n, width) == (n * Pattern) % Bytes[width]

(* read_memory: every read gets a value of its own; one out of range gets  *)
(* what the map holds, and rmemory[] then makes the entry.                 *)
ReadMemory ==
  /\ Ready("ld")
  /\ LET a     == path.ea
         value == PatternOf(path.reads + 1, Step.width)
         rmem  == IF InRange(a) THEN With(path.rmem, a, value)
                  ELSE IF a \in DOMAIN path.rmem THEN path.rmem ELSE With(path.rmem, a, 0)
     IN  path' = [path EXCEPT !.u = @ + 1, !.load = TRUE, !.reads = @ + 1,
                              !.memop = @ \/ InRange(a), !.rmem = rmem,
                              !.acc = (@ + rmem[a]) % Word,
                              !.touched = Append(@, [by |-> "ld", at |-> a, n |-> value])]
  /\ UNCHANGED <<inst, tests>>

(* write_memory: a 0 is not recorded. *)
WriteMemory ==
  /\ Ready("st")
  /\ LET a        == path.ea
         value    == path.x[Step.v] % Bytes[Step.width]
         recorded == InRange(a) /\ path.x[Step.v] # 0
     IN  path' = [path EXCEPT !.u = @ + 1, !.store = TRUE, !.memop = @ \/ recorded,
                              !.wmem = IF recorded THEN With(@, a, value) ELSE @,
                              !.touched = Append(@, [by |-> "st", at |-> a, n |-> value])]
  /\ UNCHANGED <<inst, tests>>

(* xqci_jump_pcrel *)
Jump ==
  /\ Ready("jump")
  /\ path' = [path EXCEPT !.u = @ + 1, !.jump = TRUE,
                          !.valid = @ \/ path.x[Step.v] = inst.size + 4]
  /\ UNCHANGED <<inst, tests>>

(* The printfs; `touched' is not printed, it serves the properties. *)
PrintTest ==
  /\ path.u = Len(inst.script) + 1
  /\ tests' = Append(tests, [path EXCEPT !.u = 0])
  /\ path' = Begin
  /\ UNCHANGED inst

KleeNext ==
  \/ MakeSymbolic \/ SkipStep \/ AddAddress \/ Add \/ SetRegister
  \/ ReadMemory \/ WriteMemory \/ Jump \/ PrintTest

IoFileDone == Len(tests) = inst.paths
=============================================================================
