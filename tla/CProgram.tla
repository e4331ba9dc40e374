------------------------------- MODULE CProgram -------------------------------
(***************************************************************************)
(* c.py: one C program for all entries of the io file, with the            *)
(* instruction in inline assembly. An item is one statement; the register  *)
(* of an item is a variable of the program.                                *)
(***************************************************************************)
EXTENDS TestProgram

VARIABLES
  format,  \* which of the two scripts is run
  outs     \* out_args; args are the in_args

cvars == <<format, outs>>

CInit == format = "none" /\ outs = <<>>

(* Both scripts are run by hand on the io file KLEE left. *)
StartElf ==
  /\ stage = "klee" /\ IoFileDone
  /\ stage' = "tests" /\ format' = "elf"
  /\ t' = 1
  /\ UNCHANGED <<todo, v, args, outs, text>> /\ UNCHANGED io

(* Nothing is written for the skipped instructions, and for none that      *)
(* jumps on some path.                                                     *)
StartC ==
  /\ stage = "klee" /\ IoFileDone
  /\ stage' = IF inst.cskip \/ \E e \in DOMAIN tests : tests[e].jump THEN "ended" ELSE "ctests"
  /\ format' = "c"
  /\ t' = 1
  /\ UNCHANGED <<todo, v, args, outs, text>> /\ UNCHANGED io

(* The section of the data is there if the last entry uses it. *)
HasData == Last(tests).load \/ Last(tests).store

(* A variable of its own for each declaration, named by its place. *)
Fresh == Len(text) + 1

NextEntry ==
  /\ stage = "ctests" /\ t \in DOMAIN tests
  /\ args' = <<>> /\ outs' = <<>>
  /\ IF SkippedMemory(Entry)
     THEN t' = t + 1 /\ UNCHANGED <<stage, todo>>
     ELSE /\ stage' = "cloads"
          /\ todo' = DOMAIN Entry.rmem
          /\ UNCHANGED t
  /\ UNCHANGED <<v, text, format>> /\ UNCHANGED io

Poke ==
  /\ stage = "cloads"
  /\ \E a \in todo :
       /\ Emit(<<Item("poke", 1, a, Entry.rmem[a])>>)
       /\ todo' = todo \ {a}
  /\ UNCHANGED <<stage, t, v, args, cvars>> /\ UNCHANGED io

EndPokes ==
  /\ stage = "cloads" /\ todo = {}
  /\ stage' = "cvariables"
  /\ v' = Len(inst.vars)
  /\ UNCHANGED <<t, todo, args, text, cvars>> /\ UNCHANGED io

(* The variables from the last to the first. *)
DeclareVariable ==
  /\ stage = "cvariables" /\ v \in Vars
  /\ LET operand == [kind |-> IF inst.vars[v].role = "imm" THEN "i" ELSE "r", w |-> v,
                     n |-> IF inst.vars[v].role = "imm" THEN Entry.in[v] ELSE Fresh]
     IN  /\ IF inst.vars[v].role = "imm" THEN UNCHANGED text
            ELSE Emit(<<Item("let", 1, Fresh, Entry.in[v])>>)
         /\ IF v \in Outputs THEN outs' = Append(outs, operand) /\ UNCHANGED args
            ELSE args' = Append(args, operand) /\ UNCHANGED outs
  /\ v' = v - 1
  /\ UNCHANGED <<stage, t, todo, format>> /\ UNCHANGED io

(* Seeded fault: the operands in the order of the variables of the         *)
(* encoding, which the text of the assembly does not number them in.       *)
OperandForward(operands, w) == operands[w]

(* The k-th name of variable_order, which runs from the last variable to   *)
(* the first, became %k; %k is the k-th operand, outputs first.            *)
Operand(operands, w) == operands[Len(inst.vars) + 1 - w]

EmitAsm ==
  /\ stage = "cvariables" /\ v \notin Vars
  /\ Emit(<<Item("inst", inst.size, t, [w \in Vars |-> Operand(outs \o args, w)])>>
          \o [k \in DOMAIN outs |-> Item("check", 1, outs[k].n, Entry.x[Last(outs).w])])
  /\ stage' = "cstores"
  /\ todo' = DOMAIN Entry.wmem
  /\ UNCHANGED <<t, v, args, cvars>> /\ UNCHANGED io

CheckMemory ==
  /\ stage = "cstores"
  /\ \E a \in todo :
       /\ Emit(<<Item("checkmem", 1, a, Entry.wmem[a])>>)
       /\ todo' = todo \ {a}
  /\ UNCHANGED <<stage, t, v, args, cvars>> /\ UNCHANGED io

EndEntry ==
  /\ stage = "cstores" /\ todo = {}
  /\ stage' = "ctests"
  /\ t' = t + 1
  /\ UNCHANGED <<todo, v, args, text, cvars>> /\ UNCHANGED io

FinishC ==
  /\ stage = "ctests" /\ t \notin DOMAIN tests
  /\ Emit(<<Exit(0)>>)
  /\ stage' = "load"
  /\ UNCHANGED <<t, todo, v, args, cvars>> /\ UNCHANGED io

CNext ==
  \/ StartElf \/ StartC
  \/ NextEntry \/ Poke \/ EndPokes \/ DeclareVariable \/ EmitAsm \/ CheckMemory
  \/ EndEntry \/ FinishC
=============================================================================
