---------------------------- MODULE TestScriptProofs ----------------------------
(***************************************************************************)
(* What the two generators of tests write. The text of a program is        *)
(* followed item by item with what is known when the machine has come to   *)
(* the end of the item, whatever the implementation of the instruction did *)
(* (After): constants in registers, words of the data, the last            *)
(* instruction, and whether its result and its memory are still there.     *)
(* TextInv says that every item is in order with respect to what is known  *)
(* before it, and what each stage of the two scripts has written; it is    *)
(* kept by every step of the generation, and so is KleeInv: every entry of *)
(* the tests is the run of the instruction's script on the inputs it       *)
(* holds. li, which loads the constants of the programs, is exact.         *)
(***************************************************************************)
EXTENDS TestBench, TLAPS, FiniteSetTheorems, SequenceTheorems

-----------------------------------------------------------------------------
(* What is known of a program, item by item, and what its scripts have     *)
(* written.                                                                *)

(* What is known when a program has come to the end of its first j items,  *)
(* whatever the implementation did: registers and words of the data that   *)
(* hold a constant, addresses whose word is in DstReg, the last            *)
(* instruction, whether the memory is still as it left it and which        *)
(* registers were written since.                                           *)
Nothing == [regs |-> Empty, words |-> Empty, loaded |-> {}, inst |-> 0, same |-> FALSE, dirty |-> {}]

Stored(k, a, n) ==
  [regs |-> k.regs, loaded |-> {}, inst |-> k.inst, same |-> FALSE, dirty |-> k.dirty,
   words |-> [b \in {c \in DOMAIN k.words : Apart(a, c)} \cup {a} |->
                IF b = a THEN n ELSE k.words[b]]]

After(k, item, j) ==
  IF item.op \in {"li", "let"}
  THEN [regs |-> With(k.regs, item.r, item.n), words |-> k.words,
        loaded |-> IF item.r = DstReg THEN {} ELSE k.loaded,
        inst |-> k.inst, same |-> k.same, dirty |-> k.dirty \cup {item.r}]
  ELSE IF item.op = "lw"
  THEN [regs |-> [r \in DOMAIN k.regs \ {DstReg} |-> k.regs[r]], words |-> k.words,
        loaded |-> {k.regs[AddressReg]}, inst |-> k.inst, same |-> k.same,
        dirty |-> k.dirty \cup {DstReg}]
  ELSE IF item.op = "sw" THEN Stored(k, k.regs[AddressReg], k.regs[DstReg])
  ELSE IF item.op = "poke" THEN Stored(k, item.r, item.n)
  ELSE IF item.op = "inst"
  THEN [regs |-> Empty, words |-> Empty, loaded |-> {}, inst |-> j, same |-> TRUE, dirty |-> {}]
  ELSE k

IsKnown(K, tx) ==
  /\ K[0] = Nothing
  /\ \A j \in 1 .. Len(tx) : K[j] = After(K[j - 1], tx[j], j)

-----------------------------------------------------------------------------
(* The operand of a variable names the value of the entry.                 *)
Fits(k, w, operand, e) ==
  IF inst.vars[w].role = "imm" THEN operand.kind = "i" /\ operand.n = tests[e].in[w]
  ELSE /\ operand.kind = "r" /\ Index(w, operand) \in DOMAIN k.regs
       /\ k.regs[Index(w, operand)] = tests[e].in[w]

Usable(k, w, operand) ==
  \/ operand.kind = "i" /\ operand.n \in Value
  \/ operand.kind = "r" /\ Index(w, operand) \in DOMAIN k.regs

Alone(e, a) == \A b \in DOMAIN tests[e].rmem \ {a} : Apart(a, b)
WordsReady(k, e, done) ==
  \A a \in done : Alone(e, a) => a \in DOMAIN k.words /\ k.words[a] = tests[e].rmem[a]

InstOK(k, i) ==
  LET e == text[i].r
      operands == text[i].n
  IN  /\ text[i].size = inst.size
      /\ e \in Tested /\ e <= t /\ (format = "elf" => e = t)
      /\ \A l \in 1 .. i - 1 : text[l].op = "inst" => text[l].r < e
      /\ \A w \in Vars : Usable(k, w, operands[w])
      /\ inst.rdLast \/ format = "elf" => \A w \in Vars : Fits(k, w, operands[w], e)
      /\ format = "elf" => \A w \in Outputs : Index(w, operands[w]) = DstReg
      /\ WordsReady(k, e, DOMAIN tests[e].rmem)
      /\ tests[e].jump /\ stage # "checks" => i + 1 \in DOMAIN text /\ text[i + 1].op = "j"

Owner(k) == text[k.inst].r
ResultIn(k, r) ==
  /\ k.inst # 0 /\ r \notin k.dirty
  /\ inst.rdLast \/ format = "elf" => \A w \in Outputs : r = Index(w, text[k.inst].n[w])

BeqOK(k, j) ==
  /\ text[j] = SkipIfExpected(16)
  /\ j + 1 \in DOMAIN text /\ text[j + 1] = Exit(255)
  /\ ExpectedReg \in DOMAIN k.regs
  /\ k.inst # 0
  /\ \/ ResultIn(k, DstReg) /\ \E w \in Outputs : k.regs[ExpectedReg] = tests[Owner(k)].x[w]
     \/ k.same /\ \E a \in DOMAIN tests[Owner(k)].wmem :
          k.loaded = {a} /\ k.regs[ExpectedReg] = tests[Owner(k)].wmem[a]

(* The three places of a j: before the result is checked, and twice before *)
(* an exit.                                                                *)
JumpOK(j) ==
  /\ text[j].size = 4
  /\ \/ /\ text[j].n = 16 /\ j > 1 /\ text[j - 1].op = "inst" /\ j + 3 \in DOMAIN text
        /\ tests[text[j - 1].r].jump
        /\ text[j + 1].op = "li" /\ text[j + 2].op = "beq" /\ text[j + 3] = Exit(255)
     \/ /\ text[j].n = 8 /\ j > 1 /\ text[j - 1].op = "inst" /\ j + 2 \in DOMAIN text
        /\ tests[text[j - 1].r].jump
        /\ text[j + 1].op = "j" /\ text[j + 2] = Exit(255)
     \/ /\ text[j].n = 16 /\ j > 2 /\ text[j - 1].op = "j" /\ text[j - 2].op = "inst"
        /\ j + 1 \in DOMAIN text /\ text[j + 1] = Exit(255)

Final == stage \in {"load", "run", "verdict"}

ItemFine(k, item, j) ==
  /\ item.op \in {"li", "sw", "lw", "beq", "j", "inst", "exit", "let", "poke", "check", "checkmem"}
  /\ item.op \in {"li", "sw", "lw", "beq", "j"} => format = "elf"
  /\ item.op \in {"let", "poke", "check", "checkmem"} => format = "c"
  /\ item.op \in {"li", "let"} => item.n \in Value
  /\ item.op = "li" => item.size = 8
  /\ item.op = "sw" => /\ item.r = DstReg
                       /\ DstReg \in DOMAIN k.regs /\ AddressReg \in DOMAIN k.regs
                       /\ t \in Tested /\ k.regs[AddressReg] \in DOMAIN Entry.rmem
  /\ item.op = "lw" => /\ item.r = DstReg /\ AddressReg \in DOMAIN k.regs
                       /\ t \in Tested /\ k.regs[AddressReg] \in DOMAIN Entry.wmem
  /\ item.op = "poke" => item.n \in Value /\ \E e \in Tested : item.r \in DOMAIN tests[e].rmem
  /\ item.op = "beq" => BeqOK(k, j)
  /\ item.op = "j" => JumpOK(j)
  /\ item.op = "inst" => InstOK(k, j)
  /\ item.op = "check" => /\ ResultIn(k, item.r)
                          /\ \E w \in Outputs : item.n = tests[Owner(k)].x[w]
  /\ item.op = "checkmem" => /\ k.inst # 0 /\ k.same /\ item.r \in DOMAIN tests[Owner(k)].wmem
                             /\ item.n = tests[Owner(k)].wmem[item.r]
  /\ item.op = "exit" => \/ item = Exit(255) /\ j > 1 /\ text[j - 1].op \in {"beq", "j"}
                         \/ item = Exit(0) /\ Final /\ j = Len(text)
ItemOK(K, j) == ItemFine(K[j - 1], text[j], j)

HasInst(e) == \E i \in DOMAIN text : text[i].op = "inst" /\ text[i].r = e
FromEntry(k, e) == k.inst # 0 /\ Owner(k) = e
ResultAt(k, item, w, e) ==
  LET r == Index(w, text[k.inst].n[w])
  IN  /\ FromEntry(k, e) /\ r \notin k.dirty
      /\ \/ /\ item = Exit(255) /\ r = DstReg /\ ExpectedReg \in DOMAIN k.regs
            /\ k.regs[ExpectedReg] = tests[e].x[w]
         \/ item.op = "check" /\ item.r = r /\ item.n = tests[e].x[w]
WordAt(k, item, a, e) ==
  /\ FromEntry(k, e) /\ k.same
  /\ \/ /\ item = Exit(255) /\ a \in k.loaded /\ ExpectedReg \in DOMAIN k.regs
        /\ k.regs[ExpectedReg] = tests[e].wmem[a]
     \/ item.op = "checkmem" /\ item.r = a /\ item.n = tests[e].wmem[a]
ResultSeen(K, e) ==
  inst.rdLast \/ format = "elf" =>
    \A w \in Outputs : \E j \in DOMAIN text : ResultAt(K[j - 1], text[j], w, e)
WordSeen(K, e, a) == \E j \in DOMAIN text : WordAt(K[j - 1], text[j], a, e)
Covered(K, e, left) ==
  HasInst(e) /\ ResultSeen(K, e) /\ \A a \in DOMAIN tests[e].wmem \ left : WordSeen(K, e, a)

-----------------------------------------------------------------------------
(* What each stage of the two scripts has written.                         *)
NoInst == \A i \in DOMAIN text : text[i].op # "inst"
Known(K) == K[Len(text)]
Width == Len(inst.vars)

AtLoads(K) ==
  /\ t \in Tested /\ NoInst /\ args = <<>>
  /\ todo \subseteq DOMAIN Entry.rmem
  /\ WordsReady(Known(K), t, DOMAIN Entry.rmem \ todo)
AtVariables(K) ==
  /\ t \in Tested /\ NoInst
  /\ WordsReady(Known(K), t, DOMAIN Entry.rmem)
  /\ v \in 1 .. Width + 1 /\ Len(args) = v - 1
  /\ \A w \in 1 .. v - 1 : /\ Fits(Known(K), w, args[w], t)
                           /\ inst.vars[w].role # "imm" => Index(w, args[w]) = InputReg(w)
AtChecks ==
  /\ t \in Tested
  /\ text # <<>> /\ text[Len(text)].op = "inst" /\ text[Len(text)].r = t
  /\ \A i \in 1 .. Len(text) - 1 : text[i].op # "inst"
AtStores(K) ==
  /\ t \in Tested /\ FromEntry(Known(K), t) /\ Known(K).same
  /\ todo \subseteq DOMAIN Entry.wmem
  /\ Covered(K, t, todo)

Earlier(K) ==
  /\ t \in Nat \ {0}
  /\ \A e \in Tested : e < t => Covered(K, e, {})
OnlyEarlier == \A i \in DOMAIN text : text[i].op = "inst" => text[i].r < t
AtCLoads(K) ==
  /\ Earlier(K) /\ OnlyEarlier /\ t \in Tested /\ args = <<>> /\ outs = <<>>
  /\ todo \subseteq DOMAIN Entry.rmem
  /\ WordsReady(Known(K), t, DOMAIN Entry.rmem \ todo)
OperandsOK(K, os) ==
  /\ Len(os) = Width - v
  /\ \A k \in DOMAIN os : \/ os[k].kind = "i" /\ os[k].n \in Value
                          \/ os[k].kind = "r" /\ os[k].n \in DOMAIN Known(K).regs \cap DOMAIN text
  /\ inst.rdLast => \A w \in v + 1 .. Width : Fits(Known(K), w, os[Width + 1 - w], t)
AtCVariables(K) ==
  /\ Earlier(K) /\ OnlyEarlier /\ t \in Tested
  /\ WordsReady(Known(K), t, DOMAIN Entry.rmem)
  /\ v \in 0 .. Width
  /\ IF \E w \in Outputs : w > v THEN Len(outs) = 1 /\ outs[1].w \in Outputs /\ outs[1].kind = "r"
     ELSE outs = <<>>
  /\ OperandsOK(K, outs \o args)
AtCStores(K) == Earlier(K) /\ AtStores(K)
AtFinal(K) ==
  /\ text # <<>> /\ text[Len(text)] = Exit(0)
  /\ format = "elf" => t \in Tested /\ Covered(K, t, {})
  /\ format = "c" => \A e \in Tested : Covered(K, e, {})

Formats ==
  /\ stage = "klee" => text = <<>> /\ format = "none"
  /\ stage \in {"tests", "loads", "variables", "checks", "stores"} => format = "elf"
  /\ stage \in {"ctests", "cloads", "cvariables", "cstores"} => format = "c"
  /\ Final => format \in {"elf", "c"}
  /\ format = "c" /\ stage # "ended" => ~ inst.cskip /\ \A e \in DOMAIN tests : ~ tests[e].jump

TextInv(K) ==
  /\ Formats
  /\ stage \notin {"tests", "ended"} => \A j \in DOMAIN text : ItemOK(K, j)
  /\ stage = "loads" => AtLoads(K)
  /\ stage = "variables" => AtVariables(K)
  /\ stage = "checks" => AtChecks
  /\ stage = "stores" => AtStores(K)
  /\ stage = "ctests" => Earlier(K) /\ OnlyEarlier
  /\ stage = "cloads" => AtCLoads(K)
  /\ stage = "cvariables" => AtCVariables(K)
  /\ stage = "cstores" => AtCStores(K)
  /\ Final => AtFinal(K)

-----------------------------------------------------------------------------
(* Arithmetic: li, and the bytes of a word.                                *)

(* Quotient and remainder are unique.                                      *)
LEMMA DivMod ==
  ASSUME NEW a \in Int, NEW d \in Nat \ {0}, NEW q \in Int, NEW r \in 0 .. d - 1,
         a = q * d + r
  PROVE  a \div d = q /\ a % d = r
  BY Z3

(* Division with remainder.                                                *)
LEMMA Divide ==
  ASSUME NEW a \in Int, NEW d \in Nat \ {0}
  PROVE  /\ a \div d \in Int
         /\ a % d \in 0 .. d - 1
         /\ a = ((a \div d) * d) + (a % d)
  BY Z3

(* The two parts of a word, and the word, are positive.                    *)
LEMMA Parts == Lo \in Nat \ {0} /\ Hi \in Nat \ {0} /\ Word \in Nat \ {0}
  <1>1. Lo \in Nat \ {0} /\ Hi \in Nat \ {0}
    BY PartsAssumption
  <1>2. Lo * Hi \in Nat \ {0}
    BY <1>1
  <1> QED BY <1>1, <1>2 DEF Word

(* The constant is loaded exactly, whatever its bits: the upper part makes *)
(* up for the sign of the lower one, also where the sum wraps.             *)
THEOREM LiExact == \A n \in 0 .. Word - 1 : Li(n) = n
<1> SUFFICES ASSUME NEW n \in 0 .. Word - 1 PROVE Li(n) = n
  OBVIOUS
<1> USE Parts
<1> DEFINE q == n \div Lo
           l == n % Lo
           c == IF 2 * l < Lo THEN 0 ELSE 1
           w == IF 2 * n < Word THEN 0 ELSE 1
           h == IF q + c = Hi THEN 0 ELSE q + c
<1>1. n \in Nat /\ n < Word
  OBVIOUS
<1>2. q \in Int /\ l \in 0 .. Lo - 1 /\ n = q * Lo + l
  BY <1>1, Divide
<1> HIDE DEF q, l
<1>3. q \in 0 .. Hi - 1
  <2>1. q >= 0
    <3>1. q <= -1 => q * Lo <= -1 * Lo
      BY <1>2
    <3> QED BY <1>1, <1>2, <3>1
  <2>2. q < Hi
    <3>1. q >= Hi => q * Lo >= Hi * Lo
      BY <1>2
    <3>2. Hi * Lo = Word
      BY DEF Word
    <3> QED BY <1>1, <1>2, <3>1, <3>2
  <2> QED BY <1>2, <2>1, <2>2
<1>4. LowPart(n) = l - c * Lo
  BY <1>2 DEF LowPart, SignedLow, l
<1>5. SignedWord(n) = n - w * Word
  BY <1>1 DEF SignedWord
<1>6. HighPart(n) = q + c - w * Hi
  <2>1. SignedWord(n) - LowPart(n) = (q + c - w * Hi) * Lo + 0
    <3>1. w * Word = (w * Hi) * Lo
      BY DEF Word
    <3>2. (q + c - w * Hi) * Lo = q * Lo + c * Lo - (w * Hi) * Lo
      BY <1>2
    <3> QED BY <1>1, <1>2, <1>4, <1>5, <3>1, <3>2
  <2>2. (SignedWord(n) - LowPart(n)) \in Int /\ (q + c - w * Hi) \in Int
    BY <1>1, <1>2, <1>4, <1>5
  <2> QED BY <2>1, <2>2, DivMod DEF HighPart
<1>7. HighPart(n) % Hi = h
  <2> DEFINE e == (IF q + c = Hi THEN 1 ELSE 0) - w
  <2>1. q + c - w * Hi = e * Hi + h
    BY <1>3
  <2>2. h \in 0 .. Hi - 1 /\ e \in Int /\ q + c - w * Hi \in Int
    BY <1>3
  <2>3. HighPart(n) = q + c - w * Hi
    BY <1>6
  <2> HIDE DEF e, h, c, w, q
  <2>4. PICK s : s = q + c - w * Hi
    OBVIOUS
  <2>5. s % Hi = h
    BY <2>1, <2>2, <2>4, DivMod
  <2> QED BY <2>3, <2>4, <2>5
<1>8. LowPart(n) % Lo = l
  <2>1. l - c * Lo = (-c) * Lo + l /\ l - c * Lo \in Int /\ -c \in Int
    BY <1>2
  <2> HIDE DEF l, c
  <2>2. l \in 0 .. Lo - 1 /\ LowPart(n) = (-c) * Lo + l /\ LowPart(n) \in Int
    BY <1>2, <1>4, <2>1
  <2>3. PICK a : a = LowPart(n)
    OBVIOUS
  <2>4. a % Lo = l
    BY <2>1, <2>2, <2>3, DivMod
  <2> QED BY <2>3, <2>4
<1>9. SignedLow(LowPart(n) % Lo) = l - c * Lo
  BY <1>2, <1>8 DEF SignedLow
<1>10. Li(n) = (h * Lo + (l - c * Lo)) % Word
  BY <1>7, <1>9 DEF Li
<1>11. CASE q + c = Hi
  <2>1. c = 1 /\ q = Hi - 1 /\ h = 0
    BY <1>3, <1>11
  <2>2. q * Lo = Word - Lo
    BY <2>1 DEF Word
  <2>3. h * Lo + (l - c * Lo) = (-1) * Word + n
    BY <1>1, <1>2, <2>1, <2>2
  <2>4. ((-1) * Word + n) % Word = n
    <3>1. (-1) * Word + n \in Int /\ -1 \in Int
      BY <1>1
    <3> QED BY <3>1, DivMod
  <2> QED BY <1>10, <2>3, <2>4
<1>12. CASE q + c # Hi
  <2>1. h * Lo = q * Lo + c * Lo
    BY <1>3, <1>12
  <2>2. h * Lo + (l - c * Lo) = 0 * Word + n
    BY <1>1, <1>2, <2>1
  <2>3. (0 * Word + n) % Word = n
    BY <1>1, DivMod
  <2> QED BY <1>10, <2>2, <2>3
<1> QED BY <1>11, <1>12

(* The natural numbers are the only set of them with 0 and every           *)
(* successor: induction over a set, from the pigeonhole principle.         *)
LEMMA SetInduction ==
  ASSUME NEW P \in SUBSET Nat, 0 \in P, \A k \in P : k + 1 \in P
  PROVE  P = Nat
<1>1. SUFFICES ASSUME NEW n \in Nat, n \notin P PROVE FALSE
  OBVIOUS
<1>. DEFINE A == P \cap (0 .. n)
            f == [k \in A |-> k + 1]
<1>2. IsFiniteSet(0 .. n)
  BY FS_Interval
<1>3. IsFiniteSet(A) /\ Cardinality(A) \in Nat /\ 0 \in A
  BY <1>2, FS_Subset, FS_CardinalityType
<1>4. IsFiniteSet(A \ {0}) /\ Cardinality(A \ {0}) = Cardinality(A) - 1
  BY <1>3, FS_RemoveElement
<1>5. f \in [A -> A \ {0}]
  <2>1. \A k \in A : k + 1 \in A \ {0}
    <3>1. TAKE k \in A
    <3>2. k \in Nat /\ k # n /\ k <= n /\ k + 1 \in P
      BY <1>1
    <3>. QED  BY <3>2
  <2>. QED  BY <2>1
<1>6. PICK x \in A, y \in A : x # y /\ f[x] = f[y]
  <2>. HIDE DEF f, A
  <2>. QED  BY <1>3, <1>4, <1>5, FS_PigeonHole
<1>. QED  BY <1>6

(* Induction up to a bound. *)
LEMMA UpTo ==
  ASSUME NEW n \in Nat, NEW P, 0 \in P, \A k \in 0 .. n - 1 : k \in P => k + 1 \in P
  PROVE  \A k \in 0 .. n : k \in P
<1>. DEFINE Q == {k \in Nat : k <= n => k \in P}
<1>1. 0 \in Q /\ Q \in SUBSET Nat
  OBVIOUS
<1>2. \A k \in Q : k + 1 \in Q
  <2>. TAKE k \in Q
  <2>1. CASE k + 1 <= n
    BY <2>1
  <2>2. CASE ~ k + 1 <= n
    BY <2>2
  <2>. QED  BY <2>1, <2>2
<1>3. Q = Nat
  <2>. HIDE DEF Q
  <2>. QED  BY <1>1, <1>2, SetInduction
<1>. QED  BY <1>3

(* Recursion exists.                                                       *)
Iterates(f, n, b, h) == f[0] = b /\ \A k \in 1 .. n : f[k] = h[k][f[k - 1]]

(* Recursion up to a bound exists.                                         *)
LEMMA Recursion ==
  ASSUME NEW n \in Nat, NEW S, NEW b \in S, NEW h \in [1 .. n -> [S -> S]]
  PROVE  \E f \in [0 .. n -> S] : Iterates(f, n, b, h)
<1>. DEFINE OK(m, f) == f[0] = b /\ \A k \in 1 .. m : f[k] = h[k][f[k - 1]]
            P == {m \in 0 .. n : \E f \in [0 .. m -> S] : OK(m, f)}
<1>1. 0 \in P
  <2>1. [k \in 0 .. 0 |-> b] \in [0 .. 0 -> S] /\ OK(0, [k \in 0 .. 0 |-> b])
    OBVIOUS
  <2>. HIDE DEF OK
  <2>. QED  BY <2>1
<1>2. \A m \in 0 .. n - 1 : m \in P => m + 1 \in P
  <2>. TAKE m \in 0 .. n - 1
  <2>. HAVE m \in P
  <2>. PICK f \in [0 .. m -> S] : OK(m, f)
    OBVIOUS
  <2>. DEFINE g == [k \in 0 .. m + 1 |-> IF k <= m THEN f[k] ELSE h[m + 1][f[m]]]
  <2>1. h[m + 1][f[m]] \in S
    OBVIOUS
  <2>2. g \in [0 .. m + 1 -> S]
    BY <2>1
  <2>3. g[0] = b
    OBVIOUS
  <2>4. ASSUME NEW k \in 1 .. m + 1 PROVE g[k] = h[k][g[k - 1]]
    <3>1. CASE k <= m
      BY <3>1
    <3>2. CASE k = m + 1
      BY <3>2
    <3>. QED  BY <3>1, <3>2
  <2>. HIDE DEF g
  <2>5. OK(m + 1, g)
    BY <2>3, <2>4
  <2>. HIDE DEF OK
  <2>. QED  BY <2>2, <2>5
<1>3. \A k \in 0 .. n : k \in P
  <2>. HIDE DEF P
  <2>. QED  BY <1>1, <1>2, UpTo
<1>4. n \in P
  BY <1>3
<1>. HIDE DEF OK
<1>5. \E f \in [0 .. n -> S] : OK(n, f)
  BY <1>4
<1>. QED  BY <1>5 DEF OK, Iterates

(* Bytes, the number of values of an access of so many bytes, satisfies    *)
(* its recursion.                                                          *)
LEMMA BytesIs ==
  /\ Byte \in Nat /\ Byte > 1 /\ WordBytes \in Nat /\ WordBytes > 0
  /\ Bytes[WordBytes] = Word
  /\ Bytes[0] = 1
  /\ \A k \in 0 .. WordBytes - 1 : Bytes[k + 1] = Byte * Bytes[k]
  /\ \A k \in 0 .. WordBytes : Bytes[k] \in Nat \ {0}
<1>. DEFINE Def(f) == f = [k \in 0 .. WordBytes |-> IF k = 0 THEN 1 ELSE Byte * f[k - 1]]
            S == Nat \ {0}
            h == [k \in 1 .. WordBytes |-> [x \in S |-> Byte * x]]
<1>1. Byte \in Nat /\ Byte > 1 /\ WordBytes \in Nat /\ WordBytes > 0
  BY MemoryAssumption
<1>2. PICK f \in [0 .. WordBytes -> S] : Iterates(f, WordBytes, 1, h)
  <2>1. \A x \in S : Byte * x \in S
    BY <1>1
  <2>2. h \in [1 .. WordBytes -> [S -> S]] /\ 1 \in S
    BY <2>1
  <2>3. WordBytes \in Nat
    BY <1>1
  <2>. HIDE DEF h, S
  <2>. QED  BY <2>2, <2>3, Recursion
<1>3. \A k \in 1 .. WordBytes : f[k] = Byte * f[k - 1]
  <2>. TAKE k \in 1 .. WordBytes
  <2>1. k - 1 \in 0 .. WordBytes
    BY <1>1
  <2>2. f[k - 1] \in S
    BY <2>1, <1>2
  <2>3. h[k][f[k - 1]] = Byte * f[k - 1]
    BY <2>2
  <2>. QED  BY <1>2, <2>3 DEF Iterates
<1>4. Def(f)
  <2>1. DOMAIN f = 0 .. WordBytes /\ f = [k \in 0 .. WordBytes |-> f[k]]
    BY <1>2
  <2>2. \A k \in 0 .. WordBytes : f[k] = IF k = 0 THEN 1 ELSE Byte * f[k - 1]
    BY <1>1, <1>2, <1>3 DEF Iterates
  <2>. QED  BY <2>1, <2>2
<1>5. Bytes = CHOOSE x : Def(x)
  BY DEF Bytes
<1>6. Def(Bytes)
  <2>. HIDE DEF Def
  <2>. QED  BY <1>4, <1>5
<1>7. \A k \in 0 .. WordBytes : Bytes[k] = IF k = 0 THEN 1 ELSE Byte * Bytes[k - 1]
  BY <1>6
<1>8. \A k \in 0 .. WordBytes - 1 : Bytes[k + 1] = Byte * Bytes[k]
  <2>. TAKE k \in 0 .. WordBytes - 1
  <2>1. k + 1 \in 0 .. WordBytes /\ k + 1 # 0 /\ k + 1 - 1 = k
    BY <1>1
  <2>. HIDE DEF Def
  <2>. QED  BY <2>1, <1>7
<1>9. Bytes[0] = 1
  BY <1>1, <1>7
<1>10. \A k \in 0 .. WordBytes : Bytes[k] \in Nat \ {0}
  <2>. DEFINE P == {k \in Nat : Bytes[k] \in Nat \ {0}}
  <2>1. 0 \in P
    BY <1>9
  <2>2. \A k \in 0 .. WordBytes - 1 : k \in P => k + 1 \in P
    <3>. TAKE k \in 0 .. WordBytes - 1
    <3>1. Bytes[k + 1] = Byte * Bytes[k] /\ k + 1 \in Nat
      BY <1>1, <1>8
    <3>. HIDE DEF Def
    <3>2. ASSUME NEW b \in Nat \ {0} PROVE Byte * b \in Nat \ {0}
      BY MemoryAssumption
    <3>. QED  BY <3>1, <3>2
  <2>3. \A k \in 0 .. WordBytes : k \in P
    <3>. HIDE DEF P
    <3>. QED  BY <1>1, <2>1, <2>2, UpTo
  <2>. QED  BY <2>3
<1>. QED BY <1>1, <1>8, <1>9, <1>10, MemoryAssumption

(* A wider access holds so many times more values. *)
LEMMA BytesFactor ==
  ASSUME NEW w \in 0 .. WordBytes
  PROVE  \A k \in 0 .. WordBytes : w <= k => \E q \in Nat \ {0} : Bytes[k] = q * Bytes[w]
<1>. DEFINE P == {k \in Nat : w <= k => \E q \in Nat \ {0} : Bytes[k] = q * Bytes[w]}
<1>1. 0 \in P
  <2>1. w <= 0 => Bytes[0] = 1 * Bytes[w]
    BY BytesIs
  <2>. QED  BY <2>1
<1>2. \A k \in 0 .. WordBytes - 1 : k \in P => k + 1 \in P
  <2>. TAKE k \in 0 .. WordBytes - 1
  <2>. HAVE k \in P
  <2>1. CASE w <= k
    <3>1. PICK q \in Nat \ {0} : Bytes[k] = q * Bytes[w]
      BY <2>1
    <3>2. Bytes[w] \in Nat /\ Byte \in Nat \ {0}
      BY BytesIs
    <3>3. Byte * (q * Bytes[w]) = (Byte * q) * Bytes[w]
      BY <3>2
    <3>4. Byte * q \in Nat \ {0}
      BY <3>2
    <3>5. Bytes[k + 1] = (Byte * q) * Bytes[w]
      BY <3>1, <3>3, BytesIs
    <3>. QED  BY <3>4, <3>5, BytesIs
  <2>2. CASE w = k + 1
    <3>1. Bytes[k + 1] = 1 * Bytes[w]
      BY <2>2, BytesIs
    <3>. QED  BY <3>1, BytesIs
  <2>3. CASE ~ w <= k + 1
    BY <2>3, BytesIs
  <2>. QED  BY <2>1, <2>2, <2>3, BytesIs
<1>3. \A k \in 0 .. WordBytes : k \in P
  <2>. HIDE DEF P
  <2>. QED  BY <1>1, <1>2, UpTo, BytesIs
<1>. QED  BY <1>3

(* No access holds more values than a word.                                *)
LEMMA BytesUpToWord == \A w \in 0 .. WordBytes : Bytes[w] \in Nat \ {0} /\ Bytes[w] <= Word
<1>. TAKE w \in 0 .. WordBytes
<1>0. WordBytes \in 0 .. WordBytes /\ w <= WordBytes /\ Bytes[w] \in Nat \ {0} /\ Bytes[WordBytes] = Word
  BY BytesIs
<1>1. PICK q \in Nat \ {0} : Bytes[WordBytes] = q * Bytes[w]
  BY <1>0, BytesFactor
<1>2. ASSUME NEW b \in Nat \ {0} PROVE q * b >= b
  OBVIOUS
<1>. QED  BY <1>0, <1>1, <1>2

-----------------------------------------------------------------------------
(* The paths of the harness are runs of the script.                        *)

Partial(S) == UNION {[D -> Value] : D \in SUBSET S}

(* Setting one entry of a partial map to values.                           *)
LEMMA PartialWith ==
  ASSUME NEW S, NEW f \in Partial(S), NEW a \in S, NEW b \in Value
  PROVE  /\ With(f, a, b) \in Partial(S)
         /\ DOMAIN With(f, a, b) = DOMAIN f \cup {a}
         /\ With(f, a, b)[a] = b
         /\ \A c \in DOMAIN f : c # a => With(f, a, b)[c] = f[c]
<1>1. PICK D \in SUBSET S : f \in [D -> Value]
  BY DEF Partial
<1>2. With(f, a, b) \in [D \cup {a} -> Value] /\ D \cup {a} \in SUBSET S
  BY <1>1 DEF With
<1>. QED  BY <1>1, <1>2 DEF Partial, With

(* What a partial map to values holds.                                     *)
LEMMA PartialType ==
  ASSUME NEW S, NEW f \in Partial(S)
  PROVE  DOMAIN f \subseteq S /\ \A a \in DOMAIN f : f[a] \in Value
BY DEF Partial

(* The empty map is one.                                                   *)
LEMMA PartialEmpty == ASSUME NEW S PROVE Empty \in Partial(S) /\ DOMAIN Empty = {}
<1>1. Empty \in [{} -> Value] /\ {} \in SUBSET S
  BY DEF Empty
<1>. QED  BY <1>1 DEF Partial

Touch == [by : {"ld", "st"}, at : Value, n : Nat]
KState(i) ==
  [u : Nat, in : [DOMAIN i.vars -> Value], x : [DOMAIN i.vars -> Value], ea : Value, acc : Value,
   reads : Nat, load : BOOLEAN, store : BOOLEAN, jump : BOOLEAN, valid : BOOLEAN, memop : BOOLEAN,
   rmem : Partial(Value), wmem : Partial(Addresses), touched : Seq(Touch)]

(* What is touched is what the two maps hold. *)
TouchOK(s) ==
  /\ \A a \in DOMAIN s.rmem : \E k \in DOMAIN s.touched :
       /\ s.touched[k].by = "ld" /\ s.touched[k].at = a
       /\ InRange(a) => s.touched[k].n = s.rmem[a]
  /\ \A k \in DOMAIN s.touched : s.touched[k].by = "ld" => s.touched[k].at \in DOMAIN s.rmem
  /\ \A a \in DOMAIN s.wmem : \E k \in DOMAIN s.touched :
       s.touched[k].by = "st" /\ s.touched[k].at = a /\ s.touched[k].n = s.wmem[a]

(* One step of the operation in the harness. *)
Read(s, width) ==
  LET value == PatternOf(s.reads + 1, width)
      rmem  == IF InRange(s.ea) THEN With(s.rmem, s.ea, value)
               ELSE IF s.ea \in DOMAIN s.rmem THEN s.rmem ELSE With(s.rmem, s.ea, 0)
  IN  [s EXCEPT !.u = @ + 1, !.load = TRUE, !.reads = @ + 1, !.memop = @ \/ InRange(s.ea),
                !.rmem = rmem, !.acc = (@ + rmem[s.ea]) % Word,
                !.touched = Append(@, [by |-> "ld", at |-> s.ea, n |-> value])]
Write(s, v0, width) ==
  LET value    == s.x[v0] % Bytes[width]
      recorded == InRange(s.ea) /\ s.x[v0] # 0
  IN  [s EXCEPT !.u = @ + 1, !.store = TRUE, !.memop = @ \/ recorded,
                !.wmem = IF recorded THEN With(@, s.ea, value) ELSE @,
                !.touched = Append(@, [by |-> "st", at |-> s.ea, n |-> value])]
KStep(i, s, step) ==
  IF ~ Taken(step, s.acc) THEN [s EXCEPT !.u = @ + 1]
  ELSE IF step.do = "addr" THEN [s EXCEPT !.u = @ + 1, !.ea = (@ + s.x[step.v]) % Word]
  ELSE IF step.do = "add" THEN [s EXCEPT !.u = @ + 1, !.acc = (@ + s.x[step.v]) % Word]
  ELSE IF step.do = "out" THEN [s EXCEPT !.u = @ + 1, !.x[step.v] = s.acc]
  ELSE IF step.do = "ld" THEN Read(s, step.width)
  ELSE IF step.do = "st" THEN Write(s, step.v, step.width)
  ELSE [s EXCEPT !.u = @ + 1, !.jump = TRUE, !.valid = @ \/ s.x[step.v] = i.size + 4]

Given(in) == [Begin EXCEPT !.u = 1, !.in = in, !.x = in]
Trace(i, q, in, n) ==
  /\ in \in [DOMAIN i.vars -> Value]
  /\ q[1] = Given(in)
  /\ \A k \in 1 .. n - 1 : q[k + 1] = KStep(i, q[k], i.script[k])

IsRun(i, e) == \E q, in : Trace(i, q, in, Len(i.script) + 1)
                          /\ e = [q[Len(i.script) + 1] EXCEPT !.u = 0]
Runs(i) == {e \in KState(i) : IsRun(i, e)}
KleeInv ==
  /\ inst \in Instruction
  /\ \/ path = Begin
     \/ path.u \in 1 .. Len(inst.script) + 1
        /\ \E q, in : Trace(inst, q, in, path.u) /\ path = q[path.u]
  /\ tests \in Seq(Runs(inst))

(* A sum cut to a word is a value.                                         *)
LEMMA ModWord == ASSUME NEW n \in Nat PROVE n % Word \in Value
<1>1. n \in Int /\ Word \in Nat \ {0}
  BY Parts
<1>. QED  BY <1>1, Divide DEF Value

(* A number cut to an access is a value.                                   *)
LEMMA ModBytes ==
  ASSUME NEW n \in Nat, NEW w \in 1 .. WordBytes
  PROVE  n % Bytes[w] \in 0 .. Bytes[w] - 1 /\ n % Bytes[w] \in Value
<1>1. n \in Int /\ w \in 0 .. WordBytes
  BY BytesIs
<1>2. Bytes[w] \in Nat \ {0} /\ Bytes[w] <= Word
  BY <1>1, BytesUpToWord
<1>3. n % Bytes[w] \in 0 .. Bytes[w] - 1
  BY <1>1, <1>2, Divide
<1>. QED  BY <1>2, <1>3, Parts DEF Value

(* Values are numbers, and addresses values.                               *)
LEMMA ValueNat == Value \subseteq Nat /\ 0 \in Value /\ Addresses \subseteq Value
BY Parts, MemoryAssumption DEF Value, Addresses

(* Addition of values stays in a word.                                     *)
LEMMA AddWord == ASSUME NEW a \in Value, NEW b \in Value PROVE (a + b) % Word \in Value
<1>1. a + b \in Nat
  BY ValueNat
<1>. DEFINE n == a + b
<1>2. n \in Nat
  BY <1>1
<1>. HIDE DEF n
<1>3. n % Word \in Value
  BY <1>2, ModWord
<1>. QED  BY <1>3 DEF n

(* The marker of a load fits its access.                                   *)
LEMMA PatternType ==
  ASSUME NEW n \in Nat, NEW w \in 1 .. WordBytes
  PROVE  PatternOf(n, w) \in 0 .. Bytes[w] - 1 /\ PatternOf(n, w) \in Value
<1>1. n * Pattern \in Nat
  BY MemoryAssumption
<1>. QED  BY <1>1, ModBytes DEF PatternOf

(* A load of the harness keeps the type of a path and adds one touch.      *)
LEMMA ReadStep ==
  ASSUME NEW i, NEW s \in KState(i), TouchOK(s), NEW w \in 1 .. WordBytes
  PROVE  /\ Read(s, w) \in KState(i) /\ TouchOK(Read(s, w))
         /\ Read(s, w).u = s.u + 1 /\ Read(s, w).in = s.in /\ Read(s, w).x = s.x
         /\ Read(s, w).jump = s.jump /\ Read(s, w).valid = s.valid
<1>. DEFINE value == PatternOf(s.reads + 1, w)
            rmem  == IF InRange(s.ea) THEN With(s.rmem, s.ea, value)
                     ELSE IF s.ea \in DOMAIN s.rmem THEN s.rmem ELSE With(s.rmem, s.ea, 0)
            new == [by |-> "ld", at |-> s.ea, n |-> value]
            touched == Append(s.touched, new)
            r == Read(s, w)
<1>1. s.rmem \in Partial(Value) /\ s.wmem \in Partial(Addresses) /\ s.ea \in Value /\ s.acc \in Value
      /\ s.touched \in Seq(Touch) /\ s.reads \in Nat
  BY DEF KState
<1>2. value \in Value /\ value \in Nat /\ 0 \in Value
  <2>1. s.reads + 1 \in Nat
    BY <1>1
  <2>. QED  BY <2>1, PatternType, ValueNat
<1>. HIDE DEF value
<1>3. /\ rmem \in Partial(Value) /\ s.ea \in DOMAIN rmem /\ DOMAIN rmem = DOMAIN s.rmem \cup {s.ea}
      /\ InRange(s.ea) => rmem[s.ea] = value
      /\ \A a \in DOMAIN rmem : a # s.ea => a \in DOMAIN s.rmem /\ rmem[a] = s.rmem[a]
  <2>1. CASE InRange(s.ea) \/ s.ea \notin DOMAIN s.rmem
    <3>. DEFINE f == s.rmem
                a == s.ea
                b == IF InRange(s.ea) THEN value ELSE 0
    <3>1. f \in Partial(Value) /\ a \in Value /\ b \in Value /\ rmem = With(f, a, b)
      BY <1>1, <1>2, <2>1
    <3>2. InRange(s.ea) => b = value
      OBVIOUS
    <3>. HIDE DEF rmem, f, a, b
    <3>3. /\ With(f, a, b) \in Partial(Value)
          /\ DOMAIN With(f, a, b) = DOMAIN f \cup {a}
          /\ With(f, a, b)[a] = b
          /\ \A c \in DOMAIN f : c # a => With(f, a, b)[c] = f[c]
      BY <3>1, PartialWith, Z3
    <3>. QED  BY <3>1, <3>2, <3>3 DEF f, a
  <2>2. CASE ~ InRange(s.ea) /\ s.ea \in DOMAIN s.rmem
    BY <1>1, <2>2
  <2>. QED  BY <2>1, <2>2
<1>4. rmem[s.ea] \in Value
  BY <1>3, PartialType
<1>. HIDE DEF rmem
<1>5. new \in Touch
  BY <1>1, <1>2 DEF Touch
<1>. HIDE DEF new
<1>6. /\ touched \in Seq(Touch)
      /\ DOMAIN touched = DOMAIN s.touched \cup {Len(s.touched) + 1}
      /\ touched[Len(s.touched) + 1] = new
      /\ \A k \in DOMAIN s.touched : touched[k] = s.touched[k]
  BY <1>1, <1>5
<1>. HIDE DEF touched
<1>7. (s.acc + rmem[s.ea]) % Word \in Value
  <2>. DEFINE a == s.acc
              b == rmem[s.ea]
  <2>1. a \in Value /\ b \in Value
    BY <1>1, <1>4
  <2>. HIDE DEF a, b
  <2>2. (a + b) % Word \in Value
    BY <2>1, AddWord
  <2>. QED  BY <2>2 DEF a, b
<1>8. r = [s EXCEPT !.u = @ + 1, !.load = TRUE, !.reads = @ + 1, !.memop = @ \/ InRange(s.ea),
                !.rmem = rmem, !.acc = (@ + rmem[s.ea]) % Word, !.touched = touched]
  BY DEF Read, rmem, value, touched, new
<1>. HIDE DEF r
<1>9. r \in KState(i) /\ r.u = s.u + 1 /\ r.in = s.in /\ r.x = s.x /\ r.jump = s.jump /\ r.valid = s.valid
      /\ r.rmem = rmem /\ r.wmem = s.wmem /\ r.touched = touched
  <2>. DEFINE acc == (s.acc + rmem[s.ea]) % Word
  <2>1. acc \in Value
    BY <1>7
  <2>2. r = [s EXCEPT !.u = s.u + 1, !.load = TRUE, !.reads = s.reads + 1,
                !.memop = s.memop \/ InRange(s.ea), !.rmem = rmem, !.acc = acc, !.touched = touched]
    BY <1>8
  <2>3. (s.memop \/ InRange(s.ea)) \in BOOLEAN
    BY DEF KState
  <2>. HIDE DEF acc
  <2>. DEFINE mo == s.memop \/ InRange(s.ea)
  <2>4. mo \in BOOLEAN /\ s.u + 1 \in Nat /\ s.reads + 1 \in Nat
    BY <2>3 DEF KState
  <2>5. r = [s EXCEPT !.u = s.u + 1, !.load = TRUE, !.reads = s.reads + 1,
                !.memop = mo, !.rmem = rmem, !.acc = acc, !.touched = touched]
    BY <2>2
  <2>. HIDE DEF acc, mo
  <2>6. r \in KState(i)
    BY <1>3, <1>6, <2>1, <2>4, <2>5 DEF KState
  <2>7. r.u = s.u + 1 /\ r.in = s.in /\ r.x = s.x /\ r.jump = s.jump /\ r.valid = s.valid
      /\ r.rmem = rmem /\ r.wmem = s.wmem /\ r.touched = touched
    BY <2>5 DEF KState
  <2>. QED  BY <2>6, <2>7
<1>10. new.by = "ld" /\ new.at = s.ea /\ new.n = value
  BY DEF new
<1>11. TouchOK(r)
  <2>1. ASSUME NEW a \in DOMAIN r.rmem
        PROVE  \E k \in DOMAIN r.touched :
                 /\ r.touched[k].by = "ld" /\ r.touched[k].at = a
                 /\ InRange(a) => r.touched[k].n = r.rmem[a]
    <3>1. CASE a = s.ea
      BY <1>3, <1>6, <1>9, <1>10, <3>1
    <3>2. CASE a # s.ea
      BY <1>3, <1>6, <1>9, <3>2 DEF TouchOK
    <3>. QED  BY <3>1, <3>2
  <2>2. \A k \in DOMAIN r.touched : r.touched[k].by = "ld" => r.touched[k].at \in DOMAIN r.rmem
    BY <1>3, <1>6, <1>9, <1>10 DEF TouchOK
  <2>3. \A a \in DOMAIN r.wmem : \E k \in DOMAIN r.touched :
       r.touched[k].by = "st" /\ r.touched[k].at = a /\ r.touched[k].n = r.wmem[a]
    BY <1>6, <1>9 DEF TouchOK
  <2>. QED  BY <2>1, <2>2, <2>3 DEF TouchOK
<1>. QED  BY <1>9, <1>11 DEF r

(* A store of the harness keeps the type of a path and adds one touch.     *)
LEMMA WriteStep ==
  ASSUME NEW i, NEW s \in KState(i), TouchOK(s), NEW z \in DOMAIN i.vars, NEW w \in 1 .. WordBytes
  PROVE  /\ Write(s, z, w) \in KState(i) /\ TouchOK(Write(s, z, w))
         /\ Write(s, z, w).u = s.u + 1 /\ Write(s, z, w).in = s.in /\ Write(s, z, w).x = s.x
         /\ Write(s, z, w).jump = s.jump /\ Write(s, z, w).valid = s.valid
<1>. DEFINE value == s.x[z] % Bytes[w]
            recorded == InRange(s.ea) /\ s.x[z] # 0
            wmem == IF recorded THEN With(s.wmem, s.ea, value) ELSE s.wmem
            new == [by |-> "st", at |-> s.ea, n |-> value]
            touched == Append(s.touched, new)
            mo == s.memop \/ recorded
            r == Write(s, z, w)
<1>1. s.rmem \in Partial(Value) /\ s.wmem \in Partial(Addresses) /\ s.ea \in Value
      /\ s.touched \in Seq(Touch) /\ s.x[z] \in Nat
  BY ValueNat DEF KState
<1>2. value \in Value /\ value \in Nat
  <2>. DEFINE n == s.x[z]
  <2>1. n \in Nat
    BY <1>1
  <2>. HIDE DEF n
  <2>2. n % Bytes[w] \in Value
    BY <2>1, ModBytes
  <2>. QED  BY <2>2, ValueNat DEF n
<1>. HIDE DEF value
<1>3. /\ wmem \in Partial(Addresses)
      /\ \A a \in DOMAIN wmem : (a \in DOMAIN s.wmem /\ wmem[a] = s.wmem[a])
                                \/ (a = s.ea /\ wmem[a] = value)
  <2>1. CASE recorded
    <3>. DEFINE f == s.wmem
                a == s.ea
    <3>1. f \in Partial(Addresses) /\ a \in Addresses /\ wmem = With(f, a, value)
      BY <1>1, <2>1 DEF InRange
    <3>. HIDE DEF wmem, f, a
    <3>2. /\ With(f, a, value) \in Partial(Addresses)
          /\ DOMAIN With(f, a, value) = DOMAIN f \cup {a}
          /\ With(f, a, value)[a] = value
          /\ \A c \in DOMAIN f : c # a => With(f, a, value)[c] = f[c]
      BY <1>2, <3>1, PartialWith, Z3
    <3>3. ASSUME NEW c \in DOMAIN wmem
          PROVE  (c \in DOMAIN f /\ wmem[c] = f[c]) \/ (c = a /\ wmem[c] = value)
      BY <3>1, <3>2
    <3>. QED  BY <3>1, <3>2, <3>3 DEF f, a
  <2>2. CASE ~ recorded
    BY <1>1, <2>2
  <2>. QED  BY <2>1, <2>2
<1>4. r = [s EXCEPT !.u = s.u + 1, !.store = TRUE, !.memop = mo, !.wmem = wmem, !.touched = touched]
  BY DEF Write, value
<1>5. mo \in BOOLEAN
  BY DEF KState
<1>. HIDE DEF wmem, mo
<1>6. new \in Touch
  BY <1>1, <1>2 DEF Touch
<1>7. new.by = "st" /\ new.at = s.ea /\ new.n = value
  OBVIOUS
<1>. HIDE DEF new
<1>8. /\ touched \in Seq(Touch)
      /\ DOMAIN touched = DOMAIN s.touched \cup {Len(s.touched) + 1}
      /\ touched[Len(s.touched) + 1] = new
      /\ \A k \in DOMAIN s.touched : touched[k] = s.touched[k]
  BY <1>1, <1>6
<1>. HIDE DEF touched, r
<1>9. r \in KState(i)
  <2>1. s.u + 1 \in Nat
    BY DEF KState
  <2>. QED  BY <1>3, <1>4, <1>5, <1>8, <2>1 DEF KState
<1>10. r.u = s.u + 1 /\ r.in = s.in /\ r.x = s.x /\ r.jump = s.jump /\ r.valid = s.valid
       /\ r.rmem = s.rmem /\ r.wmem = wmem /\ r.touched = touched
  BY <1>4 DEF KState
<1>11. TouchOK(r)
  <2>1. ASSUME NEW a \in DOMAIN r.wmem
        PROVE  \E k \in DOMAIN r.touched :
                 r.touched[k].by = "st" /\ r.touched[k].at = a /\ r.touched[k].n = r.wmem[a]
    <3>1. CASE a \in DOMAIN s.wmem /\ wmem[a] = s.wmem[a]
      BY <1>8, <1>10, <3>1 DEF TouchOK
    <3>2. CASE a = s.ea /\ wmem[a] = value
      BY <1>7, <1>8, <1>10, <3>2
    <3>. QED  BY <1>3, <1>10, <3>1, <3>2
  <2>2. \A k \in DOMAIN r.touched : r.touched[k].by = "ld" => r.touched[k].at \in DOMAIN r.rmem
    BY <1>7, <1>8, <1>10 DEF TouchOK
  <2>3. \A a \in DOMAIN r.rmem : \E k \in DOMAIN r.touched :
       /\ r.touched[k].by = "ld" /\ r.touched[k].at = a
       /\ InRange(a) => r.touched[k].n = r.rmem[a]
    BY <1>8, <1>10 DEF TouchOK
  <2>. QED  BY <2>1, <2>2, <2>3 DEF TouchOK
<1>. QED  BY <1>9, <1>10, <1>11 DEF r

(* The type of an instruction's variables and script.                      *)
LEMMA Formed ==
  ASSUME NEW i \in Instruction
  PROVE  /\ i.vars \in Seq([role : {"imm", "reg", "rd"}, compressed : BOOLEAN, not : SUBSET Nat])
         /\ i.script \in Seq([do : {"addr", "add", "out", "ld", "st", "jump"}, v : DOMAIN i.vars,
                              width : 1 .. WordBytes, if : BOOLEAN])
         /\ i.size \in Nat \ {0} /\ i.paths \in Nat
BY InstructionAssumption DEF WellFormed

(* The type of a step of the script.                                       *)
LEMMA StepFormed ==
  ASSUME NEW i \in Instruction, NEW k \in DOMAIN i.script
  PROVE  /\ i.script[k].v \in DOMAIN i.vars /\ i.script[k].width \in 1 .. WordBytes
         /\ i.script[k].do \in {"addr", "add", "out", "ld", "st", "jump"}
         /\ i.script[k].if \in BOOLEAN
<1>. DEFINE S == [do : {"addr", "add", "out", "ld", "st", "jump"}, v : DOMAIN i.vars,
                  width : 1 .. WordBytes, if : BOOLEAN]
            f == i.script
<1>1. f \in Seq(S)
  BY Formed
<1>. HIDE DEF S, f
<1>2. \A l \in DOMAIN f : f[l] \in S
  BY <1>1
<1>3. k \in DOMAIN f
  BY DEF f
<1>4. f[k] \in S
  BY <1>2, <1>3
<1>. QED  BY <1>4 DEF S, f

(* A step of the script keeps the type of a path, its inputs, and what it  *)
(* recorded of its touches.                                                *)
LEMMA KStepOK ==
  ASSUME NEW i \in Instruction, NEW s \in KState(i), TouchOK(s), NEW k \in DOMAIN i.script
  PROVE  LET r == KStep(i, s, i.script[k])
         IN  r \in KState(i) /\ TouchOK(r) /\ r.u = s.u + 1 /\ r.in = s.in
<1>. DEFINE step == i.script[k]
            r == KStep(i, s, step)
            z == step.v
            OK == r \in KState(i) /\ TouchOK(r) /\ r.u = s.u + 1 /\ r.in = s.in
<1>. SUFFICES OK
  OBVIOUS
<1>1. z \in DOMAIN i.vars /\ step.width \in 1 .. WordBytes /\ step.if \in BOOLEAN
  BY StepFormed
<1>2. s.x[z] \in Value /\ s.ea \in Value /\ s.acc \in Value /\ s.u + 1 \in Nat
  BY <1>1 DEF KState
<1>. HIDE DEF step
<1>3. (s.ea + s.x[z]) % Word \in Value /\ (s.acc + s.x[z]) % Word \in Value
  <2>. DEFINE a == s.ea
              b == s.x[z]
              c == s.acc
  <2>1. a \in Value /\ b \in Value /\ c \in Value
    BY <1>2
  <2>. HIDE DEF a, b, c
  <2>2. (a + b) % Word \in Value /\ (c + b) % Word \in Value
    BY <2>1, AddWord
  <2>. QED  BY <2>2 DEF a, b, c
<1>. DEFINE ea == (s.ea + s.x[z]) % Word
            acc == (s.acc + s.x[z]) % Word
<1>4. ea \in Value /\ acc \in Value
  BY <1>3
<1>5. ASSUME NEW q, q \in KState(i), q.rmem = s.rmem, q.wmem = s.wmem, q.touched = s.touched
      PROVE  TouchOK(q)
  BY <1>5 DEF TouchOK
<1>6. CASE ~ Taken(step, s.acc)
  <2>1. r = [s EXCEPT !.u = s.u + 1]
    BY <1>6 DEF KStep
  <2>. HIDE DEF r
  <2>3. r \in KState(i)
    BY <1>2, <2>1 DEF KState
  <2>4. r.u = s.u + 1 /\ r.in = s.in /\ r.rmem = s.rmem /\ r.wmem = s.wmem /\ r.touched = s.touched
    BY <2>1 DEF KState
  <2>. QED  BY <1>5, <2>3, <2>4
<1>7. CASE Taken(step, s.acc) /\ step.do = "addr"
  <2>1. r = [s EXCEPT !.u = s.u + 1, !.ea = ea]
    BY <1>7 DEF KStep
  <2>. HIDE DEF r, ea
  <2>3. r \in KState(i)
    BY <1>2, <1>4, <2>1 DEF KState
  <2>4. r.u = s.u + 1 /\ r.in = s.in /\ r.rmem = s.rmem /\ r.wmem = s.wmem /\ r.touched = s.touched
    BY <2>1 DEF KState
  <2>. QED  BY <1>5, <2>3, <2>4
<1>8. CASE Taken(step, s.acc) /\ step.do = "add"
  <2>1. r = [s EXCEPT !.u = s.u + 1, !.acc = acc]
    BY <1>8 DEF KStep
  <2>. HIDE DEF r, acc
  <2>3. r \in KState(i)
    BY <1>2, <1>4, <2>1 DEF KState
  <2>4. r.u = s.u + 1 /\ r.in = s.in /\ r.rmem = s.rmem /\ r.wmem = s.wmem /\ r.touched = s.touched
    BY <2>1 DEF KState
  <2>. QED  BY <1>5, <2>3, <2>4
<1>9. CASE Taken(step, s.acc) /\ step.do = "out"
  <2>. DEFINE x == [s.x EXCEPT ![z] = s.acc]
  <2>1. r = [s EXCEPT !.u = s.u + 1, !.x = x]
    BY <1>9 DEF KStep
  <2>2. x \in [DOMAIN i.vars -> Value]
    BY <1>1, <1>2 DEF KState
  <2>. HIDE DEF r, x
  <2>3. r \in KState(i)
    BY <1>2, <2>1, <2>2 DEF KState
  <2>4. r.u = s.u + 1 /\ r.in = s.in /\ r.rmem = s.rmem /\ r.wmem = s.wmem /\ r.touched = s.touched
    BY <2>1 DEF KState
  <2>. QED  BY <1>5, <2>3, <2>4
<1>10. CASE Taken(step, s.acc) /\ step.do = "ld"
  <2>1. r = Read(s, step.width)
    BY <1>10 DEF KStep
  <2>. DEFINE w == step.width
  <2>2. w \in 1 .. WordBytes /\ r = Read(s, w)
    BY <1>1, <2>1
  <2>. HIDE DEF r, w
  <2>3. Read(s, w) \in KState(i) /\ TouchOK(Read(s, w)) /\ Read(s, w).u = s.u + 1 /\ Read(s, w).in = s.in
    BY <2>2, ReadStep
  <2>. QED  BY <2>2, <2>3
<1>11. CASE Taken(step, s.acc) /\ step.do = "st"
  <2>1. r = Write(s, z, step.width)
    BY <1>11 DEF KStep
  <2>. DEFINE w == step.width
  <2>2. w \in 1 .. WordBytes /\ r = Write(s, z, w) /\ z \in DOMAIN i.vars
    BY <1>1, <2>1
  <2>. HIDE DEF r, w, z
  <2>3. /\ Write(s, z, w) \in KState(i) /\ TouchOK(Write(s, z, w))
        /\ Write(s, z, w).u = s.u + 1 /\ Write(s, z, w).in = s.in
    BY <2>2, WriteStep
  <2>. QED  BY <2>2, <2>3
<1>12. CASE Taken(step, s.acc) /\ step.do \notin {"addr", "add", "out", "ld", "st"}
  <2>. DEFINE va == s.valid \/ s.x[z] = i.size + 4
  <2>1. r = [s EXCEPT !.u = s.u + 1, !.jump = TRUE, !.valid = va]
    BY <1>12 DEF KStep
  <2>2. va \in BOOLEAN
    BY DEF KState
  <2>. HIDE DEF r, va
  <2>3. r \in KState(i)
    BY <1>2, <2>1, <2>2 DEF KState
  <2>4. r.u = s.u + 1 /\ r.in = s.in /\ r.rmem = s.rmem /\ r.wmem = s.wmem /\ r.touched = s.touched
    BY <2>1 DEF KState
  <2>. QED  BY <1>5, <2>3, <2>4
<1>. HIDE DEF OK
<1>. QED  BY <1>6, <1>7, <1>8, <1>9, <1>10, <1>11, <1>12

(* A path begins well typed, with nothing touched.                         *)
LEMMA GivenOK ==
  ASSUME NEW i \in Instruction, NEW in \in [DOMAIN i.vars -> Value]
  PROVE  Given(in) \in KState(i) /\ TouchOK(Given(in)) /\ Given(in).u = 1 /\ Given(in).in = in
         /\ Given(in).x = in /\ Given(in).ea = 0 /\ Given(in).acc = 0 /\ ~ Given(in).jump
         /\ Given(in).touched = <<>>
<1>1. 0 \in Value /\ Empty \in Partial(Value) /\ Empty \in Partial(Addresses) /\ DOMAIN Empty = {}
  BY ValueNat, PartialEmpty
<1>. DEFINE g == Given(in)
<1>2. g = [u |-> 1, in |-> in, x |-> in, ea |-> 0, acc |-> 0, reads |-> 0,
           load |-> FALSE, store |-> FALSE, jump |-> FALSE, valid |-> FALSE, memop |-> FALSE,
           rmem |-> Empty, wmem |-> Empty, touched |-> <<>>]
  <2>1. g = [[[Begin EXCEPT !.u = 1] EXCEPT !.in = in] EXCEPT !.x = in]
    BY DEF Given
  <2>. QED  BY <2>1 DEF Begin
<1>. HIDE DEF g
<1>3. /\ g.u = 1 /\ g.in = in /\ g.x = in /\ g.ea = 0 /\ g.acc = 0 /\ ~ g.jump
      /\ g.touched = <<>> /\ g.rmem = Empty /\ g.wmem = Empty
  BY <1>2
<1>4. <<>> \in Seq(Touch)
  OBVIOUS
<1>5. g \in KState(i)
  BY <1>1, <1>2, <1>4 DEF KState
<1>6. TouchOK(g)
  BY <1>1, <1>3 DEF TouchOK
<1>. QED  BY <1>3, <1>5, <1>6 DEF g

(* Every state of a run is one of the harness, and its maps hold what was  *)
(* touched.                                                                *)
LEMMA TraceOK ==
  ASSUME NEW i \in Instruction, NEW q, NEW in, NEW n \in 1 .. Len(i.script) + 1, Trace(i, q, in, n)
  PROVE  \A k \in 1 .. n : q[k] \in KState(i) /\ TouchOK(q[k]) /\ q[k].u = k /\ q[k].in = in
<1>. DEFINE OK(s, k) == s \in KState(i) /\ TouchOK(s) /\ s.u = k /\ s.in = in
            P == {k \in Nat : OK(q[k + 1], k + 1)}
<1>0. Len(i.script) \in Nat /\ DOMAIN i.script = 1 .. Len(i.script) /\ n \in Nat /\ n - 1 \in Nat
  BY Formed
<1>1. 0 \in P
  BY GivenOK DEF Trace
<1>2. ASSUME NEW k \in 0 .. (n - 1) - 1, k \in P PROVE k + 1 \in P
  <2>1. k + 1 \in DOMAIN i.script /\ k + 1 \in 1 .. n - 1
    BY <1>0
  <2>2. q[k + 1 + 1] = KStep(i, q[k + 1], i.script[k + 1])
    BY <2>1 DEF Trace
  <2>3. q[k + 1] \in KState(i) /\ TouchOK(q[k + 1]) /\ q[k + 1].u = k + 1 /\ q[k + 1].in = in
    BY <1>2
  <2>4. OK(q[k + 1 + 1], k + 1 + 1)
    BY <2>1, <2>2, <2>3, KStepOK
  <2>. QED  BY <2>4
<1>3. \A k \in 0 .. n - 1 : k \in P
  <2>. HIDE DEF P
  <2>. QED  BY <1>0, <1>1, <1>2, UpTo
<1>4. ASSUME NEW k \in 1 .. n PROVE OK(q[k], k)
  <2>1. k - 1 \in 0 .. n - 1 /\ k - 1 + 1 = k
    BY <1>0
  <2>2. OK(q[k - 1 + 1], k - 1 + 1)
    <3>. HIDE DEF OK
    <3>. QED  BY <1>3, <2>1
  <2>. QED  BY <2>1, <2>2
<1>. QED  BY <1>4

(* What is known of an entry of the io file. *)
EntryType(i, e) ==
  /\ e.in \in [DOMAIN i.vars -> Value] /\ e.x \in [DOMAIN i.vars -> Value]
  /\ e.rmem \in Partial(Value) /\ e.wmem \in Partial(Addresses)
  /\ e.touched \in Seq(Touch) /\ TouchOK(e)
  /\ e.jump \in BOOLEAN /\ e.valid \in BOOLEAN

(* A path that is the run of the script on some inputs is a well-typed     *)
(* entry.                                                                  *)
LEMMA RunType ==
  ASSUME NEW i \in Instruction, NEW e, IsRun(i, e)
  PROVE  EntryType(i, e)
<1>. DEFINE n == Len(i.script) + 1
<1>1. PICK q, in : Trace(i, q, in, n) /\ e = [q[n] EXCEPT !.u = 0]
  BY DEF IsRun
<1>2. n \in 1 .. n
  BY Formed
<1>3. q[n] \in KState(i) /\ TouchOK(q[n])
  <2>. HIDE DEF n
  <2>1. \A k \in 1 .. n : q[k] \in KState(i) /\ TouchOK(q[k])
    BY <1>1, <1>2, TraceOK DEF n
  <2>. QED  BY <1>2, <2>1
<1>. PICK s : s = q[n]
  OBVIOUS
<1>. HIDE DEF n
<1>4. /\ s.in \in [DOMAIN i.vars -> Value] /\ s.x \in [DOMAIN i.vars -> Value]
      /\ s.rmem \in Partial(Value) /\ s.wmem \in Partial(Addresses) /\ s.touched \in Seq(Touch)
      /\ s.jump \in BOOLEAN /\ s.valid \in BOOLEAN
  BY <1>3 DEF KState
<1>5. /\ e.in = s.in /\ e.x = s.x /\ e.rmem = s.rmem /\ e.wmem = s.wmem /\ e.touched = s.touched
      /\ e.jump = s.jump /\ e.valid = s.valid
  BY <1>1, <1>3 DEF KState
<1>6. TouchOK(e)
  BY <1>3, <1>5 DEF TouchOK
<1>. QED  BY <1>4, <1>5, <1>6 DEF EntryType

(* Each step action of the harness is one step of the operation. *)
Operate == SkipStep \/ AddAddress \/ Add \/ SetRegister \/ ReadMemory \/ WriteMemory \/ Jump

(* The actions that operate the instruction take its next step, whichever  *)
(* applies.                                                                *)
LEMMA OperateIsStep ==
  ASSUME Operate
  PROVE  /\ path.u \in DOMAIN inst.script
         /\ path' = KStep(inst, path, inst.script[path.u])
         /\ inst' = inst /\ tests' = tests
<1>. USE DEF Step
<1>1. CASE SkipStep
  BY <1>1 DEF SkipStep, KStep
<1>2. CASE AddAddress
  BY <1>2 DEF AddAddress, Ready, At, KStep
<1>3. CASE Add
  BY <1>3 DEF Add, Ready, At, KStep
<1>4. CASE SetRegister
  BY <1>4 DEF SetRegister, Ready, At, KStep
<1>5. CASE ReadMemory
  BY <1>5 DEF ReadMemory, Ready, At, KStep, Read
<1>6. CASE WriteMemory
  BY <1>6 DEF WriteMemory, Ready, At, KStep, Write
<1>7. CASE Jump
  BY <1>7 DEF Jump, Ready, At, KStep
<1>. QED  BY <1>1, <1>2, <1>3, <1>4, <1>5, <1>6, <1>7 DEF Operate

(* A trace of the script extends by its next step.                         *)
LEMMA TraceLonger ==
  ASSUME NEW i \in Instruction, NEW n \in 1 .. Len(i.script), NEW q, NEW in, Trace(i, q, in, n)
  PROVE  \E q2 : Trace(i, q2, in, n + 1) /\ q2[n + 1] = KStep(i, q[n], i.script[n])
<1>. DEFINE q2 == [k \in 1 .. n + 1 |-> IF k = n + 1 THEN KStep(i, q[n], i.script[n]) ELSE q[k]]
<1>1. n \in Nat /\ n >= 1
  BY Formed
<1>2. q2[n + 1] = KStep(i, q[n], i.script[n]) /\ \A k \in 1 .. n : q2[k] = q[k]
  BY <1>1
<1>. HIDE DEF q2
<1>3. Trace(i, q2, in, n + 1)
  <2>1. q2[1] = Given(in) /\ in \in [DOMAIN i.vars -> Value]
    BY <1>1, <1>2 DEF Trace
  <2>2. ASSUME NEW k \in 1 .. (n + 1) - 1 PROVE q2[k + 1] = KStep(i, q2[k], i.script[k])
    <3>1. CASE k = n
      BY <1>1, <1>2, <3>1
    <3>2. CASE k # n
      <4>1. k \in 1 .. n /\ k + 1 \in 1 .. n /\ k \in 1 .. n - 1
        BY <1>1, <3>2
      <4>. QED  BY <1>2, <4>1 DEF Trace
    <3>. QED  BY <3>1, <3>2
  <2>. QED  BY <2>1, <2>2 DEF Trace
<1>. QED  BY <1>2, <1>3

(* A path begins before the first step.                                    *)
LEMMA BeginU == Begin.u = 0
BY DEF Begin

(* Every step of the harness keeps its invariant: a path under way is a    *)
(* trace, a finished one a run.                                            *)
LEMMA KleeStep ==
  ASSUME KleeInv, KleeNext
  PROVE  KleeInv'
<1>. USE DEF KleeInv
<1>0. inst \in Instruction /\ Len(inst.script) \in Nat /\ DOMAIN inst.script = 1 .. Len(inst.script)
  BY Formed
<1>1. CASE Operate
  <2>1. /\ path.u \in DOMAIN inst.script
        /\ path' = KStep(inst, path, inst.script[path.u])
        /\ inst' = inst /\ tests' = tests
    BY <1>1, OperateIsStep
  <2>. DEFINE n == path.u
  <2>2. n \in 1 .. Len(inst.script) /\ path # Begin
    BY <1>0, <2>1, BeginU
  <2>3. PICK q, in : Trace(inst, q, in, n) /\ path = q[n]
    BY <2>2
  <2>. HIDE DEF n
  <2>4. PICK q2 : Trace(inst, q2, in, n + 1) /\ q2[n + 1] = KStep(inst, q[n], inst.script[n])
    BY <1>0, <2>2, <2>3, TraceLonger
  <2>5. path' = q2[n + 1]
    BY <2>1, <2>3, <2>4 DEF n
  <2>6. n + 1 \in 1 .. Len(inst.script) + 1
    BY <1>0, <2>2
  <2>7. path'.u = n + 1
    <3>. DEFINE m == n + 1
    <3>. HIDE DEF m
    <3>1. \A k \in 1 .. m : q2[k].u = k
      BY <1>0, <2>4, <2>6, TraceOK DEF m
    <3>2. m \in 1 .. m
      BY <2>6 DEF m
    <3>. QED  BY <2>5, <3>1, <3>2 DEF m
  <2>. QED  BY <2>1, <2>4, <2>5, <2>6, <2>7
<1>2. CASE MakeSymbolic
  <2>1. path = Begin
    BY <1>0, <1>2 DEF MakeSymbolic
  <2>2. PICK in \in [Vars -> Input \cup Immediate] : path' = [path EXCEPT !.u = 1, !.in = in, !.x = in]
    BY <1>2 DEF MakeSymbolic
  <2>3. in \in [DOMAIN inst.vars -> Value]
    BY MemoryAssumption DEF Vars, Value
  <2>4. path' = Given(in)
    BY <2>1, <2>2 DEF Given
  <2>5. path'.u = 1
    BY <1>0, <2>3, <2>4, GivenOK
  <2>. DEFINE q == [k \in 1 .. 1 |-> path']
  <2>6. Trace(inst, q, in, 1) /\ path' = q[1]
    BY <2>3, <2>4 DEF Trace
  <2>. HIDE DEF q
  <2>7. 1 \in 1 .. Len(inst.script) + 1
    BY <1>0
  <2>. QED  BY <1>2, <2>5, <2>6, <2>7 DEF MakeSymbolic
<1>3. CASE PrintTest
  <2>. DEFINE n == Len(inst.script) + 1
              e == [path EXCEPT !.u = 0]
  <2>1. path.u = n /\ path' = Begin /\ inst' = inst /\ tests' = Append(tests, e)
    BY <1>3 DEF PrintTest
  <2>2. n \in Nat \ {0}
    BY <1>0
  <2>3. PICK q, in : Trace(inst, q, in, n) /\ path = q[n]
    BY <2>1, <2>2, BeginU
  <2>4. IsRun(inst, e)
    BY <2>3 DEF IsRun
  <2>5. q[n] \in KState(inst)
    <3>. HIDE DEF n
    <3>1. n \in 1 .. Len(inst.script) + 1 /\ n \in 1 .. n
      BY <2>2 DEF n
    <3>2. \A k \in 1 .. n : q[k] \in KState(inst)
      BY <1>0, <2>3, <3>1, TraceOK
    <3>. QED  BY <3>1, <3>2
  <2>6. e \in KState(inst)
    BY <2>3, <2>5 DEF KState
  <2>. HIDE DEF e, n
  <2>7. e \in Runs(inst)
    BY <2>4, <2>6 DEF Runs
  <2>. QED  BY <2>1, <2>7
<1>. QED  BY <1>1, <1>2, <1>3 DEF KleeNext, Operate

-----------------------------------------------------------------------------
(* Texts, and what stays when they grow.                                   *)

IsText(tx) == tx \in Seq({tx[j] : j \in DOMAIN tx})

(* A text is indexed from 1 to its length.                                 *)
LEMMA TextIs ==
  ASSUME NEW tx, IsText(tx)
  PROVE  Len(tx) \in Nat /\ DOMAIN tx = 1 .. Len(tx)
BY DEF IsText

(* A sequence is a text.                                                   *)
LEMMA TextFrom ==
  ASSUME NEW S, NEW tx \in Seq(S)
  PROVE  IsText(tx)
<1>. DEFINE T == {tx[j] : j \in DOMAIN tx}
<1>1. Len(tx) \in Nat /\ DOMAIN tx = 1 .. Len(tx) /\ tx \in [1 .. Len(tx) -> T]
  OBVIOUS
<1>. HIDE DEF T
<1>2. tx \in Seq(T)
  BY <1>1
<1>. QED  BY <1>2 DEF IsText, T

(* The empty text.                                                         *)
LEMMA NoText == IsText(<<>>) /\ Len(<<>>) = 0
BY DEF IsText

(* Two texts joined.                                                       *)
LEMMA Joined ==
  ASSUME NEW a, NEW b, IsText(a), IsText(b)
  PROVE  /\ IsText(a \o b) /\ Len(a \o b) = Len(a) + Len(b)
         /\ \A j \in 1 .. Len(a) : (a \o b)[j] = a[j]
         /\ \A j \in 1 .. Len(b) : (a \o b)[Len(a) + j] = b[j]
<1>. DEFINE S == {a[j] : j \in DOMAIN a} \cup {b[j] : j \in DOMAIN b}
<1>1. a \in Seq(S) /\ b \in Seq(S)
  <2>. DEFINE A == {a[j] : j \in DOMAIN a}
              B == {b[j] : j \in DOMAIN b}
  <2>1. a \in Seq(A) /\ b \in Seq(B) /\ A \subseteq S /\ B \subseteq S
    BY DEF IsText
  <2>. HIDE DEF A, B, S
  <2>. QED  BY <2>1
<1>. HIDE DEF S
<1>2. a \o b \in Seq(S)
  BY <1>1
<1>3. /\ Len(a \o b) = Len(a) + Len(b)
      /\ \A j \in 1 .. Len(a) : (a \o b)[j] = a[j]
      /\ \A j \in 1 .. Len(b) : (a \o b)[Len(a) + j] = b[j]
  BY <1>1
<1>. QED  BY <1>2, <1>3, TextFrom

(* A text with one more item.                                              *)
LEMMA Appended ==
  ASSUME NEW a, NEW e, IsText(a)
  PROVE  /\ IsText(Append(a, e)) /\ Len(Append(a, e)) = Len(a) + 1
         /\ \A j \in 1 .. Len(a) : Append(a, e)[j] = a[j]
         /\ Append(a, e)[Len(a) + 1] = e
<1>. DEFINE S == {a[j] : j \in DOMAIN a} \cup {e}
<1>1. a \in Seq(S) /\ e \in S
  <2>. DEFINE A == {a[j] : j \in DOMAIN a}
  <2>1. a \in Seq(A) /\ A \subseteq S /\ e \in S
    BY DEF IsText
  <2>. HIDE DEF A, S
  <2>. QED  BY <2>1
<1>. HIDE DEF S
<1>2. Append(a, e) \in Seq(S)
  BY <1>1
<1>3. /\ Len(Append(a, e)) = Len(a) + 1
      /\ \A j \in 1 .. Len(a) : Append(a, e)[j] = a[j]
      /\ Append(a, e)[Len(a) + 1] = e
  BY <1>1
<1>. QED  BY <1>2, <1>3, TextFrom

(* tx2 continues tx.                                                       *)
Grows(tx, tx2) ==
  /\ IsText(tx) /\ IsText(tx2) /\ Len(tx) <= Len(tx2)
  /\ \A j \in 1 .. Len(tx) : tx2[j] = tx[j]
Agree(K, K2, tx) == \A j \in 0 .. Len(tx) : K2[j] = K[j]

(* What is known of a text goes on to be known of a longer one.            *)
LEMMA KnownMore ==
  ASSUME NEW tx, NEW tx2, Grows(tx, tx2), NEW K, IsKnown(K, tx)
  PROVE  \E K2 : IsKnown(K2, tx2) /\ Agree(K, K2, tx)
<1>. DEFINE n == Len(tx)
            OK(L, m) == /\ \A j \in 0 .. n : L[j] = K[j]
                        /\ \A j \in 1 .. n + m : L[j] = After(L[j - 1], tx2[j], j)
            P == {m \in Nat : \E L : OK(L, m)}
            d == Len(tx2) - n
<1>0. n \in Nat /\ Len(tx2) \in Nat /\ d \in Nat /\ n + d = Len(tx2)
  BY TextIs DEF Grows
<1>1. 0 \in P
  <2>1. \A j \in 1 .. n + 0 : K[j] = After(K[j - 1], tx2[j], j)
    BY <1>0 DEF Grows, IsKnown
  <2>2. OK(K, 0)
    BY <2>1
  <2>. HIDE DEF OK
  <2>. QED  BY <2>2
<1>2. ASSUME NEW m \in 0 .. d - 1, m \in P PROVE m + 1 \in P
  <2>. PICK L : OK(L, m)
    BY <1>2
  <2>. DEFINE a == n + m + 1
              x == After(L[a - 1], tx2[a], a)
              M == [j \in 0 .. a |-> IF j = a THEN x ELSE L[j]]
  <2>1. a \in Nat /\ a > n /\ n + (m + 1) = a
    BY <1>0
  <2>2. \A j \in 0 .. a - 1 : M[j] = L[j]
    BY <2>1
  <2>3. M[a] = x
    BY <2>1
  <2>. HIDE DEF M, x
  <2>4. \A j \in 0 .. n : M[j] = K[j]
    BY <2>1, <2>2
  <2>5. ASSUME NEW j \in 1 .. a PROVE M[j] = After(M[j - 1], tx2[j], j)
    <3>1. CASE j = a
      <4>1. M[a - 1] = L[a - 1]
        BY <2>1, <2>2
      <4>. QED  BY <2>3, <3>1, <4>1 DEF x
    <3>2. CASE j # a
      <4>1. j \in 1 .. n + m /\ j \in 0 .. a - 1 /\ j - 1 \in 0 .. a - 1
        BY <1>0, <3>2
      <4>2. M[j] = L[j] /\ M[j - 1] = L[j - 1]
        BY <2>2, <4>1
      <4>. QED  BY <4>1, <4>2
    <3>. QED  BY <3>1, <3>2
  <2>6. OK(M, m + 1)
    BY <2>1, <2>4, <2>5
  <2>. HIDE DEF OK
  <2>. QED  BY <2>6
<1>3. \A m \in 0 .. d : m \in P
  <2>. HIDE DEF P, d
  <2>. QED  BY <1>0, <1>1, <1>2, UpTo
<1>4. d \in P
  <2>. HIDE DEF P
  <2>. QED  BY <1>0, <1>3
<1>5. PICK L : OK(L, d)
  <2>. HIDE DEF OK
  <2>. QED  BY <1>4
<1>6. IsKnown(L, tx2)
  <2>1. L[0] = Nothing
    BY <1>0, <1>5 DEF IsKnown
  <2>2. \A j \in 1 .. Len(tx2) : L[j] = After(L[j - 1], tx2[j], j)
    BY <1>0, <1>5
  <2>. QED  BY <2>1, <2>2 DEF IsKnown
<1>7. Agree(K, L, tx)
  BY <1>5 DEF Agree
<1>. QED  BY <1>6, <1>7

(* The last instruction is one of the items before.                        *)
LEMMA KnownInst ==
  ASSUME NEW tx, IsText(tx), NEW K, IsKnown(K, tx)
  PROVE  \A j \in 0 .. Len(tx) : \/ K[j].inst = 0
                                 \/ K[j].inst \in 1 .. j /\ tx[K[j].inst].op = "inst"
<1>. DEFINE OK(j) == K[j].inst = 0 \/ (K[j].inst \in 1 .. j /\ tx[K[j].inst].op = "inst")
            P == {j \in Nat : OK(j)}
            n == Len(tx)
<1>0. n \in Nat
  BY TextIs
<1>1. 0 \in P
  BY DEF IsKnown, Nothing
<1>2. ASSUME NEW j \in 0 .. n - 1, j \in P PROVE j + 1 \in P
  <2>. DEFINE k == K[j]
              l == j + 1
              item == tx[l]
  <2>1. K[l] = After(k, item, l) /\ l \in Nat \ {0}
    <3>1. l \in 1 .. n /\ l - 1 = j
      BY <1>0
    <3>. QED  BY <3>1 DEF IsKnown
  <2>2. OK(j)
    BY <1>2
  <2>. HIDE DEF k, item
  <2>3. After(k, item, l).inst = (IF item.op = "inst" THEN l ELSE k.inst)
    BY DEF After, Stored
  <2>4. k.inst = 0 \/ (k.inst \in 1 .. j /\ tx[k.inst].op = "inst")
    BY <2>2 DEF k
  <2>5. OK(l)
    <3>1. CASE item.op = "inst"
      <4>1. K[l].inst = l
        BY <2>1, <2>3, <3>1
      <4>. QED  BY <2>1, <3>1, <4>1 DEF item
    <3>2. CASE item.op # "inst"
      <4>1. K[l].inst = k.inst
        BY <2>1, <2>3, <3>2
      <4>. QED  BY <2>1, <2>4, <4>1
    <3>. QED  BY <3>1, <3>2
  <2>. QED  BY <2>5
<1>3. \A j \in 0 .. n : j \in P
  <2>. HIDE DEF P
  <2>. QED  BY <1>0, <1>1, <1>2, UpTo
<1>. QED  BY <1>3

(* A step that writes items, or none, for the same io file.                *)
Continues == inst' = inst /\ tests' = tests /\ format' = format
Writes ==
  /\ Continues /\ Grows(text, text') /\ tests \in Seq(Runs(inst))
  /\ t \in Nat /\ t' \in Nat /\ t <= t' /\ (format = "elf" => t' = t)
  /\ Final => Final' /\ text' = text
  /\ stage = "checks" /\ stage' # "checks" =>
       \A i \in DOMAIN text : text[i].op = "inst" /\ tests[text[i].r].jump =>
         i + 1 \in DOMAIN text' /\ text'[i + 1].op = "j"

(* While nothing but the text changes, what the items are checked against  *)
(* stays.                                                                  *)
LEMMA Same ==
  ASSUME Continues
  PROVE  /\ Vars' = Vars /\ Outputs' = Outputs /\ Tested' = Tested /\ Width' = Width
         /\ \A w, o : Index(w, o)' = Index(w, o)
         /\ \A k, w, o, e : Fits(k, w, o, e)' <=> Fits(k, w, o, e)
         /\ \A k, w, o : Usable(k, w, o)' <=> Usable(k, w, o)
         /\ \A k, e, d : WordsReady(k, e, d)' <=> WordsReady(k, e, d)
<1>. USE DEF Continues
<1>1. Vars' = Vars /\ Outputs' = Outputs /\ Width' = Width
  BY DEF Vars, Outputs, Width
<1>2. Tested' = Tested
  BY DEF Tested, Skipped, SkippedMemory
<1>3. \A w, o : Index(w, o)' = Index(w, o)
  BY DEF Index
<1>4. \A k, w, o, e : Fits(k, w, o, e)' <=> Fits(k, w, o, e)
  BY <1>3 DEF Fits
<1>5. \A k, w, o : Usable(k, w, o)' <=> Usable(k, w, o)
  BY <1>3 DEF Usable
<1>6. \A k, e, d : WordsReady(k, e, d)' <=> WordsReady(k, e, d)
  BY DEF WordsReady, Alone
<1>. QED  BY <1>1, <1>2, <1>3, <1>4, <1>5, <1>6

(* Items written so far, and what is known after them, stay when more is   *)
(* written.                                                                *)
LEMMA OldText ==
  ASSUME Writes, NEW K, NEW K2, IsKnown(K, text), Agree(K, K2, text)
  PROVE  /\ DOMAIN text = 1 .. Len(text) /\ Len(text) \in Nat
         /\ DOMAIN text' = 1 .. Len(text') /\ Len(text') \in Nat /\ Len(text) <= Len(text')
         /\ DOMAIN text \subseteq DOMAIN text'
         /\ \A j \in DOMAIN text : text'[j] = text[j] /\ K2[j] = K[j] /\ K2[j - 1] = K[j - 1]
         /\ \A j \in 0 .. Len(text) : K[j].inst = 0 \/ K[j].inst \in DOMAIN text
         /\ \A j \in DOMAIN text : K[j - 1].inst = 0 \/ (K[j - 1].inst \in DOMAIN text /\ K[j - 1].inst < j)
<1>1. IsText(text) /\ IsText(text') /\ Len(text) <= Len(text')
      /\ \A j \in 1 .. Len(text) : text'[j] = text[j]
  BY DEF Writes, Grows
<1>2. Len(text) \in Nat /\ DOMAIN text = 1 .. Len(text)
  BY <1>1, TextIs
<1>3. Len(text') \in Nat /\ DOMAIN text' = 1 .. Len(text')
  BY <1>1, TextIs
<1>4. \A j \in 0 .. Len(text) : K2[j] = K[j]
  BY DEF Agree
<1>5. \A j \in 0 .. Len(text) : K[j].inst = 0 \/ K[j].inst \in 1 .. j
  BY <1>1, KnownInst
<1>6. ASSUME NEW j \in DOMAIN text
      PROVE  K[j - 1].inst = 0 \/ (K[j - 1].inst \in DOMAIN text /\ K[j - 1].inst < j)
  <2>1. j - 1 \in 0 .. Len(text)
    BY <1>2
  <2>2. K[j - 1].inst = 0 \/ K[j - 1].inst \in 1 .. j - 1
    BY <1>5, <2>1
  <2>. QED  BY <1>2, <2>2
<1>7. DOMAIN text \subseteq DOMAIN text'
  BY <1>1, <1>2, <1>3
<1>8. ASSUME NEW j \in DOMAIN text PROVE text'[j] = text[j] /\ K2[j] = K[j] /\ K2[j - 1] = K[j - 1]
  <2>1. j \in 1 .. Len(text) /\ j \in 0 .. Len(text) /\ j - 1 \in 0 .. Len(text)
    BY <1>2
  <2>. QED  BY <1>1, <1>4, <2>1
<1>9. ASSUME NEW j \in 0 .. Len(text) PROVE K[j].inst = 0 \/ K[j].inst \in DOMAIN text
  <2>1. K[j].inst = 0 \/ K[j].inst \in 1 .. j
    BY <1>5
  <2>2. 1 .. j \subseteq 1 .. Len(text)
    BY <1>2
  <2>. QED  BY <1>2, <2>1, <2>2
<1>. QED  BY <1>1, <1>2, <1>3, <1>6, <1>7, <1>8, <1>9

(* An item that is in order stays in order when more is written.           *)
LEMMA ItemStable ==
  ASSUME Writes, NEW K, NEW K2, IsKnown(K, text), Agree(K, K2, text),
         NEW j \in DOMAIN text, ItemOK(K, j)
  PROVE  ItemOK(K2, j)'
<1>. DEFINE k == K[j - 1]
<1>. PICK item : item = text[j]
  OBVIOUS
<1>0. /\ DOMAIN text = 1 .. Len(text) /\ Len(text) \in Nat
      /\ DOMAIN text' = 1 .. Len(text') /\ Len(text') \in Nat /\ Len(text) <= Len(text')
      /\ DOMAIN text \subseteq DOMAIN text'
      /\ \A l \in DOMAIN text : text'[l] = text[l]
      /\ K2[j - 1] = k /\ text'[j] = item
      /\ k.inst = 0 \/ (k.inst \in DOMAIN text /\ k.inst < j)
  BY OldText
<1>1. Continues /\ t \in Nat /\ t' \in Nat /\ t <= t' /\ (format = "elf" => t' = t)
      /\ (Final => Final' /\ text' = text)
  BY DEF Writes
<1>2. inst' = inst /\ tests' = tests /\ format' = format
  BY <1>1 DEF Continues
<1>3. /\ Vars' = Vars /\ Outputs' = Outputs /\ Tested' = Tested
      /\ \A w, o : Index(w, o)' = Index(w, o)
      /\ \A k0, w, o, e : Fits(k0, w, o, e)' <=> Fits(k0, w, o, e)
      /\ \A k0, w, o : Usable(k0, w, o)' <=> Usable(k0, w, o)
      /\ \A k0, e, d : WordsReady(k0, e, d)' <=> WordsReady(k0, e, d)
  BY <1>1, Same
<1>4. k.inst # 0 => text'[k.inst] = text[k.inst]
  BY <1>0
<1>5. \A r : ResultIn(k, r)' <=> ResultIn(k, r)
  BY <1>2, <1>3, <1>4 DEF ResultIn
<1>6. k.inst # 0 => Owner(k)' = Owner(k)
  BY <1>4 DEF Owner
<1>. HIDE DEF k
<1>7. BeqOK(k, j) => BeqOK(k, j)'
  <2>1. SUFFICES ASSUME BeqOK(k, j) PROVE BeqOK(k, j)'
    OBVIOUS
  <2>2. j + 1 \in DOMAIN text /\ k.inst # 0
    BY <2>1 DEF BeqOK
  <2>. QED  BY <1>0, <1>2, <1>3, <1>5, <1>6, <2>1, <2>2 DEF BeqOK, Exit, SkipIfExpected, Item
<1>8. JumpOK(j) => JumpOK(j)'
  <2>1. SUFFICES ASSUME JumpOK(j) PROVE JumpOK(j)'
    OBVIOUS
  <2>2. j > 1 /\ j - 1 \in DOMAIN text /\ text'[j - 1] = text[j - 1]
    BY <1>0, <2>1 DEF JumpOK
  <2>3. j > 2 => j - 2 \in DOMAIN text /\ text'[j - 2] = text[j - 2]
    BY <1>0
  <2>4. \A l \in {j + 1, j + 2, j + 3} : l \in DOMAIN text => l \in DOMAIN text' /\ text'[l] = text[l]
    BY <1>0
  <2>5. j + 3 \in DOMAIN text => j + 1 \in DOMAIN text /\ j + 2 \in DOMAIN text
    BY <1>0
  <2>6. j + 2 \in DOMAIN text => j + 1 \in DOMAIN text
    BY <1>0
  <2>. QED  BY <1>0, <1>2, <2>1, <2>2, <2>3, <2>4, <2>5, <2>6 DEF JumpOK, Exit, Item
<1>9. item.op = "inst" /\ InstOK(k, j) => InstOK(k, j)'
  <2>1. SUFFICES ASSUME item.op = "inst", InstOK(k, j) PROVE InstOK(k, j)'
    OBVIOUS
  <2>. DEFINE e == text[j].r
              operands == text[j].n
  <2>2. text'[j].r = e /\ text'[j].n = operands /\ text'[j].size = text[j].size
    BY <1>0
  <2>3. \A l \in 1 .. j - 1 : text'[l] = text[l]
    BY <1>0
  <2>4. e <= t' /\ (format = "elf" => e = t')
    <3>1. e \in Nat /\ e <= t /\ (format = "elf" => e = t)
      BY <2>1 DEF InstOK, Tested, Writes
    <3>. QED  BY <1>1, <3>1
  <2>5. tests[e].jump /\ stage' # "checks" => j + 1 \in DOMAIN text' /\ text'[j + 1].op = "j"
    <3>1. CASE stage = "checks"
      BY <2>1, <3>1 DEF Writes
    <3>2. CASE stage # "checks"
      BY <1>0, <2>1, <3>2 DEF InstOK
    <3>. QED  BY <3>1, <3>2
  <2>. QED  BY <1>2, <1>3, <2>1, <2>2, <2>3, <2>4, <2>5 DEF InstOK
<1>10. item = Exit(255) /\ j > 1 /\ text[j - 1].op \in {"beq", "j"} =>
         text'[j - 1].op \in {"beq", "j"}
  BY <1>0
<1>11. Final /\ j = Len(text) => Final' /\ j = Len(text')
  BY <1>0, <1>1
<1>12. format = "elf" => Entry' = Entry /\ t' = t
  BY <1>1, <1>2 DEF Entry
<1>13. DOMAIN tests \subseteq Nat
  BY DEF Writes
<1>14. ItemFine(k, item, j)
  BY DEF ItemOK, k
<1>15. ItemFine(k, item, j)'
  <2>. USE <1>2, <1>3, <1>14
  <2>1. item.op = "beq" => BeqOK(k, j)'
    BY <1>7 DEF ItemFine
  <2>2. item.op = "j" => JumpOK(j)'
    BY <1>8 DEF ItemFine
  <2>3. item.op = "inst" => InstOK(k, j)'
    BY <1>9 DEF ItemFine
  <2>4. item.op = "exit" => \/ item = Exit(255) /\ j > 1 /\ text'[j - 1].op \in {"beq", "j"}
                            \/ item = Exit(0) /\ Final' /\ j = Len(text')
    BY <1>10, <1>11 DEF ItemFine
  <2>5. item.op = "check" => /\ ResultIn(k, item.r)'
                             /\ \E w \in Outputs : item.n = tests[Owner(k)'].x[w]
    BY <1>5, <1>6 DEF ItemFine, ResultIn
  <2>6. item.op = "checkmem" => /\ k.inst # 0 /\ k.same /\ item.r \in DOMAIN tests[Owner(k)'].wmem
                                /\ item.n = tests[Owner(k)'].wmem[item.r]
    BY <1>6 DEF ItemFine
  <2>7. item.op = "sw" => /\ item.r = DstReg
                          /\ DstReg \in DOMAIN k.regs /\ AddressReg \in DOMAIN k.regs
                          /\ t' \in Tested' /\ k.regs[AddressReg] \in DOMAIN Entry'.rmem
    BY <1>12 DEF ItemFine
  <2>8. item.op = "lw" => /\ item.r = DstReg /\ AddressReg \in DOMAIN k.regs
                          /\ t' \in Tested' /\ k.regs[AddressReg] \in DOMAIN Entry'.wmem
    BY <1>12 DEF ItemFine
  <2>9. /\ item.op \in {"li", "sw", "lw", "beq", "j", "inst", "exit", "let", "poke", "check", "checkmem"}
        /\ item.op \in {"li", "sw", "lw", "beq", "j"} => format = "elf"
        /\ item.op \in {"let", "poke", "check", "checkmem"} => format = "c"
        /\ item.op \in {"li", "let"} => item.n \in Value
        /\ item.op = "li" => item.size = 8
        /\ item.op = "poke" => item.n \in Value /\ \E e \in Tested : item.r \in DOMAIN tests[e].rmem
    BY DEF ItemFine
  <2>. QED  BY <2>1, <2>2, <2>3, <2>4, <2>5, <2>6, <2>7, <2>8, <2>9
            DEF ItemFine, Exit, Item, Value, DstReg, AddressReg
<1>16. ItemOK(K2, j)' <=> ItemFine(k, item, j)'
  <2>1. K2[j - 1] = k /\ text'[j] = item
    BY <1>0
  <2>. QED  BY <2>1 DEF ItemOK
<1>. QED  BY <1>15, <1>16

(* An entry that is covered stays covered when more is written.            *)
LEMMA CoveredStable ==
  ASSUME Writes, NEW K, NEW K2, IsKnown(K, text), Agree(K, K2, text),
         NEW e, NEW left, Covered(K, e, left)
  PROVE  Covered(K2, e, left)'
<1>0. /\ DOMAIN text \subseteq DOMAIN text'
      /\ \A j \in DOMAIN text : text'[j] = text[j] /\ K2[j - 1] = K[j - 1]
      /\ \A j \in DOMAIN text : K[j - 1].inst = 0 \/ K[j - 1].inst \in DOMAIN text
  BY OldText
<1>1. Continues /\ inst' = inst /\ tests' = tests /\ format' = format
  BY DEF Writes, Continues
<1>2. Outputs' = Outputs /\ \A w, o : Index(w, o)' = Index(w, o)
  BY <1>1, Same
<1>3. ASSUME NEW j \in DOMAIN text, K[j - 1].inst # 0
      PROVE  Owner(K[j - 1])' = Owner(K[j - 1]) /\ text'[K[j - 1].inst] = text[K[j - 1].inst]
  BY <1>0, <1>3 DEF Owner
<1>4. HasInst(e)'
  BY <1>0 DEF Covered, HasInst
<1>5. ASSUME NEW j \in DOMAIN text, NEW w, ResultAt(K[j - 1], text[j], w, e)
      PROVE  j \in DOMAIN text' /\ ResultAt(K2[j - 1], text[j], w, e)'
  <2>. PICK k, item : k = K[j - 1] /\ item = text[j]
    OBVIOUS
  <2>1. K2[j - 1] = k /\ text'[j] = item /\ j \in DOMAIN text'
    BY <1>0
  <2>2. FromEntry(k, e) /\ k.inst # 0
    BY <1>5 DEF ResultAt, FromEntry
  <2>3. FromEntry(k, e)' /\ text'[k.inst] = text[k.inst]
    BY <1>3, <2>2 DEF FromEntry
  <2>4. ResultAt(k, item, w, e)
    BY <1>5
  <2>5. ResultAt(k, item, w, e)'
    BY <1>1, <1>2, <2>3, <2>4 DEF ResultAt, Exit, Item, DstReg, ExpectedReg
  <2>6. ResultAt(K2[j - 1], text[j], w, e)' <=> ResultAt(k, item, w, e)'
    BY <2>1
  <2>. QED  BY <2>1, <2>5, <2>6
<1>6. ASSUME NEW j \in DOMAIN text, NEW a, WordAt(K[j - 1], text[j], a, e)
      PROVE  j \in DOMAIN text' /\ WordAt(K2[j - 1], text[j], a, e)'
  <2>. PICK k, item : k = K[j - 1] /\ item = text[j]
    OBVIOUS
  <2>1. K2[j - 1] = k /\ text'[j] = item /\ j \in DOMAIN text'
    BY <1>0
  <2>2. FromEntry(k, e) /\ k.inst # 0
    BY <1>6 DEF WordAt, FromEntry
  <2>3. FromEntry(k, e)'
    BY <1>3, <2>2 DEF FromEntry
  <2>4. WordAt(k, item, a, e)
    BY <1>6
  <2>5. WordAt(k, item, a, e)'
    BY <1>1, <2>3, <2>4 DEF WordAt, Exit, Item, ExpectedReg
  <2>6. WordAt(K2[j - 1], text[j], a, e)' <=> WordAt(k, item, a, e)'
    BY <2>1
  <2>. QED  BY <2>1, <2>5, <2>6
<1>7. ResultSeen(K2, e)'
  BY <1>1, <1>2, <1>5 DEF Covered, ResultSeen
<1>8. ASSUME NEW a \in DOMAIN tests[e].wmem \ left PROVE WordSeen(K2, e, a)'
  BY <1>6 DEF Covered, WordSeen
<1>. QED  BY <1>1, <1>4, <1>7, <1>8 DEF Covered

-----------------------------------------------------------------------------
(* The invariant of the text is kept by the assembler.                     *)

SizesOK == \A j \in DOMAIN text : text[j].size \in Nat \ {0}

Stages == {"klee", "tests", "loads", "variables", "checks", "stores", "load", "run",
           "ctests", "cloads", "cvariables", "cstores", "verdict", "ended"}
ScriptType ==
  /\ KleeInv
  /\ IsText(text) /\ SizesOK /\ IsText(args) /\ IsText(outs)
  /\ stage \in Stages /\ format \in {"none", "elf", "c"}
  /\ t \in Nat /\ v \in Nat /\ todo \subseteq Value

(* An entry is a well-typed run of the instruction.                        *)
LEMMA EntryIs ==
  ASSUME KleeInv, NEW e \in DOMAIN tests
  PROVE  EntryType(inst, tests[e]) /\ IsRun(inst, tests[e]) /\ e \in Nat \ {0} /\ e <= Len(tests)
         /\ inst \in Instruction
<1>1. tests \in Seq(Runs(inst)) /\ inst \in Instruction
  BY DEF KleeInv
<1>2. tests[e] \in Runs(inst) /\ e \in Nat \ {0} /\ e <= Len(tests)
  BY <1>1
<1>. QED  BY <1>1, <1>2, RunType DEF Runs

(* The addresses and values of an entry.                                   *)
LEMMA EntryMaps ==
  ASSUME KleeInv, NEW e \in DOMAIN tests
  PROVE  /\ DOMAIN tests[e].rmem \subseteq Value /\ DOMAIN tests[e].wmem \subseteq Addresses
         /\ DOMAIN tests[e].wmem \subseteq Value
         /\ \A a \in DOMAIN tests[e].rmem : tests[e].rmem[a] \in Value
         /\ \A a \in DOMAIN tests[e].wmem : tests[e].wmem[a] \in Value
         /\ \A w \in Vars : tests[e].in[w] \in Value /\ tests[e].x[w] \in Value
<1>. DEFINE rm == tests[e].rmem
            wm == tests[e].wmem
<1>1. rm \in Partial(Value) /\ wm \in Partial(Addresses)
      /\ \A w \in Vars : tests[e].in[w] \in Value /\ tests[e].x[w] \in Value
  BY EntryIs DEF EntryType, Vars
<1>. HIDE DEF rm, wm
<1>2. /\ DOMAIN rm \subseteq Value /\ \A a \in DOMAIN rm : rm[a] \in Value
      /\ DOMAIN wm \subseteq Addresses /\ \A a \in DOMAIN wm : wm[a] \in Value
  BY <1>1, PartialType
<1>. QED  BY <1>1, <1>2, ValueNat DEF rm, wm

(* The variables of an instruction: at most one output, the last one where *)
(* it is rd.                                                               *)
LEMMA Variables ==
  ASSUME KleeInv
  PROVE  /\ Width \in Nat /\ Vars = 1 .. Width /\ Outputs \subseteq Vars
         /\ \A w, z \in Outputs : w = z
         /\ inst.rdLast => \A w \in Outputs : w = Width
         /\ \A w \in Vars : inst.vars[w].role = "imm" => w \notin Outputs
         /\ \A w \in Vars : inst.vars[w].compressed \in BOOLEAN
<1>1. inst \in Instruction
  BY DEF KleeInv
<1>2. WellFormed(inst)
  BY <1>1, InstructionAssumption
<1>. DEFINE S == [role : {"imm", "reg", "rd"}, compressed : BOOLEAN, not : SUBSET Nat]
            vs == inst.vars
<1>3. vs \in Seq(S)
  BY <1>2 DEF WellFormed
<1>. HIDE DEF S, vs
<1>4. Len(vs) \in Nat /\ DOMAIN vs = 1 .. Len(vs) /\ \A w \in DOMAIN vs : vs[w] \in S
  BY <1>3
<1>5. \A w \in DOMAIN vs : vs[w].compressed \in BOOLEAN
  BY <1>4 DEF S
<1>6. Outputs \subseteq Vars /\ \A w \in Outputs : inst.vars[w].role = "rd"
  BY DEF Outputs
<1>. QED  BY <1>2, <1>4, <1>5, <1>6 DEF WellFormed, Vars, Width, vs

(* Emitting a text appends it.                                             *)
LEMMA Emitted ==
  ASSUME IsText(text), NEW s, IsText(s), Emit(s)
  PROVE  /\ IsText(text') /\ Grows(text, text') /\ Len(text') = Len(text) + Len(s)
         /\ Len(text) \in Nat /\ DOMAIN text = 1 .. Len(text) /\ DOMAIN text' = 1 .. Len(text')
         /\ \A j \in 1 .. Len(text) : text'[j] = text[j]
         /\ \A j \in 1 .. Len(s) : text'[Len(text) + j] = s[j]
<1>1. text' = text \o s
  BY DEF Emit
<1>2. Len(text) \in Nat /\ Len(s) \in Nat /\ DOMAIN text = 1 .. Len(text)
  BY TextIs
<1>3. /\ IsText(text') /\ Len(text') = Len(text) + Len(s)
      /\ \A j \in 1 .. Len(text) : text'[j] = text[j]
      /\ \A j \in 1 .. Len(s) : text'[Len(text) + j] = s[j]
  BY <1>1, Joined
<1>4. DOMAIN text' = 1 .. Len(text')
  BY <1>3, TextIs
<1>. QED  BY <1>2, <1>3, <1>4 DEF Grows

(* A step that writes nothing extends the text by nothing.                 *)
LEMMA NothingEmitted ==
  ASSUME IsText(text), UNCHANGED text
  PROVE  Grows(text, text')
BY TextIs DEF Grows

(* A text of one item.                                                     *)
LEMMA OneItem == ASSUME NEW a PROVE IsText(<<a>>) /\ Len(<<a>>) = 1 /\ <<a>>[1] = a
<1>1. <<a>> \in Seq({a})
  OBVIOUS
<1>. QED  BY <1>1, TextFrom

(* A text of two items.                                                    *)
LEMMA TwoItems ==
  ASSUME NEW a, NEW b
  PROVE  IsText(<<a, b>>) /\ Len(<<a, b>>) = 2 /\ <<a, b>>[1] = a /\ <<a, b>>[2] = b
<1>1. <<a, b>> \in Seq({a, b})
  OBVIOUS
<1>. QED  BY <1>1, TextFrom

(* A text of three items.                                                  *)
LEMMA ThreeItems ==
  ASSUME NEW a, NEW b, NEW c
  PROVE  IsText(<<a, b, c>>) /\ Len(<<a, b, c>>) = 3
         /\ <<a, b, c>>[1] = a /\ <<a, b, c>>[2] = b /\ <<a, b, c>>[3] = c
<1>1. <<a, b, c>> \in Seq({a, b, c})
  OBVIOUS
<1>. QED  BY <1>1, TextFrom

(* All items that were in order stay in order.                             *)
LEMMA OldItems ==
  ASSUME Writes, NEW K, NEW K2, IsKnown(K, text), Agree(K, K2, text),
         \A j \in DOMAIN text : ItemOK(K, j)
  PROVE  \A j \in DOMAIN text : ItemOK(K2, j)'
BY ItemStable

(* What is known after a constant went to a register.                      *)
LEMMA AfterLoadReg ==
  ASSUME NEW k, NEW k2, NEW item, NEW j, k2 = After(k, item, j), item.op \in {"li", "let"}
  PROVE  /\ DOMAIN k2.regs = DOMAIN k.regs \cup {item.r}
         /\ k2.regs[item.r] = item.n
         /\ \A q \in DOMAIN k.regs : q # item.r => k2.regs[q] = k.regs[q]
         /\ k2.words = k.words /\ k2.inst = k.inst /\ k2.same = k.same
         /\ k2.dirty = k.dirty \cup {item.r}
         /\ k2.loaded = IF item.r = DstReg THEN {} ELSE k.loaded
BY DEF After, With

(* Being apart is symmetric.                                               *)
LEMMA ApartSame == ASSUME NEW a \in Value, NEW b \in Value PROVE Apart(a, b) <=> Apart(b, a)
BY DEF Apart

(* Another word is ready. *)
LEMMA StoredWord ==
  ASSUME KleeInv, NEW k, NEW e \in DOMAIN tests, NEW done, done \subseteq DOMAIN tests[e].rmem,
         WordsReady(k, e, done), NEW a \in DOMAIN tests[e].rmem
  PROVE  WordsReady(Stored(k, a, tests[e].rmem[a]), e, done \cup {a})
<1>. DEFINE k2 == Stored(k, a, tests[e].rmem[a])
<1>1. DOMAIN tests[e].rmem \subseteq Value
  BY EntryMaps
<1>2. DOMAIN k2.words = {c \in DOMAIN k.words : Apart(a, c)} \cup {a}
      /\ \A b \in DOMAIN k2.words : k2.words[b] = IF b = a THEN tests[e].rmem[a] ELSE k.words[b]
  BY DEF Stored
<1>. HIDE DEF k2
<1>3. ASSUME NEW b \in done \cup {a}, Alone(e, b)
      PROVE  b \in DOMAIN k2.words /\ k2.words[b] = tests[e].rmem[b]
  <2>1. CASE b = a
    BY <1>2, <2>1
  <2>2. CASE b # a
    <3>1. b \in DOMAIN k.words /\ k.words[b] = tests[e].rmem[b]
      BY <1>3, <2>2 DEF WordsReady
    <3>2. Apart(b, a)
      BY <1>3, <2>2 DEF Alone
    <3>3. Apart(a, b)
      BY <1>1, <3>2, ApartSame
    <3>. QED  BY <1>2, <2>2, <3>1, <3>3
  <2>. QED  BY <2>1, <2>2
<1>4. WordsReady(k2, e, done \cup {a})
  BY <1>3 DEF WordsReady
<1>. QED  BY <1>4 DEF k2

(* Writing a register leaves the words. *)
LEMMA WordsStay ==
  ASSUME NEW k, NEW k2, NEW e, NEW done, k2.words = k.words, WordsReady(k, e, done)
  PROVE  WordsReady(k2, e, done)
BY DEF WordsReady

TextKnown == \E K : IsKnown(K, text) /\ TextInv(K)

(* What is known before the first item: nothing.                           *)
LEMMA EmptyKnown == IsKnown([j \in {0} |-> Nothing], <<>>)
<1>1. Len(<<>>) = 0
  OBVIOUS
<1>2. \A j \in 1 .. Len(<<>>) : FALSE
  BY <1>1
<1>. QED  BY <1>2 DEF IsKnown

(* While the harness runs nothing is written.                              *)
LEMMA KleeText ==
  ASSUME ScriptType, TextKnown, stage = "klee", UNCHANGED pvars, UNCHANGED cvars
  PROVE  TextKnown'
<1>1. PICK K : IsKnown(K, text) /\ TextInv(K)
  BY DEF TextKnown
<1>2. stage' = "klee" /\ text' = text /\ format' = format
  BY DEF pvars, cvars
<1>3. text = <<>> /\ format = "none"
  BY <1>1 DEF TextInv, Formats
<1>4. TextInv(K)'
  BY <1>2, <1>3 DEF TextInv, Formats, Final
<1>. QED  BY <1>1, <1>2, <1>4 DEF TextKnown

(* Starting the script of a test keeps the invariant of the text.          *)
LEMMA NextTestText ==
  ASSUME ScriptType, TextKnown, NextTest, UNCHANGED cvars
  PROVE  TextKnown'
<1>. USE DEF NextTest, io, cvars
<1>1. format = "elf" /\ format' = "elf" /\ text' = <<>> /\ inst' = inst /\ tests' = tests
  BY DEF TextKnown, TextInv, Formats
<1>. DEFINE K == [j \in {0} |-> Nothing]
<1>2. IsKnown(K, text)'
  BY <1>1, EmptyKnown
<1>3. CASE Skipped(Entry)
  <2>1. stage' = "tests"
    BY <1>3
  <2>2. TextInv(K)'
    BY <1>1, <2>1 DEF TextInv, Formats, Final
  <2>. QED  BY <1>2, <2>2 DEF TextKnown
<1>4. CASE ~ Skipped(Entry)
  <2>1. stage' = "loads" /\ t' = t /\ todo' = DOMAIN Entry.rmem /\ Entry' = Entry /\ args' = <<>>
    BY <1>1, <1>4 DEF Entry
  <2>2. t \in Tested /\ Tested' = Tested
    BY <1>1, <1>4, Same DEF Tested, Entry, Continues
  <2>3. DOMAIN Entry.rmem \ DOMAIN Entry.rmem = {}
    OBVIOUS
  <2>4. AtLoads(K)'
    BY <1>1, <2>1, <2>2, <2>3 DEF AtLoads, NoInst, WordsReady
  <2>5. TextInv(K)'
    BY <1>1, <2>1, <2>4 DEF TextInv, Formats, Final
  <2>. QED  BY <1>2, <2>5 DEF TextKnown
<1>. QED  BY <1>3, <1>4

(* What is known after the items of s are written.                         *)
Wrote(K, K2, s, n) ==
  /\ n \in Nat /\ n = Len(text) /\ DOMAIN text = 1 .. n /\ DOMAIN text' = 1 .. n + Len(s)
  /\ Len(text') = n + Len(s)
  /\ IsKnown(K2, text') /\ Agree(K, K2, text) /\ K2[n] = Known(K)
  /\ \A j \in 1 .. n : text'[j] = text[j] /\ ItemOK(K2, j)'
  /\ \A j \in 1 .. Len(s) : text'[n + j] = s[j] /\ K2[n + j] = After(K2[n + j - 1], s[j], n + j)

(* Emitting items: the old ones stay in order, and what is known goes on   *)
(* from them.                                                              *)
LEMMA Writing ==
  ASSUME ScriptType, NEW K, IsKnown(K, text), \A j \in DOMAIN text : ItemOK(K, j),
         NEW s, IsText(s), Emit(s), Continues, t' = t, ~ Final,
         stage = "checks" =>
           \A i \in DOMAIN text : text[i].op = "inst" /\ tests[text[i].r].jump =>
             i = Len(text) /\ Len(s) > 0 /\ s[1].op = "j"
  PROVE  Writes /\ IsText(text') /\ \E K2, n : Wrote(K, K2, s, n)
<1>1. /\ IsText(text') /\ Grows(text, text') /\ Len(text') = Len(text) + Len(s)
      /\ Len(text) \in Nat /\ DOMAIN text = 1 .. Len(text) /\ DOMAIN text' = 1 .. Len(text')
      /\ \A j \in 1 .. Len(text) : text'[j] = text[j]
      /\ \A j \in 1 .. Len(s) : text'[Len(text) + j] = s[j]
  BY Emitted DEF ScriptType
<1>2. Len(s) \in Nat
  BY TextIs
<1>3. Writes
  <2>1. ASSUME stage = "checks", NEW i \in DOMAIN text, text[i].op = "inst", tests[text[i].r].jump
        PROVE  i + 1 \in DOMAIN text' /\ text'[i + 1].op = "j"
    <3>1. i = Len(text) /\ 1 \in 1 .. Len(s) /\ s[1].op = "j"
      BY <1>2, <2>1
    <3>2. text'[Len(text) + 1] = s[1]
      BY <1>1, <3>1
    <3>. QED  BY <1>1, <1>2, <3>1, <3>2
  <2>2. Continues /\ t \in Nat /\ t' = t /\ tests \in Seq(Runs(inst)) /\ ~ Final
    BY DEF ScriptType, KleeInv
  <2>3. Grows(text, text')
    BY <1>1
  <2>. QED  BY <2>1, <2>2, <2>3 DEF Writes
<1>4. PICK K2 : IsKnown(K2, text') /\ Agree(K, K2, text)
  BY <1>1, KnownMore
<1>5. PICK n : n = Len(text)
  OBVIOUS
<1>6. K2[n] = Known(K)
  BY <1>1, <1>4, <1>5 DEF Agree, Known
<1>7. \A j \in 1 .. n : ItemOK(K2, j)'
  BY <1>1, <1>3, <1>4, <1>5, OldItems
<1>8. ASSUME NEW j \in 1 .. Len(s) PROVE K2[n + j] = After(K2[n + j - 1], s[j], n + j)
  <2>. PICK m : m = n + j
    OBVIOUS
  <2>1. m \in 1 .. Len(text') /\ text'[m] = s[j]
    BY <1>1, <1>2, <1>5
  <2>2. K2[m] = After(K2[m - 1], text'[m], m)
    BY <1>4, <2>1 DEF IsKnown
  <2>3. n \in Nat /\ m - 1 = n + j - 1
    BY <1>1, <1>5
  <2>. QED  BY <2>1, <2>2, <2>3
<1>9. Wrote(K, K2, s, n)
  BY <1>1, <1>4, <1>5, <1>6, <1>7, <1>8 DEF Wrote
<1>. QED  BY <1>1, <1>3, <1>9

(* A new item is in order if it fits what is known before it.              *)
LEMMA NewItem ==
  ASSUME NEW K, NEW j, NEW k, NEW item, K[j - 1] = k, text'[j] = item, ItemFine(k, item, j)'
  PROVE  ItemOK(K, j)'
BY DEF ItemOK

(* A new constant load is in order.                                        *)
LEMMA NewLoadReg ==
  ASSUME NEW K, NEW j, NEW item, text'[j] = item,
         item.op \in {"li", "let"}, item.n \in Value,
         item.op = "li" => item.size = 8 /\ format' = "elf", item.op = "let" => format' = "c"
  PROVE  ItemOK(K, j)'
<1>. PICK k : k = K[j - 1]
  OBVIOUS
<1>1. ItemFine(k, item, j)'
  BY DEF ItemFine, Value
<1>. QED  BY <1>1, NewItem

(* Writing a word of the input keeps the invariant of the text.            *)
LEMMA EmitLoadText ==
  ASSUME ScriptType, TextKnown, EmitLoad, UNCHANGED cvars
  PROVE  TextKnown'
<1>. USE DEF EmitLoad, io, cvars
<1>1. PICK K : IsKnown(K, text) /\ TextInv(K)
  BY DEF TextKnown
<1>2. PICK a \in todo : /\ Emit(<<LoadReg(AddressReg, a), LoadReg(DstReg, Entry.rmem[a]), StoreWord>>)
                        /\ todo' = todo \ {a}
  OBVIOUS
<1>3. /\ stage = "loads" /\ stage' = "loads" /\ t' = t /\ args' = args
      /\ inst' = inst /\ tests' = tests /\ format' = format
      /\ format = "elf"
  BY <1>1 DEF TextInv, Formats
<1>4. /\ t \in Tested /\ NoInst /\ args = <<>> /\ todo \subseteq DOMAIN Entry.rmem
      /\ WordsReady(Known(K), t, DOMAIN Entry.rmem \ todo)
      /\ \A j \in DOMAIN text : ItemOK(K, j)
  BY <1>1, <1>3 DEF TextInv, AtLoads
<1>5. /\ Entry' = Entry /\ t \in DOMAIN tests /\ Entry = tests[t] /\ KleeInv
  BY <1>3, <1>4 DEF Entry, Tested, ScriptType
<1>6. a \in Value /\ Entry.rmem[a] \in Value /\ a \in DOMAIN Entry.rmem
  BY <1>4, <1>5, EntryMaps
<1>. PICK i1, i2, i3 : i1 = LoadReg(AddressReg, a) /\ i2 = LoadReg(DstReg, Entry.rmem[a]) /\ i3 = StoreWord
  OBVIOUS
<1>. DEFINE s == <<i1, i2, i3>>
<1>7. IsText(s) /\ Len(s) = 3 /\ s[1] = i1 /\ s[2] = i2 /\ s[3] = i3 /\ Emit(s)
  BY <1>2, ThreeItems
<1>. HIDE DEF s
<1>8. /\ i1.op = "li" /\ i1.r = AddressReg /\ i1.n = a /\ i1.size = 8
      /\ i2.op = "li" /\ i2.r = DstReg /\ i2.n = Entry.rmem[a] /\ i2.size = 8
      /\ i3.op = "sw" /\ i3.r = DstReg
  BY DEF LoadReg, StoreWord, Item
<1>9. Writes /\ Continues /\ \E K2, n : Wrote(K, K2, s, n)
  <2>1. Continues /\ ~ Final
    BY <1>3 DEF Continues, Final
  <2>. QED  BY <1>1, <1>3, <1>4, <1>7, <2>1, Writing
<1>. PICK K2, n : Wrote(K, K2, s, n)
  BY <1>9
<1>. PICK k1, k2, k3 : k1 = K2[n + 1] /\ k2 = K2[n + 2] /\ k3 = K2[n + 3]
  OBVIOUS
<1>10. /\ n \in Nat /\ DOMAIN text = 1 .. n /\ DOMAIN text' = 1 .. n + 3 /\ Len(text') = n + 3
       /\ IsKnown(K2, text') /\ K2[n] = Known(K)
       /\ \A j \in 1 .. n : text'[j] = text[j] /\ ItemOK(K2, j)'
       /\ text'[n + 1] = i1 /\ text'[n + 2] = i2 /\ text'[n + 3] = i3
       /\ k1 = After(K2[n], i1, n + 1) /\ k2 = After(k1, i2, n + 2) /\ k3 = After(k2, i3, n + 3)
  <2>1. n + 1 - 1 = n /\ n + 2 - 1 = n + 1 /\ n + 3 - 1 = n + 2
    BY DEF Wrote
  <2>. QED  BY <1>7, <2>1 DEF Wrote
<1>11. /\ k2.words = K2[n].words
       /\ DstReg \in DOMAIN k2.regs /\ AddressReg \in DOMAIN k2.regs
       /\ k2.regs[DstReg] = Entry.rmem[a] /\ k2.regs[AddressReg] = a
  <2>1. AddressReg \in DOMAIN k1.regs /\ k1.regs[AddressReg] = a /\ k1.words = K2[n].words
    BY <1>8, <1>10, AfterLoadReg
  <2>2. DstReg \in DOMAIN k2.regs /\ k2.regs[DstReg] = Entry.rmem[a] /\ k2.words = k1.words
        /\ DOMAIN k2.regs = DOMAIN k1.regs \cup {DstReg}
        /\ \A q \in DOMAIN k1.regs : q # DstReg => k2.regs[q] = k1.regs[q]
    BY <1>8, <1>10, AfterLoadReg
  <2>3. AddressReg # DstReg
    BY DEF AddressReg, DstReg
  <2>. QED  BY <2>1, <2>2, <2>3
<1>12. k3 = Stored(k2, a, Entry.rmem[a])
  BY <1>8, <1>10, <1>11 DEF After
<1>13. WordsReady(k3, t, DOMAIN Entry.rmem \ todo')
  <2>1. WordsReady(k2, t, DOMAIN Entry.rmem \ todo)
    BY <1>4, <1>10, <1>11, WordsStay
  <2>2. WordsReady(k3, t, (DOMAIN Entry.rmem \ todo) \cup {a})
    BY <1>5, <1>6, <1>12, <2>1, StoredWord
  <2>3. DOMAIN Entry.rmem \ todo' = (DOMAIN Entry.rmem \ todo) \cup {a}
    BY <1>2, <1>6
  <2>. QED  BY <2>2, <2>3
<1>14. Tested' = Tested /\ \A k, e, d : WordsReady(k, e, d)' <=> WordsReady(k, e, d)
  BY <1>9, Same
<1>15. \A j \in DOMAIN text' : ItemOK(K2, j)'
  <2>1. ItemOK(K2, n + 1)' /\ ItemOK(K2, n + 2)'
    BY <1>3, <1>6, <1>8, <1>10, NewLoadReg
  <2>2. ItemOK(K2, n + 3)'
    <3>. PICK m : m = n + 3
      OBVIOUS
    <3>1. ItemFine(k2, i3, m)'
      BY <1>3, <1>4, <1>5, <1>6, <1>8, <1>11, <1>14 DEF ItemFine, DstReg, AddressReg
    <3>2. K2[m - 1] = k2 /\ text'[m] = i3
      <4>1. m - 1 = n + 2
        BY <1>10
      <4>. QED  BY <1>10, <4>1
    <3>3. ItemOK(K2, m)'
      BY <3>1, <3>2, NewItem
    <3>. QED  BY <3>3
  <2>. QED  BY <1>10, <2>1, <2>2
<1>16. AtLoads(K2)'
  <2>1. NoInst'
    <3>1. ASSUME NEW j \in 1 .. n + 3 PROVE text'[j].op # "inst"
      <4>1. j \in 1 .. n \/ j = n + 1 \/ j = n + 2 \/ j = n + 3
        BY <1>10
      <4>. QED  BY <1>4, <1>8, <1>10, <4>1 DEF NoInst
    <3>. QED  BY <1>10, <3>1 DEF NoInst
  <2>2. Known(K2)' = k3
    BY <1>10 DEF Known
  <2>. QED  BY <1>2, <1>3, <1>4, <1>5, <1>13, <1>14, <2>1, <2>2 DEF AtLoads
<1>17. TextInv(K2)'
  BY <1>3, <1>15, <1>16 DEF TextInv, Formats, Final
<1>. QED  BY <1>10, <1>17 DEF TextKnown

(* A step that writes nothing keeps items in order and entries covered.    *)
LEMMA Keeping ==
  ASSUME ScriptType, NEW K, IsKnown(K, text), \A j \in DOMAIN text : ItemOK(K, j),
         UNCHANGED text, Continues, t' \in Nat, t <= t', format = "elf" => t' = t,
         Final => Final', stage = "checks" => stage' = "checks"
  PROVE  /\ Writes /\ IsKnown(K, text')
         /\ \A j \in DOMAIN text' : ItemOK(K, j)'
         /\ \A e, left : Covered(K, e, left) => Covered(K, e, left)'
<1>1. Grows(text, text')
  BY NothingEmitted DEF ScriptType
<1>2. Writes
  BY <1>1 DEF Writes, ScriptType, KleeInv
<1>3. Agree(K, K, text)
  BY DEF Agree
<1>4. \A j \in DOMAIN text : ItemOK(K, j)'
  BY <1>2, <1>3, OldItems
<1>5. \A e, left : Covered(K, e, left) => Covered(K, e, left)'
  BY <1>2, <1>3, CoveredStable
<1>. QED  BY <1>2, <1>4, <1>5

(* Going on to the variables keeps the invariant of the text.              *)
LEMMA EndLoadsText ==
  ASSUME ScriptType, TextKnown, EndLoads, UNCHANGED cvars
  PROVE  TextKnown'
<1>. USE DEF EndLoads, io, cvars
<1>1. PICK K : IsKnown(K, text) /\ TextInv(K)
  BY DEF TextKnown
<1>2. /\ stage = "loads" /\ stage' = "variables" /\ t' = t /\ args' = args /\ text' = text
      /\ inst' = inst /\ tests' = tests /\ format' = format /\ format = "elf" /\ todo = {} /\ v' = 1
  BY <1>1 DEF TextInv, Formats
<1>3. /\ t \in Tested /\ NoInst /\ args = <<>>
      /\ WordsReady(Known(K), t, DOMAIN Entry.rmem)
      /\ \A j \in DOMAIN text : ItemOK(K, j)
  <2>1. DOMAIN Entry.rmem \ {} = DOMAIN Entry.rmem
    OBVIOUS
  <2>. QED  BY <1>1, <1>2, <2>1 DEF TextInv, AtLoads
<1>4. Continues /\ ~ Final /\ t \in Nat /\ Entry' = Entry /\ KleeInv
  BY <1>2 DEF Continues, Final, ScriptType, Entry
<1>5. \A j \in DOMAIN text' : ItemOK(K, j)'
  BY <1>1, <1>2, <1>3, <1>4, Keeping
<1>6. /\ Tested' = Tested /\ Width' = Width
      /\ \A k, e, d : WordsReady(k, e, d)' <=> WordsReady(k, e, d)
  BY <1>4, Same
<1>7. AtVariables(K)'
  <2>1. Known(K)' = Known(K) /\ NoInst'
    BY <1>2, <1>3 DEF Known, NoInst
  <2>2. 1 \in 1 .. Width + 1 /\ Len(<<>>) = 1 - 1
    BY <1>4, Variables
  <2>. QED  BY <1>2, <1>3, <1>4, <1>6, <2>1, <2>2 DEF AtVariables
<1>8. TextInv(K)'
  BY <1>2, <1>5, <1>7 DEF TextInv, Formats, Final
<1>. QED  BY <1>1, <1>2, <1>8 DEF TextKnown

(* Two variables have two input registers.                                 *)
LEMMA InputRegs ==
  ASSUME KleeInv, NEW w \in Vars, NEW z \in Vars, InputReg(w) = InputReg(z)
  PROVE  w = z
BY Variables DEF InputReg, DstReg

(* Loading a variable keeps the invariant of the text, and the variables   *)
(* loaded before it.                                                       *)
LEMMA EmitVariableText ==
  ASSUME ScriptType, TextKnown, EmitVariable, UNCHANGED cvars
  PROVE  TextKnown'
<1>. USE DEF EmitVariable, io, cvars
<1>1. PICK K : IsKnown(K, text) /\ TextInv(K)
  BY DEF TextKnown
<1>2. /\ stage = "variables" /\ stage' = "variables" /\ t' = t
      /\ inst' = inst /\ tests' = tests /\ format' = format /\ format = "elf" /\ v \in Vars /\ v' = v + 1
  BY <1>1 DEF TextInv, Formats
<1>3. /\ t \in Tested /\ NoInst
      /\ WordsReady(Known(K), t, DOMAIN Entry.rmem)
      /\ v \in 1 .. Width + 1 /\ Len(args) = v - 1
      /\ \A w \in 1 .. v - 1 : /\ Fits(Known(K), w, args[w], t)
                               /\ inst.vars[w].role # "imm" => Index(w, args[w]) = InputReg(w)
      /\ \A j \in DOMAIN text : ItemOK(K, j)
  BY <1>1, <1>2 DEF TextInv, AtVariables
<1>4. Continues /\ ~ Final /\ t \in Nat /\ Entry' = Entry /\ KleeInv /\ t \in DOMAIN tests /\ Entry = tests[t]
      /\ IsText(args)
  BY <1>2, <1>3 DEF Continues, Final, ScriptType, Entry, Tested
<1>5. /\ Tested' = Tested /\ Width' = Width /\ Vars' = Vars /\ Outputs' = Outputs
      /\ \A w, o : Index(w, o)' = Index(w, o)
      /\ \A k, w, o, e : Fits(k, w, o, e)' <=> Fits(k, w, o, e)
      /\ \A k, e, d : WordsReady(k, e, d)' <=> WordsReady(k, e, d)
  BY <1>4, Same
<1>6. Width \in Nat /\ Vars = 1 .. Width /\ v \in Nat /\ Entry.in[v] \in Value
      /\ \A w \in Vars : InputReg(w)' = InputReg(w)
  BY <1>2, <1>4, <1>5, Variables, EntryMaps DEF InputReg, DstReg
<1>. PICK old, x : old = args /\ x = v
  OBVIOUS
<1>7. ASSUME NEW K2, NEW arg, args' = Append(args, arg),
             IsKnown(K2, text)', NoInst', \A j \in DOMAIN text' : ItemOK(K2, j)',
             NEW k, k = Known(K2)', WordsReady(k, t, DOMAIN Entry.rmem),
             \A w \in 1 .. x - 1 : Fits(k, w, old[w], t),
             Fits(k, x, arg, t), inst.vars[x].role # "imm" => Index(x, arg) = InputReg(x)
      PROVE  TextKnown'
  <2>1. /\ Len(args') = x /\ args'[x] = arg
        /\ \A w \in 1 .. x - 1 : args'[w] = old[w]
    <3>1. Len(args) = x - 1 /\ Len(args) + 1 = x
      BY <1>3, <1>6
    <3>. QED  BY <1>4, <1>7, <3>1, Appended
  <2>2. ASSUME NEW w \in 1 .. x, NEW o, o = args'[w]
        PROVE  Fits(k, w, o, t) /\ (inst.vars[w].role # "imm" => Index(w, o) = InputReg(w))
    <3>1. CASE w = x
      BY <1>7, <2>1, <2>2, <3>1
    <3>2. CASE w # x
      <4>1. w \in 1 .. x - 1
        BY <1>6, <3>2
      <4>2. o = old[w]
        BY <2>1, <2>2, <4>1
      <4>. QED  BY <1>3, <1>7, <4>1, <4>2
    <3>. QED  BY <3>1, <3>2
  <2>3. v' \in 1 .. Width + 1 /\ v' - 1 = x
    BY <1>2, <1>6
  <2>4. \A w \in 1 .. x : w \in Vars
    BY <1>2, <1>6
  <2>5. \A w \in 1 .. v' - 1 :
          /\ Fits(Known(K2)', w, args'[w], t')
          /\ inst'.vars[w].role # "imm" => Index(w, args'[w]) = InputReg(w)
    BY <1>2, <1>7, <2>2, <2>3
  <2>6. (\A w \in 1 .. v - 1 :
          /\ Fits(Known(K2), w, args[w], t)
          /\ inst.vars[w].role # "imm" => Index(w, args[w]) = InputReg(w))'
    <3>1. ASSUME NEW w \in 1 .. x
          PROVE  /\ Fits(Known(K2), w, args[w], t)'
                 /\ (inst.vars[w].role # "imm" => Index(w, args[w]) = InputReg(w))'
      <4>. PICK o : o = args'[w]
        OBVIOUS
      <4>1. Fits(k, w, o, t) /\ (inst.vars[w].role # "imm" => Index(w, o) = InputReg(w))
        BY <2>2
      <4>2. InputReg(w)' = InputReg(w) /\ Index(w, o)' = Index(w, o)
        BY <1>5, <1>6, <2>4
      <4>3. Fits(Known(K2), w, args[w], t)'
        <5>1. Fits(k, w, o, t)' <=> Fits(k, w, o, t)
          BY <1>2, <1>4 DEF Fits, Index, Continues
        <5>. QED  BY <1>7, <4>1, <5>1
      <4>. QED  BY <1>2, <4>1, <4>2, <4>3
    <3>. QED  BY <2>3, <3>1
  <2>7. WordsReady(Known(K2), t, DOMAIN Entry.rmem)'
    <3>1. PICK d : d = DOMAIN Entry.rmem
      OBVIOUS
    <3>2. WordsReady(k, t, d)' <=> WordsReady(k, t, d)
      BY <1>2 DEF WordsReady, Alone
    <3>. QED  BY <1>4, <1>7, <3>1, <3>2
  <2>8. AtVariables(K2)'
    BY <1>2, <1>3, <1>5, <1>7, <2>1, <2>3, <2>6, <2>7 DEF AtVariables
  <2>9. TextInv(K2)'
    BY <1>2, <1>7, <2>8 DEF TextInv, Formats, Final
  <2>. QED  BY <1>7, <2>9 DEF TextKnown
<1>8. CASE inst.vars[v].role = "imm"
  <2>. PICK arg : arg = [kind |-> "i", n |-> Entry.in[v]]
    OBVIOUS
  <2>1. args' = Append(args, arg) /\ text' = text
    BY <1>8
  <2>2. \A j \in DOMAIN text' : ItemOK(K, j)'
    BY <1>1, <1>2, <1>3, <1>4, <2>1, Keeping
  <2>3. NoInst' /\ Known(K)' = Known(K) /\ IsKnown(K, text)'
    BY <1>1, <1>3, <2>1 DEF NoInst, Known
  <2>4. Fits(Known(K), x, arg, t)
    BY <1>4, <1>8 DEF Fits
  <2>. QED  BY <1>3, <1>7, <1>8, <2>1, <2>2, <2>3, <2>4
<1>9. CASE inst.vars[v].role # "imm"
  <2>. PICK arg, r, i1 : /\ arg = [kind |-> "r", n |-> InputReg(v) - (IF inst.vars[v].compressed THEN 8 ELSE 0)]
                         /\ r = InputReg(v) /\ i1 = LoadReg(r, Entry.in[v])
    OBVIOUS
  <2>. DEFINE s == <<i1>>
  <2>1. args' = Append(args, arg) /\ Emit(s)
    BY <1>9
  <2>2. IsText(s) /\ Len(s) = 1 /\ s[1] = i1
    BY OneItem
  <2>. HIDE DEF s
  <2>3. \E K2, n : Wrote(K, K2, s, n)
    BY <1>1, <1>2, <1>3, <1>4, <2>1, <2>2, Writing
  <2>. PICK K2, n : Wrote(K, K2, s, n)
    BY <2>3
  <2>. PICK k0, k1 : k0 = K2[n] /\ k1 = K2[n + 1]
    OBVIOUS
  <2>4. /\ n \in Nat /\ DOMAIN text = 1 .. n /\ DOMAIN text' = 1 .. n + 1 /\ Len(text') = n + 1
        /\ IsKnown(K2, text') /\ k0 = Known(K)
        /\ \A j \in 1 .. n : text'[j] = text[j] /\ ItemOK(K2, j)'
        /\ text'[n + 1] = i1 /\ k1 = After(k0, i1, n + 1)
    <3>1. n + 1 - 1 = n
      BY DEF Wrote
    <3>. QED  BY <2>2, <3>1 DEF Wrote
  <2>5. i1.op = "li" /\ i1.r = r /\ i1.n = Entry.in[v] /\ i1.size = 8
    BY DEF LoadReg, Item
  <2>6. /\ DOMAIN k1.regs = DOMAIN k0.regs \cup {r} /\ k1.regs[r] = Entry.in[v] /\ k1.words = k0.words
        /\ \A q \in DOMAIN k0.regs : q # r => k1.regs[q] = k0.regs[q]
    BY <2>4, <2>5, AfterLoadReg
  <2>7. Index(x, arg) = r
    <3>1. InputReg(v) \in Int /\ inst.vars[v].compressed \in BOOLEAN
      BY <1>2, <1>4, <1>6, Variables DEF InputReg, DstReg
    <3>. QED  BY <1>2, <3>1 DEF Index
  <2>8. Fits(k1, x, arg, t)
    BY <1>4, <1>9, <2>6, <2>7 DEF Fits
  <2>9. ASSUME NEW w \in 1 .. x - 1 PROVE Fits(k1, w, old[w], t)
    <3>1. w \in Vars /\ w # x /\ InputReg(w) # r
      BY <1>2, <1>4, <1>6, InputRegs
    <3>2. Fits(k0, w, old[w], t) /\ (inst.vars[w].role # "imm" => Index(w, old[w]) = InputReg(w))
      BY <1>3, <2>4
    <3>. QED  BY <2>6, <3>1, <3>2 DEF Fits
  <2>10. WordsReady(k1, t, DOMAIN Entry.rmem)
    BY <1>3, <2>4, <2>6, WordsStay
  <2>11. \A j \in DOMAIN text' : ItemOK(K2, j)'
    <3>1. ItemOK(K2, n + 1)'
      BY <1>2, <1>6, <2>4, <2>5, NewLoadReg
    <3>. QED  BY <2>4, <3>1
  <2>12. NoInst' /\ k1 = Known(K2)'
    <3>1. ASSUME NEW j \in 1 .. n + 1 PROVE text'[j].op # "inst"
      <4>1. j \in 1 .. n \/ j = n + 1
        BY <2>4
      <4>. QED  BY <1>3, <2>4, <2>5, <4>1 DEF NoInst
    <3>. QED  BY <2>4, <3>1 DEF NoInst, Known
  <2>. QED  BY <1>7, <2>1, <2>4, <2>7, <2>8, <2>9, <2>10, <2>11, <2>12
<1>. QED  BY <1>8, <1>9

(* Writing the instruction keeps the invariant of the text: its operands   *)
(* name the inputs of its entry.                                           *)
LEMMA EmitInstructionText ==
  ASSUME ScriptType, TextKnown, EmitInstruction, UNCHANGED cvars
  PROVE  TextKnown'
<1>. USE DEF EmitInstruction, io, cvars
<1>1. PICK K : IsKnown(K, text) /\ TextInv(K)
  BY DEF TextKnown
<1>2. /\ stage = "variables" /\ stage' = "checks" /\ t' = t /\ args' = args /\ v \notin Vars
      /\ inst' = inst /\ tests' = tests /\ format' = format /\ format = "elf"
  BY <1>1 DEF TextInv, Formats
<1>3. /\ t \in Tested /\ NoInst
      /\ WordsReady(Known(K), t, DOMAIN Entry.rmem)
      /\ v \in 1 .. Width + 1 /\ Len(args) = v - 1
      /\ \A w \in 1 .. v - 1 : /\ Fits(Known(K), w, args[w], t)
                               /\ inst.vars[w].role # "imm" => Index(w, args[w]) = InputReg(w)
      /\ \A j \in DOMAIN text : ItemOK(K, j)
  BY <1>1, <1>2 DEF TextInv, AtVariables
<1>4. Continues /\ ~ Final /\ t \in Nat /\ Entry' = Entry /\ KleeInv /\ t \in DOMAIN tests /\ Entry = tests[t]
  BY <1>2, <1>3 DEF Continues, Final, ScriptType, Entry, Tested
<1>5. /\ Tested' = Tested /\ Vars' = Vars /\ Outputs' = Outputs
      /\ \A w, o : Index(w, o)' = Index(w, o)
      /\ \A k, w, o, e : Fits(k, w, o, e)' <=> Fits(k, w, o, e)
      /\ \A k, w, o : Usable(k, w, o)' <=> Usable(k, w, o)
      /\ \A k, e, d : WordsReady(k, e, d)' <=> WordsReady(k, e, d)
  BY <1>4, Same
<1>6. Width \in Nat /\ Vars = 1 .. Width /\ v - 1 = Width /\ Outputs \subseteq Vars
      /\ \A w \in Vars : inst.vars[w].role = "imm" => w \notin Outputs
  <2>1. Width \in Nat /\ Vars = 1 .. Width
    BY <1>4, Variables
  <2>2. v - 1 = Width
    BY <1>2, <1>3, <2>1
  <2>. QED  BY <1>4, <2>1, <2>2, Variables
<1>. PICK os, i1 : os = args /\ i1 = Item("inst", inst.size, t, args)
  OBVIOUS
<1>. DEFINE s == <<i1>>
<1>7. IsText(s) /\ Len(s) = 1 /\ s[1] = i1 /\ Emit(s)
  BY OneItem
<1>. HIDE DEF s
<1>8. i1.op = "inst" /\ i1.size = inst.size /\ i1.r = t /\ i1.n = os
  BY DEF Item
<1>9. \E K2, n : Wrote(K, K2, s, n)
  BY <1>1, <1>2, <1>3, <1>4, <1>7, Writing
<1>. PICK K2, n : Wrote(K, K2, s, n)
  BY <1>9
<1>. PICK k, m : k = K2[n] /\ m = n + 1
  OBVIOUS
<1>10. /\ n \in Nat /\ m - 1 = n /\ DOMAIN text = 1 .. n /\ DOMAIN text' = 1 .. m /\ Len(text') = m
       /\ IsKnown(K2, text') /\ k = Known(K) /\ K2[m - 1] = k
       /\ \A j \in 1 .. n : text'[j] = text[j] /\ ItemOK(K2, j)'
       /\ text'[m] = i1
  <2>1. n \in Nat /\ m - 1 = n
    BY DEF Wrote
  <2>. QED  BY <1>7, <2>1 DEF Wrote
<1>11. \A w \in Vars : Fits(k, w, os[w], t) /\ (inst.vars[w].role # "imm" => Index(w, os[w]) = InputReg(w))
  BY <1>3, <1>6, <1>10
<1>12. \A w \in Vars : Usable(k, w, os[w])
  <2>1. \A w \in Vars : Entry.in[w] \in Value
    BY <1>4, EntryMaps
  <2>. QED  BY <1>4, <1>11, <2>1 DEF Fits, Usable
<1>13. \A w \in Outputs : Index(w, os[w]) = DstReg
  BY <1>6, <1>11 DEF InputReg
<1>14. \A j \in 1 .. n : text'[j].op # "inst"
  BY <1>3, <1>10 DEF NoInst
<1>15. InstOK(k, m)'
  <2>1. text'[m].r = t /\ text'[m].n = os /\ text'[m].size = inst.size
    BY <1>8, <1>10
  <2>2. \A l \in 1 .. m - 1 : text'[l].op # "inst"
    BY <1>10, <1>14
  <2>3. WordsReady(k, t, DOMAIN tests[t].rmem)
    BY <1>3, <1>4, <1>10
  <2>. QED  BY <1>2, <1>3, <1>4, <1>5, <1>11, <1>12, <1>13, <2>1, <2>2, <2>3 DEF InstOK
<1>16. \A j \in DOMAIN text' : ItemOK(K2, j)'
  <2>1. ItemFine(k, i1, m)'
    BY <1>8, <1>15 DEF ItemFine
  <2>2. ItemOK(K2, m)'
    BY <1>10, <2>1, NewItem
  <2>3. \A j \in 1 .. m : j \in 1 .. n \/ j = m
    BY <1>10
  <2>. QED  BY <1>10, <2>2, <2>3
<1>17. AtChecks'
  <2>1. text' # <<>>
    BY <1>10
  <2>2. \A j \in 1 .. m - 1 : text'[j].op # "inst"
    BY <1>10, <1>14
  <2>. QED  BY <1>2, <1>3, <1>5, <1>8, <1>10, <2>1, <2>2 DEF AtChecks
<1>18. TextInv(K2)'
  BY <1>2, <1>16, <1>17 DEF TextInv, Formats, Final
<1>. QED  BY <1>10, <1>18 DEF TextKnown

(* The three items of CheckResult, after the first m of the text.          *)
Expects(k, n) ==
  \/ ResultIn(k, DstReg) /\ \E w \in Outputs : n = tests[Owner(k)].x[w]
  \/ k.same /\ \E a \in DOMAIN tests[Owner(k)].wmem : k.loaded = {a} /\ n = tests[Owner(k)].wmem[a]
Checking(K, m, n, k) ==
  /\ m \in Nat /\ k = K[m]
  /\ text'[m + 1] = LoadReg(ExpectedReg, n) /\ text'[m + 2] = SkipIfExpected(16)
  /\ text'[m + 3] = Exit(255) /\ DOMAIN text' = 1 .. Len(text') /\ Len(text') \in Nat /\ m + 3 <= Len(text')
  /\ K[m + 1] = After(K[m], text'[m + 1], m + 1) /\ K[m + 2] = After(K[m + 1], text'[m + 2], m + 2)
  /\ format' = "elf" /\ n \in Value /\ k.inst # 0

(* The li, beq and exit of a check are in order if the register they       *)
(* compare is known to be right.                                           *)
LEMMA NewCheck ==
  ASSUME NEW K, NEW m, NEW n, NEW k, Checking(K, m, n, k), Expects(k, n)'
  PROVE  /\ \A j \in {m + 1, m + 2, m + 3} : ItemOK(K, j)'
         /\ K[m + 3 - 1].inst = k.inst /\ K[m + 3 - 1].same = k.same /\ K[m + 3 - 1].loaded = k.loaded
         /\ ExpectedReg \in DOMAIN K[m + 3 - 1].regs /\ K[m + 3 - 1].regs[ExpectedReg] = n
         /\ K[m + 3 - 1].dirty = k.dirty \cup {ExpectedReg}
<1>. USE DEF Checking, Expects
<1>. PICK i1, i2, i3 : i1 = LoadReg(ExpectedReg, n) /\ i2 = SkipIfExpected(16) /\ i3 = Exit(255)
  OBVIOUS
<1>. PICK a, b, c : a = m + 1 /\ b = m + 2 /\ c = m + 3
  OBVIOUS
<1>. PICK k1, k2 : k1 = K[a] /\ k2 = K[b]
  OBVIOUS
<1>0. /\ a \in Nat /\ b \in Nat /\ c \in Nat /\ b - 1 = a /\ c - 1 = b /\ a - 1 = m /\ b > 1 /\ c > 1 /\ b + 1 = c
      /\ m + 3 - 1 = b
      /\ text'[a] = i1 /\ text'[b] = i2 /\ text'[c] = i3 /\ c \in DOMAIN text'
      /\ K[c - 1] = k2 /\ K[b - 1] = k1 /\ K[a - 1] = k
  OBVIOUS
<1>1. /\ i1.op = "li" /\ i1.r = ExpectedReg /\ i1.n = n /\ i1.size = 8
      /\ i2.op = "beq" /\ i2.size = 4 /\ i2.n = 16 /\ i3.op = "exit"
  BY DEF LoadReg, SkipIfExpected, Exit, Item
<1>2. k1 = After(k, i1, a) /\ k2 = After(k1, i2, b)
  BY <1>0
<1>3. k2 = k1
  BY <1>1, <1>2 DEF After
<1>4. /\ ExpectedReg \in DOMAIN k1.regs /\ k1.regs[ExpectedReg] = n /\ k1.inst = k.inst
      /\ k1.same = k.same /\ k1.dirty = k.dirty \cup {ExpectedReg} /\ k1.loaded = k.loaded
  <2>1. ExpectedReg # DstReg
    BY DEF ExpectedReg, DstReg
  <2>. QED  BY <1>1, <1>2, <2>1, AfterLoadReg
<1>5. ItemOK(K, a)'
  BY <1>0, <1>1, NewLoadReg
<1>6. Owner(k1)' = Owner(k)'
  BY <1>4 DEF Owner
<1>7. ResultIn(k, DstReg)' => ResultIn(k1, DstReg)'
  <2>1. ResultIn(k, DstReg)' => DstReg' \notin k.dirty
    BY DEF ResultIn
  <2>2. DstReg' \notin k.dirty => DstReg' \notin k1.dirty
    BY <1>4 DEF DstReg, ExpectedReg
  <2>. QED  BY <1>4, <2>1, <2>2 DEF ResultIn
<1>8. BeqOK(k1, b)'
  <2>1. text'[b] = SkipIfExpected(16) /\ b + 1 \in DOMAIN text' /\ text'[b + 1] = Exit(255)
    BY <1>0
  <2>2. \/ ResultIn(k1, DstReg)' /\ \E w \in Outputs' : k1.regs[ExpectedReg] = tests'[Owner(k1)'].x[w]
        \/ k1.same /\ \E q \in DOMAIN tests'[Owner(k1)'].wmem :
             k1.loaded = {q} /\ k1.regs[ExpectedReg] = tests'[Owner(k1)'].wmem[q]
    <3>1. CASE ResultIn(k, DstReg)' /\ \E w \in Outputs' : n = tests'[Owner(k)'].x[w]
      <4>. PICK w \in Outputs' : n = tests'[Owner(k)'].x[w]
        BY <3>1
      <4>1. ResultIn(k1, DstReg)'
        BY <1>7, <3>1
      <4>2. k1.regs[ExpectedReg] = tests'[Owner(k1)'].x[w]
        BY <1>4, <1>6
      <4>. QED  BY <4>1, <4>2
    <3>2. CASE k.same /\ \E q \in DOMAIN tests'[Owner(k)'].wmem :
              k.loaded = {q} /\ n = tests'[Owner(k)'].wmem[q]
      <4>. PICK q \in DOMAIN tests'[Owner(k)'].wmem : k.loaded = {q} /\ n = tests'[Owner(k)'].wmem[q]
        BY <3>2
      <4>1. q \in DOMAIN tests'[Owner(k1)'].wmem /\ k1.loaded = {q} /\ k1.regs[ExpectedReg] = tests'[Owner(k1)'].wmem[q]
        BY <1>4, <1>6
      <4>. QED  BY <1>4, <3>2, <4>1
    <3>. QED  BY <3>1, <3>2
  <2>. QED  BY <1>4, <2>1, <2>2 DEF BeqOK, ExpectedReg, SkipIfExpected, Exit, Item
<1>9. ItemOK(K, b)'
  <2>1. ItemFine(k1, i2, b)'
    BY <1>1, <1>8 DEF ItemFine
  <2>. QED  BY <1>0, <2>1, NewItem
<1>10. ItemOK(K, c)'
  <2>1. text'[c - 1].op = "beq"
    BY <1>0, <1>1
  <2>2. ItemFine(k2, i3, c)'
    BY <1>0, <1>1, <2>1 DEF ItemFine, Exit, Item
  <2>. QED  BY <1>0, <2>2, NewItem
<1>. QED  BY <1>0, <1>3, <1>4, <1>5, <1>9, <1>10

(* The expected value of an entry is that of its output.                   *)
LEMMA ExpectedIs ==
  ASSUME KleeInv, NEW e \in DOMAIN tests
  PROVE  /\ HasExpected(tests[e]) =>
              /\ \A w \in Outputs : Expected(tests[e]) = tests[e].x[w]
              /\ \E w \in Outputs : Expected(tests[e]) = tests[e].x[w]
              /\ Expected(tests[e]) \in Value
         /\ ~ HasExpected(tests[e]) => Outputs = {}
<1>1. /\ Outputs \subseteq Vars /\ Vars \subseteq Nat /\ \A w, z \in Outputs : w = z
      /\ \A w \in Vars : tests[e].x[w] \in Value
  BY Variables, EntryMaps
<1>2. CASE Outputs # {}
  <2>. PICK w \in Outputs : TRUE
    BY <1>2
  <2>1. \A z \in Outputs : z <= w
    BY <1>1
  <2>. PICK y : y = CHOOSE y0 \in Outputs : \A z \in Outputs : z <= y0
    OBVIOUS
  <2>2. y \in Outputs
    BY <2>1
  <2>3. Expected(tests[e]) = tests[e].x[y]
    BY DEF Expected
  <2>. QED  BY <1>1, <1>2, <2>2, <2>3 DEF HasExpected
<1>. QED  BY <1>2 DEF HasExpected

(* The items of the four forms of a check. *)
LEMMA FourItems ==
  ASSUME NEW a, NEW b, NEW c, NEW d
  PROVE  LET s == <<a>> \o <<b, c, d>> IN
         IsText(s) /\ Len(s) = 4 /\ s[1] = a /\ s[2] = b /\ s[3] = c /\ s[4] = d
<1>. PICK x, y : x = <<a>> /\ y = <<b, c, d>>
  OBVIOUS
<1>1. IsText(x) /\ Len(x) = 1 /\ x[1] = a
  BY OneItem
<1>2. IsText(y) /\ Len(y) = 3 /\ y[1] = b /\ y[2] = c /\ y[3] = d
  BY ThreeItems
<1>3. /\ IsText(x \o y) /\ Len(x \o y) = Len(x) + Len(y)
      /\ \A j \in 1 .. Len(x) : (x \o y)[j] = x[j]
      /\ \A j \in 1 .. Len(y) : (x \o y)[Len(x) + j] = y[j]
  BY <1>1, <1>2, Joined
<1>. PICK s : s = x \o y
  OBVIOUS
<1>4. IsText(s) /\ Len(s) = 4 /\ s[1] = a /\ s[1 + 1] = b /\ s[1 + 2] = c /\ s[1 + 3] = d
  BY <1>1, <1>2, <1>3
<1>5. IsText(s) /\ Len(s) = 4 /\ s[1] = a /\ s[2] = b /\ s[3] = c /\ s[4] = d
  BY <1>4
<1>. QED  BY <1>5

(* Writing the checks of branch and result keeps the invariant of the      *)
(* text, in each of the four cases of jump and output.                     *)
LEMMA EmitChecksText ==
  ASSUME ScriptType, TextKnown, EmitChecks, UNCHANGED cvars
  PROVE  TextKnown'
<1>. USE DEF io, cvars
<1>1. PICK K : IsKnown(K, text) /\ TextInv(K)
  BY DEF TextKnown
<1>2. /\ stage = "checks" /\ stage' = "stores" /\ t' = t /\ todo' = DOMAIN Entry.wmem
      /\ inst' = inst /\ tests' = tests /\ format' = format /\ format = "elf"
  BY <1>1 DEF TextInv, Formats, EmitChecks
<1>3. /\ t \in Tested /\ text # <<>> /\ text[Len(text)].op = "inst" /\ text[Len(text)].r = t
      /\ \A i \in 1 .. Len(text) - 1 : text[i].op # "inst"
      /\ \A j \in DOMAIN text : ItemOK(K, j)
  BY <1>1, <1>2 DEF TextInv, AtChecks
<1>4. Continues /\ ~ Final /\ t \in Nat /\ Entry' = Entry /\ KleeInv /\ t \in DOMAIN tests /\ Entry = tests[t]
      /\ IsText(text)
  BY <1>2, <1>3 DEF Continues, Final, ScriptType, Entry, Tested
<1>5. Tested' = Tested /\ Outputs' = Outputs /\ \A w, o : Index(w, o)' = Index(w, o)
  BY <1>4, Same
<1>. PICK N, k0 : N = Len(text) /\ k0 = K[N]
  OBVIOUS
<1>6. N \in Nat \ {0} /\ DOMAIN text = 1 .. N /\ N \in DOMAIN text
  <2>1. N \in Nat /\ DOMAIN text = 1 .. N
    BY <1>4, TextIs
  <2>2. N # 0
    BY <1>3, <1>4 DEF IsText
  <2>. QED  BY <2>1, <2>2
<1>7. k0 = After(K[N - 1], text[N], N)
  BY <1>1, <1>6 DEF IsKnown
<1>8. k0.inst = N /\ k0.same = TRUE /\ k0.dirty = {}
  BY <1>3, <1>7 DEF After
<1>9. \A w \in Outputs : Index(w, text[N].n[w]) = DstReg
  <2>1. ItemFine(K[N - 1], text[N], N)
    BY <1>3, <1>6 DEF ItemOK
  <2>2. InstOK(K[N - 1], N)
    BY <1>3, <2>1 DEF ItemFine
  <2>. QED  BY <1>2, <2>2 DEF InstOK
<1>10. ASSUME NEW i \in DOMAIN text, text[i].op = "inst" PROVE i = N
  BY <1>3, <1>6, <1>10
<1>11. ASSUME NEW s, IsText(s), Emit(s), Entry.jump => Len(s) > 0 /\ s[1].op = "j"
       PROVE  \E K2, n : Wrote(K, K2, s, n)
  <2>1. \A i \in DOMAIN text : text[i].op = "inst" /\ tests[text[i].r].jump =>
           i = Len(text) /\ Len(s) > 0 /\ s[1].op = "j"
    BY <1>3, <1>4, <1>10, <1>11
  <2>. QED  BY <1>1, <1>2, <1>3, <1>4, <1>11, <2>1, Writing
<1>12. ASSUME NEW s, NEW K2, Wrote(K, K2, s, N), IsText(s),
              \A j \in 1 .. Len(s) : ItemOK(K2, N + j)',
              Known(K2)'.inst = N, Known(K2)'.same = TRUE, ResultSeen(K2, t)'
       PROVE  TextKnown'
  <2>1. /\ DOMAIN text' = 1 .. N + Len(s) /\ Len(text') = N + Len(s) /\ IsKnown(K2, text') /\ Len(s) \in Nat
        /\ \A j \in 1 .. N : text'[j] = text[j] /\ ItemOK(K2, j)'
    BY <1>12, TextIs DEF Wrote
  <2>2. \A j \in DOMAIN text' : ItemOK(K2, j)'
    <3>1. ASSUME NEW j \in N + 1 .. N + Len(s) PROVE ItemOK(K2, j)'
      <4>. PICK l : l = j - N
        OBVIOUS
      <4>1. l \in 1 .. Len(s) /\ j = N + l
        BY <1>6, <2>1
      <4>2. ItemOK(K2, N + l)'
        BY <1>12, <4>1
      <4>. QED  BY <4>1, <4>2
    <3>2. \A j \in 1 .. N + Len(s) : j \in 1 .. N \/ j \in N + 1 .. N + Len(s)
      BY <1>6, <2>1
    <3>. QED  BY <2>1, <3>1, <3>2
  <2>3. text'[N] = text[N] /\ N \in DOMAIN text'
    BY <1>6, <2>1
  <2>4. FromEntry(Known(K2), t)'
    BY <1>2, <1>3, <1>6, <1>12, <2>3 DEF FromEntry, Owner
  <2>5. HasInst(t)'
    BY <1>2, <1>3, <2>3 DEF HasInst
  <2>6. Covered(K2, t, todo)'
    BY <1>2, <1>4, <1>12, <2>5 DEF Covered
  <2>7. AtStores(K2)'
    BY <1>2, <1>3, <1>4, <1>5, <1>12, <2>4, <2>6 DEF AtStores
  <2>8. TextInv(K2)'
    BY <1>2, <2>2, <2>7 DEF TextInv, Formats, Final
  <2>. QED  BY <2>1, <2>8 DEF TextKnown
(* An exit after a check of the result. *)
<1>13. ASSUME NEW K2, NEW j, NEW k, k = K2[j - 1], j \in DOMAIN text', text'[j] = Exit(255), k.inst = N,
              text'[N] = text[N], DstReg \notin k.dirty, ExpectedReg \in DOMAIN k.regs,
              k.regs[ExpectedReg] = Expected(Entry), HasExpected(Entry)
       PROVE  ResultSeen(K2, t)'
  <2>1. ASSUME NEW w \in Outputs, NEW item, item = text'[j] PROVE ResultAt(k, item, w, t)'
    <3>. PICK o : o = text[N].n[w]
      OBVIOUS
    <3>1. Index(w, o)' = DstReg /\ text'[k.inst].n[w] = o
      BY <1>5, <1>9, <1>13
    <3>2. FromEntry(k, t)'
      BY <1>2, <1>3, <1>6, <1>13 DEF FromEntry, Owner
    <3>3. k.regs[ExpectedReg] = tests'[t].x[w]
      BY <1>2, <1>4, <1>13, ExpectedIs
    <3>4. Index(w, text[k.inst].n[w])' = DstReg
      BY <3>1
    <3>. QED  BY <1>2, <1>13, <2>1, <3>2, <3>3, <3>4 DEF ResultAt, Exit, Item, DstReg, ExpectedReg
  <2>2. ASSUME NEW w \in Outputs PROVE (\E l \in DOMAIN text : ResultAt(K2[l - 1], text[l], w, t))'
    <3>. PICK item : item = text'[j]
      OBVIOUS
    <3>1. ResultAt(k, item, w, t)'
      BY <2>1
    <3>2. ResultAt(K2[j - 1], text[j], w, t)' <=> ResultAt(k, item, w, t)'
      BY <1>13
    <3>. QED  BY <1>13, <3>1, <3>2
  <2>. QED  BY <1>5, <2>2 DEF ResultSeen
<1>14. ASSUME Outputs = {}, NEW K2 PROVE ResultSeen(K2, t)'
  BY <1>5, <1>14 DEF ResultSeen
(* What a check of the result needs. *)
<1>15. ASSUME NEW k, k.inst = N, k.dirty = {}, text'[N] = text[N], HasExpected(Entry)
       PROVE  /\ Expected(Entry) \in Value
              /\ ResultIn(k, DstReg)' /\ \E w \in Outputs' : Expected(Entry) = tests'[Owner(k)'].x[w]
  <2>1. Owner(k)' = t
    BY <1>3, <1>6, <1>15 DEF Owner
  <2>2. \A w \in Outputs : DstReg = Index(w, text[N].n[w])'
    <3>1. ASSUME NEW w \in Outputs PROVE DstReg = Index(w, text[N].n[w])'
      <4>. PICK o : o = text[N].n[w]
        OBVIOUS
      <4>1. Index(w, o)' = DstReg /\ text'[N].n[w] = o
        BY <1>5, <1>9, <1>15
      <4>. QED  BY <4>1
    <3>. QED  BY <3>1
  <2>3. ResultIn(k, DstReg)'
    BY <1>2, <1>5, <1>6, <1>15, <2>2 DEF ResultIn, DstReg
  <2>. QED  BY <1>2, <1>4, <1>5, <1>15, <2>1, <2>3, ExpectedIs
<1>16. ASSUME NEW op, op \in {"j", "beq", "exit"}, NEW k, NEW j, NEW size, NEW n PROVE After(k, Item(op, size, 0, n), j) = k
  BY <1>16 DEF After, Item
<1>17. CASE Entry.jump /\ HasExpected(Entry)
  <2>. PICK x, i1, i2, i3, i4 : /\ x = Expected(Entry) /\ i1 = JumpOver(16)
                                /\ i2 = LoadReg(ExpectedReg, x) /\ i3 = SkipIfExpected(16) /\ i4 = Exit(255)
    OBVIOUS
  <2>. DEFINE s == <<i1>> \o <<i2, i3, i4>>
  <2>1. Emit(s)
    BY <1>17 DEF EmitChecks, CheckBranchAndResult, CheckResult
  <2>2. IsText(s) /\ Len(s) = 4 /\ s[1] = i1 /\ s[2] = i2 /\ s[3] = i3 /\ s[4] = i4
    BY FourItems
  <2>. HIDE DEF s
  <2>3. /\ i1.op = "j" /\ i1.size = 4 /\ i1.n = 16 /\ i2.op = "li" /\ i3.op = "beq" /\ i4.op = "exit"
    BY DEF JumpOver, LoadReg, SkipIfExpected, Exit, Item
  <2>4. \E K2, n : Wrote(K, K2, s, n)
    BY <1>11, <2>1, <2>2, <2>3
  <2>. PICK K2, n : Wrote(K, K2, s, n)
    BY <2>4
  <2>. PICK m : m = N + 1
    OBVIOUS
  <2>5. /\ n = N /\ m \in Nat /\ m - 1 = N /\ m > 1 /\ N + 2 = m + 1 /\ N + 3 = m + 2 /\ N + 4 = m + 3
        /\ N + 1 - 1 = N /\ N + 2 - 1 = m /\ N + 3 - 1 = m + 1 /\ N + 4 - 1 = m + 2 /\ m + 3 - 1 = m + 2
    BY <1>6 DEF Wrote
  <2>6. /\ DOMAIN text' = 1 .. m + 3 /\ Len(text') = m + 3 /\ IsKnown(K2, text') /\ K2[N] = k0
        /\ text'[N] = text[N]
        /\ text'[m] = i1 /\ text'[m + 1] = i2 /\ text'[m + 2] = i3 /\ text'[m + 3] = i4
        /\ K2[m] = After(k0, i1, m) /\ K2[m + 1] = After(K2[m], i2, m + 1)
        /\ K2[m + 2] = After(K2[m + 1], i3, m + 2) /\ K2[m + 3] = After(K2[m + 2], i4, m + 3)
    <3>1. /\ 1 \in 1 .. Len(s) /\ 2 \in 1 .. Len(s) /\ 3 \in 1 .. Len(s) /\ 4 \in 1 .. Len(s)
      BY <2>2
    <3>2. /\ DOMAIN text' = 1 .. N + 4 /\ Len(text') = N + 4 /\ IsKnown(K2, text') /\ K2[N] = k0
          /\ text'[N] = text[N]
          /\ text'[N + 1] = i1 /\ text'[N + 2] = i2 /\ text'[N + 3] = i3 /\ text'[N + 4] = i4
          /\ K2[N + 1] = After(K2[N + 1 - 1], i1, N + 1) /\ K2[N + 2] = After(K2[N + 2 - 1], i2, N + 2)
          /\ K2[N + 3] = After(K2[N + 3 - 1], i3, N + 3) /\ K2[N + 4] = After(K2[N + 4 - 1], i4, N + 4)
      BY <1>6, <2>2, <2>5, <3>1 DEF Wrote, Known
    <3>. QED  BY <2>5, <3>2
  <2>7. K2[m] = k0
    BY <1>16, <2>6 DEF JumpOver
  <2>8. \A j \in {m + 1, m + 2, m + 3} : ItemOK(K2, j)'
        /\ K2[m + 2].inst = N /\ K2[m + 2].same = TRUE
        /\ ExpectedReg \in DOMAIN K2[m + 2].regs /\ K2[m + 2].regs[ExpectedReg] = x
        /\ K2[m + 2].dirty = {ExpectedReg}
    <3>1. x \in Value /\ ResultIn(k0, DstReg)' /\ \E w \in Outputs' : x = tests'[Owner(k0)'].x[w]
      BY <1>8, <1>15, <1>17, <2>6
    <3>2. Len(text') \in Nat /\ m + 3 <= Len(text') /\ DOMAIN text' = 1 .. Len(text')
      BY <2>5, <2>6
    <3>3. format' = "elf" /\ k0.inst # 0
      BY <1>2, <1>6, <1>8
    <3>4. /\ \A j \in {m + 1, m + 2, m + 3} : ItemOK(K2, j)'
          /\ K2[m + 3 - 1].inst = k0.inst /\ K2[m + 3 - 1].same = k0.same
          /\ ExpectedReg \in DOMAIN K2[m + 3 - 1].regs /\ K2[m + 3 - 1].regs[ExpectedReg] = x
          /\ K2[m + 3 - 1].dirty = k0.dirty \cup {ExpectedReg}
      <4>1. Checking(K2, m, x, k0)
        BY <2>5, <2>6, <2>7, <3>1, <3>2, <3>3 DEF Checking
      <4>2. Expects(k0, x)'
        BY <3>1 DEF Expects, DstReg
      <4>. QED  BY <4>1, <4>2, NewCheck
    <3>. QED  BY <1>8, <2>5, <3>4
  <2>9. ItemOK(K2, m)'
    <3>1. m - 1 = N /\ text'[m - 1].op = "inst" /\ tests'[text'[m - 1].r].jump
      BY <1>2, <1>3, <1>4, <1>17, <2>5, <2>6
    <3>2. m + 3 \in DOMAIN text'
      BY <2>5, <2>6
    <3>3. JumpOK(m)'
      BY <2>3, <2>5, <2>6, <3>1, <3>2 DEF JumpOK, Exit, Item
    <3>4. ItemFine(k0, i1, m)'
      BY <1>2, <2>3, <3>3 DEF ItemFine
    <3>. QED  BY <2>5, <2>6, <3>4, NewItem
  <2>10. K2[m + 3] = K2[m + 2] /\ Known(K2)' = K2[m + 3]
    <3>1. K2[m + 3] = K2[m + 2]
      BY <1>16, <2>6 DEF Exit
    <3>. QED  BY <2>6, <3>1 DEF Known
  <2>11. ResultSeen(K2, t)'
    <3>1. m + 3 \in DOMAIN text' /\ K2[m + 3 - 1] = K2[m + 2]
      BY <2>5, <2>6
    <3>2. DstReg \notin K2[m + 2].dirty
      BY <2>8 DEF DstReg, ExpectedReg
    <3>. PICK k, j : k = K2[m + 2] /\ j = m + 3
      OBVIOUS
    <3>3. /\ k = K2[j - 1] /\ j \in DOMAIN text' /\ text'[j] = Exit(255) /\ k.inst = N
          /\ DstReg \notin k.dirty /\ ExpectedReg \in DOMAIN k.regs /\ k.regs[ExpectedReg] = x
      BY <2>6, <2>8, <3>1, <3>2
    <3>. QED  BY <1>13, <1>17, <2>6, <3>3
  <2>12. \A j \in 1 .. Len(s) : ItemOK(K2, N + j)'
    <3>1. \A j \in 1 .. 4 : j = 1 \/ j = 2 \/ j = 3 \/ j = 4
      OBVIOUS
    <3>. QED  BY <2>2, <2>5, <2>8, <2>9, <3>1
  <2>13. Wrote(K, K2, s, N)
    BY <2>5
  <2>. QED  BY <1>12, <2>2, <2>8, <2>10, <2>11, <2>12, <2>13
<1>18. CASE Entry.jump /\ ~ HasExpected(Entry)
  <2>. PICK i1, i2, i3 : i1 = JumpOver(8) /\ i2 = JumpOver(16) /\ i3 = Exit(255)
    OBVIOUS
  <2>. DEFINE s == <<i1, i2, i3>>
  <2>1. Emit(s)
    BY <1>18 DEF EmitChecks, CheckBranch
  <2>2. IsText(s) /\ Len(s) = 3 /\ s[1] = i1 /\ s[2] = i2 /\ s[3] = i3
    BY ThreeItems
  <2>. HIDE DEF s
  <2>3. /\ i1.op = "j" /\ i1.size = 4 /\ i1.n = 8 /\ i2.op = "j" /\ i2.size = 4 /\ i2.n = 16 /\ i3.op = "exit"
    BY DEF JumpOver, Exit, Item
  <2>4. \E K2, n : Wrote(K, K2, s, n)
    BY <1>11, <2>1, <2>2, <2>3
  <2>. PICK K2, n : Wrote(K, K2, s, n)
    BY <2>4
  <2>. PICK a, b, c : a = N + 1 /\ b = N + 2 /\ c = N + 3
    OBVIOUS
  <2>5. /\ n = N /\ a - 1 = N /\ b - 1 = a /\ b - 2 = N /\ c - 1 = b /\ a + 1 = b /\ a + 2 = c /\ b + 1 = c
        /\ a > 1 /\ b > 2 /\ c > 1 /\ a \in Nat /\ b \in Nat /\ c \in Nat
    BY <1>6 DEF Wrote
  <2>6. /\ DOMAIN text' = 1 .. c /\ Len(text') = c /\ IsKnown(K2, text') /\ K2[N] = k0
        /\ text'[N] = text[N] /\ text'[a] = i1 /\ text'[b] = i2 /\ text'[c] = i3
        /\ K2[a] = After(K2[N], i1, a) /\ K2[b] = After(K2[a], i2, b) /\ K2[c] = After(K2[b], i3, c)
    <3>1. 1 \in 1 .. Len(s) /\ 2 \in 1 .. Len(s) /\ 3 \in 1 .. Len(s)
      BY <2>2
    <3>2. /\ DOMAIN text' = 1 .. N + 3 /\ Len(text') = N + 3 /\ IsKnown(K2, text') /\ K2[N] = k0
          /\ text'[N] = text[N]
          /\ text'[N + 1] = i1 /\ text'[N + 2] = i2 /\ text'[N + 3] = i3
          /\ K2[N + 1] = After(K2[N + 1 - 1], i1, N + 1) /\ K2[N + 2] = After(K2[N + 2 - 1], i2, N + 2)
          /\ K2[N + 3] = After(K2[N + 3 - 1], i3, N + 3)
      BY <1>6, <2>2, <2>5, <3>1 DEF Wrote, Known
    <3>. QED  BY <2>5, <3>2
  <2>7. K2[a] = k0 /\ K2[b] = k0 /\ K2[c] = k0
    BY <1>16, <2>6 DEF JumpOver, Exit
  <2>8. /\ text'[a - 1].op = "inst" /\ tests'[text'[a - 1].r].jump /\ text'[b - 2].op = "inst"
        /\ b \in DOMAIN text' /\ c \in DOMAIN text'
    BY <1>2, <1>3, <1>4, <1>18, <2>5, <2>6
  <2>9. JumpOK(a)' /\ JumpOK(b)'
    BY <2>3, <2>5, <2>6, <2>8 DEF JumpOK, Exit, Item
  <2>10. ItemOK(K2, a)' /\ ItemOK(K2, b)' /\ ItemOK(K2, c)'
    <3>1. ItemFine(k0, i1, a)' /\ ItemFine(k0, i2, b)'
      BY <1>2, <2>3, <2>9 DEF ItemFine
    <3>2. text'[c - 1].op = "j"
      BY <2>3, <2>5, <2>6
    <3>3. ItemFine(k0, i3, c)'
      BY <2>3, <2>5, <3>2 DEF ItemFine, Exit, Item
    <3>. QED  BY <2>5, <2>6, <2>7, <3>1, <3>3, NewItem
  <2>11. Known(K2)' = k0
    BY <2>6, <2>7 DEF Known
  <2>12. ResultSeen(K2, t)'
    BY <1>4, <1>14, <1>18, ExpectedIs
  <2>13. \A j \in 1 .. Len(s) : ItemOK(K2, N + j)'
    <3>1. \A j \in 1 .. 3 : j = 1 \/ j = 2 \/ j = 3
      OBVIOUS
    <3>. QED  BY <2>2, <2>10, <3>1
  <2>14. Wrote(K, K2, s, N)
    BY <2>5
  <2>. QED  BY <1>8, <1>12, <2>2, <2>11, <2>12, <2>13, <2>14
<1>19. CASE ~ Entry.jump /\ HasExpected(Entry)
  <2>. PICK x, i1, i2, i3 : /\ x = Expected(Entry)
                            /\ i1 = LoadReg(ExpectedReg, x) /\ i2 = SkipIfExpected(16) /\ i3 = Exit(255)
    OBVIOUS
  <2>. DEFINE s == <<i1, i2, i3>>
  <2>1. Emit(s)
    BY <1>19 DEF EmitChecks, CheckResult
  <2>2. IsText(s) /\ Len(s) = 3 /\ s[1] = i1 /\ s[2] = i2 /\ s[3] = i3
    BY ThreeItems
  <2>. HIDE DEF s
  <2>4. \E K2, n : Wrote(K, K2, s, n)
    BY <1>11, <1>19, <2>1, <2>2
  <2>. PICK K2, n : Wrote(K, K2, s, n)
    BY <2>4
  <2>5. n = N /\ N + 1 - 1 = N /\ N + 2 - 1 = N + 1 /\ N + 3 - 1 = N + 2
    BY <1>6 DEF Wrote
  <2>6. /\ DOMAIN text' = 1 .. N + 3 /\ Len(text') = N + 3 /\ IsKnown(K2, text') /\ K2[N] = k0
        /\ text'[N] = text[N]
        /\ text'[N + 1] = i1 /\ text'[N + 2] = i2 /\ text'[N + 3] = i3
        /\ K2[N + 1] = After(K2[N], i1, N + 1) /\ K2[N + 2] = After(K2[N + 1], i2, N + 2)
        /\ K2[N + 3] = After(K2[N + 2], i3, N + 3)
    <3>1. 1 \in 1 .. Len(s) /\ 2 \in 1 .. Len(s) /\ 3 \in 1 .. Len(s)
      BY <2>2
    <3>. QED  BY <1>6, <2>2, <2>5, <3>1 DEF Wrote, Known
  <2>8. \A j \in {N + 1, N + 2, N + 3} : ItemOK(K2, j)'
        /\ K2[N + 2].inst = N /\ K2[N + 2].same = TRUE
        /\ ExpectedReg \in DOMAIN K2[N + 2].regs /\ K2[N + 2].regs[ExpectedReg] = x
        /\ K2[N + 2].dirty = {ExpectedReg}
    <3>1. x \in Value /\ ResultIn(k0, DstReg)' /\ \E w \in Outputs' : x = tests'[Owner(k0)'].x[w]
      BY <1>8, <1>15, <1>19, <2>6
    <3>2. Len(text') \in Nat /\ N + 3 <= Len(text') /\ DOMAIN text' = 1 .. Len(text')
      BY <1>6, <2>6
    <3>3. format' = "elf" /\ k0.inst # 0
      BY <1>2, <1>6, <1>8
    <3>4. /\ \A j \in {N + 1, N + 2, N + 3} : ItemOK(K2, j)'
          /\ K2[N + 3 - 1].inst = k0.inst /\ K2[N + 3 - 1].same = k0.same
          /\ ExpectedReg \in DOMAIN K2[N + 3 - 1].regs /\ K2[N + 3 - 1].regs[ExpectedReg] = x
          /\ K2[N + 3 - 1].dirty = k0.dirty \cup {ExpectedReg}
      <4>1. Checking(K2, N, x, k0)
        BY <1>6, <2>6, <3>1, <3>2, <3>3 DEF Checking
      <4>2. Expects(k0, x)'
        BY <3>1 DEF Expects, DstReg
      <4>. QED  BY <4>1, <4>2, NewCheck
    <3>. QED  BY <1>8, <2>5, <3>4
  <2>10. K2[N + 3] = K2[N + 2] /\ Known(K2)' = K2[N + 3]
    <3>1. K2[N + 3] = K2[N + 2]
      BY <1>16, <2>6 DEF Exit
    <3>. QED  BY <2>6, <3>1 DEF Known
  <2>11. ResultSeen(K2, t)'
    <3>1. N + 3 \in DOMAIN text' /\ K2[N + 3 - 1] = K2[N + 2]
      BY <1>6, <2>5, <2>6
    <3>2. DstReg \notin K2[N + 2].dirty
      BY <2>8 DEF DstReg, ExpectedReg
    <3>. PICK k, j : k = K2[N + 2] /\ j = N + 3
      OBVIOUS
    <3>3. /\ k = K2[j - 1] /\ j \in DOMAIN text' /\ text'[j] = Exit(255) /\ k.inst = N
          /\ DstReg \notin k.dirty /\ ExpectedReg \in DOMAIN k.regs /\ k.regs[ExpectedReg] = x
      BY <2>6, <2>8, <3>1, <3>2
    <3>. QED  BY <1>13, <1>19, <2>6, <3>3
  <2>12. \A j \in 1 .. Len(s) : ItemOK(K2, N + j)'
    <3>1. \A j \in 1 .. 3 : j = 1 \/ j = 2 \/ j = 3
      OBVIOUS
    <3>. QED  BY <2>2, <2>8, <3>1
  <2>13. Wrote(K, K2, s, N)
    BY <2>5
  <2>. QED  BY <1>12, <2>2, <2>8, <2>10, <2>11, <2>12, <2>13
<1>20. CASE ~ Entry.jump /\ ~ HasExpected(Entry)
  <2>. PICK s : s = <<>>
    OBVIOUS
  <2>1. Emit(s) /\ IsText(s) /\ Len(s) = 0
    BY <1>20, NoText DEF EmitChecks
  <2>2. \E K2, n : Wrote(K, K2, s, n)
    BY <1>11, <1>20, <2>1
  <2>. PICK K2, n : Wrote(K, K2, s, n)
    BY <2>2
  <2>3. n = N /\ Known(K2)' = k0
    BY <1>6, <2>1 DEF Wrote, Known
  <2>4. ResultSeen(K2, t)'
    BY <1>4, <1>14, <1>20, ExpectedIs
  <2>5. \A j \in 1 .. Len(s) : ItemOK(K2, N + j)'
    BY <2>1
  <2>. QED  BY <1>8, <1>12, <2>1, <2>3, <2>4, <2>5
<1>. QED  BY <1>17, <1>18, <1>19, <1>20

(* A text of two items and three.                                          *)
LEMMA FiveItems ==
  ASSUME NEW a, NEW b, NEW c, NEW d, NEW e
  PROVE  LET s == <<a, b>> \o <<c, d, e>> IN
         IsText(s) /\ Len(s) = 5 /\ s[1] = a /\ s[2] = b /\ s[3] = c /\ s[4] = d /\ s[5] = e
<1>. PICK x, y : x = <<a, b>> /\ y = <<c, d, e>>
  OBVIOUS
<1>1. IsText(x) /\ Len(x) = 2 /\ x[1] = a /\ x[2] = b
  BY TwoItems
<1>2. IsText(y) /\ Len(y) = 3 /\ y[1] = c /\ y[2] = d /\ y[3] = e
  BY ThreeItems
<1>3. /\ IsText(x \o y) /\ Len(x \o y) = Len(x) + Len(y)
      /\ \A j \in 1 .. Len(x) : (x \o y)[j] = x[j]
      /\ \A j \in 1 .. Len(y) : (x \o y)[Len(x) + j] = y[j]
  BY <1>1, <1>2, Joined
<1>. PICK s : s = x \o y
  OBVIOUS
<1>4. IsText(s) /\ Len(s) = 5 /\ s[1] = a /\ s[2] = b /\ s[2 + 1] = c /\ s[2 + 2] = d /\ s[2 + 3] = e
  BY <1>1, <1>2, <1>3
<1>5. IsText(s) /\ Len(s) = 5 /\ s[1] = a /\ s[2] = b /\ s[3] = c /\ s[4] = d /\ s[5] = e
  BY <1>4
<1>. QED  BY <1>5

(* What is known after a word was loaded.                                  *)
LEMMA AfterLoadWord ==
  ASSUME NEW k, NEW k2, NEW j, k2 = After(k, LoadWord, j)
  PROVE  /\ k2.loaded = {k.regs[AddressReg]} /\ k2.inst = k.inst /\ k2.same = k.same
         /\ k2.dirty = k.dirty \cup {DstReg} /\ k2.words = k.words
         /\ DOMAIN k2.regs = DOMAIN k.regs \ {DstReg}
         /\ \A r \in DOMAIN k2.regs : k2.regs[r] = k.regs[r]
BY DEF After, LoadWord, Item

(* Writing the check of a stored word keeps the invariant of the text.     *)
LEMMA EmitStoreCheckText ==
  ASSUME ScriptType, TextKnown, EmitStoreCheck, UNCHANGED cvars
  PROVE  TextKnown'
<1>. USE DEF EmitStoreCheck, io, cvars
<1>1. PICK K : IsKnown(K, text) /\ TextInv(K)
  BY DEF TextKnown
<1>2. /\ stage = "stores" /\ stage' = "stores" /\ t' = t
      /\ inst' = inst /\ tests' = tests /\ format' = format /\ format = "elf"
  BY <1>1 DEF TextInv, Formats
<1>. PICK a \in todo : /\ Emit(<<LoadReg(AddressReg, a), LoadWord>> \o CheckResult(Entry.wmem[a]))
                       /\ todo' = todo \ {a}
  OBVIOUS
<1>3. /\ t \in Tested /\ FromEntry(Known(K), t) /\ Known(K).same
      /\ todo \subseteq DOMAIN Entry.wmem /\ Covered(K, t, todo)
      /\ \A j \in DOMAIN text : ItemOK(K, j)
  BY <1>1, <1>2 DEF TextInv, AtStores
<1>4. Continues /\ ~ Final /\ t \in Nat /\ Entry' = Entry /\ KleeInv /\ t \in DOMAIN tests /\ Entry = tests[t]
      /\ IsText(text)
  BY <1>2, <1>3 DEF Continues, Final, ScriptType, Entry, Tested
<1>5. Tested' = Tested
  BY <1>4, Same
<1>. PICK x, i1, i2, i3, i4, i5 :
       /\ x = Entry.wmem[a] /\ i1 = LoadReg(AddressReg, a) /\ i2 = LoadWord
       /\ i3 = LoadReg(ExpectedReg, x) /\ i4 = SkipIfExpected(16) /\ i5 = Exit(255)
  OBVIOUS
<1>6. a \in DOMAIN Entry.wmem /\ a \in Value /\ x \in Value
  BY <1>3, <1>4, EntryMaps
<1>. DEFINE s == <<i1, i2>> \o <<i3, i4, i5>>
<1>7. Emit(s)
  BY DEF CheckResult
<1>8. IsText(s) /\ Len(s) = 5 /\ s[1] = i1 /\ s[2] = i2 /\ s[3] = i3 /\ s[4] = i4 /\ s[5] = i5
  BY FiveItems
<1>. HIDE DEF s
<1>9. /\ i1.op = "li" /\ i1.r = AddressReg /\ i1.n = a /\ i1.size = 8
      /\ i2.op = "lw" /\ i2.r = DstReg /\ i5.op = "exit"
  BY DEF LoadReg, LoadWord, Exit, Item
<1>10. Writes /\ \E K2, n : Wrote(K, K2, s, n)
  BY <1>1, <1>2, <1>3, <1>4, <1>7, <1>8, Writing
<1>. PICK K2, n : Wrote(K, K2, s, n)
  BY <1>10
<1>. PICK m : m = n + 2
  OBVIOUS
<1>11. /\ n \in Nat /\ m \in Nat /\ n + 1 - 1 = n /\ m - 1 = n + 1
       /\ n + 2 = m /\ n + 3 = m + 1 /\ n + 4 = m + 2 /\ n + 5 = m + 3
       /\ m + 1 - 1 = m /\ m + 2 - 1 = m + 1 /\ m + 3 - 1 = m + 2
  BY DEF Wrote
<1>12. /\ DOMAIN text' = 1 .. m + 3 /\ Len(text') = m + 3 /\ IsKnown(K2, text') /\ Agree(K, K2, text)
       /\ K2[n] = Known(K)
       /\ \A j \in 1 .. n : text'[j] = text[j] /\ ItemOK(K2, j)'
       /\ text'[n + 1] = i1 /\ text'[m] = i2 /\ text'[m + 1] = i3 /\ text'[m + 2] = i4 /\ text'[m + 3] = i5
       /\ K2[n + 1] = After(K2[n], i1, n + 1) /\ K2[m] = After(K2[n + 1], i2, m)
       /\ K2[m + 1] = After(K2[m], i3, m + 1) /\ K2[m + 2] = After(K2[m + 1], i4, m + 2)
       /\ K2[m + 3] = After(K2[m + 2], i5, m + 3)
  <2>1. 1 \in 1 .. Len(s) /\ 2 \in 1 .. Len(s) /\ 3 \in 1 .. Len(s) /\ 4 \in 1 .. Len(s) /\ 5 \in 1 .. Len(s)
    BY <1>8
  <2>2. /\ DOMAIN text' = 1 .. n + 5 /\ Len(text') = n + 5 /\ IsKnown(K2, text') /\ Agree(K, K2, text)
        /\ K2[n] = Known(K)
        /\ \A j \in 1 .. n : text'[j] = text[j] /\ ItemOK(K2, j)'
    BY <1>8 DEF Wrote
  <2>3. /\ text'[n + 1] = i1 /\ text'[n + 2] = i2 /\ text'[n + 3] = i3 /\ text'[n + 4] = i4 /\ text'[n + 5] = i5
        /\ K2[n + 1] = After(K2[n + 1 - 1], i1, n + 1) /\ K2[n + 2] = After(K2[n + 2 - 1], i2, n + 2)
        /\ K2[n + 3] = After(K2[n + 3 - 1], i3, n + 3) /\ K2[n + 4] = After(K2[n + 4 - 1], i4, n + 4)
        /\ K2[n + 5] = After(K2[n + 5 - 1], i5, n + 5)
    BY <1>8, <2>1 DEF Wrote
  <2>. QED  BY <1>11, <2>2, <2>3
<1>. PICK k0, k1, k2, k4 : k0 = K2[n] /\ k1 = K2[n + 1] /\ k2 = K2[m] /\ k4 = K2[m + 2]
  OBVIOUS
<1>13. /\ AddressReg \in DOMAIN k1.regs /\ k1.regs[AddressReg] = a /\ k1.inst = k0.inst /\ k1.same = k0.same
       /\ k2.loaded = {a} /\ k2.inst = k0.inst /\ k2.same = k0.same
  <2>1. /\ AddressReg \in DOMAIN k1.regs /\ k1.regs[AddressReg] = a /\ k1.inst = k0.inst /\ k1.same = k0.same
    BY <1>9, <1>12, AfterLoadReg
  <2>2. k2.loaded = {k1.regs[AddressReg]} /\ k2.inst = k1.inst /\ k2.same = k1.same
    BY <1>12, AfterLoadWord
  <2>. QED  BY <2>1, <2>2
<1>14. /\ k0.inst # 0 /\ k0.same /\ k0.inst \in 1 .. n /\ text[k0.inst].r = t
  <2>1. k0 = K[n] /\ n = Len(text)
    BY <1>12 DEF Wrote, Known
  <2>2. k0.inst = 0 \/ k0.inst \in 1 .. n
    BY <1>1, <1>4, <1>11, <2>1, KnownInst
  <2>. QED  BY <1>3, <1>12, <2>2 DEF FromEntry, Owner
<1>15. \A k : k.inst = k0.inst => FromEntry(k, t)'
  BY <1>2, <1>12, <1>14 DEF FromEntry, Owner
<1>16. /\ \A j \in {m + 1, m + 2, m + 3} : ItemOK(K2, j)'
       /\ k4.inst = k0.inst /\ k4.same /\ k4.loaded = {a}
       /\ ExpectedReg \in DOMAIN k4.regs /\ k4.regs[ExpectedReg] = x
  <2>1. Checking(K2, m, x, k2)
    <3>1. Len(text') \in Nat /\ m + 3 <= Len(text') /\ DOMAIN text' = 1 .. Len(text')
      BY <1>11, <1>12
    <3>. QED  BY <1>2, <1>6, <1>11, <1>12, <1>13, <1>14, <3>1 DEF Checking
  <2>2. Owner(k2)' = t
    BY <1>13, <1>15 DEF FromEntry
  <2>3. a \in DOMAIN tests'[Owner(k2)'].wmem /\ k2.loaded = {a} /\ x = tests'[Owner(k2)'].wmem[a]
    BY <1>2, <1>4, <1>6, <1>13, <2>2
  <2>4. Expects(k2, x)'
    BY <1>13, <1>14, <2>3 DEF Expects
  <2>5. /\ \A j \in {m + 1, m + 2, m + 3} : ItemOK(K2, j)'
        /\ K2[m + 3 - 1].inst = k2.inst /\ K2[m + 3 - 1].same = k2.same /\ K2[m + 3 - 1].loaded = k2.loaded
        /\ ExpectedReg \in DOMAIN K2[m + 3 - 1].regs /\ K2[m + 3 - 1].regs[ExpectedReg] = x
    BY <2>1, <2>4, NewCheck
  <2>. QED  BY <1>11, <1>13, <1>14, <2>5
<1>17. ItemOK(K2, n + 1)' /\ ItemOK(K2, m)'
  <2>1. ItemOK(K2, n + 1)'
    BY <1>2, <1>6, <1>9, <1>12, NewLoadReg
  <2>2. ItemFine(k1, i2, m)'
    BY <1>2, <1>3, <1>4, <1>5, <1>6, <1>9, <1>13 DEF ItemFine, DstReg, AddressReg
  <2>3. K2[m - 1] = k1
    BY <1>11
  <2>. QED  BY <1>12, <2>1, <2>2, <2>3, NewItem
<1>18. \A j \in DOMAIN text' : ItemOK(K2, j)'
  <2>1. \A j \in 1 .. m + 3 : j \in 1 .. n \/ j = n + 1 \/ j = m \/ j \in {m + 1, m + 2, m + 3}
    BY <1>11
  <2>. QED  BY <1>12, <1>16, <1>17, <2>1
<1>19. Known(K2)' = k4
  <2>1. After(k4, i5, m + 3) = k4
    BY <1>9 DEF After
  <2>. QED  BY <1>12, <2>1 DEF Known
<1>20. Covered(K2, t, todo)'
  <2>. PICK left : left = todo
    OBVIOUS
  <2>1. Covered(K, t, left)
    BY <1>3
  <2>2. Covered(K2, t, left)'
    BY <1>1, <1>2, <1>10, <1>12, <2>1, CoveredStable
  <2>3. WordSeen(K2, t, a)'
    <3>. PICK item, j : item = text'[m + 3] /\ j = m + 3
      OBVIOUS
    <3>1. WordAt(k4, item, a, t)'
      BY <1>2, <1>4, <1>12, <1>15, <1>16 DEF WordAt, ExpectedReg, Exit, Item
    <3>2. K2[j - 1] = k4 /\ j \in DOMAIN text' /\ text'[j] = item
      <4>1. j - 1 = m + 2 /\ j \in 1 .. m + 3
        BY <1>11
      <4>. QED  BY <1>12, <4>1
    <3>3. WordAt(K2[j - 1], text[j], a, t)' <=> WordAt(k4, item, a, t)'
      BY <3>2
    <3>. QED  BY <3>1, <3>2, <3>3 DEF WordSeen
  <2>. QED  BY <1>2, <1>4, <2>2, <2>3 DEF Covered
<1>21. AtStores(K2)'
  BY <1>2, <1>3, <1>4, <1>5, <1>15, <1>16, <1>19, <1>20 DEF AtStores
<1>22. TextInv(K2)'
  BY <1>2, <1>18, <1>21 DEF TextInv, Formats, Final
<1>. QED  BY <1>12, <1>22 DEF TextKnown

-----------------------------------------------------------------------------
(* The invariant of the text is kept by the C test.                        *)

(* One item is written. *)
WroteItem(K, K2, item, n) == Wrote(K, K2, <<item>>, n)

(* Emitting one item.                                                      *)
LEMMA WritingOne ==
  ASSUME ScriptType, NEW K, IsKnown(K, text), \A j \in DOMAIN text : ItemOK(K, j),
         NEW item, Emit(<<item>>), Continues, t' = t, ~ Final, stage # "checks"
  PROVE  /\ Writes /\ IsText(text')
         /\ \E K2, n : WroteItem(K, K2, item, n)
<1>. DEFINE s == <<item>>
<1>1. IsText(s) /\ Emit(s)
  BY OneItem
<1>. HIDE DEF s
<1>2. Writes /\ IsText(text') /\ \E K2, n : Wrote(K, K2, s, n)
  BY <1>1, Writing
<1>. QED  BY <1>2 DEF s, WroteItem

(* The text after one item was emitted.                                    *)
LEMMA WroteOne ==
  ASSUME NEW K, NEW K2, NEW item, NEW n, WroteItem(K, K2, item, n), NEW m, m = n + 1
  PROVE  /\ n \in Nat /\ m \in Nat /\ m > 0 /\ m - 1 = n /\ DOMAIN text = 1 .. n /\ DOMAIN text' = 1 .. m /\ Len(text') = m
         /\ Len(text) = n
         /\ IsKnown(K2, text') /\ Agree(K, K2, text) /\ K2[n] = Known(K)
         /\ \A j \in 1 .. n : text'[j] = text[j] /\ ItemOK(K2, j)'
         /\ \A j \in 1 .. m : j \in 1 .. n \/ j = m
         /\ text'[m] = item /\ K2[m] = After(K2[n], item, m)
         /\ Known(K2)' = K2[m]
<1>. DEFINE s == <<item>>
<1>1. Len(s) = 1 /\ s[1] = item /\ Wrote(K, K2, s, n)
  BY OneItem DEF WroteItem
<1>. HIDE DEF s
<1>2. n + 1 - 1 = n /\ 1 \in 1 .. Len(s) /\ n \in Nat
  BY <1>1 DEF Wrote
<1>3. /\ DOMAIN text = 1 .. n /\ DOMAIN text' = 1 .. n + 1 /\ Len(text') = n + 1 /\ Len(text) = n
      /\ IsKnown(K2, text') /\ Agree(K, K2, text) /\ K2[n] = Known(K)
      /\ \A j \in 1 .. n : text'[j] = text[j] /\ ItemOK(K2, j)'
      /\ text'[n + 1] = item /\ K2[n + 1] = After(K2[n], item, n + 1)
  BY <1>1, <1>2 DEF Wrote
<1>4. \A j \in 1 .. m : j \in 1 .. n \/ j = m
  BY <1>2
<1>. QED  BY <1>2, <1>3, <1>4 DEF Known

(* The entries before the current one stay covered.                        *)
LEMMA EarlierStays ==
  ASSUME Writes, NEW K, NEW K2, IsKnown(K, text), Agree(K, K2, text), Earlier(K), t' = t
  PROVE  Earlier(K2)'
<1>1. Tested' = Tested
  BY Same DEF Writes
<1>2. \A e : Covered(K, e, {}) => Covered(K2, e, {})'
  BY CoveredStable
<1>. QED  BY <1>1, <1>2 DEF Earlier

(* Ending a program of the assembler with exit(0) leaves the final text.   *)
LEMMA FinishText ==
  ASSUME ScriptType, TextKnown, Finish, UNCHANGED cvars
  PROVE  TextKnown'
<1>. USE DEF Finish, io, cvars
<1>1. PICK K : IsKnown(K, text) /\ TextInv(K)
  BY DEF TextKnown
<1>2. /\ stage = "stores" /\ stage' = "load" /\ t' = t /\ todo = {}
      /\ inst' = inst /\ tests' = tests /\ format' = format /\ format = "elf"
  BY <1>1 DEF TextInv, Formats
<1>3. t \in Tested /\ Covered(K, t, {}) /\ \A j \in DOMAIN text : ItemOK(K, j)
  BY <1>1, <1>2 DEF TextInv, AtStores
<1>4. Continues /\ ~ Final /\ t \in Nat /\ Final'
  BY <1>2 DEF Continues, Final, ScriptType
<1>5. Tested' = Tested
  BY <1>4, Same
<1>. PICK item : item = Exit(0)
  OBVIOUS
<1>6. Writes /\ \E K2, n : WroteItem(K, K2, item, n)
  BY <1>1, <1>2, <1>3, <1>4, WritingOne
<1>. PICK K2, n, m : WroteItem(K, K2, item, n) /\ m = n + 1
  BY <1>6
<1>7. /\ n \in Nat /\ m - 1 = n /\ DOMAIN text' = 1 .. m /\ Len(text') = m /\ m > 0
      /\ IsKnown(K2, text') /\ Agree(K, K2, text)
      /\ \A j \in 1 .. n : text'[j] = text[j] /\ ItemOK(K2, j)'
      /\ \A j \in 1 .. m : j \in 1 .. n \/ j = m
      /\ text'[m] = item
  BY WroteOne
<1>8. \A j \in DOMAIN text' : ItemOK(K2, j)'
  <2>. PICK k : k = K2[m - 1]
    OBVIOUS
  <2>1. ItemFine(k, item, m)'
    BY <1>2, <1>4, <1>7 DEF ItemFine, Exit, Item
  <2>2. ItemOK(K2, m)'
    BY <1>7, <2>1, NewItem
  <2>. QED  BY <1>7, <2>2
<1>9. Covered(K2, t, {})'
  BY <1>1, <1>2, <1>3, <1>6, <1>7, CoveredStable
<1>10. AtFinal(K2)'
  <2>1. text' # <<>> /\ text'[Len(text')] = Exit(0)
    BY <1>7
  <2>. QED  BY <1>2, <1>3, <1>5, <1>9, <2>1 DEF AtFinal, Exit, Item
<1>11. TextInv(K2)'
  BY <1>2, <1>8, <1>10 DEF TextInv, Formats, Final
<1>. QED  BY <1>7, <1>11 DEF TextKnown

(* Starting either script keeps the invariant of the text.                 *)
LEMMA StartText ==
  ASSUME ScriptType, TextKnown, StartElf \/ StartC
  PROVE  TextKnown'
<1>. USE DEF StartElf, StartC, io
<1>1. PICK K : IsKnown(K, text) /\ TextInv(K)
  BY DEF TextKnown
<1>2. stage = "klee" /\ text = <<>> /\ text' = text /\ inst' = inst /\ tests' = tests /\ t' = 1
  BY <1>1 DEF TextInv, Formats
<1>3. DOMAIN text' = {}
  BY <1>2, NoText, TextIs
<1>4. CASE StartElf
  <2>1. stage' = "tests" /\ format' = "elf"
    BY <1>4
  <2>2. TextInv(K)'
    BY <2>1 DEF TextInv, Formats, Final
  <2>. QED  BY <1>1, <1>2, <2>2 DEF TextKnown
<1>5. CASE StartC /\ stage' = "ended"
  <2>1. TextInv(K)'
    BY <1>5 DEF TextInv, Formats, Final
  <2>. QED  BY <1>1, <1>2, <2>1 DEF TextKnown
<1>6. CASE StartC /\ stage' # "ended"
  <2>1. stage' = "ctests" /\ format' = "c" /\ ~ inst.cskip /\ \A e \in DOMAIN tests : ~ tests[e].jump
    BY <1>6
  <2>2. Earlier(K)'
    <3>1. Tested' \subseteq DOMAIN tests /\ DOMAIN tests \subseteq Nat \ {0}
      BY <1>2, EntryIs DEF Tested, ScriptType
    <3>2. \A e \in Tested' : ~ (e < 1)
      BY <3>1
    <3>. QED  BY <1>2, <3>2 DEF Earlier
  <2>3. OnlyEarlier'
    BY <1>3 DEF OnlyEarlier
  <2>4. TextInv(K)'
    BY <1>2, <1>3, <2>1, <2>2, <2>3 DEF TextInv, Formats, Final
  <2>. QED  BY <1>1, <1>2, <2>4 DEF TextKnown
<1>. QED  BY <1>4, <1>5, <1>6

(* An instruction is one of an entry. *)
LEMMA InstItem ==
  ASSUME NEW K, NEW i \in DOMAIN text, ItemOK(K, i), text[i].op = "inst"
  PROVE  InstOK(K[i - 1], i) /\ text[i].r \in Tested /\ text[i].r <= t
BY DEF ItemOK, ItemFine, InstOK

(* Entries are numbered from 1.                                            *)
LEMMA TestedNat == ASSUME KleeInv PROVE Tested \subseteq DOMAIN tests /\ DOMAIN tests \subseteq Nat \ {0}
                                        /\ DOMAIN tests = 1 .. Len(tests) /\ Len(tests) \in Nat
BY EntryIs DEF Tested, KleeInv

(* Going to the next entry of the C test keeps the invariant of the text.  *)
LEMMA NextEntryText ==
  ASSUME ScriptType, TextKnown, NextEntry
  PROVE  TextKnown'
<1>. USE DEF NextEntry, io
<1>1. PICK K : IsKnown(K, text) /\ TextInv(K)
  BY DEF TextKnown
<1>2. /\ stage = "ctests" /\ t \in DOMAIN tests /\ args' = <<>> /\ outs' = <<>> /\ text' = text
      /\ inst' = inst /\ tests' = tests /\ format' = format /\ format = "c"
      /\ ~ inst.cskip /\ \A e \in DOMAIN tests : ~ tests[e].jump
  BY <1>1 DEF TextInv, Formats
<1>3. Earlier(K) /\ OnlyEarlier /\ \A j \in DOMAIN text : ItemOK(K, j)
  BY <1>1, <1>2 DEF TextInv
<1>4. Continues /\ ~ Final /\ t \in Nat /\ KleeInv /\ Entry = tests[t] /\ t \in Nat \ {0}
  BY <1>2, EntryIs DEF Continues, Final, ScriptType, Entry
<1>5. Tested' = Tested /\ Tested \subseteq Nat
  BY <1>4, Same, TestedNat
<1>6. t' \in Nat \ {0} /\ t <= t'
  BY <1>4
<1>7. /\ \A j \in DOMAIN text' : ItemOK(K, j)'
      /\ \A e, left : Covered(K, e, left) => Covered(K, e, left)'
  BY <1>1, <1>2, <1>3, <1>4, <1>6, Keeping
<1>8. OnlyEarlier'
  <2>1. ASSUME NEW i \in DOMAIN text, text[i].op = "inst" PROVE text[i].r < t'
    <3>1. text[i].r \in Tested /\ text[i].r < t
      BY <1>3, <2>1, InstItem DEF OnlyEarlier
    <3>. PICK r : r = text[i].r
      OBVIOUS
    <3>2. r \in Nat /\ r < t
      BY <1>5, <3>1
    <3>3. r < t'
      BY <1>4, <1>6, <3>2
    <3>. QED  BY <3>3
  <2>. QED  BY <1>2, <2>1 DEF OnlyEarlier
<1>9. CASE SkippedMemory(Entry)
  <2>1. t' = t + 1 /\ stage' = "ctests"
    BY <1>2, <1>9
  <2>2. t \notin Tested
    BY <1>4, <1>9 DEF Tested, Skipped
  <2>3. Earlier(K)'
    <3>1. ASSUME NEW e \in Tested, e < t + 1 PROVE Covered(K, e, {})'
      <4>1. e < t
        BY <1>4, <1>5, <2>2, <3>1
      <4>. QED  BY <1>3, <1>7, <4>1 DEF Earlier
    <3>. QED  BY <1>5, <1>6, <2>1, <3>1 DEF Earlier
  <2>4. TextInv(K)'
    BY <1>2, <1>7, <1>8, <2>1, <2>3 DEF TextInv, Formats, Final
  <2>. QED  BY <1>1, <1>2, <2>4 DEF TextKnown
<1>10. CASE ~ SkippedMemory(Entry)
  <2>1. t' = t /\ stage' = "cloads" /\ todo' = DOMAIN Entry.rmem /\ Entry' = Entry
    BY <1>2, <1>10 DEF Entry
  <2>2. t \in Tested
    BY <1>2, <1>4, <1>10 DEF Tested, Skipped
  <2>3. Earlier(K)'
    BY <1>3, <1>5, <1>7, <2>1 DEF Earlier
  <2>4. AtCLoads(K)'
    <3>1. DOMAIN Entry.rmem \ DOMAIN Entry.rmem = {}
      OBVIOUS
    <3>. QED  BY <1>2, <1>5, <1>8, <2>1, <2>2, <2>3, <3>1 DEF AtCLoads, WordsReady
  <2>5. TextInv(K)'
    BY <1>2, <1>7, <2>1, <2>4 DEF TextInv, Formats, Final
  <2>. QED  BY <1>1, <1>2, <2>5 DEF TextKnown
<1>. QED  BY <1>9, <1>10

(* The entries of the instructions of a text that has grown by one item. *)
LEMMA OnlyEarlierStays ==
  ASSUME OnlyEarlier, t' = t, NEW m, DOMAIN text' = 1 .. m,
         NEW n, DOMAIN text = 1 .. n, \A j \in 1 .. n : text'[j] = text[j],
         \A j \in 1 .. m : j \in 1 .. n \/ (j = m /\ text'[j].op # "inst")
  PROVE  OnlyEarlier'
<1>1. ASSUME NEW i \in 1 .. m, text'[i].op = "inst" PROVE text'[i].r < t
  BY <1>1 DEF OnlyEarlier
<1>. QED  BY <1>1 DEF OnlyEarlier

(* Storing a word of the input in the C test keeps the invariant of the    *)
(* text.                                                                   *)
LEMMA PokeText ==
  ASSUME ScriptType, TextKnown, Poke
  PROVE  TextKnown'
<1>. USE DEF Poke, io, cvars
<1>1. PICK K : IsKnown(K, text) /\ TextInv(K)
  BY DEF TextKnown
<1>2. /\ stage = "cloads" /\ stage' = "cloads" /\ t' = t /\ args' = args /\ outs' = outs
      /\ inst' = inst /\ tests' = tests /\ format' = format /\ format = "c"
      /\ ~ inst.cskip /\ \A e \in DOMAIN tests : ~ tests[e].jump
  BY <1>1 DEF TextInv, Formats
<1>. PICK a \in todo : Emit(<<Item("poke", 1, a, Entry.rmem[a])>>) /\ todo' = todo \ {a}
  OBVIOUS
<1>3. /\ Earlier(K) /\ OnlyEarlier /\ t \in Tested /\ args = <<>> /\ outs = <<>>
      /\ todo \subseteq DOMAIN Entry.rmem
      /\ WordsReady(Known(K), t, DOMAIN Entry.rmem \ todo)
      /\ \A j \in DOMAIN text : ItemOK(K, j)
  BY <1>1, <1>2 DEF TextInv, AtCLoads
<1>4. Continues /\ ~ Final /\ t \in Nat /\ KleeInv /\ t \in DOMAIN tests /\ Entry = tests[t] /\ Entry' = Entry
  BY <1>2, <1>3 DEF Continues, Final, ScriptType, Entry, Tested
<1>5. Tested' = Tested /\ \A k, e, d : WordsReady(k, e, d)' <=> WordsReady(k, e, d)
  BY <1>4, Same
<1>6. a \in DOMAIN Entry.rmem /\ Entry.rmem[a] \in Value
  BY <1>3, <1>4, EntryMaps
<1>. PICK item : item = Item("poke", 1, a, Entry.rmem[a])
  OBVIOUS
<1>7. Emit(<<item>>) /\ item.op = "poke" /\ item.r = a /\ item.n = Entry.rmem[a]
  BY DEF Item
<1>8. Writes /\ \E K2, n : WroteItem(K, K2, item, n)
  BY <1>1, <1>2, <1>3, <1>4, <1>7, WritingOne
<1>. PICK K2, n, m : WroteItem(K, K2, item, n) /\ m = n + 1
  BY <1>8
<1>9. /\ n \in Nat /\ m - 1 = n /\ DOMAIN text' = 1 .. m /\ Len(text') = m /\ m > 0 /\ DOMAIN text = 1 .. n
      /\ IsKnown(K2, text') /\ Agree(K, K2, text) /\ K2[n] = Known(K)
      /\ \A j \in 1 .. n : text'[j] = text[j] /\ ItemOK(K2, j)'
      /\ \A j \in 1 .. m : j \in 1 .. n \/ j = m
      /\ text'[m] = item /\ K2[m] = After(K2[n], item, m)
      /\ Known(K2)' = K2[m]
  BY WroteOne
<1>10. \A j \in DOMAIN text' : ItemOK(K2, j)'
  <2>. PICK k : k = K2[m - 1]
    OBVIOUS
  <2>1. \E e \in Tested : a \in DOMAIN tests[e].rmem
    BY <1>3, <1>4, <1>6
  <2>2. ItemFine(k, item, m)'
    BY <1>2, <1>5, <1>6, <1>7, <2>1 DEF ItemFine, Value
  <2>3. ItemOK(K2, m)'
    BY <1>9, <2>2, NewItem
  <2>. QED  BY <1>9, <2>3
<1>11. Earlier(K2)'
  BY <1>1, <1>2, <1>3, <1>8, <1>9, EarlierStays
<1>12. OnlyEarlier'
  BY <1>2, <1>3, <1>7, <1>9, OnlyEarlierStays
<1>13. WordsReady(K2[m], t, DOMAIN Entry.rmem \ todo')
  <2>1. K2[m] = Stored(K2[n], a, tests[t].rmem[a])
    BY <1>4, <1>7, <1>9 DEF After
  <2>2. WordsReady(K2[m], t, (DOMAIN Entry.rmem \ todo) \cup {a})
    BY <1>3, <1>4, <1>6, <1>9, <2>1, StoredWord
  <2>3. DOMAIN Entry.rmem \ todo' = (DOMAIN Entry.rmem \ todo) \cup {a}
    BY <1>6
  <2>. QED  BY <2>2, <2>3
<1>14. AtCLoads(K2)'
  BY <1>2, <1>3, <1>4, <1>5, <1>9, <1>11, <1>12, <1>13 DEF AtCLoads
<1>15. TextInv(K2)'
  BY <1>2, <1>10, <1>14 DEF TextInv, Formats, Final
<1>. QED  BY <1>9, <1>15 DEF TextKnown

(* Going on to the variables of the C test keeps the invariant of the      *)
(* text.                                                                   *)
LEMMA EndPokesText ==
  ASSUME ScriptType, TextKnown, EndPokes
  PROVE  TextKnown'
<1>. USE DEF EndPokes, io, cvars
<1>1. PICK K : IsKnown(K, text) /\ TextInv(K)
  BY DEF TextKnown
<1>2. /\ stage = "cloads" /\ stage' = "cvariables" /\ t' = t /\ args' = args /\ outs' = outs /\ text' = text
      /\ inst' = inst /\ tests' = tests /\ format' = format /\ format = "c" /\ todo = {} /\ v' = Width
      /\ ~ inst.cskip /\ \A e \in DOMAIN tests : ~ tests[e].jump
  BY <1>1 DEF TextInv, Formats, Width
<1>3. /\ Earlier(K) /\ OnlyEarlier /\ t \in Tested /\ args = <<>> /\ outs = <<>>
      /\ WordsReady(Known(K), t, DOMAIN Entry.rmem)
      /\ \A j \in DOMAIN text : ItemOK(K, j)
  <2>1. DOMAIN Entry.rmem \ {} = DOMAIN Entry.rmem
    OBVIOUS
  <2>. QED  BY <1>1, <1>2, <2>1 DEF TextInv, AtCLoads
<1>4. Continues /\ ~ Final /\ t \in Nat /\ KleeInv /\ Entry' = Entry
  BY <1>2 DEF Continues, Final, ScriptType, Entry
<1>5. /\ Tested' = Tested /\ Width' = Width /\ Outputs' = Outputs
      /\ \A k, e, d : WordsReady(k, e, d)' <=> WordsReady(k, e, d)
  BY <1>4, Same
<1>6. Width \in Nat /\ Outputs \subseteq 1 .. Width
  BY <1>4, Variables
<1>7. /\ Writes /\ \A j \in DOMAIN text' : ItemOK(K, j)'
  BY <1>1, <1>2, <1>3, <1>4, Keeping
<1>8. Earlier(K)'
  <2>1. Agree(K, K, text)
    BY DEF Agree
  <2>. QED  BY <1>1, <1>2, <1>3, <1>7, <2>1, EarlierStays
<1>9. OperandsOK(K, outs \o args)'
  <2>1. outs' \o args' = <<>> /\ Len(<<>>) = 0 /\ DOMAIN <<>> = {}
    BY <1>2, <1>3
  <2>2. 0 = Width - Width /\ \A w \in Width + 1 .. Width : FALSE
    BY <1>6
  <2>3. (Len(outs \o args) = Width - v)'
    BY <1>2, <1>5, <2>1, <2>2
  <2>4. (\A k \in DOMAIN (outs \o args) : FALSE)'
    BY <2>1
  <2>5. (\A w \in v + 1 .. Width : FALSE)'
    BY <1>2, <1>5, <2>2
  <2>. QED  BY <2>3, <2>4, <2>5 DEF OperandsOK
<1>10. AtCVariables(K)'
  <2>1. ~ \E w \in Outputs : w > Width
    BY <1>6
  <2>2. OnlyEarlier' /\ Known(K)' = Known(K)
    BY <1>2, <1>3 DEF OnlyEarlier, Known
  <2>3. Width \in 0 .. Width
    BY <1>6
  <2>. QED  BY <1>2, <1>3, <1>4, <1>5, <1>8, <1>9, <2>1, <2>2, <2>3 DEF AtCVariables
<1>11. TextInv(K)'
  BY <1>2, <1>7, <1>10 DEF TextInv, Formats, Final
<1>. QED  BY <1>1, <1>2, <1>11 DEF TextKnown

(* Checking a word in the C test keeps the invariant of the text.          *)
LEMMA CheckMemoryText ==
  ASSUME ScriptType, TextKnown, CheckMemory
  PROVE  TextKnown'
<1>. USE DEF CheckMemory, io, cvars
<1>1. PICK K : IsKnown(K, text) /\ TextInv(K)
  BY DEF TextKnown
<1>2. /\ stage = "cstores" /\ stage' = "cstores" /\ t' = t
      /\ inst' = inst /\ tests' = tests /\ format' = format /\ format = "c"
      /\ ~ inst.cskip /\ \A e \in DOMAIN tests : ~ tests[e].jump
  BY <1>1 DEF TextInv, Formats
<1>. PICK a \in todo : Emit(<<Item("checkmem", 1, a, Entry.wmem[a])>>) /\ todo' = todo \ {a}
  OBVIOUS
<1>3. /\ Earlier(K) /\ t \in Tested /\ FromEntry(Known(K), t) /\ Known(K).same
      /\ todo \subseteq DOMAIN Entry.wmem /\ Covered(K, t, todo)
      /\ \A j \in DOMAIN text : ItemOK(K, j)
  BY <1>1, <1>2 DEF TextInv, AtStores, AtCStores
<1>4. Continues /\ ~ Final /\ t \in Nat /\ Entry' = Entry /\ KleeInv /\ t \in DOMAIN tests /\ Entry = tests[t]
      /\ IsText(text)
  BY <1>2, <1>3 DEF Continues, Final, ScriptType, Entry, Tested
<1>5. Tested' = Tested
  BY <1>4, Same
<1>. PICK item : item = Item("checkmem", 1, a, Entry.wmem[a])
  OBVIOUS
<1>6. Emit(<<item>>) /\ item.op = "checkmem" /\ item.r = a /\ item.n = Entry.wmem[a] /\ a \in DOMAIN Entry.wmem
  BY <1>3 DEF Item
<1>7. Writes /\ \E K2, n : WroteItem(K, K2, item, n)
  BY <1>1, <1>2, <1>3, <1>4, <1>6, WritingOne
<1>. PICK K2, n, m : WroteItem(K, K2, item, n) /\ m = n + 1
  BY <1>7
<1>8. /\ n \in Nat /\ m - 1 = n /\ DOMAIN text' = 1 .. m /\ Len(text') = m /\ m > 0 /\ Len(text) = n
      /\ IsKnown(K2, text') /\ Agree(K, K2, text) /\ K2[n] = Known(K)
      /\ \A j \in 1 .. n : text'[j] = text[j] /\ ItemOK(K2, j)'
      /\ \A j \in 1 .. m : j \in 1 .. n \/ j = m
      /\ text'[m] = item /\ K2[m] = After(K2[n], item, m)
      /\ Known(K2)' = K2[m]
  BY WroteOne
<1>. PICK k : k = K2[n]
  OBVIOUS
<1>9. K2[m] = k
  BY <1>6, <1>8 DEF After
<1>10. k.inst # 0 /\ k.same /\ k.inst \in 1 .. n /\ text'[k.inst] = text[k.inst] /\ text[k.inst].r = t
  <2>1. k = K[n]
    BY <1>8 DEF Known
  <2>2. k.inst = 0 \/ k.inst \in 1 .. n
    BY <1>1, <1>4, <1>8, <2>1, KnownInst
  <2>. QED  BY <1>3, <1>8, <2>2 DEF FromEntry, Owner
<1>11. FromEntry(k, t)' /\ Owner(k)' = t
  BY <1>2, <1>10 DEF FromEntry, Owner
<1>12. \A j \in DOMAIN text' : ItemOK(K2, j)'
  <2>1. ItemFine(k, item, m)'
    BY <1>2, <1>4, <1>6, <1>10, <1>11 DEF ItemFine
  <2>2. ItemOK(K2, m)'
    BY <1>8, <2>1, NewItem
  <2>. QED  BY <1>8, <2>2
<1>13. Earlier(K2)'
  BY <1>1, <1>2, <1>3, <1>7, <1>8, EarlierStays
<1>14. Covered(K2, t, todo)'
  <2>. PICK left : left = todo
    OBVIOUS
  <2>1. Covered(K, t, left)
    BY <1>3
  <2>2. Covered(K2, t, left)'
    BY <1>1, <1>2, <1>7, <1>8, <2>1, CoveredStable
  <2>3. WordSeen(K2, t, a)'
    <3>1. WordAt(k, item, a, t)'
      BY <1>2, <1>4, <1>6, <1>10, <1>11 DEF WordAt
    <3>2. K2[m - 1] = k /\ m \in DOMAIN text' /\ text'[m] = item
      BY <1>8
    <3>3. WordAt(K2[m - 1], text[m], a, t)' <=> WordAt(k, item, a, t)'
      BY <3>2
    <3>. QED  BY <3>1, <3>2, <3>3 DEF WordSeen
  <2>. QED  BY <1>2, <1>4, <2>2, <2>3 DEF Covered
<1>15. AtCStores(K2)'
  BY <1>2, <1>3, <1>4, <1>5, <1>8, <1>9, <1>10, <1>11, <1>13, <1>14 DEF AtCStores, AtStores
<1>16. TextInv(K2)'
  BY <1>2, <1>12, <1>15 DEF TextInv, Formats, Final
<1>. QED  BY <1>8, <1>16 DEF TextKnown

(* Ending an entry of the C test keeps the invariant of the text, and      *)
(* covers the entry.                                                       *)
LEMMA EndEntryText ==
  ASSUME ScriptType, TextKnown, EndEntry
  PROVE  TextKnown'
<1>. USE DEF EndEntry, io, cvars
<1>1. PICK K : IsKnown(K, text) /\ TextInv(K)
  BY DEF TextKnown
<1>2. /\ stage = "cstores" /\ stage' = "ctests" /\ t' = t + 1 /\ text' = text /\ todo = {}
      /\ inst' = inst /\ tests' = tests /\ format' = format /\ format = "c"
      /\ ~ inst.cskip /\ \A e \in DOMAIN tests : ~ tests[e].jump
  BY <1>1 DEF TextInv, Formats
<1>3. Earlier(K) /\ t \in Tested /\ Covered(K, t, {}) /\ \A j \in DOMAIN text : ItemOK(K, j)
  BY <1>1, <1>2 DEF TextInv, AtStores, AtCStores
<1>4. Continues /\ ~ Final /\ t \in Nat /\ KleeInv /\ t + 1 \in Nat \ {0} /\ t <= t + 1
  BY <1>2 DEF Continues, Final, ScriptType
<1>5. Tested' = Tested /\ Tested \subseteq Nat
  BY <1>4, Same, TestedNat
<1>6. /\ \A j \in DOMAIN text' : ItemOK(K, j)'
      /\ \A e, left : Covered(K, e, left) => Covered(K, e, left)'
  BY <1>1, <1>2, <1>3, <1>4, Keeping
<1>7. Earlier(K)'
  <2>1. ASSUME NEW e \in Tested, e < t + 1 PROVE Covered(K, e, {})'
    <3>1. e < t \/ e = t
      BY <1>4, <1>5, <2>1
    <3>. QED  BY <1>3, <1>6, <3>1 DEF Earlier
  <2>. QED  BY <1>2, <1>4, <1>5, <2>1 DEF Earlier
<1>8. OnlyEarlier'
  <2>1. ASSUME NEW i \in DOMAIN text, text[i].op = "inst" PROVE text[i].r < t + 1
    <3>. PICK r : r = text[i].r
      OBVIOUS
    <3>1. r \in Nat /\ r <= t
      BY <1>3, <1>5, <2>1, InstItem
    <3>. QED  BY <1>4, <3>1
  <2>. QED  BY <1>2, <2>1 DEF OnlyEarlier
<1>9. TextInv(K)'
  BY <1>2, <1>6, <1>7, <1>8 DEF TextInv, Formats, Final
<1>. QED  BY <1>1, <1>2, <1>9 DEF TextKnown

(* Ending the C test leaves the final text.                                *)
LEMMA FinishCText ==
  ASSUME ScriptType, TextKnown, FinishC
  PROVE  TextKnown'
<1>. USE DEF FinishC, io, cvars
<1>1. PICK K : IsKnown(K, text) /\ TextInv(K)
  BY DEF TextKnown
<1>2. /\ stage = "ctests" /\ stage' = "load" /\ t' = t /\ t \notin DOMAIN tests
      /\ inst' = inst /\ tests' = tests /\ format' = format /\ format = "c"
      /\ ~ inst.cskip /\ \A e \in DOMAIN tests : ~ tests[e].jump
  BY <1>1 DEF TextInv, Formats
<1>3. Earlier(K) /\ \A j \in DOMAIN text : ItemOK(K, j)
  BY <1>1, <1>2 DEF TextInv
<1>4. Continues /\ ~ Final /\ t \in Nat /\ Final' /\ KleeInv
  BY <1>2 DEF Continues, Final, ScriptType
<1>5. Tested' = Tested
  BY <1>4, Same
<1>. PICK item : item = Exit(0)
  OBVIOUS
<1>6. Writes /\ \E K2, n : WroteItem(K, K2, item, n)
  BY <1>1, <1>2, <1>3, <1>4, WritingOne
<1>. PICK K2, n, m : WroteItem(K, K2, item, n) /\ m = n + 1
  BY <1>6
<1>7. /\ n \in Nat /\ m - 1 = n /\ DOMAIN text' = 1 .. m /\ Len(text') = m /\ m > 0
      /\ IsKnown(K2, text') /\ Agree(K, K2, text)
      /\ \A j \in 1 .. n : text'[j] = text[j] /\ ItemOK(K2, j)'
      /\ \A j \in 1 .. m : j \in 1 .. n \/ j = m
      /\ text'[m] = item
  BY WroteOne
<1>8. \A j \in DOMAIN text' : ItemOK(K2, j)'
  <2>. PICK k : k = K2[m - 1]
    OBVIOUS
  <2>1. ItemFine(k, item, m)'
    BY <1>2, <1>4, <1>7 DEF ItemFine, Exit, Item
  <2>2. ItemOK(K2, m)'
    BY <1>7, <2>1, NewItem
  <2>. QED  BY <1>7, <2>2
<1>9. Earlier(K2)'
  BY <1>1, <1>2, <1>3, <1>6, <1>7, EarlierStays
<1>10. AtFinal(K2)'
  <2>1. text' # <<>> /\ text'[Len(text')] = Exit(0)
    BY <1>7
  <2>2. \A e \in Tested : e < t
    <3>1. Tested \subseteq 1 .. Len(tests) /\ t \notin 1 .. Len(tests) /\ t \in Nat \ {0} /\ Len(tests) \in Nat
      BY <1>2, <1>3, <1>4, TestedNat DEF Earlier
    <3>. QED  BY <3>1
  <2>3. \A e \in Tested' : Covered(K2, e, {})'
    BY <1>2, <1>5, <1>9, <2>2 DEF Earlier
  <2>. QED  BY <1>2, <2>1, <2>3 DEF AtFinal, Exit, Item
<1>11. TextInv(K2)'
  BY <1>2, <1>4, <1>8, <1>10 DEF TextInv, Formats, Final
<1>. QED  BY <1>7, <1>11 DEF TextKnown

Longer(x, y, e) ==
  /\ IsText(x) /\ IsText(y) /\ Len(y) = Len(x) + 1 /\ Len(x) \in Nat
  /\ \A j \in 1 .. Len(x) : y[j] = x[j]
  /\ y[Len(x) + 1] = e

(* An element added to the second of two texts is the last of their join.  *)
LEMMA AddedLast ==
  ASSUME NEW a, NEW b, IsText(a), IsText(b), NEW e, NEW x, x = a \o b, NEW y, y = a \o Append(b, e)
  PROVE  Longer(x, y, e)
<1>. PICK c : c = Append(b, e)
  OBVIOUS
<1>1. IsText(c) /\ Len(c) = Len(b) + 1 /\ (\A j \in 1 .. Len(b) : c[j] = b[j]) /\ c[Len(b) + 1] = e
  BY Appended
<1>2. Len(a) \in Nat /\ Len(b) \in Nat
  BY TextIs
<1>3. /\ IsText(x) /\ Len(x) = Len(a) + Len(b)
      /\ \A j \in 1 .. Len(a) : x[j] = a[j]
      /\ \A j \in 1 .. Len(b) : x[Len(a) + j] = b[j]
  BY Joined
<1>4. /\ IsText(y) /\ Len(y) = Len(a) + Len(c)
      /\ \A j \in 1 .. Len(a) : y[j] = a[j]
      /\ \A j \in 1 .. Len(c) : y[Len(a) + j] = c[j]
  BY <1>1, Joined
<1>5. Len(y) = Len(x) + 1 /\ Len(x) \in Nat
  BY <1>1, <1>2, <1>3, <1>4
<1>6. ASSUME NEW j \in 1 .. Len(x) PROVE y[j] = x[j]
  <2>1. CASE j \in 1 .. Len(a)
    BY <1>3, <1>4, <2>1
  <2>2. CASE j \notin 1 .. Len(a)
    <3>. PICK i : i = j - Len(a)
      OBVIOUS
    <3>1. i \in 1 .. Len(b) /\ j = Len(a) + i /\ i \in 1 .. Len(c)
      BY <1>1, <1>2, <1>3, <2>2
    <3>. QED  BY <1>1, <1>3, <1>4, <3>1
  <2>. QED  BY <2>1, <2>2
<1>7. y[Len(x) + 1] = e
  <2>1. Len(x) + 1 = Len(a) + (Len(b) + 1) /\ Len(b) + 1 \in 1 .. Len(c)
    BY <1>1, <1>2, <1>3
  <2>. QED  BY <1>1, <1>4, <2>1
<1>. QED  BY <1>3, <1>4, <1>5, <1>6, <1>7 DEF Longer

(* An element put in front of a text.                                      *)
LEMMA AddedFirst ==
  ASSUME NEW b, IsText(b), NEW e
  PROVE  /\ <<>> \o b = b /\ Append(<<>>, e) = <<e>> /\ Len(<<e>> \o b) = Len(b) + 1 /\ Len(b) \in Nat
         /\ (<<e>> \o b)[1] = e /\ \A j \in 1 .. Len(b) : (<<e>> \o b)[j + 1] = b[j]
<1>1. <<>> \o b = b
  BY DEF IsText
<1>2. Append(<<>>, e) = <<e>>
  OBVIOUS
<1>. PICK a : a = <<e>>
  OBVIOUS
<1>3. IsText(a) /\ Len(a) = 1 /\ a[1] = e
  BY OneItem
<1>4. /\ Len(a \o b) = Len(a) + Len(b)
      /\ \A j \in 1 .. Len(a) : (a \o b)[j] = a[j]
      /\ \A j \in 1 .. Len(b) : (a \o b)[Len(a) + j] = b[j]
  BY <1>3, Joined
<1>. PICK y : y = a \o b
  OBVIOUS
<1>5. Len(b) \in Nat
  BY TextIs
<1>6. ASSUME NEW j \in 1 .. Len(b) PROVE y[j + 1] = b[j]
  <2>1. j + 1 = Len(a) + j
    BY <1>3, <1>5
  <2>. QED  BY <1>4, <2>1
<1>7. Len(y) = Len(b) + 1 /\ y[1] = e
  BY <1>3, <1>4, <1>5
<1>. QED  BY <1>1, <1>2, <1>5, <1>6, <1>7

(* Declaring a variable of the C test keeps the invariant of the text: the *)
(* operands come out in the order of the variables.                        *)
LEMMA DeclareVariableText ==
  ASSUME ScriptType, TextKnown, DeclareVariable
  PROVE  TextKnown'
<1>. USE DEF DeclareVariable, io
<1>1. PICK K : IsKnown(K, text) /\ TextInv(K)
  BY DEF TextKnown
<1>2. /\ stage = "cvariables" /\ stage' = "cvariables" /\ t' = t /\ v \in Vars /\ v' = v - 1
      /\ inst' = inst /\ tests' = tests /\ format' = format /\ format = "c"
      /\ ~ inst.cskip /\ \A e \in DOMAIN tests : ~ tests[e].jump
  BY <1>1 DEF TextInv, Formats
<1>. PICK old, os, x, k0 : old = outs /\ os = outs \o args /\ x = v /\ k0 = Known(K)
  OBVIOUS
<1>3. /\ Earlier(K) /\ OnlyEarlier /\ t \in Tested
      /\ WordsReady(k0, t, DOMAIN Entry.rmem)
      /\ IF \E w \in Outputs : w > x THEN Len(outs) = 1 /\ outs[1].w \in Outputs /\ outs[1].kind = "r"
         ELSE outs = <<>>
      /\ OperandsOK(K, os)
      /\ \A j \in DOMAIN text : ItemOK(K, j)
  BY <1>1, <1>2 DEF TextInv, AtCVariables
<1>4. /\ Len(os) = Width - x
      /\ \A k \in DOMAIN os : \/ os[k].kind = "i" /\ os[k].n \in Value
                              \/ os[k].kind = "r" /\ os[k].n \in DOMAIN k0.regs \cap DOMAIN text
      /\ inst.rdLast => \A w \in x + 1 .. Width : Fits(k0, w, os[Width + 1 - w], t)
  BY <1>3 DEF OperandsOK
<1>5. Continues /\ ~ Final /\ t \in Nat /\ Entry' = Entry /\ KleeInv /\ t \in DOMAIN tests /\ Entry = tests[t]
      /\ IsText(text) /\ IsText(args) /\ IsText(outs)
  BY <1>2, <1>3 DEF Continues, Final, ScriptType, Entry, Tested
<1>6. /\ Tested' = Tested /\ Width' = Width /\ Outputs' = Outputs /\ Vars' = Vars
      /\ \A w, o : Index(w, o)' = Index(w, o)
      /\ \A k, e, d : WordsReady(k, e, d)' <=> WordsReady(k, e, d)
  BY <1>5, Same
<1>7. /\ Width \in Nat /\ Vars = 1 .. Width /\ x \in 1 .. Width /\ Outputs \subseteq 1 .. Width
      /\ Entry.in[x] \in Value /\ \A w, z \in Outputs : w = z
      /\ inst.rdLast => \A w \in Outputs : w = Width
      /\ x \in Outputs => inst.vars[x].role # "imm"
      /\ Outputs \subseteq Nat /\ x \in Nat
  BY <1>2, <1>5, Variables, EntryMaps
<1>8. IsText(os) /\ Len(os) \in Nat /\ DOMAIN os = 1 .. Len(os)
  BY <1>5, Joined, TextIs
<1>9. DOMAIN text = 1 .. Len(text) /\ Len(text) \in Nat
  BY <1>5, TextIs
<1>10. \A w, o : o.n \in Int => Index(w, o) = o.n
  BY <1>2 DEF Index
<1>. PICK op : op = [kind |-> IF inst.vars[x].role = "imm" THEN "i" ELSE "r", w |-> x,
                     n |-> IF inst.vars[x].role = "imm" THEN Entry.in[x] ELSE Fresh]
  OBVIOUS
<1>. PICK os2 : os2 = outs' \o args'
  OBVIOUS
<1>11. /\ Len(os2) = Len(os) + 1 /\ DOMAIN os2 = 1 .. Len(os) + 1
       /\ \A j \in 1 .. Len(os) + 1 : os2[j] = op \/ \E i \in DOMAIN os : os2[j] = os[i]
       /\ inst.rdLast => os2[Len(os) + 1] = op /\ \A j \in 1 .. Len(os) : os2[j] = os[j]
       /\ IF \E w \in Outputs : w > x - 1 THEN Len(outs') = 1 /\ outs'[1].w \in Outputs /\ outs'[1].kind = "r"
          ELSE outs' = <<>>
  <2>1. CASE x \in Outputs
    <3>1. outs = <<>>
      BY <1>3, <1>7, <2>1
    <3>2. outs' = Append(outs, op) /\ args' = args
      BY <2>1
    <3>3. outs' = <<op>> /\ os2 = <<op>> \o args /\ os = args
      BY <1>5, <3>1, <3>2, AddedFirst
    <3>4. Len(os2) = Len(os) + 1 /\ os2[1] = op /\ \A j \in 1 .. Len(os) : os2[j + 1] = os[j]
      BY <1>5, <3>3, AddedFirst
    <3>5. IsText(os2)
      <4>1. IsText(<<op>>)
        BY OneItem
      <4>. QED  BY <1>5, <3>3, <4>1, Joined
    <3>6. DOMAIN os2 = 1 .. Len(os) + 1
      BY <3>4, <3>5, TextIs
    <3>7. ASSUME NEW j \in 1 .. Len(os) + 1 PROVE os2[j] = op \/ \E i \in DOMAIN os : os2[j] = os[i]
      <4>1. CASE j = 1
        BY <3>4, <4>1
      <4>2. CASE j # 1
        <5>1. j - 1 \in 1 .. Len(os) /\ j = j - 1 + 1
          BY <1>8, <4>2
        <5>2. os2[j] = os[j - 1]
          BY <3>4, <5>1
        <5>. QED  BY <1>8, <5>1, <5>2
      <4>. QED  BY <4>1, <4>2
    <3>8. inst.rdLast => os2[Len(os) + 1] = op /\ \A j \in 1 .. Len(os) : os2[j] = os[j]
      <4>1. inst.rdLast => Len(os) = 0
        BY <1>4, <1>7, <2>1
      <4>. QED  BY <3>4, <4>1
    <3>9. Len(outs') = 1 /\ outs'[1] = op
      BY <3>3, OneItem
    <3>10. op.w \in Outputs /\ op.kind = "r"
      BY <1>7, <2>1
    <3>11. \E w \in Outputs : w > x - 1
      BY <1>7, <2>1
    <3>. QED  BY <3>4, <3>6, <3>7, <3>8, <3>9, <3>10, <3>11
  <2>2. CASE x \notin Outputs
    <3>1. outs' = outs /\ args' = Append(args, op)
      BY <2>2
    <3>2. /\ Len(os2) = Len(os) + 1 /\ IsText(os2)
          /\ \A j \in 1 .. Len(os) : os2[j] = os[j]
          /\ os2[Len(os) + 1] = op
      <4>1. Longer(os, os2, op)
        BY <1>5, <3>1, AddedLast
      <4>. QED  BY <4>1 DEF Longer
    <3>3. DOMAIN os2 = 1 .. Len(os) + 1
      BY <3>2, TextIs
    <3>4. ASSUME NEW j \in 1 .. Len(os) + 1 PROVE os2[j] = op \/ \E i \in DOMAIN os : os2[j] = os[i]
      <4>1. j \in 1 .. Len(os) \/ j = Len(os) + 1
        BY <1>8
      <4>. QED  BY <1>8, <3>2, <4>1
    <3>5. (\E w \in Outputs : w > x - 1) <=> \E w \in Outputs : w > x
      <4>1. \A w \in Outputs : w > x - 1 <=> w > x
        BY <1>7, <2>2
      <4>. QED  BY <4>1
    <3>. QED  BY <1>3, <3>1, <3>2, <3>3, <3>4, <3>5
  <2>. QED  BY <2>1, <2>2
<1>. DEFINE Declares(k) ==
              \/ op.kind = "i" /\ op.n \in Value /\ inst.vars[x].role = "imm" /\ op.n = tests[t].in[x]
              \/ /\ op.kind = "r" /\ op.n \in DOMAIN k.regs \cap DOMAIN text' /\ inst.vars[x].role # "imm"
                 /\ op.n \in Int /\ k.regs[op.n] = tests[t].in[x]
            Declared(K2, k) ==
              /\ k = Known(K2)' /\ IsKnown(K2, text)' /\ \A j \in DOMAIN text' : ItemOK(K2, j)'
              /\ Earlier(K2)' /\ OnlyEarlier' /\ k.words = k0.words /\ DOMAIN text \subseteq DOMAIN text'
              /\ \A r \in DOMAIN k0.regs \cap DOMAIN text : r \in DOMAIN k.regs /\ k.regs[r] = k0.regs[r]
              /\ Declares(k)
<1>12. ASSUME NEW K2, NEW k, Declared(K2, k)
       PROVE  TextKnown'
  <2>1. Fits(k, x, op, t)
    <3>1. CASE inst.vars[x].role = "imm"
      BY <1>12, <3>1 DEF Fits
    <3>2. CASE inst.vars[x].role # "imm"
      <4>1. op.kind = "r" /\ op.n \in DOMAIN k.regs /\ op.n \in Int /\ k.regs[op.n] = tests[t].in[x]
        BY <1>12, <3>2
      <4>2. Index(x, op) = op.n
        BY <1>10, <4>1
      <4>. QED  BY <3>2, <4>1, <4>2 DEF Fits
    <3>. QED  BY <3>1, <3>2
  <2>2. ASSUME NEW i \in DOMAIN os2
        PROVE  \/ os2[i].kind = "i" /\ os2[i].n \in Value
               \/ os2[i].kind = "r" /\ os2[i].n \in DOMAIN k.regs \cap DOMAIN text'
    <3>1. CASE os2[i] = op
      BY <1>12, <3>1
    <3>2. ASSUME NEW l \in DOMAIN os, os2[i] = os[l]
          PROVE  \/ os2[i].kind = "i" /\ os2[i].n \in Value
                 \/ os2[i].kind = "r" /\ os2[i].n \in DOMAIN k.regs \cap DOMAIN text'
      <4>1. \/ os[l].kind = "i" /\ os[l].n \in Value
            \/ os[l].kind = "r" /\ os[l].n \in DOMAIN k0.regs \cap DOMAIN text
        BY <1>4
      <4>2. \A r \in DOMAIN k0.regs \cap DOMAIN text : r \in DOMAIN k.regs /\ r \in DOMAIN text'
        BY <1>12
      <4>. QED  BY <3>2, <4>1, <4>2
    <3>. QED  BY <1>11, <3>1, <3>2
  <2>3. ASSUME inst.rdLast, NEW w \in x .. Width, NEW o, o = os2[Width + 1 - w]
        PROVE  Fits(k, w, o, t)'
    <3>1. Fits(k, w, o, t)
      <4>1. CASE w = x
        <5>1. Width + 1 - w = Len(os) + 1
          BY <1>4, <1>7, <4>1
        <5>. QED  BY <1>11, <2>1, <2>3, <4>1, <5>1
      <4>2. CASE w # x
        <5>. PICK i : i = Width + 1 - w
          OBVIOUS
        <5>1. i \in 1 .. Len(os) /\ w \in x + 1 .. Width
          BY <1>4, <1>7, <4>2
        <5>2. o = os[i] /\ Fits(k0, w, o, t) /\ i \in DOMAIN os
          BY <1>4, <1>8, <1>11, <2>3, <5>1
        <5>3. o.kind = "r" => o.n \in DOMAIN k0.regs \cap DOMAIN text /\ o.n \in Int
          BY <1>4, <1>9, <5>2
        <5>4. o.kind = "r" => Index(w, o) = o.n
          BY <1>10, <5>3
        <5>. QED  BY <1>12, <5>2, <5>3, <5>4 DEF Fits
      <4>. QED  BY <4>1, <4>2
    <3>2. Fits(k, w, o, t)' <=> Fits(k, w, o, t)
      BY <1>2, <1>5 DEF Fits, Index, Continues
    <3>. QED  BY <3>1, <3>2
  <2>4. v' + 1 = x /\ v' = x - 1 /\ v' \in 0 .. Width
    BY <1>2, <1>7
  <2>5. OperandsOK(K2, outs \o args)'
    <3>1. Len(os2) = Width' - v'
      BY <1>4, <1>6, <1>7, <1>11, <2>4
    <3>2. inst'.rdLast => \A w \in v' + 1 .. Width' : Fits(Known(K2), w, os2[Width + 1 - w], t)'
      <4>1. ASSUME inst.rdLast, NEW w \in x .. Width PROVE Fits(Known(K2), w, os2[Width + 1 - w], t)'
        <5>. PICK o : o = os2[Width + 1 - w]
          OBVIOUS
        <5>1. Fits(k, w, o, t)'
          BY <2>3, <4>1
        <5>2. Fits(Known(K2), w, os2[Width + 1 - w], t)' <=> Fits(k, w, o, t)'
          BY <1>6, <1>12
        <5>. QED  BY <5>1, <5>2
      <4>. QED  BY <1>2, <1>6, <2>4, <4>1
    <3>3. OperandsOK(K2, os2)'
      BY <1>12, <2>2, <3>1, <3>2 DEF OperandsOK, Value
    <3>. QED  BY <3>3
  <2>6. WordsReady(Known(K2), t, DOMAIN Entry.rmem)'
    <3>. PICK d : d = DOMAIN Entry.rmem
      OBVIOUS
    <3>1. WordsReady(k, t, d)
      BY <1>3, <1>12, WordsStay
    <3>2. WordsReady(k, t, d)' <=> WordsReady(k, t, d)
      BY <1>2 DEF WordsReady, Alone
    <3>. QED  BY <1>5, <1>12, <3>1, <3>2
  <2>7. AtCVariables(K2)'
    BY <1>2, <1>3, <1>6, <1>11, <1>12, <2>4, <2>5, <2>6 DEF AtCVariables
  <2>8. TextInv(K2)'
    BY <1>2, <1>12, <2>7 DEF TextInv, Formats, Final
  <2>. QED  BY <1>12, <2>8 DEF TextKnown
<1>13. CASE inst.vars[x].role = "imm"
  <2>1. text' = text
    BY <1>13
  <2>2. Writes /\ \A j \in DOMAIN text' : ItemOK(K, j)'
    BY <1>1, <1>2, <1>3, <1>5, <2>1, Keeping
  <2>3. Earlier(K)'
    <3>1. Agree(K, K, text)
      BY DEF Agree
    <3>. QED  BY <1>1, <1>2, <1>3, <2>2, <3>1, EarlierStays
  <2>4. OnlyEarlier' /\ Known(K)' = k0 /\ IsKnown(K, text)'
    BY <1>1, <1>2, <1>3, <2>1 DEF OnlyEarlier, Known
  <2>5. op.kind = "i" /\ op.n \in Value /\ op.n = tests[t].in[x]
    BY <1>5, <1>7, <1>13
  <2>6. Declares(k0)
    BY <1>13, <2>5
  <2>7. Declared(K, k0)
    <3>. HIDE DEF Declares
    <3>. QED  BY <2>1, <2>2, <2>3, <2>4, <2>6
  <2>. HIDE DEF Declared
  <2>. QED  BY <1>12, <2>7
<1>14. CASE inst.vars[x].role # "imm"
  <2>. PICK item : item = Item("let", 1, Fresh, Entry.in[x])
    OBVIOUS
  <2>1. Emit(<<item>>) /\ item.op = "let" /\ item.r = Len(text) + 1 /\ item.n = Entry.in[x]
    BY <1>14 DEF Item, Fresh
  <2>2. Writes /\ \E K2, n : WroteItem(K, K2, item, n)
    BY <1>1, <1>2, <1>3, <1>5, <2>1, WritingOne
  <2>. PICK K2, n, m : WroteItem(K, K2, item, n) /\ m = n + 1
    BY <2>2
  <2>3. /\ n \in Nat /\ m - 1 = n /\ DOMAIN text' = 1 .. m /\ Len(text') = m /\ m > 0
        /\ DOMAIN text = 1 .. n /\ Len(text) = n /\ m \in Nat
        /\ IsKnown(K2, text') /\ Agree(K, K2, text) /\ K2[n] = Known(K)
        /\ \A j \in 1 .. n : text'[j] = text[j] /\ ItemOK(K2, j)'
        /\ \A j \in 1 .. m : j \in 1 .. n \/ j = m
        /\ text'[m] = item /\ K2[m] = After(K2[n], item, m)
        /\ Known(K2)' = K2[m]
    BY WroteOne
  <2>. PICK k : k = K2[m]
    OBVIOUS
  <2>4. /\ DOMAIN k.regs = DOMAIN k0.regs \cup {m} /\ k.regs[m] = Entry.in[x]
        /\ \A q \in DOMAIN k0.regs : q # m => k.regs[q] = k0.regs[q]
        /\ k.words = k0.words
    BY <2>1, <2>3, AfterLoadReg
  <2>5. \A j \in DOMAIN text' : ItemOK(K2, j)'
    <3>1. ItemOK(K2, m)'
      BY <1>2, <1>7, <2>1, <2>3, NewLoadReg
    <3>. QED  BY <2>3, <3>1
  <2>6. Earlier(K2)'
    BY <1>1, <1>2, <1>3, <2>2, <2>3, EarlierStays
  <2>7. OnlyEarlier'
    BY <1>2, <1>3, <2>1, <2>3, OnlyEarlierStays
  <2>8. \A r \in DOMAIN k0.regs \cap DOMAIN text : r \in DOMAIN k.regs /\ k.regs[r] = k0.regs[r]
    <3>1. m \notin DOMAIN text
      BY <2>3
    <3>. QED  BY <2>4, <3>1
  <2>9. /\ op.kind = "r" /\ op.n = m /\ m \in DOMAIN k.regs \cap DOMAIN text' /\ m \in Int
        /\ k.regs[m] = tests[t].in[x]
    BY <1>5, <1>14, <2>3, <2>4 DEF Fresh
  <2>10. DOMAIN text \subseteq DOMAIN text'
    BY <2>3
  <2>11. Declares(k)
    BY <1>14, <2>9
  <2>12. k = Known(K2)' /\ IsKnown(K2, text)'
    BY <2>3
  <2>13. k.words = k0.words
    BY <2>4
  <2>14. Declared(K2, k)
    <3>. HIDE DEF Declares
    <3>. QED  BY <2>5, <2>6, <2>7, <2>8, <2>10, <2>11, <2>12, <2>13
  <2>. HIDE DEF Declared
  <2>. QED  BY <1>12, <2>14
<1>. QED  BY <1>13, <1>14

(* Values and item numbers are integers.                                   *)
LEMMA IsIndex ==
  ASSUME NEW n, NEW tx, IsText(tx), n \in Value \/ n \in DOMAIN tx
  PROVE  n \in Int
<1>1. n \in Value => n \in Nat
  BY ValueNat
<1>2. n \in DOMAIN tx => n \in Nat
  BY TextIs
<1>3. n \in Nat => n \in Int
  OBVIOUS
<1>. QED  BY <1>1, <1>2, <1>3

(* Writing the asm statement and the check of its result keeps the         *)
(* invariant of the text.                                                  *)
LEMMA EmitAsmText ==
  ASSUME ScriptType, TextKnown, EmitAsm
  PROVE  TextKnown'
<1>. USE DEF io, cvars
<1>1. PICK K : IsKnown(K, text) /\ TextInv(K)
  BY DEF TextKnown
<1>2. /\ stage = "cvariables" /\ stage' = "cstores" /\ t' = t /\ v \notin Vars
      /\ todo' = DOMAIN Entry.wmem
      /\ inst' = inst /\ tests' = tests /\ format' = format /\ format = "c"
      /\ ~ inst.cskip /\ \A e \in DOMAIN tests : ~ tests[e].jump
  BY <1>1 DEF TextInv, Formats, EmitAsm
<1>. PICK old, os, k0 : old = outs /\ os = outs \o args /\ k0 = Known(K)
  OBVIOUS
<1>3. /\ Earlier(K) /\ OnlyEarlier /\ t \in Tested
      /\ WordsReady(k0, t, DOMAIN Entry.rmem) /\ v \in 0 .. Width
      /\ IF \E w \in Outputs : w > v THEN Len(outs) = 1 /\ outs[1].w \in Outputs /\ outs[1].kind = "r"
         ELSE outs = <<>>
      /\ OperandsOK(K, os)
      /\ \A j \in DOMAIN text : ItemOK(K, j)
  BY <1>1, <1>2 DEF TextInv, AtCVariables
<1>4. Continues /\ ~ Final /\ t \in Nat /\ Entry' = Entry /\ KleeInv /\ t \in DOMAIN tests /\ Entry = tests[t]
      /\ IsText(text) /\ IsText(args) /\ IsText(outs)
  BY <1>2, <1>3 DEF Continues, Final, ScriptType, Entry, Tested
<1>5. /\ Tested' = Tested /\ Width' = Width /\ Outputs' = Outputs /\ Vars' = Vars
      /\ \A w, o : Index(w, o)' = Index(w, o)
      /\ \A k, w, o, e : Fits(k, w, o, e)' <=> Fits(k, w, o, e)
      /\ \A k, w, o : Usable(k, w, o)' <=> Usable(k, w, o)
      /\ \A k, e, d : WordsReady(k, e, d)' <=> WordsReady(k, e, d)
  BY <1>4, Same
<1>6. /\ Width \in Nat /\ Vars = 1 .. Width /\ Outputs \subseteq 1 .. Width
      /\ \A w, z \in Outputs : w = z
      /\ inst.rdLast => \A w \in Outputs : w = Width
      /\ v = 0
  <2>1. /\ Width \in Nat /\ Vars = 1 .. Width /\ Outputs \subseteq 1 .. Width
        /\ \A w, z \in Outputs : w = z
        /\ inst.rdLast => \A w \in Outputs : w = Width
    BY <1>4, Variables
  <2>. QED  BY <1>2, <1>3, <2>1
<1>7. IsText(os) /\ Len(os) = Width /\ DOMAIN os = 1 .. Width
  <2>1. IsText(os)
    BY <1>4, Joined
  <2>2. Len(os) = Width
    BY <1>3, <1>6 DEF OperandsOK
  <2>. QED  BY <2>1, <2>2, TextIs
<1>8. /\ \A k \in 1 .. Width : \/ os[k].kind = "i" /\ os[k].n \in Value
                               \/ os[k].kind = "r" /\ os[k].n \in DOMAIN k0.regs \cap DOMAIN text
      /\ inst.rdLast => \A w \in 1 .. Width : Fits(k0, w, os[Width + 1 - w], t)
  <2>1. /\ \A k \in DOMAIN os : \/ os[k].kind = "i" /\ os[k].n \in Value
                                \/ os[k].kind = "r" /\ os[k].n \in DOMAIN k0.regs \cap DOMAIN text
        /\ inst.rdLast => \A w \in v + 1 .. Width : Fits(k0, w, os[Width + 1 - w], t)
    BY <1>3 DEF OperandsOK
  <2>2. v + 1 = 1
    BY <1>6
  <2>. QED  BY <1>7, <2>1, <2>2
<1>9. DOMAIN text = 1 .. Len(text) /\ Len(text) \in Nat
  BY <1>4, TextIs
<1>10. \A w, o : o.n \in Int => Index(w, o) = o.n
  BY <1>2 DEF Index
<1>11. (Outputs = {} => old = <<>>) /\ (Outputs # {} => Len(old) = 1 /\ old[1].w \in Outputs)
  <2>1. (\E w \in Outputs : w > v) <=> Outputs # {}
    <3>1. \A w \in Outputs : w > v
      BY <1>6
    <3>. QED  BY <3>1
  <2>. QED  BY <1>3, <2>1
<1>. PICK operands : operands = [w \in Vars |-> Operand(outs \o args, w)]
  OBVIOUS
<1>12. \A w \in Vars : operands[w] = os[Width + 1 - w] /\ Width + 1 - w \in 1 .. Width
  <2>1. \A w \in Vars : operands[w] = Operand(os, w)
    OBVIOUS
  <2>2. \A w \in Vars : Operand(os, w) = os[Width + 1 - w]
    BY DEF Operand, Width
  <2>3. \A w \in 1 .. Width : Width + 1 - w \in 1 .. Width
    BY <1>6
  <2>. QED  BY <1>6, <2>1, <2>2, <2>3
<1>. PICK x, i1, cs : /\ x = Entry.x[Last(outs).w] /\ i1 = Item("inst", inst.size, t, operands)
                      /\ cs = [k \in DOMAIN outs |-> Item("check", 1, outs[k].n, x)]
  OBVIOUS
<1>13. Outputs # {} => x = tests[t].x[old[1].w]
  BY <1>4, <1>11 DEF Last
<1>14. IsText(cs) /\ Len(cs) = Len(old) /\ Len(old) \in Nat
       /\ \A k \in 1 .. Len(old) : cs[k] = Item("check", 1, old[k].n, x)
  <2>1. DOMAIN old = 1 .. Len(old) /\ Len(old) \in Nat
    BY <1>4, TextIs
  <2>. DEFINE S == {Item("check", 1, old[k].n, x) : k \in DOMAIN old}
  <2>2. cs \in [1 .. Len(old) -> S] /\ \A k \in 1 .. Len(old) : cs[k] = Item("check", 1, old[k].n, x)
    BY <2>1
  <2>. HIDE DEF S
  <2>3. cs \in Seq(S) /\ Len(cs) = Len(old)
    BY <2>1, <2>2
  <2>. QED  BY <2>1, <2>2, <2>3, TextFrom
<1>15. i1.op = "inst" /\ i1.size = inst.size /\ i1.r = t /\ i1.n = operands
  BY DEF Item
<1>. PICK s : s = <<i1>> \o cs
  OBVIOUS
<1>16. /\ IsText(s) /\ Len(s) = Len(old) + 1 /\ s[1] = i1
       /\ \A j \in 1 .. Len(old) : s[1 + j] = cs[j]
  <2>. PICK a : a = <<i1>>
    OBVIOUS
  <2>1. IsText(a) /\ Len(a) = 1 /\ a[1] = i1
    BY OneItem
  <2>2. /\ IsText(s) /\ Len(s) = Len(a) + Len(cs)
        /\ \A j \in 1 .. Len(a) : s[j] = a[j]
        /\ \A j \in 1 .. Len(cs) : s[Len(a) + j] = cs[j]
    BY <1>14, <2>1, Joined
  <2>. QED  BY <1>14, <2>1, <2>2
<1>17. Emit(s)
  BY DEF EmitAsm
<1>18. Writes /\ \E K2, n : Wrote(K, K2, s, n)
  BY <1>1, <1>2, <1>3, <1>4, <1>16, <1>17, Writing
<1>. PICK K2, n : Wrote(K, K2, s, n)
  BY <1>18
<1>. PICK m : m = n + 1
  OBVIOUS
<1>19. /\ n \in Nat /\ m \in Nat /\ m # 0 /\ m - 1 = n /\ DOMAIN text = 1 .. n /\ DOMAIN text' = 1 .. n + Len(s)
       /\ Len(text') = n + Len(s) /\ IsKnown(K2, text') /\ Agree(K, K2, text) /\ K2[n] = k0
       /\ \A j \in 1 .. n : text'[j] = text[j] /\ ItemOK(K2, j)'
       /\ text'[m] = i1 /\ K2[m] = After(k0, i1, m) /\ m \in DOMAIN text'
  <2>1. n \in Nat /\ n + 1 - 1 = n /\ 1 \in 1 .. Len(s) /\ n + 1 \in 1 .. n + Len(s)
    <3>1. Len(s) \in Nat /\ Len(s) > 0
      <4>1. Len(s) = 1 + Len(old) /\ Len(old) \in Nat
        BY <1>14, <1>16
      <4>. QED  BY <4>1
    <3>2. n \in Nat
      BY DEF Wrote
    <3>. QED  BY <3>1, <3>2
  <2>2. /\ DOMAIN text = 1 .. n /\ DOMAIN text' = 1 .. n + Len(s)
        /\ Len(text') = n + Len(s) /\ IsKnown(K2, text') /\ Agree(K, K2, text) /\ K2[n] = k0
        /\ \A j \in 1 .. n : text'[j] = text[j] /\ ItemOK(K2, j)'
        /\ text'[m] = i1 /\ K2[m] = After(k0, i1, m)
    <3>1. /\ DOMAIN text = 1 .. n /\ DOMAIN text' = 1 .. n + Len(s)
          /\ Len(text') = n + Len(s) /\ IsKnown(K2, text') /\ Agree(K, K2, text) /\ K2[n] = k0
          /\ \A j \in 1 .. n : text'[j] = text[j] /\ ItemOK(K2, j)'
      BY DEF Wrote
    <3>2. text'[n + 1] = s[1] /\ K2[n + 1] = After(K2[n + 1 - 1], s[1], n + 1)
      BY <2>1 DEF Wrote
    <3>3. s[1] = i1 /\ K2[n + 1 - 1] = k0
      BY <1>16, <2>1, <3>1
    <3>. QED  BY <3>1, <3>2, <3>3
  <2>3. m \in Nat /\ m # 0 /\ m - 1 = n /\ m \in 1 .. n + Len(s)
    BY <2>1
  <2>. QED  BY <2>1, <2>2, <2>3
<1>. PICK km : km = K2[m]
  OBVIOUS
<1>20. km.inst = m /\ km.same = TRUE /\ km.dirty = {}
  BY <1>15, <1>19 DEF After
<1>21. InstOK(k0, m)'
  <2>1. text'[m].r = t /\ text'[m].n = operands /\ text'[m].size = inst.size
    BY <1>15, <1>19
  <2>2. \A l \in 1 .. m - 1 : text'[l].op = "inst" => text'[l].r < t
    BY <1>3, <1>19 DEF OnlyEarlier
  <2>3. \A w \in Vars : Usable(k0, w, operands[w])
    <3>1. ASSUME NEW w \in Vars, NEW o, o = operands[w] PROVE Usable(k0, w, o)
      <4>. PICK l : l = Width + 1 - w
        OBVIOUS
      <4>1. o = os[l] /\ l \in 1 .. Width
        BY <1>12, <3>1
      <4>2. \/ o.kind = "i" /\ o.n \in Value
            \/ o.kind = "r" /\ o.n \in DOMAIN k0.regs \cap DOMAIN text
        BY <1>8, <4>1
      <4>3. CASE o.kind = "i" /\ o.n \in Value
        BY <4>3 DEF Usable
      <4>4. CASE o.kind = "r" /\ o.n \in DOMAIN k0.regs \cap DOMAIN text
        <5>1. Index(w, o) = o.n
          BY <1>9, <1>10, <4>4
        <5>. QED  BY <4>4, <5>1 DEF Usable
      <4>. QED  BY <4>2, <4>3, <4>4
    <3>. QED  BY <3>1
  <2>4. inst.rdLast => \A w \in Vars : Fits(k0, w, operands[w], t)
    BY <1>6, <1>8, <1>12
  <2>5. WordsReady(k0, t, DOMAIN tests[t].rmem)
    BY <1>3, <1>4
  <2>. QED  BY <1>2, <1>3, <1>4, <1>5, <2>1, <2>2, <2>3, <2>4, <2>5 DEF InstOK
<1>22. ItemOK(K2, m)'
  <2>1. ItemFine(k0, i1, m)'
    BY <1>15, <1>21 DEF ItemFine
  <2>. QED  BY <1>19, <2>1, NewItem
<1>23. FromEntry(km, t)' /\ Owner(km)' = t /\ HasInst(t)'
  <2>1. text'[m].op = "inst" /\ text'[m].r = t /\ text'[km.inst].r = t
    BY <1>15, <1>19, <1>20
  <2>2. FromEntry(km, t)' /\ Owner(km)' = t
    BY <1>2, <1>19, <1>20, <2>1 DEF FromEntry, Owner
  <2>3. HasInst(t)'
    BY <1>2, <1>19, <2>1 DEF HasInst
  <2>. QED  BY <2>2, <2>3
<1>24. ASSUME \A j \in DOMAIN text' : ItemOK(K2, j)', Known(K2)' = km,
              inst.rdLast => \A w \in Outputs : (\E j \in DOMAIN text : ResultAt(K2[j - 1], text[j], w, t))'
       PROVE  TextKnown'
  <2>1. ResultSeen(K2, t)'
    BY <1>2, <1>5, <1>24 DEF ResultSeen
  <2>2. Covered(K2, t, todo)'
    BY <1>2, <1>4, <1>23, <2>1 DEF Covered
  <2>3. Earlier(K2)'
    BY <1>1, <1>2, <1>3, <1>18, <1>19, EarlierStays
  <2>4. AtCStores(K2)'
    BY <1>2, <1>3, <1>4, <1>5, <1>20, <1>23, <1>24, <2>2, <2>3 DEF AtCStores, AtStores
  <2>5. TextInv(K2)'
    BY <1>2, <1>24, <2>4 DEF TextInv, Formats, Final
  <2>. QED  BY <1>19, <2>5 DEF TextKnown
<1>25. CASE Outputs = {}
  <2>1. Len(s) = 1 /\ n + Len(s) = m
    BY <1>11, <1>16, <1>25, NoText
  <2>2. Known(K2)' = km
    BY <1>19, <2>1 DEF Known
  <2>3. \A j \in DOMAIN text' : ItemOK(K2, j)'
    <3>1. \A j \in 1 .. m : j \in 1 .. n \/ j = m
      BY <1>19
    <3>. QED  BY <1>19, <1>22, <2>1, <3>1
  <2>. QED  BY <1>24, <1>25, <2>2, <2>3
<1>26. CASE Outputs # {}
  <2>. PICK i2, p, z : i2 = Item("check", 1, old[1].n, x) /\ p = m + 1 /\ z = old[1].w
    OBVIOUS
  <2>1. Len(old) = 1 /\ Len(s) = 2 /\ n + Len(s) = p /\ s[2] = i2 /\ z \in Outputs /\ p - 1 = m /\ n + 2 = p
        /\ \A w \in Outputs : w = z
    <3>1. Len(old) = 1 /\ z \in Outputs
      BY <1>11, <1>26
    <3>2. Len(s) = 2 /\ s[1 + 1] = cs[1] /\ cs[1] = i2
      BY <1>14, <1>16, <3>1
    <3>. QED  BY <1>6, <1>19, <3>1, <3>2
  <2>2. i2.op = "check" /\ i2.r = old[1].n /\ i2.n = x /\ i2.r = old[1].n
    BY DEF Item
  <2>3. text'[p] = i2 /\ K2[p] = After(km, i2, p) /\ DOMAIN text' = 1 .. p /\ Len(text') = p
    <3>1. n + 2 - 1 = m /\ 2 \in 1 .. Len(s)
      BY <1>19, <2>1
    <3>2. text'[n + 2] = s[2] /\ K2[n + 2] = After(K2[n + 2 - 1], s[2], n + 2)
      BY <3>1 DEF Wrote
    <3>. QED  BY <1>19, <2>1, <3>1, <3>2
  <2>4. K2[p] = km /\ Known(K2)' = km
    <3>1. After(km, i2, p) = km
      BY <2>2 DEF After
    <3>. QED  BY <2>3, <3>1 DEF Known
  <2>5. inst.rdLast => Index(z, operands[z]) = i2.r
    <3>1. SUFFICES ASSUME inst.rdLast PROVE Index(z, operands[z]) = i2.r
      OBVIOUS
    <3>2. z = Width /\ Width + 1 - z = 1 /\ 1 \in 1 .. Width
      BY <1>6, <2>1, <3>1
    <3>3. operands[z] = os[1]
      BY <1>6, <1>12, <2>1, <3>2
    <3>4. os[1] = old[1]
      <4>. PICK a, b : a = outs /\ b = args
        OBVIOUS
      <4>1. \A j \in 1 .. Len(a) : (a \o b)[j] = a[j]
        BY <1>4, Joined
      <4>2. 1 \in 1 .. Len(a)
        BY <2>1
      <4>3. (a \o b)[1] = a[1]
        BY <4>1, <4>2
      <4>. QED  BY <4>3
    <3>5. old[1].n \in Int
      <4>. PICK o : o = os[1]
        OBVIOUS
      <4>1. o.n \in Value \/ o.n \in DOMAIN text
        BY <1>8, <3>2
      <4>2. o.n \in Int
        BY <1>4, <4>1, IsIndex
      <4>. QED  BY <3>4, <4>2
    <3>. QED  BY <1>10, <2>2, <3>3, <3>4, <3>5
  <2>6. inst.rdLast => Index(z, text[m].n[z])' = i2.r
    <3>. PICK o : o = operands[z]
      OBVIOUS
    <3>1. text'[m].n[z] = o
      BY <1>15, <1>19
    <3>2. inst.rdLast => Index(z, o)' = i2.r
      BY <1>5, <2>5
    <3>. QED  BY <3>1, <3>2
  <2>7. ItemOK(K2, p)'
    <3>1. ResultIn(km, i2.r)'
      BY <1>2, <1>5, <1>19, <1>20, <2>1, <2>6 DEF ResultIn
    <3>2. \E w \in Outputs' : i2.n = tests'[Owner(km)'].x[w]
      BY <1>2, <1>5, <1>13, <1>23, <1>26, <2>1, <2>2
    <3>3. ItemFine(km, i2, p)'
      BY <1>2, <2>2, <3>1, <3>2 DEF ItemFine
    <3>. QED  BY <2>1, <2>3, <3>3, NewItem
  <2>8. \A j \in DOMAIN text' : ItemOK(K2, j)'
    <3>1. \A j \in 1 .. p : j \in 1 .. n \/ j = m \/ j = p
      BY <1>19
    <3>. QED  BY <1>19, <1>22, <2>3, <2>7, <3>1
  <2>9. ASSUME inst.rdLast, NEW w \in Outputs
        PROVE  (\E j \in DOMAIN text : ResultAt(K2[j - 1], text[j], w, t))'
    <3>1. w = z
      BY <2>1
    <3>2. ResultAt(km, i2, z, t)'
      <4>1. i2.n = tests'[t'].x[z]
        BY <1>2, <1>13, <1>26, <2>2
      <4>2. Index(z, text[km.inst].n[z])' = i2.r
        BY <1>20, <2>6, <2>9
      <4>3. FromEntry(km, t)' /\ i2.r \notin km.dirty
        BY <1>20, <1>23
      <4>. QED  BY <2>2, <4>1, <4>2, <4>3 DEF ResultAt
    <3>3. ResultAt(K2[p - 1], text[p], z, t)' <=> ResultAt(km, i2, z, t)'
      BY <2>1, <2>3
    <3>. QED  BY <2>3, <3>1, <3>2, <3>3, <1>19
  <2>. QED  BY <1>24, <2>4, <2>8, <2>9
<1>. QED  BY <1>25, <1>26

-----------------------------------------------------------------------------
(* Every step of the generation.                                           *)

(* Emitting items of positive size.                                        *)
LEMMA SizesMore ==
  ASSUME IsText(text), SizesOK, NEW s, IsText(s), Emit(s), \A j \in 1 .. Len(s) : s[j].size \in Nat \ {0}
  PROVE  IsText(text') /\ SizesOK'
<1>1. /\ IsText(text') /\ Len(text') = Len(text) + Len(s)
      /\ Len(text) \in Nat /\ DOMAIN text = 1 .. Len(text) /\ DOMAIN text' = 1 .. Len(text')
      /\ \A j \in 1 .. Len(text) : text'[j] = text[j]
      /\ \A j \in 1 .. Len(s) : text'[Len(text) + j] = s[j]
  BY Emitted
<1>2. Len(s) \in Nat
  BY TextIs
<1>3. ASSUME NEW j \in DOMAIN text' PROVE text'[j].size \in Nat \ {0}
  <2>1. CASE j \in 1 .. Len(text)
    BY <1>1, <2>1 DEF SizesOK
  <2>2. CASE j \notin 1 .. Len(text)
    <3>. PICK i : i = j - Len(text)
      OBVIOUS
    <3>1. i \in 1 .. Len(s) /\ j = Len(text) + i
      BY <1>1, <1>2, <2>2
    <3>. QED  BY <1>1, <3>1
  <2>. QED  BY <2>1, <2>2
<1>. QED  BY <1>1, <1>3 DEF SizesOK

Sized(s) == IsText(s) /\ \A j \in 1 .. Len(s) : s[j].size \in Nat \ {0}

(* Items of positive size joined.                                          *)
LEMMA SizedJoin == ASSUME NEW a, NEW b, Sized(a), Sized(b) PROVE Sized(a \o b)
<1>. PICK c : c = a \o b
  OBVIOUS
<1>1. /\ IsText(c) /\ Len(c) = Len(a) + Len(b)
      /\ \A j \in 1 .. Len(a) : c[j] = a[j]
      /\ \A j \in 1 .. Len(b) : c[Len(a) + j] = b[j]
  BY Joined DEF Sized
<1>2. Len(a) \in Nat /\ Len(b) \in Nat
  BY TextIs DEF Sized
<1>3. ASSUME NEW j \in 1 .. Len(c) PROVE c[j].size \in Nat \ {0}
  <2>1. CASE j \in 1 .. Len(a)
    BY <1>1, <2>1 DEF Sized
  <2>2. CASE j \notin 1 .. Len(a)
    <3>. PICK i : i = j - Len(a)
      OBVIOUS
    <3>1. i \in 1 .. Len(b) /\ j = Len(a) + i
      BY <1>1, <1>2, <2>2
    <3>. QED  BY <1>1, <3>1 DEF Sized
  <2>. QED  BY <2>1, <2>2
<1>. QED  BY <1>1, <1>3 DEF Sized

(* Up to three items of positive size.                                     *)
LEMMA SizedItems ==
  ASSUME NEW a, NEW b, NEW c, a.size \in Nat \ {0}, b.size \in Nat \ {0}, c.size \in Nat \ {0}
  PROVE  Sized(<<a>>) /\ Sized(<<a, b>>) /\ Sized(<<a, b, c>>)
<1>1. Sized(<<a>>)
  <2>. PICK s : s = <<a>>
    OBVIOUS
  <2>1. IsText(s) /\ Len(s) = 1 /\ s[1] = a
    BY OneItem
  <2>2. \A j \in 1 .. 1 : j = 1
    OBVIOUS
  <2>. QED  BY <2>1, <2>2 DEF Sized
<1>2. Sized(<<a, b>>)
  <2>. PICK s : s = <<a, b>>
    OBVIOUS
  <2>1. IsText(s) /\ Len(s) = 2 /\ s[1] = a /\ s[2] = b
    BY TwoItems
  <2>2. \A j \in 1 .. 2 : j = 1 \/ j = 2
    OBVIOUS
  <2>. QED  BY <2>1, <2>2 DEF Sized
<1>3. Sized(<<a, b, c>>)
  <2>. PICK s : s = <<a, b, c>>
    OBVIOUS
  <2>1. IsText(s) /\ Len(s) = 3 /\ s[1] = a /\ s[2] = b /\ s[3] = c
    BY ThreeItems
  <2>2. \A j \in 1 .. 3 : j = 1 \/ j = 2 \/ j = 3
    OBVIOUS
  <2>. QED  BY <2>1, <2>2 DEF Sized
<1>. QED  BY <1>1, <1>2, <1>3

(* The items of the scripts have positive size.                            *)
LEMMA SizeOf ==
  /\ \A r, n : LoadReg(r, n).size \in Nat \ {0}
  /\ \A n : SkipIfExpected(n).size \in Nat \ {0} /\ JumpOver(n).size \in Nat \ {0} /\ Exit(n).size \in Nat \ {0}
  /\ StoreWord.size \in Nat \ {0} /\ LoadWord.size \in Nat \ {0}
  /\ \A op, r, n : Item(op, 1, r, n).size \in Nat \ {0}
  /\ \A n : Sized(CheckResult(n)) /\ Sized(CheckBranchAndResult(n))
  /\ Sized(CheckBranch) /\ Sized(<<>>)
<1>1. /\ \A r, n : LoadReg(r, n).size \in Nat \ {0}
      /\ \A n : SkipIfExpected(n).size \in Nat \ {0} /\ JumpOver(n).size \in Nat \ {0} /\ Exit(n).size \in Nat \ {0}
      /\ StoreWord.size \in Nat \ {0} /\ LoadWord.size \in Nat \ {0}
      /\ \A op, r, n : Item(op, 1, r, n).size \in Nat \ {0}
  BY DEF LoadReg, SkipIfExpected, JumpOver, Exit, StoreWord, LoadWord, Item
<1>2. ASSUME NEW n PROVE Sized(CheckResult(n))
  <2>. PICK a, b, c : a = LoadReg(ExpectedReg, n) /\ b = SkipIfExpected(16) /\ c = Exit(255)
    OBVIOUS
  <2>1. a.size \in Nat \ {0} /\ b.size \in Nat \ {0} /\ c.size \in Nat \ {0}
    BY <1>1
  <2>2. Sized(<<a, b, c>>)
    BY <2>1, SizedItems, ZenonT(30)
  <2>. QED  BY <2>2 DEF CheckResult
<1>3. ASSUME NEW n PROVE Sized(CheckBranchAndResult(n))
  <2>1. Sized(<<JumpOver(16)>>)
    BY <1>1, SizedItems
  <2>. QED  BY <1>2, <2>1, SizedJoin DEF CheckBranchAndResult
<1>4. Sized(CheckBranch)
  <2>. PICK a, b, c : a = JumpOver(8) /\ b = JumpOver(16) /\ c = Exit(255)
    OBVIOUS
  <2>1. a.size \in Nat \ {0} /\ b.size \in Nat \ {0} /\ c.size \in Nat \ {0}
    BY <1>1
  <2>2. Sized(<<a, b, c>>)
    BY <2>1, SizedItems
  <2>. QED  BY <2>2 DEF CheckBranch
<1>5. Sized(<<>>)
  BY NoText DEF Sized
<1>. QED  BY <1>1, <1>2, <1>3, <1>4, <1>5

(* Emitting items of positive size keeps all sizes positive.               *)
LEMMA EmitSized ==
  ASSUME IsText(text), SizesOK, NEW s, Sized(s), Emit(s)
  PROVE  IsText(text') /\ SizesOK'
BY SizesMore DEF Sized

(* The invariant of the harness depends on nothing the scripts change.     *)
LEMMA KleeSame == ASSUME KleeInv, UNCHANGED io PROVE KleeInv'
BY DEF KleeInv, io

(* Every step of the generation keeps the invariant of the text.           *)
LEMMA GenerateText ==
  ASSUME ScriptType, TextKnown, Generate
  PROVE  TextKnown'
<1>1. CASE stage = "klee" /\ KleeNext /\ UNCHANGED pvars /\ UNCHANGED cvars
  BY <1>1, KleeText
<1>2. CASE TestNext /\ UNCHANGED cvars
  BY <1>2, NextTestText, EmitLoadText, EndLoadsText, EmitVariableText, EmitInstructionText, EmitChecksText,
     EmitStoreCheckText, FinishText DEF TestNext
<1>3. CASE CNext
  BY <1>3, StartText, NextEntryText, PokeText, EndPokesText, DeclareVariableText, EmitAsmText,
     CheckMemoryText, EndEntryText, FinishCText DEF CNext
<1>. QED  BY <1>1, <1>2, <1>3 DEF Generate

(* Every step of the generation keeps the types of what the scripts use.   *)
LEMMA GenerateType ==
  ASSUME ScriptType, TextKnown, Generate
  PROVE  ScriptType'
<1>0. /\ KleeInv /\ IsText(text) /\ SizesOK /\ IsText(args) /\ IsText(outs)
      /\ stage \in Stages /\ format \in {"none", "elf", "c"}
      /\ t \in Nat /\ v \in Nat /\ todo \subseteq Value
  BY DEF ScriptType
<1>1. SUFFICES /\ KleeInv' /\ IsText(text') /\ SizesOK' /\ IsText(args') /\ IsText(outs')
               /\ stage' \in Stages /\ format' \in {"none", "elf", "c"}
               /\ t' \in Nat /\ v' \in Nat /\ todo' \subseteq Value
  BY DEF ScriptType, Stages, Value
<1>. DEFINE OK == /\ KleeInv' /\ IsText(text') /\ SizesOK' /\ IsText(args') /\ IsText(outs')
                  /\ stage' \in Stages /\ format' \in {"none", "elf", "c"}
                  /\ t' \in Nat /\ v' \in Nat /\ todo' \subseteq Value
<1>2. SUFFICES OK
  OBVIOUS
<1>3. IsText(<<>>) /\ \A a : IsText(Append(args, a)) /\ IsText(Append(outs, a))
  BY <1>0, NoText, Appended
<1>4. UNCHANGED text => IsText(text') /\ SizesOK'
  BY <1>0 DEF SizesOK
<1>5. \A s : Sized(s) /\ Emit(s) => IsText(text') /\ SizesOK'
  BY <1>0, EmitSized
<1>6. UNCHANGED io => KleeInv'
  BY <1>0, KleeSame
<1>7. \A s \in {"tests", "loads", "variables", "checks", "stores", "load", "ctests", "cloads", "cvariables",
                "cstores", "klee", "ended"} : s \in Stages
  BY DEF Stages
<1>8. Width \in Nat /\ Vars = 1 .. Width /\ inst.size \in Nat \ {0}
  BY <1>0, Variables, Formed DEF KleeInv
<1>9. ASSUME t \in DOMAIN tests PROVE DOMAIN Entry.rmem \subseteq Value /\ DOMAIN Entry.wmem \subseteq Value
  BY <1>0, <1>9, EntryMaps DEF Entry
<1>10. stage \in {"checks", "cvariables"} => t \in DOMAIN tests
  BY DEF TextKnown, TextInv, AtChecks, AtCVariables, Tested
<1>. USE DEF cvars
<1>11. CASE stage = "klee" /\ KleeNext /\ UNCHANGED pvars /\ UNCHANGED cvars
  <2>1. KleeInv'
    BY <1>0, <1>11, KleeStep
  <2>. QED  BY <1>0, <1>4, <1>11, <2>1 DEF pvars
<1>12. ASSUME UNCHANGED cvars, NextTest PROVE OK
  BY <1>0, <1>3, <1>6, <1>7, <1>9, <1>12, NoText DEF NextTest, SizesOK
<1>13. ASSUME UNCHANGED cvars, EmitLoad PROVE OK
  <2>. PICK a \in todo : /\ Emit(<<LoadReg(AddressReg, a), LoadReg(DstReg, Entry.rmem[a]), StoreWord>>)
                         /\ todo' = todo \ {a}
    BY <1>13 DEF EmitLoad
  <2>1. Sized(<<LoadReg(AddressReg, a), LoadReg(DstReg, Entry.rmem[a]), StoreWord>>)
    BY SizeOf, SizedItems
  <2>2. IsText(text') /\ SizesOK'
    BY <1>5, <2>1
  <2>. QED  BY <1>0, <1>6, <1>13, <2>2 DEF EmitLoad
<1>14. ASSUME UNCHANGED cvars, EndLoads PROVE OK
  BY <1>0, <1>4, <1>6, <1>7, <1>14 DEF EndLoads
<1>15. ASSUME UNCHANGED cvars, EmitVariable PROVE OK
  <2>1. IsText(text') /\ SizesOK'
    <3>1. Sized(<<LoadReg(InputReg(v), Entry.in[v])>>)
      BY SizeOf, SizedItems
    <3>. QED  BY <1>4, <1>5, <1>15, <3>1 DEF EmitVariable
  <2>2. IsText(args')
    BY <1>3, <1>15 DEF EmitVariable
  <2>. QED  BY <1>0, <1>6, <1>15, <2>1, <2>2 DEF EmitVariable
<1>16. ASSUME UNCHANGED cvars, EmitInstruction PROVE OK
  <2>1. Sized(<<Item("inst", inst.size, t, args)>>)
    <3>1. Item("inst", inst.size, t, args).size \in Nat \ {0}
      BY <1>8 DEF Item
    <3>. QED  BY <3>1, SizedItems
  <2>2. IsText(text') /\ SizesOK'
    BY <1>5, <1>16, <2>1 DEF EmitInstruction
  <2>. QED  BY <1>0, <1>6, <1>7, <1>16, <2>2 DEF EmitInstruction
<1>17. ASSUME UNCHANGED cvars, EmitChecks PROVE OK
  <2>1. IsText(text') /\ SizesOK'
    <3>1. \E s : Sized(s) /\ Emit(s)
      <4>1. CASE Entry.jump /\ HasExpected(Entry)
        BY <1>17, <4>1, SizeOf DEF EmitChecks
      <4>2. CASE Entry.jump /\ ~ HasExpected(Entry)
        BY <1>17, <4>2, SizeOf DEF EmitChecks
      <4>3. CASE ~ Entry.jump /\ HasExpected(Entry)
        BY <1>17, <4>3, SizeOf DEF EmitChecks
      <4>4. CASE ~ Entry.jump /\ ~ HasExpected(Entry)
        BY <1>17, <4>4, SizeOf DEF EmitChecks
      <4>. QED  BY <4>1, <4>2, <4>3, <4>4
    <3>. QED  BY <1>5, <3>1
  <2>2. todo' \subseteq Value
    BY <1>9, <1>10, <1>17 DEF EmitChecks
  <2>. QED  BY <1>0, <1>6, <1>7, <1>17, <2>1, <2>2 DEF EmitChecks
<1>18. ASSUME UNCHANGED cvars, EmitStoreCheck PROVE OK
  <2>. PICK a \in todo : /\ Emit(<<LoadReg(AddressReg, a), LoadWord>> \o CheckResult(Entry.wmem[a]))
                         /\ todo' = todo \ {a}
    BY <1>18 DEF EmitStoreCheck
  <2>1. Sized(<<LoadReg(AddressReg, a), LoadWord>> \o CheckResult(Entry.wmem[a]))
    <3>1. Sized(<<LoadReg(AddressReg, a), LoadWord>>)
      BY SizeOf, SizedItems
    <3>. QED  BY <3>1, SizeOf, SizedJoin
  <2>2. IsText(text') /\ SizesOK'
    BY <1>5, <2>1
  <2>. QED  BY <1>0, <1>6, <1>18, <2>2 DEF EmitStoreCheck
<1>19. ASSUME UNCHANGED cvars, Finish PROVE OK
  <2>1. Sized(<<Exit(0)>>)
    BY SizeOf, SizedItems
  <2>2. IsText(text') /\ SizesOK'
    BY <1>5, <1>19, <2>1 DEF Finish
  <2>. QED  BY <1>0, <1>6, <1>7, <1>19, <2>2 DEF Finish
<1>20. ASSUME StartElf \/ StartC PROVE OK
  BY <1>0, <1>4, <1>6, <1>7, <1>20 DEF StartElf, StartC
<1>21. ASSUME NextEntry PROVE OK
  BY <1>0, <1>3, <1>4, <1>6, <1>7, <1>9, <1>21 DEF NextEntry
<1>22. ASSUME Poke PROVE OK
  <2>. PICK a \in todo : Emit(<<Item("poke", 1, a, Entry.rmem[a])>>) /\ todo' = todo \ {a}
    BY <1>22 DEF Poke
  <2>1. Sized(<<Item("poke", 1, a, Entry.rmem[a])>>)
    BY SizeOf, SizedItems
  <2>2. IsText(text') /\ SizesOK'
    BY <1>5, <2>1
  <2>. QED  BY <1>0, <1>6, <1>22, <2>2 DEF Poke
<1>23. ASSUME EndPokes PROVE OK
  BY <1>0, <1>4, <1>6, <1>7, <1>8, <1>23 DEF EndPokes, Width
<1>24. ASSUME DeclareVariable PROVE OK
  <2>1. IsText(text') /\ SizesOK'
    <3>1. Sized(<<Item("let", 1, Fresh, Entry.in[v])>>)
      BY SizeOf, SizedItems
    <3>. QED  BY <1>4, <1>5, <1>24, <3>1 DEF DeclareVariable
  <2>2. IsText(args') /\ IsText(outs')
    BY <1>0, <1>3, <1>24 DEF DeclareVariable
  <2>3. v' \in Nat
    BY <1>8, <1>24 DEF DeclareVariable
  <2>. QED  BY <1>0, <1>6, <1>24, <2>1, <2>2, <2>3 DEF DeclareVariable
<1>25. ASSUME EmitAsm PROVE OK
  <2>. PICK i1, cs : /\ i1 = Item("inst", inst.size, t, [w \in Vars |-> Operand(outs \o args, w)])
                     /\ cs = [k \in DOMAIN outs |-> Item("check", 1, outs[k].n, Entry.x[Last(outs).w])]
    OBVIOUS
  <2>1. Sized(<<i1>>)
    <3>1. i1.size \in Nat \ {0}
      BY <1>8 DEF Item
    <3>. QED  BY <3>1, SizedItems
  <2>2. Sized(cs)
    <3>1. DOMAIN outs = 1 .. Len(outs) /\ Len(outs) \in Nat
      BY <1>0, TextIs
    <3>. DEFINE S == [op : {"check"}, size : {1}, r : {cs[k].r : k \in DOMAIN outs}, n : {cs[k].n : k \in DOMAIN outs}]
    <3>2. ASSUME NEW k \in DOMAIN outs PROVE cs[k] \in S
      BY DEF Item
    <3>3. cs \in [1 .. Len(outs) -> S]
      BY <3>1, <3>2
    <3>4. \A y \in S : y.size \in Nat \ {0}
      OBVIOUS
    <3>. HIDE DEF S
    <3>5. cs \in Seq(S) /\ \A j \in 1 .. Len(cs) : cs[j] \in S
      BY <3>1, <3>3
    <3>. QED  BY <3>4, <3>5, TextFrom DEF Sized
  <2>3. IsText(text') /\ SizesOK'
    BY <1>5, <1>25, <2>1, <2>2, SizedJoin DEF EmitAsm
  <2>4. todo' \subseteq Value
    BY <1>9, <1>10, <1>25 DEF EmitAsm
  <2>. QED  BY <1>0, <1>6, <1>7, <1>25, <2>3, <2>4 DEF EmitAsm
<1>26. ASSUME CheckMemory PROVE OK
  <2>. PICK a \in todo : Emit(<<Item("checkmem", 1, a, Entry.wmem[a])>>) /\ todo' = todo \ {a}
    BY <1>26 DEF CheckMemory
  <2>1. Sized(<<Item("checkmem", 1, a, Entry.wmem[a])>>)
    BY SizeOf, SizedItems
  <2>2. IsText(text') /\ SizesOK'
    BY <1>5, <2>1
  <2>. QED  BY <1>0, <1>6, <1>26, <2>2 DEF CheckMemory
<1>27. ASSUME EndEntry PROVE OK
  BY <1>0, <1>4, <1>6, <1>7, <1>27 DEF EndEntry
<1>28. ASSUME FinishC PROVE OK
  <2>1. Sized(<<Exit(0)>>)
    BY SizeOf, SizedItems
  <2>2. IsText(text') /\ SizesOK'
    BY <1>5, <1>28, <2>1 DEF FinishC
  <2>. QED  BY <1>0, <1>6, <1>7, <1>28, <2>2 DEF FinishC
<1>. QED
  <2>. HIDE DEF OK
  <2>. QED  BY <1>11, <1>12, <1>13, <1>14, <1>15, <1>16, <1>17, <1>18, <1>19, <1>20, <1>21, <1>22, <1>23, <1>24,
               <1>25, <1>26, <1>27, <1>28 DEF Generate, TestNext, CNext

==============================================================================
