---------------------------- MODULE TestBenchProofs ----------------------------
(***************************************************************************)
(* The programs at work. At item p of a program all that is known there    *)
(* holds in the machine (Reached), so that no comparison is with the wrong *)
(* value and each one that was passed shows what it is for: the operands   *)
(* name the inputs when the instruction is reached, and a run that comes   *)
(* to exit(0) has checked everything. For a right implementation the       *)
(* machine goes through the script of the instruction in step with the     *)
(* path of the harness (Lock), hence does what its entry says (Did), no    *)
(* comparison fails (Right), and the program passes.                       *)
(***************************************************************************)
EXTENDS TestScriptProofs

-----------------------------------------------------------------------------
(* The machine at item p of a program.                                     *)

Alive(p) == text[p] # Exit(255)

Holds(k) ==
  /\ \A r \in DOMAIN k.regs : r \in DOMAIN regs /\ regs[r] = k.regs[r]
  /\ \A a \in DOMAIN k.words :
       /\ a \in Addresses /\ a + WordBytes - 1 \in Addresses
       /\ ReadMem(mem, a, WordBytes) = k.words[a]
  /\ \A a \in k.loaded : regs[DstReg] = ReadMem(mem, a, WordBytes)
  /\ k.inst # 0 =>
       /\ k.same => mem = effects[Owner(k)].mem
       /\ \A w \in Outputs :
            LET operand == text[k.inst].n[w]
            IN  operand.kind = "r" =>
                  /\ Index(w, operand) \in DOMAIN regs
                  /\ Index(w, operand) \notin k.dirty => regs[Index(w, operand)] = effects[Owner(k)].x[w]

(* Item j was passed, not ended at.                                        *)
Passed(K, j) ==
  LET k == K[j - 1]
      e == effects[Owner(k)]
      operand(w) == text[k.inst].n[w]
      result(w) == Index(w, operand(w))
      known(w, r) == operand(w).kind = "r" /\ result(w) = r /\ r \notin k.dirty
  IN  k.inst # 0 =>
      /\ text[j] = Exit(255) /\ ExpectedReg \in DOMAIN k.regs =>
           /\ k.same => \A a \in k.loaded : ReadMem(e.mem, a, WordBytes) = k.regs[ExpectedReg]
           /\ \A w \in Outputs : known(w, DstReg) => e.x[w] = k.regs[ExpectedReg]
      /\ text[j].op = "check" => \A w \in Outputs : known(w, text[j].r) => e.x[w] = text[j].n
      /\ text[j].op = "checkmem" /\ k.same => ReadMem(e.mem, text[j].r, WordBytes) = text[j].n

Executed(p) == {i \in 1 .. p - 1 : text[i].op = "inst"}
Reached(K, p) ==
  /\ pc = End[p - 1]
  /\ DOMAIN effects = {text[i].r : i \in Executed(p)}
  /\ Alive(p) =>
       /\ Holds(K[p - 1])
       /\ \A j \in 1 .. p - 1 : Passed(K, j)
       /\ \A i \in 1 .. p - 2 : text[i].op = "inst" /\ tests[text[i].r].jump => effects[text[i].r].jumped

(* A right implementation on words that are apart.                         *)
Scope == IF format = "elf" THEN {t} ELSE Tested
Promised == impl = "right" /\ Separate(Scope) /\ (format = "c" => inst.rdLast)
Done(e) ==
  /\ \A w \in Vars : effects[e].x[w] = tests[e].x[w]
  /\ \A a \in DOMAIN tests[e].wmem : ReadMem(effects[e].mem, a, WordBytes) = tests[e].wmem[a]
Unwritten(e) ==
  \A k \in DOMAIN tests[e].touched : tests[e].touched[k].by = "st" =>
    \A c \in 0 .. WordBytes - 1 : mem[tests[e].touched[k].at + c] = 0
Right(p) ==
  /\ Alive(p)
  /\ text[p].op = "j" => text[p - 1].op = "j"
  /\ \A i \in Executed(p) : Done(text[i].r)
  /\ \A e \in Scope : e \notin DOMAIN effects => Unwritten(e)

-----------------------------------------------------------------------------
(* The memory: words, what a store leaves alone, and the addresses of      *)
(* items.                                                                  *)

Sums(f, m, a, n) == f[0] = 0 /\ \A b \in 1 .. n : f[b] = f[b - 1] + m[a + b - 1] * Bytes[b - 1]

SumsTo(f, m, a, n) == Sums(f, m, a, n) /\ \A k \in 0 .. n : ReadMem(m, a, k) = f[k]

(* A recursion that adds up the bytes of an access computes what is read.  *)
LEMMA SumIs ==
  ASSUME NEW n \in 0 .. WordBytes, NEW a \in Nat, NEW m, NEW f \in [0 .. n -> Nat],
         Sums(f, m, a, n)
  PROVE  ReadMem(m, a, n) = f[n]
<1>. DEFINE Def(g) == g = [b \in 0 .. n |-> IF b = 0 THEN 0
                                            ELSE g[b - 1] + m[a + b - 1] * Bytes[b - 1]]
            g0 == CHOOSE g : Def(g)
<1>0. n \in Nat
  BY BytesIs
<1>1. Def(f)
  <2>1. f = [b \in 0 .. n |-> f[b]]
    OBVIOUS
  <2>2. \A b \in 0 .. n : f[b] = IF b = 0 THEN 0 ELSE f[b - 1] + m[a + b - 1] * Bytes[b - 1]
    BY <1>0 DEF Sums, SumsTo
  <2>. QED  BY <2>1, <2>2
<1>2. Def(g0)
  <2>. HIDE DEF Def
  <2>. QED  BY <1>1
<1>3. ReadMem(m, a, n) = g0[n]
  BY DEF ReadMem
<1>4. \A b \in 0 .. n : g0[b] = f[b]
  <2>. DEFINE P == {b \in Nat : g0[b] = f[b]}
  <2>. HIDE DEF g0
  <2>1. 0 \in P
    BY <1>0, <1>1, <1>2
  <2>2. ASSUME NEW b \in 0 .. n - 1, b \in P PROVE b + 1 \in P
    <3>1. b + 1 \in 0 .. n /\ b + 1 # 0 /\ b + 1 - 1 = b /\ a + (b + 1) - 1 = a + b
      BY <1>0
    <3>2. g0[b + 1] = g0[b] + m[a + b] * Bytes[b]
      BY <3>1, <1>2
    <3>3. f[b + 1] = f[b] + m[a + b] * Bytes[b]
      BY <3>1, <1>1
    <3>. QED  BY <1>0, <2>2, <3>2, <3>3
  <2>3. \A b \in 0 .. n : b \in P
    <3>. HIDE DEF P, Def
    <3>. QED  BY <1>0, <2>1, <2>2, UpTo
  <2>. QED  BY <2>3
<1>. HIDE DEF g0, Def
<1>. QED  BY <1>0, <1>3, <1>4

(* The recursion that adds up the bytes of an access exists.               *)
LEMMA SumExists ==
  ASSUME NEW n \in 0 .. WordBytes, NEW a \in Nat, NEW m, \A b \in 0 .. n - 1 : m[a + b] \in Nat
  PROVE  \E f \in [0 .. n -> Nat] : SumsTo(f, m, a, n)
<1>0. n \in Nat
  BY BytesIs
<1>. DEFINE h == [b \in 1 .. n |-> [x \in Nat |-> x + m[a + b - 1] * Bytes[b - 1]]]
<1>1. h \in [1 .. n -> [Nat -> Nat]]
  <2>1. ASSUME NEW b \in 1 .. n PROVE m[a + b - 1] * Bytes[b - 1] \in Nat
    <3>1. b - 1 \in 0 .. n - 1 /\ b - 1 \in 0 .. WordBytes /\ a + b - 1 = a + (b - 1)
      BY <1>0, BytesIs
    <3>2. m[a + b - 1] \in Nat /\ Bytes[b - 1] \in Nat
      BY <3>1, BytesIs
    <3>. QED  BY <3>2
  <2>. QED  BY <2>1
<1>2. PICK f \in [0 .. n -> Nat] : Iterates(f, n, 0, h)
  <2>. HIDE DEF h
  <2>. QED  BY <1>0, <1>1, Recursion
<1>3. Sums(f, m, a, n)
  <2>1. ASSUME NEW b \in 1 .. n PROVE f[b] = f[b - 1] + m[a + b - 1] * Bytes[b - 1]
    <3>1. b - 1 \in 0 .. n
      BY <1>0
    <3>2. f[b - 1] \in Nat
      BY <3>1
    <3>. QED  BY <1>2, <3>2 DEF Iterates
  <2>. QED  BY <1>2, <2>1 DEF Iterates, Sums
<1>4. ASSUME NEW k \in 0 .. n PROVE ReadMem(m, a, k) = f[k]
  <2>. DEFINE g == [b \in 0 .. k |-> f[b]]
  <2>1. k \in 0 .. WordBytes /\ k \in Nat /\ 0 .. k \subseteq 0 .. n
    BY <1>0, BytesIs
  <2>2. g \in [0 .. k -> Nat]
    BY <2>1
  <2>3. Sums(g, m, a, k)
    BY <1>0, <1>3, <2>1 DEF Sums, SumsTo
  <2>4. g[k] = f[k]
    BY <2>1
  <2>. HIDE DEF g
  <2>. QED  BY <2>1, <2>2, <2>3, <2>4, SumIs
<1>. QED  BY <1>3, <1>4 DEF SumsTo

(* A word depends on its bytes only. *)
LEMMA SameBytes ==
  ASSUME NEW n \in 0 .. WordBytes, NEW a \in Nat, NEW m, NEW m2,
         \A b \in 0 .. n - 1 : m[a + b] \in Nat /\ m2[a + b] = m[a + b]
  PROVE  ReadMem(m2, a, n) = ReadMem(m, a, n)
<1>0. n \in Nat
  BY BytesIs
<1>1. PICK f \in [0 .. n -> Nat] : SumsTo(f, m, a, n)
  <2>1. \A b \in 0 .. n - 1 : m[a + b] \in Nat
    OBVIOUS
  <2>. QED  BY <2>1, SumExists
<1>2. Sums(f, m2, a, n)
  <2>1. ASSUME NEW b \in 1 .. n PROVE m2[a + b - 1] = m[a + b - 1]
    <3>1. b - 1 \in 0 .. n - 1 /\ a + (b - 1) = a + b - 1
      BY <1>0
    <3>. QED  BY <3>1
  <2>. QED  BY <1>1, <2>1 DEF Sums, SumsTo
<1>3. ReadMem(m2, a, n) = f[n]
  BY <1>2, SumIs
<1>. QED  BY <1>0, <1>1, <1>3 DEF SumsTo

(* Two summands, each below its bound.                                     *)
LEMMA BelowSum ==
  ASSUME NEW g \in Nat, NEW d \in Nat, NEW z \in Int, NEW u \in Nat, g <= d - 1, u <= z - d
  PROVE  g + u \in Nat /\ g + u <= z - 1
OBVIOUS

(* What n bytes hold is less than Bytes[n]. *)
LEMMA ReadMemBound ==
  ASSUME NEW n \in 0 .. WordBytes, NEW a \in Nat, NEW m,
         \A b \in 0 .. n - 1 : m[a + b] \in 0 .. Byte - 1
  PROVE  ReadMem(m, a, n) \in 0 .. Bytes[n] - 1
<1>0. n \in Nat /\ Byte \in Nat
  BY BytesIs
<1>1. PICK f \in [0 .. n -> Nat] : SumsTo(f, m, a, n)
  <2>1. \A b \in 0 .. n - 1 : m[a + b] \in Nat
    BY <1>0
  <2>. QED  BY <2>1, SumExists
<1>. DEFINE P == {k \in Nat : f[k] \in 0 .. Bytes[k] - 1}
<1>2. 0 \in P
  BY <1>1, BytesIs DEF Sums, SumsTo
<1>3. ASSUME NEW k \in 0 .. n - 1, k \in P PROVE k + 1 \in P
  <2>1. k + 1 \in 1 .. n /\ k + 1 - 1 = k /\ a + (k + 1) - 1 = a + k
    BY <1>0
  <2>2. f[k + 1] = f[k] + m[a + k] * Bytes[k]
    BY <1>1, <2>1 DEF Sums, SumsTo
  <2>3. Bytes[k + 1] = Byte * Bytes[k] /\ Bytes[k] \in Nat
    <3>1. k \in 0 .. WordBytes - 1
      BY BytesIs
    <3>. QED  BY <3>1, BytesIs
  <2>4. m[a + k] \in Nat /\ m[a + k] <= Byte - 1 /\ f[k] \in Nat /\ f[k] <= Bytes[k] - 1
    BY <1>0, <1>3
  <2>. DEFINE x == m[a + k]
              y == Bytes[k]
  <2>5. x * y \in Nat /\ x * y <= Byte * y - y
    <3>. HIDE DEF x, y
    <3>1. x \in Nat /\ y \in Nat /\ x <= Byte - 1
      BY <2>3, <2>4 DEF x, y
    <3>2. x * y <= (Byte - 1) * y
      BY <1>0, <3>1
    <3>3. (Byte - 1) * y = Byte * y - y
      BY <1>0, <3>1
    <3>. QED  BY <1>0, <3>1, <3>2, <3>3
  <2>. HIDE DEF x
  <2>6. f[k + 1] = f[k] + x * Bytes[k]
    BY <2>2 DEF x
  <2>7. x * Bytes[k] \in Nat /\ x * Bytes[k] <= Byte * Bytes[k] - Bytes[k]
    BY <2>5
  <2>8. f[k + 1] \in Nat /\ f[k + 1] <= Byte * Bytes[k] - 1
    <3>. DEFINE z == Byte * Bytes[k]
                u == x * Bytes[k]
    <3>1. z \in Int /\ u \in Nat /\ u <= z - Bytes[k]
      BY <1>0, <2>3, <2>7
    <3>2. f[k + 1] = f[k] + u
      BY <2>6
    <3>. HIDE DEF z, u
    <3>. PICK g, d : g = f[k] /\ d = Bytes[k]
      OBVIOUS
    <3>3. g \in Nat /\ d \in Nat /\ g <= d - 1 /\ z \in Int /\ u \in Nat /\ u <= z - d
      BY <2>3, <2>4, <3>1
    <3>4. g + u \in Nat /\ g + u <= z - 1
      BY <3>3, BelowSum
    <3>. QED  BY <3>2, <3>4 DEF z
  <2>. QED  BY <1>0, <2>3, <2>8
<1>4. \A k \in 0 .. n : k \in P
  <2>. HIDE DEF P
  <2>. QED  BY <1>0, <1>2, <1>3, UpTo
<1>. QED  BY <1>0, <1>1, <1>4 DEF SumsTo

(* One digit more of a number. *)
LEMMA NextDigit ==
  ASSUME NEW n \in Nat, NEW c \in 0 .. WordBytes - 1
  PROVE  n % Bytes[c + 1] = (n % Bytes[c]) + ((n \div Bytes[c]) % Byte) * Bytes[c]
<1>. DEFINE B == Bytes[c]
            q == n \div B
            r == n % B
            p == q \div Byte
            d == q % Byte
<1>1. B \in Nat \ {0} /\ Byte \in Nat \ {0} /\ Bytes[c + 1] = Byte * B
  BY BytesIs
<1>2. q \in Int /\ r \in 0 .. B - 1 /\ n = q * B + r
  <2>. HIDE DEF B
  <2>1. n \in Int
    OBVIOUS
  <2>. QED  BY <1>1, <2>1, Divide
<1>3. p \in Int /\ d \in 0 .. Byte - 1 /\ q = p * Byte + d
  <2>. HIDE DEF q
  <2>1. q \in Int
    BY <1>2
  <2>. QED  BY <1>1, <2>1, Divide
<1>. HIDE DEF p, d, q, r, B
<1>4. d * B \in Nat /\ d * B <= Byte * B - B /\ Byte * B \in Nat \ {0}
  <2>1. d * B <= (Byte - 1) * B
    BY <1>1, <1>3
  <2>2. (Byte - 1) * B = Byte * B - B
    BY <1>1
  <2>3. d * B \in Nat /\ Byte * B \in Nat \ {0}
    BY <1>1, <1>3
  <2>. QED  BY <2>1, <2>2, <2>3
<1>5. q * B = p * (Byte * B) + d * B
  <2>1. (p * Byte + d) * B = p * (Byte * B) + d * B
    BY <1>1, <1>3
  <2>. QED  BY <1>3, <2>1
<1>6. n = p * (Byte * B) + (r + d * B)
  <2>. DEFINE x == q * B
              y == p * (Byte * B)
              z == d * B
  <2>1. x \in Int /\ y \in Int /\ z \in Int /\ x = y + z /\ n = x + r /\ r \in Int
    BY <1>1, <1>2, <1>3, <1>5
  <2>. HIDE DEF x, y, z
  <2>2. n = y + (r + z)
    BY <2>1
  <2>. QED  BY <2>2 DEF y, z
<1>7. r + d * B \in 0 .. Byte * B - 1
  <2>. DEFINE z == d * B
              u == Byte * B
  <2>1. z \in Nat /\ u \in Nat /\ z <= u - B
    BY <1>4
  <2>. HIDE DEF z, u
  <2>2. r + z \in 0 .. u - 1
    BY <1>1, <1>2, <2>1
  <2>. QED  BY <2>2 DEF z, u
<1>8. n % (Byte * B) = r + d * B
  <2>. DEFINE D == Byte * B
              z == r + d * B
  <2>1. D \in Nat \ {0} /\ z \in 0 .. D - 1 /\ n = p * D + z /\ p \in Int /\ n \in Int
    BY <1>3, <1>4, <1>6, <1>7
  <2>. HIDE DEF D, z
  <2>2. n % D = z
    BY <2>1, DivMod
  <2>. QED  BY <2>2 DEF D, z
<1>. QED  BY <1>1, <1>8 DEF p, d, q, r, B

(* The digits of a number, read back. *)
LEMMA ReadDigits ==
  ASSUME NEW w \in 0 .. WordBytes, NEW a \in Nat, NEW m, NEW n \in Nat,
         \A b \in 0 .. w - 1 : m[a + b] = (n \div Bytes[b]) % Byte
  PROVE  ReadMem(m, a, w) = n % Bytes[w]
<1>0. w \in Nat
  BY BytesIs
<1>. DEFINE f == [b \in 0 .. w |-> n % Bytes[b]]
<1>1. f \in [0 .. w -> Nat]
  <2>1. ASSUME NEW b \in 0 .. w PROVE n % Bytes[b] \in Nat
    <3>1. Bytes[b] \in Nat \ {0}
      BY BytesIs
    <3>2. n % Bytes[b] \in 0 .. Bytes[b] - 1
      <4>. n \in Int
        OBVIOUS
      <4>. QED  BY <3>1, Divide
    <3>. QED  BY <3>1, <3>2
  <2>. QED  BY <2>1
<1>2. f[0] = 0
  <2>1. n = n * 1 + 0 /\ 0 \in 0 .. 1 - 1
    OBVIOUS
  <2>2. n % 1 = 0
    BY <2>1, DivMod
  <2>. QED  BY <1>0, <2>2, BytesIs
<1>3. ASSUME NEW b \in 1 .. w PROVE f[b] = f[b - 1] + m[a + b - 1] * Bytes[b - 1]
  <2>1. b - 1 \in 0 .. w - 1 /\ b - 1 \in 0 .. WordBytes - 1 /\ b - 1 + 1 = b
        /\ a + (b - 1) = a + b - 1 /\ b \in 0 .. w /\ b - 1 \in 0 .. w
    BY <1>0, BytesIs
  <2>2. m[a + b - 1] = (n \div Bytes[b - 1]) % Byte
    BY <2>1
  <2>3. n % Bytes[b - 1 + 1] = (n % Bytes[b - 1]) + ((n \div Bytes[b - 1]) % Byte) * Bytes[b - 1]
    BY <2>1, NextDigit
  <2>. QED  BY <2>1, <2>2, <2>3
<1>4. Sums(f, m, a, w)
  <2>. HIDE DEF f
  <2>. QED  BY <1>2, <1>3 DEF Sums
<1>5. ReadMem(m, a, w) = f[w]
  <2>. HIDE DEF f
  <2>. QED  BY <1>1, <1>4, SumIs
<1>. QED  BY <1>0, <1>5

(* A narrower access reads all of it if that is all there is. *)
LEMMA ReadNarrow ==
  ASSUME NEW w \in 0 .. WordBytes, NEW a \in Nat, NEW m,
         \A b \in 0 .. WordBytes - 1 : m[a + b] \in 0 .. Byte - 1,
         ReadMem(m, a, WordBytes) < Bytes[w]
  PROVE  ReadMem(m, a, w) = ReadMem(m, a, WordBytes)
<1>0. w \in Nat /\ WordBytes \in Nat /\ Byte \in Nat /\ w <= WordBytes
  BY BytesIs
<1>1. PICK f \in [0 .. WordBytes -> Nat] : SumsTo(f, m, a, WordBytes)
  <2>1. \A b \in 0 .. WordBytes - 1 : m[a + b] \in Nat
    BY <1>0
  <2>2. WordBytes \in 0 .. WordBytes
    BY <1>0
  <2>. QED  BY <2>1, <2>2, SumExists
<1>. DEFINE P == {k \in Nat : k >= w => \E z \in Nat : f[k] = f[w] + z * Bytes[w]}
<1>2. 0 \in P
  <2>1. 0 >= w => f[0] = f[w] + 0 * Bytes[w]
    BY <1>0, BytesIs
  <2>. QED  BY <2>1
<1>3. ASSUME NEW k \in 0 .. WordBytes - 1, k \in P PROVE k + 1 \in P
  <2>1. CASE k >= w
    <3>1. PICK z \in Nat : f[k] = f[w] + z * Bytes[w]
      BY <1>3, <2>1
    <3>2. PICK q \in Nat \ {0} : Bytes[k] = q * Bytes[w]
      BY <2>1, <1>0, BytesFactor
    <3>3. k + 1 \in 1 .. WordBytes /\ k + 1 - 1 = k /\ a + (k + 1) - 1 = a + k
      BY <1>0
    <3>4. f[k + 1] = f[k] + m[a + k] * Bytes[k]
      BY <1>1, <3>3 DEF SumsTo, Sums
    <3>5. m[a + k] \in Nat /\ Bytes[w] \in Nat /\ f[w] \in Nat
      BY <1>0, BytesIs
    <3>. DEFINE x == m[a + k]
                y == Bytes[w]
    <3>6. f[k + 1] = f[w] + (z + x * q) * y
      <4>1. f[k + 1] = (f[w] + z * y) + x * (q * y)
        BY <3>1, <3>2, <3>4
      <4>. HIDE DEF x, y
      <4>2. x \in Nat /\ y \in Nat
        BY <3>5 DEF x, y
      <4>3. x * (q * y) = (x * q) * y
        BY <4>2
      <4>4. z * y + (x * q) * y = (z + x * q) * y
        BY <4>2
      <4>. QED  BY <3>5, <4>1, <4>2, <4>3, <4>4
    <3>7. z + x * q \in Nat
      <4>1. x \in Nat
        BY <3>5
      <4>. HIDE DEF x
      <4>. QED  BY <4>1
    <3>8. k + 1 \in Nat /\ \E z2 \in Nat : f[k + 1] = f[w] + z2 * Bytes[w]
      BY <3>6, <3>7
    <3>. HIDE DEF x, y
    <3>. QED  BY <3>8
  <2>2. CASE w = k + 1
    <3>1. f[k + 1] = f[w] + 0 * Bytes[w]
      <4>1. f[w] \in Nat /\ Bytes[w] \in Nat
        BY <1>0, BytesIs
      <4>. QED  BY <2>2, <4>1
    <3>. QED  BY <3>1
  <2>3. CASE ~ w <= k + 1
    BY <1>0, <2>3
  <2>. QED  BY <1>0, <2>1, <2>2, <2>3
<1>4. \A k \in 0 .. WordBytes : k \in P
  <2>. HIDE DEF P
  <2>. QED  BY <1>0, <1>2, <1>3, UpTo
<1>5. PICK z \in Nat : f[WordBytes] = f[w] + z * Bytes[w]
  BY <1>0, <1>4
<1>6. ReadMem(m, a, WordBytes) = f[WordBytes] /\ ReadMem(m, a, w) = f[w]
  BY <1>0, <1>1 DEF SumsTo
<1>7. z = 0
  <2>1. z >= 1 => z * Bytes[w] >= 1 * Bytes[w]
    <3>. DEFINE y == Bytes[w]
    <3>1. y \in Nat
      BY BytesIs
    <3>. HIDE DEF y
    <3>2. z >= 1 => z * y >= 1 * y
      BY <3>1
    <3>. QED  BY <3>2 DEF y
  <2>2. f[w] \in Nat /\ Bytes[w] \in Nat /\ Bytes[w] > 0
    BY <1>0, BytesIs
  <2>3. z * Bytes[w] \in Nat
    BY <2>2
  <2>. QED  BY <1>5, <1>6, <2>1, <2>2, <2>3
<1>8. f[w] \in Nat /\ Bytes[w] \in Nat
  BY <1>0, BytesIs
<1>. QED  BY <1>5, <1>6, <1>7, <1>8

(* Nothing but zeros above. *)
LEMMA ReadZeros ==
  ASSUME NEW w \in 0 .. WordBytes, NEW a \in Nat, NEW m,
         \A b \in 0 .. WordBytes - 1 : m[a + b] \in Nat,
         \A b \in w .. WordBytes - 1 : m[a + b] = 0
  PROVE  ReadMem(m, a, WordBytes) = ReadMem(m, a, w)
<1>0. w \in Nat /\ WordBytes \in Nat /\ w <= WordBytes
  BY BytesIs
<1>1. PICK f \in [0 .. WordBytes -> Nat] : SumsTo(f, m, a, WordBytes)
  <2>1. WordBytes \in 0 .. WordBytes
    BY <1>0
  <2>. QED  BY <2>1, SumExists
<1>. DEFINE P == {k \in Nat : k >= w => f[k] = f[w]}
<1>2. 0 \in P
  BY <1>0
<1>3. ASSUME NEW k \in 0 .. WordBytes - 1, k \in P PROVE k + 1 \in P
  <2>1. CASE k >= w
    <3>1. k + 1 \in 1 .. WordBytes /\ k + 1 - 1 = k /\ a + (k + 1) - 1 = a + k
      BY <1>0
    <3>2. f[k + 1] = f[k] + m[a + k] * Bytes[k]
      BY <1>1, <3>1 DEF SumsTo, Sums
    <3>3. m[a + k] = 0 /\ Bytes[k] \in Nat /\ f[k] \in Nat
      BY <1>0, <2>1, BytesIs
    <3>4. m[a + k] * Bytes[k] = 0
      BY <3>3
    <3>. QED  BY <1>3, <2>1, <3>2, <3>3, <3>4
  <2>2. CASE ~ k >= w
    BY <1>0, <2>2
  <2>. QED  BY <2>1, <2>2
<1>4. \A k \in 0 .. WordBytes : k \in P
  <2>. HIDE DEF P
  <2>. QED  BY <1>0, <1>2, <1>3, UpTo
<1>. QED  BY <1>0, <1>1, <1>4 DEF SumsTo

Memory == [Addresses -> 0 .. Byte - 1]
InData(a, w) == a \in Addresses /\ a + w - 1 \in Addresses

(* The bytes of an access inside the data are addresses of it.             *)
LEMMA Data ==
  ASSUME NEW a, NEW w \in 1 .. WordBytes, InData(a, w)
  PROVE  a \in Nat /\ \A b \in 0 .. w - 1 : a + b \in Addresses
BY MemoryAssumption DEF InData, Addresses

(* What is stored in one address is a byte.                                *)
LEMMA Digits ==
  ASSUME NEW n \in Nat, NEW b \in 0 .. WordBytes
  PROVE  (n \div Bytes[b]) % Byte \in 0 .. Byte - 1
<1>1. Bytes[b] \in Nat \ {0} /\ Byte \in Nat \ {0} /\ n \in Int
  BY BytesIs
<1>2. n \div Bytes[b] \in Int
  BY <1>1, Divide
<1>. QED  BY <1>1, <1>2, Divide

(* A store leaves a memory.                                                *)
LEMMA WriteType ==
  ASSUME NEW m \in Memory, NEW a \in Nat, NEW w \in 1 .. WordBytes, NEW n \in Nat
  PROVE  WriteMem(m, a, w, n) \in Memory
<1>1. ASSUME NEW b \in Addresses, b \in a .. a + w - 1
      PROVE  (n \div Bytes[b - a]) % Byte \in 0 .. Byte - 1
  <2>1. b - a \in 0 .. WordBytes
    BY <1>1, BytesIs
  <2>. QED  BY <2>1, Digits
<1>2. \A b \in Addresses : m[b] \in 0 .. Byte - 1
  BY DEF Memory
<1>. QED  BY <1>1, <1>2 DEF WriteMem, Memory

(* A load reads what a store of the same width and address wrote, cut to   *)
(* the width.                                                              *)
LEMMA WrittenWord ==
  ASSUME NEW m, NEW a, NEW w \in 1 .. WordBytes, NEW n \in Nat, InData(a, w)
  PROVE  ReadMem(WriteMem(m, a, w, n), a, w) = n % Bytes[w]
<1>. DEFINE m2 == WriteMem(m, a, w, n)
<1>1. a \in Nat /\ w \in 0 .. WordBytes
  BY Data
<1>2. \A b \in 0 .. w - 1 : m2[a + b] = (n \div Bytes[b]) % Byte
  <2>. TAKE b \in 0 .. w - 1
  <2>1. a + b \in Addresses /\ a + b \in a .. a + w - 1 /\ (a + b) - a = b
    BY Data, BytesIs
  <2>. QED  BY <2>1 DEF WriteMem
<1>. HIDE DEF m2
<1>3. ReadMem(m2, a, w) = n % Bytes[w]
  BY <1>1, <1>2, ReadDigits
<1>. QED  BY <1>3 DEF m2

(* A word is read as it was written.                                       *)
LEMMA WholeWord ==
  ASSUME NEW m, NEW a, NEW n \in Value, InData(a, WordBytes)
  PROVE  ReadMem(WriteMem(m, a, WordBytes, n), a, WordBytes) = n
<1>1. WordBytes \in 1 .. WordBytes /\ n \in Nat /\ Bytes[WordBytes] = Word
  BY BytesIs, Parts DEF Value
<1>2. n % Word = n
  <2>1. n = 0 * Word + n /\ n \in 0 .. Word - 1 /\ n \in Int
    BY Parts DEF Value
  <2>. QED  BY <2>1, Parts, DivMod
<1>3. ReadMem(WriteMem(m, a, WordBytes, n), a, WordBytes) = n % Bytes[WordBytes]
  BY <1>1, WrittenWord
<1>. QED  BY <1>1, <1>2, <1>3

(* A load of w bytes reads a number of w bytes.                            *)
LEMMA ReadType ==
  ASSUME NEW m \in Memory, NEW a, NEW w \in 1 .. WordBytes, InData(a, w)
  PROVE  ReadMem(m, a, w) \in 0 .. Bytes[w] - 1 /\ ReadMem(m, a, w) \in Value
<1>1. a \in Nat /\ w \in 0 .. WordBytes /\ \A b \in 0 .. w - 1 : m[a + b] \in 0 .. Byte - 1
  BY Data DEF Memory
<1>2. ReadMem(m, a, w) \in 0 .. Bytes[w] - 1
  BY <1>1, ReadMemBound
<1>3. Bytes[w] \in Nat /\ Bytes[w] <= Word /\ Word \in Nat
  BY <1>1, BytesUpToWord, Parts
<1>. QED  BY <1>2, <1>3 DEF Value

(* A store leaves the bytes outside of it alone.                           *)
LEMMA OtherBytes ==
  ASSUME NEW m \in Memory, NEW a \in Nat, NEW w \in 1 .. WordBytes, NEW n \in Nat,
         NEW c \in Addresses, ~ (c \in a .. a + w - 1)
  PROVE  WriteMem(m, a, w, n)[c] = m[c]
BY DEF WriteMem

(* A store leaves the words apart from it alone.                           *)
LEMMA OtherWord ==
  ASSUME NEW m \in Memory, NEW a \in Nat, NEW w \in 1 .. WordBytes, NEW n \in Nat,
         NEW b, InData(b, WordBytes), Apart(a, b)
  PROVE  ReadMem(WriteMem(m, a, w, n), b, WordBytes) = ReadMem(m, b, WordBytes)
<1>. DEFINE m2 == WriteMem(m, a, w, n)
<1>1. WordBytes \in 1 .. WordBytes /\ WordBytes \in Nat
  BY BytesIs
<1>2. b \in Nat /\ \A c \in 0 .. WordBytes - 1 : b + c \in Addresses
  BY <1>1, Data
<1>3. \A c \in 0 .. WordBytes - 1 : m[b + c] \in Nat /\ m2[b + c] = m[b + c]
  <2>. TAKE c \in 0 .. WordBytes - 1
  <2>1. ~ (b + c \in a .. a + w - 1)
    BY <1>1, <1>2 DEF Apart
  <2>2. b + c \in Addresses
    BY <1>2
  <2>3. m[b + c] \in 0 .. Byte - 1
    BY <2>2 DEF Memory
  <2>. QED  BY <2>1, <2>2, <2>3, OtherBytes, BytesIs
<1>4. WordBytes \in 0 .. WordBytes
  BY <1>1
<1>. HIDE DEF m2
<1>5. ReadMem(m2, b, WordBytes) = ReadMem(m, b, WordBytes)
  BY <1>2, <1>3, <1>4, SameBytes
<1>. QED  BY <1>5 DEF m2

(* A narrow store into a word of zeros. *)
LEMMA NarrowStore ==
  ASSUME NEW m \in Memory, NEW a, NEW w \in 1 .. WordBytes, NEW n \in Nat, InData(a, WordBytes),
         \A c \in 0 .. WordBytes - 1 : m[a + c] = 0
  PROVE  ReadMem(WriteMem(m, a, w, n), a, WordBytes) = n % Bytes[w]
<1>. DEFINE m2 == WriteMem(m, a, w, n)
<1>1. WordBytes \in 1 .. WordBytes /\ WordBytes \in Nat /\ w \in 0 .. WordBytes
  BY BytesIs
<1>2. a \in Nat /\ \A c \in 0 .. WordBytes - 1 : a + c \in Addresses
  BY <1>1, Data
<1>3. InData(a, w)
  <2>1. w - 1 \in 0 .. WordBytes - 1 /\ a + (w - 1) = a + w - 1
    BY <1>1, <1>2
  <2>. QED  BY <1>2, <2>1 DEF InData
<1>4. m2 \in Memory
  BY <1>2, WriteType
<1>5. \A c \in 0 .. WordBytes - 1 : m2[a + c] \in Nat
  BY <1>2, <1>4, BytesIs DEF Memory
<1>6. \A c \in w .. WordBytes - 1 : m2[a + c] = 0
  <2>. TAKE c \in w .. WordBytes - 1
  <2>1. c \in 0 .. WordBytes - 1 /\ ~ (a + c \in a .. a + w - 1)
    BY <1>1, <1>2
  <2>2. a + c \in Addresses /\ m[a + c] = 0
    BY <1>2, <2>1
  <2>. QED  BY <1>2, <2>1, <2>2, OtherBytes
<1>7. ReadMem(m2, a, w) = n % Bytes[w]
  BY <1>3, WrittenWord
<1>. HIDE DEF m2
<1>8. ReadMem(m2, a, WordBytes) = ReadMem(m2, a, w)
  BY <1>1, <1>2, <1>5, <1>6, ReadZeros
<1>. QED  BY <1>7, <1>8 DEF m2

(* The end of an item is that of the item before it plus its size.         *)
LEMMA Ends0 ==
  ASSUME NEW n \in Nat, Len(text) = n,
         DOMAIN text = 1 .. n, SizesOK
  PROVE  /\ End[0] = 0
         /\ \A j \in 1 .. n : End[j] = End[j - 1] + text[j].size
         /\ \A j \in 0 .. n : End[j] \in Nat
<1>. DEFINE Def(f) == f = [j \in 0 .. Len(text) |-> IF j = 0 THEN 0 ELSE f[j - 1] + text[j].size]
            h == [j \in 1 .. n |-> [x \in Nat |-> x + text[j].size]]
<1>1. h \in [1 .. n -> [Nat -> Nat]]
  BY DEF SizesOK
<1>2. PICK f \in [0 .. n -> Nat] : Iterates(f, n, 0, h)
  <2>. HIDE DEF h
  <2>. QED  BY <1>1, Recursion
<1>3. ASSUME NEW j \in 1 .. n PROVE f[j] = f[j - 1] + text[j].size
  <2>1. f[j - 1] \in Nat
    OBVIOUS
  <2>. QED  BY <1>2, <2>1 DEF Iterates
<1>4. Def(f)
  <2>1. f = [j \in 0 .. n |-> f[j]]
    OBVIOUS
  <2>2. \A j \in 0 .. n : f[j] = IF j = 0 THEN 0 ELSE f[j - 1] + text[j].size
    BY <1>2, <1>3 DEF Iterates
  <2>. QED  BY <2>1, <2>2
<1>5. End = CHOOSE f2 : Def(f2)
  BY DEF End
<1>6. Def(End)
  <2>. HIDE DEF Def
  <2>. QED  BY <1>4, <1>5
<1>7. \A j \in 0 .. n : End[j] = IF j = 0 THEN 0 ELSE End[j - 1] + text[j].size
  BY <1>6
<1>. HIDE DEF Def
<1>8. End[0] = 0 /\ \A j \in 1 .. n : End[j] = End[j - 1] + text[j].size
  BY <1>7
<1>9. \A j \in 0 .. n : End[j] \in Nat
  <2>. DEFINE P == {j \in Nat : End[j] \in Nat}
  <2>1. 0 \in P
    BY <1>8
  <2>2. ASSUME NEW j \in 0 .. n - 1, j \in P PROVE j + 1 \in P
    <3>1. j + 1 \in 1 .. n /\ j + 1 - 1 = j /\ text[j + 1].size \in Nat
      BY DEF SizesOK
    <3>. QED  BY <1>8, <2>2, <3>1
  <2>3. \A j \in 0 .. n : j \in P
    <3>. HIDE DEF P
    <3>. QED  BY <2>1, <2>2, UpTo
  <2>. QED  BY <2>3
<1>. QED  BY <1>8, <1>9

(* Later items end later: no two items have the same address.              *)
LEMMA EndsGrow ==
  ASSUME NEW n \in Nat, Len(text) = n, DOMAIN text = 1 .. n, SizesOK,
         NEW i \in 0 .. n, NEW j \in 0 .. n, i < j
  PROVE  End[i] < End[j]
<1>. DEFINE P == {k \in Nat : i < k => End[i] < End[k]}
<1>1. 0 \in P
  OBVIOUS
<1>2. ASSUME NEW k \in 0 .. n - 1, k \in P PROVE k + 1 \in P
  <2>1. k + 1 \in 1 .. n /\ k + 1 - 1 = k /\ text[k + 1].size \in Nat \ {0}
    BY DEF SizesOK
  <2>2. End[k + 1] = End[k] + text[k + 1].size
    BY <2>1, Ends0
  <2>3. End[k] \in Nat /\ End[i] \in Nat
    BY Ends0
  <2>. QED  BY <1>2, <2>1, <2>2, <2>3
<1>3. \A k \in 0 .. n : k \in P
  <2>. HIDE DEF P
  <2>. QED  BY <1>1, <1>2, UpTo
<1>. QED  BY <1>3

(* The item at an address. *)
LEMMA HereIs ==
  ASSUME NEW n \in Nat, Len(text) = n, DOMAIN text = 1 .. n, SizesOK,
         NEW p \in DOMAIN text, pc = End[p - 1]
  PROVE  OnItem /\ Here = text[p]
<1>. DEFINE c == CHOOSE j \in DOMAIN text : End[j - 1] = pc
<1>1. c \in DOMAIN text /\ End[c - 1] = pc
  OBVIOUS
<1>. HIDE DEF c
<1>2. c = p
  <2>1. c - 1 \in 0 .. n /\ p - 1 \in 0 .. n /\ c \in Int /\ p \in Int
    BY <1>1
  <2>2. ~ (c - 1 < p - 1) /\ ~ (p - 1 < c - 1)
    <3>1. End[c - 1] \in Nat /\ End[p - 1] \in Nat
      BY <2>1, Ends0
    <3>. QED  BY <1>1, <2>1, <3>1, EndsGrow
  <2>. QED  BY <2>1, <2>2
<1>3. Here = text[c]
  BY DEF Here, c
<1>. QED  BY <1>2, <1>3 DEF OnItem

-----------------------------------------------------------------------------
(* The instruction on the machine.                                         *)

(* A state of the operation on the machine. *)
MState == [x : [Vars -> Value], ea : Value, acc : Value, mem : Memory,
           jumped : BOOLEAN, to : Value, ok : BOOLEAN]

(* A step of the machine keeps the type of its state.                      *)
LEMMA ExecuteType ==
  ASSUME inst \in Instruction, NEW s \in MState, NEW k \in DOMAIN inst.script
  PROVE  Execute(s, inst.script[k]) \in MState
<1>. DEFINE step == inst.script[k]
            z == step.v
            w == step.width
            r == Execute(s, step)
<1>1. z \in Vars /\ w \in 1 .. WordBytes /\ step.do \in {"addr", "add", "out", "ld", "st", "jump"}
  BY StepFormed DEF Vars
<1>. HIDE DEF step
<1>2. s.x[z] \in Value /\ s.ea \in Value /\ s.acc \in Value /\ s.mem \in Memory
  BY <1>1 DEF MState
<1>. DEFINE a == s.ea
            b == s.x[z]
            c == s.acc
            m == s.mem
            d == IF impl = "out" THEN 1 ELSE 0
            ea == (a + b) % Word
            acc == (c + b) % Word
            out == (c + d) % Word
            got == ReadMem(m, a, w)
            load == (c + got) % Word
            m2 == WriteMem(m, a, w, b)
<1>3. a \in Value /\ b \in Value /\ c \in Value /\ m \in Memory /\ d \in Nat
  BY <1>2
<1>. HIDE DEF a, b, c, d, m, z, w, got
<1>4. ea \in Value /\ acc \in Value
  BY <1>3, AddWord
<1>5. out \in Value
  <2>. DEFINE n == c + d
  <2>1. n \in Nat
    BY <1>3, ValueNat
  <2>. HIDE DEF n
  <2>2. n % Word \in Value
    BY <2>1, ModWord
  <2>. QED  BY <2>2 DEF n
<1>6. Mapped(a, w) => load \in Value
  <2>1. SUFFICES ASSUME Mapped(a, w) PROVE load \in Value
    OBVIOUS
  <2>2. InData(a, w)
    BY <2>1 DEF Mapped, InData
  <2>3. got \in Value
    BY <1>1, <1>3, <2>2, ReadType DEF got
  <2>. QED  BY <1>3, <2>3, AddWord
<1>7. m2 \in Memory
  BY <1>1, <1>3, ValueNat, WriteType
<1>8. r = IF ~ s.ok \/ ~ Taken(step, c) THEN s
          ELSE CASE step.do = "addr" -> [s EXCEPT !.ea = ea]
                 [] step.do = "add"  -> [s EXCEPT !.acc = acc]
                 [] step.do = "out"  -> [s EXCEPT !.x = [s.x EXCEPT ![z] = out]]
                 [] step.do = "jump" -> IF impl = "jump" THEN s ELSE [s EXCEPT !.jumped = TRUE, !.to = b]
                 [] step.do = "ld"   -> IF Mapped(a, w) THEN [s EXCEPT !.acc = load] ELSE [s EXCEPT !.ok = FALSE]
                 [] step.do = "st"   -> IF ~ Mapped(a, w) THEN [s EXCEPT !.ok = FALSE]
                                        ELSE IF impl = "store" THEN s
                                        ELSE [s EXCEPT !.mem = m2]
  BY DEF Execute, a, b, c, d, m, z, w, got
<1>. HIDE DEF r, ea, acc, out, load, m2
<1>9. [s.x EXCEPT ![z] = out] \in [Vars -> Value]
  BY <1>1, <1>5 DEF MState
<1>. DEFINE x == [s.x EXCEPT ![z] = out]
<1>. HIDE DEF x
<1>10. s \in MState /\ [s EXCEPT !.ea = ea] \in MState /\ [s EXCEPT !.acc = acc] \in MState
  BY <1>4 DEF MState
<1>11. [s EXCEPT !.x = x] \in MState
  BY <1>9 DEF MState, x
<1>12. [s EXCEPT !.jumped = TRUE, !.to = b] \in MState /\ [s EXCEPT !.ok = FALSE] \in MState
       /\ [s EXCEPT !.mem = m2] \in MState /\ (Mapped(a, w) => [s EXCEPT !.acc = load] \in MState)
  BY <1>3, <1>6, <1>7 DEF MState
<1>13. r \in MState
  BY <1>1, <1>8, <1>10, <1>11, <1>12 DEF x
<1>. QED  BY <1>13 DEF r, step

(* The states of the operation that ends in Effect. *)
EffectOf(f, operands) ==
  /\ f[0] = Reset(operands)
  /\ \A k \in 1 .. Len(inst.script) : f[k] = Execute(f[k - 1], inst.script[k])
  /\ Effect(operands) = f[Len(inst.script)]

(* The effect of an instruction is the recursion over its script.          *)
LEMMA EffectRun ==
  ASSUME inst \in Instruction, NEW operands, Reset(operands) \in MState
  PROVE  \E f \in [0 .. Len(inst.script) -> MState] : EffectOf(f, operands)
<1>. DEFINE n == Len(inst.script)
            Def(g) == g = [k \in 0 .. n |-> IF k = 0 THEN Reset(operands)
                                            ELSE Execute(g[k - 1], inst.script[k])]
            h == [k \in 1 .. n |-> [s \in MState |-> Execute(s, inst.script[k])]]
            b == Reset(operands)
            g0 == CHOOSE g : Def(g)
<1>0. n \in Nat /\ DOMAIN inst.script = 1 .. n
  BY Formed
<1>1. h \in [1 .. n -> [MState -> MState]] /\ b \in MState
  BY <1>0, ExecuteType
<1>2. PICK f \in [0 .. n -> MState] : Iterates(f, n, b, h)
  <2>. HIDE DEF n, h, b
  <2>. QED  BY <1>0, <1>1, Recursion
<1>. HIDE DEF b
<1>3. f[0] = b /\ \A k \in 1 .. n : f[k] = Execute(f[k - 1], inst.script[k])
  <2>1. \A k \in 1 .. n : f[k] = h[k][f[k - 1]]
    <3>. HIDE DEF h, n
    <3>. QED  BY <1>2 DEF Iterates
  <2>2. f[0] = b
    BY <1>2 DEF Iterates
  <2>3. \A k \in 1 .. n : f[k - 1] \in MState
    BY <1>0
  <2>4. \A k \in 1 .. n : \A s \in MState : h[k][s] = Execute(s, inst.script[k])
    OBVIOUS
  <2>. HIDE DEF h, n
  <2>. QED  BY <2>1, <2>2, <2>3, <2>4
<1>4. Def(f)
  <2>1. f = [k \in 0 .. n |-> f[k]]
    OBVIOUS
  <2>2. \A k \in 0 .. n : f[k] = IF k = 0 THEN b ELSE Execute(f[k - 1], inst.script[k])
    BY <1>0, <1>3
  <2>. HIDE DEF n
  <2>. QED  BY <2>1, <2>2 DEF b
<1>5. Effect(operands) = g0[n]
  BY DEF Effect
<1>6. Def(g0)
  <2>. HIDE DEF Def
  <2>. QED  BY <1>4
<1>. HIDE DEF g0
<1>7. g0[0] = b /\ \A k \in 1 .. n : g0[k] = Execute(g0[k - 1], inst.script[k])
  <2>1. \A k \in 0 .. n : g0[k] = IF k = 0 THEN b ELSE Execute(g0[k - 1], inst.script[k])
    BY <1>6 DEF b
  <2>. QED  BY <1>0, <2>1
<1>8. \A k \in 0 .. n : g0[k] = f[k]
  <2>. DEFINE P == {k \in Nat : g0[k] = f[k]}
  <2>1. 0 \in P
    BY <1>3, <1>7
  <2>2. ASSUME NEW k \in 0 .. n - 1, k \in P PROVE k + 1 \in P
    <3>1. k + 1 \in 1 .. n /\ k + 1 - 1 = k
      BY <1>0
    <3>. QED  BY <1>3, <1>7, <2>2, <3>1
  <2>. HIDE DEF P, n
  <2>3. \A k \in 0 .. n : k \in P
    BY <1>0, <2>1, <2>2, UpTo
  <2>. QED  BY <2>3 DEF P
<1>9. Effect(operands) = f[n]
  BY <1>0, <1>5, <1>8
<1>. QED  BY <1>3, <1>9 DEF EffectOf, b

(* A jumping operation reads only what it has not written.                 *)
LEMMA JumpFormed ==
  ASSUME NEW i \in Instruction, NEW k \in DOMAIN i.script, i.script[k].do = "jump"
  PROVE  /\ k = Len(i.script) /\ i.vars[i.script[k].v].role = "imm"
         /\ i.rdLast \/ i.cskip
         /\ \A l \in DOMAIN i.script :
              /\ i.script[l].do \notin {"ld", "st"}
              /\ i.script[l].do = "out" => \A m \in l + 1 .. k : i.script[m].v # i.script[l].v
BY InstructionAssumption DEF WellFormed

(* Only the last step of a script jumps.                                   *)
LEMMA NotYetJumped ==
  ASSUME inst \in Instruction, NEW operands, NEW f \in [0 .. Len(inst.script) -> MState],
         EffectOf(f, operands)
  PROVE  \A k \in 0 .. Len(inst.script) - 1 : ~ f[k].jumped
<1>. DEFINE n == Len(inst.script)
            P == {k \in Nat : k < n => ~ f[k].jumped}
<1>0. n \in Nat /\ DOMAIN inst.script = 1 .. n
  BY Formed
<1>1. 0 \in P
  BY DEF EffectOf, Reset
<1>2. ASSUME NEW k \in 0 .. n - 1, k \in P PROVE k + 1 \in P
  <2>1. CASE k + 1 = n
    BY <2>1
  <2>2. CASE k + 1 # n
    <3>1. k + 1 \in DOMAIN inst.script /\ k + 1 - 1 = k /\ ~ f[k].jumped
      BY <1>0, <1>2, <2>2
    <3>2. inst.script[k + 1].do # "jump"
      BY <2>2, <3>1, JumpFormed
    <3>3. f[k + 1] = Execute(f[k], inst.script[k + 1])
      BY <1>0, <3>1 DEF EffectOf
    <3>4. f[k] \in MState /\ inst.script[k + 1].do \in {"addr", "add", "out", "ld", "st"}
      BY <1>0, <3>1, <3>2, StepFormed
    <3>. DEFINE step == inst.script[k + 1]
                s == f[k]
    <3>. HIDE DEF step, s
    <3>5. Execute(s, step).jumped = s.jumped
      BY <3>4 DEF Execute, MState, s, step
    <3>. QED  BY <3>1, <3>3, <3>5 DEF s, step
  <2>. QED  BY <2>1, <2>2
<1>3. \A k \in 0 .. n : k \in P
  <2>. HIDE DEF P, n
  <2>. QED  BY <1>0, <1>1, <1>2, UpTo
<1>. QED  BY <1>0, <1>3

(* Before the jump the machine and the harness agree on the sum and on the *)
(* variables that are still read, whatever the implementation gets wrong.  *)
LEMMA JumpStep ==
  ASSUME inst \in Instruction, NEW s \in MState, NEW q \in KState(inst), s.ok, ~ q.valid,
         NEW n \in Nat, n = Len(inst.script), inst.script[n].do = "jump",
         NEW k \in 1 .. n - 1, s.acc = q.acc,
         \A m \in k .. n : s.x[inst.script[m].v] = q.x[inst.script[m].v]
  PROVE  LET s2 == Execute(s, inst.script[k])
             q2 == KStep(inst, q, inst.script[k])
         IN  /\ s2.ok /\ ~ q2.valid /\ s2.acc = q2.acc
             /\ \A m \in k + 1 .. n : s2.x[inst.script[m].v] = q2.x[inst.script[m].v]
<1>. DEFINE step == inst.script[k]
            z == step.v
            s2 == Execute(s, step)
            q2 == KStep(inst, q, step)
            vv(m) == inst.script[m].v
            Goal == /\ s2.ok /\ ~ q2.valid /\ s2.acc = q2.acc
                    /\ \A m \in k + 1 .. n : s2.x[vv(m)] = q2.x[vv(m)]
<1>. SUFFICES Goal
  OBVIOUS
<1>0. DOMAIN inst.script = 1 .. n /\ n \in DOMAIN inst.script /\ k \in DOMAIN inst.script
  BY Formed
<1>1. step.do \in {"addr", "add", "out"} /\ z \in DOMAIN inst.vars
  <2>1. step.do \notin {"ld", "st"}
    BY <1>0, JumpFormed
  <2>2. step.do # "jump"
    BY <1>0, JumpFormed
  <2>. QED  BY <1>0, <2>1, <2>2, StepFormed
<1>2. step.do = "out" => \A m \in k + 1 .. n : vv(m) # z
  BY <1>0, JumpFormed
<1>3. \A m \in k + 1 .. n : s.x[vv(m)] = q.x[vv(m)] /\ vv(m) \in DOMAIN inst.vars
  <2>. TAKE m \in k + 1 .. n
  <2>1. m \in k .. n /\ m \in DOMAIN inst.script
    BY <1>0
  <2>. QED  BY <2>1, StepFormed
<1>4. s.x[z] = q.x[z]
  BY <1>0
<1>5. Taken(step, s.acc) <=> Taken(step, q.acc)
  OBVIOUS
<1>. HIDE DEF step, z, vv
<1>6. CASE ~ Taken(step, s.acc)
  <2>1. s2 = s /\ q2 = [q EXCEPT !.u = @ + 1]
    BY <1>5, <1>6 DEF Execute, KStep
  <2>. HIDE DEF s2, q2
  <2>2. q2.x = q.x /\ q2.acc = q.acc /\ q2.valid = q.valid
    BY <2>1 DEF KState
  <2>. QED  BY <1>3, <2>1, <2>2
<1>7. CASE Taken(step, s.acc) /\ step.do = "addr"
  <2>1. s2 = [s EXCEPT !.ea = (@ + s.x[z]) % Word] /\ q2 = [q EXCEPT !.u = @ + 1, !.ea = (@ + q.x[z]) % Word]
    BY <1>5, <1>7 DEF Execute, KStep, z
  <2>. HIDE DEF s2, q2
  <2>2. q2.x = q.x /\ q2.acc = q.acc /\ q2.valid = q.valid /\ s2.x = s.x /\ s2.acc = s.acc /\ s2.ok = s.ok
    BY <2>1 DEF KState, MState
  <2>. QED  BY <1>3, <2>1, <2>2
<1>8. CASE Taken(step, s.acc) /\ step.do = "add"
  <2>. DEFINE acc == (s.acc + s.x[z]) % Word
  <2>1. s2 = [s EXCEPT !.acc = acc] /\ q2 = [q EXCEPT !.u = q.u + 1, !.acc = acc]
    BY <1>4, <1>5, <1>8 DEF Execute, KStep, z
  <2>. HIDE DEF s2, q2, acc
  <2>2. q2.x = q.x /\ q2.acc = acc /\ q2.valid = q.valid /\ s2.x = s.x /\ s2.acc = acc /\ s2.ok = s.ok
    BY <2>1 DEF KState, MState
  <2>. QED  BY <1>3, <2>1, <2>2
<1>9. CASE Taken(step, s.acc) /\ step.do = "out"
  <2>. DEFINE a == (s.acc + (IF impl = "out" THEN 1 ELSE 0)) % Word
              x == [s.x EXCEPT ![z] = a]
              y == [q.x EXCEPT ![z] = q.acc]
  <2>1. s2 = [s EXCEPT !.x = x] /\ q2 = [q EXCEPT !.u = q.u + 1, !.x = y]
    BY <1>5, <1>9 DEF Execute, KStep, z
  <2>2. \A w \in DOMAIN inst.vars \ {z} : x[w] = s.x[w] /\ y[w] = q.x[w]
    BY DEF MState, KState, Vars
  <2>. HIDE DEF s2, q2, x, y
  <2>3. q2.x = y /\ q2.acc = q.acc /\ q2.valid = q.valid /\ s2.x = x /\ s2.acc = s.acc /\ s2.ok = s.ok
    BY <2>1 DEF KState, MState
  <2>. QED  BY <1>2, <1>3, <1>9, <2>2, <2>3
<1>. HIDE DEF Goal
<1>. QED  BY <1>1, <1>6, <1>7, <1>8, <1>9

(* On the values of an entry an implementation jumps only where the entry  *)
(* does, and if the entry is valid to the place behind the j that follows  *)
(* the instruction.                                                        *)
LEMMA JumpRight ==
  ASSUME inst \in Instruction, NEW e, IsRun(inst, e), NEW operands, Reset(operands) \in MState,
         \A w \in Vars : OperandValue(w, operands[w]) = e.in[w], Effect(operands).jumped
  PROVE  e.jump /\ (e.valid => Effect(operands).to = inst.size + 4)
<1>. DEFINE n == Len(inst.script)
            step == inst.script[n]
            z == step.v
<1>0. n \in Nat /\ DOMAIN inst.script = 1 .. n
  BY Formed
<1>1. PICK f \in [0 .. n -> MState] : EffectOf(f, operands)
  BY EffectRun
<1>2. PICK q, in : Trace(inst, q, in, n + 1) /\ e = [q[n + 1] EXCEPT !.u = 0]
  BY DEF IsRun
<1>3. \A k \in 1 .. n + 1 : q[k] \in KState(inst) /\ q[k].in = in
  <2>. DEFINE m == n + 1
  <2>1. m \in 1 .. Len(inst.script) + 1
    BY <1>0
  <2>. HIDE DEF m
  <2>2. \A k \in 1 .. m : q[k] \in KState(inst) /\ q[k].in = in
    BY <1>2, <2>1, TraceOK DEF m
  <2>. QED  BY <2>2 DEF m
<1>4. n # 0
  BY <1>1 DEF EffectOf, Reset
<1>5. n \in DOMAIN inst.script /\ n \in 1 .. n /\ n - 1 \in 0 .. n - 1
  BY <1>0, <1>4
<1>6. f[n] = Execute(f[n - 1], step) /\ Effect(operands) = f[n] /\ f[n - 1] \in MState
  BY <1>0, <1>1, <1>5 DEF EffectOf
<1>7. ~ f[n - 1].jumped
  BY <1>1, <1>5, NotYetJumped
<1>8. step.do = "jump" /\ Taken(step, f[n - 1].acc) /\ f[n].to = f[n - 1].x[z]
  <2>1. step.do \in {"addr", "add", "out", "ld", "st", "jump"}
    BY <1>5, StepFormed
  <2>. DEFINE s == f[n - 1]
              r == f[n]
  <2>2. s \in MState /\ r = Execute(s, step) /\ ~ s.jumped /\ r.jumped
    BY <1>6, <1>7
  <2>. HIDE DEF s, step, r
  <2>3. step.do = "jump" /\ Taken(step, s.acc) /\ r.to = s.x[step.v]
    BY <2>1, <2>2 DEF Execute, MState
  <2>. QED  BY <2>3 DEF s, r
<1>. DEFINE Sync(k) == /\ f[k].ok /\ ~ q[k + 1].valid /\ f[k].acc = q[k + 1].acc
                       /\ \A m \in k + 1 .. n : f[k].x[inst.script[m].v] = q[k + 1].x[inst.script[m].v]
            P == {k \in Nat : k < n => Sync(k)}
<1>9. 0 \in P
  <2>1. q[1] = Given(in) /\ f[0] = Reset(operands) /\ in \in [DOMAIN inst.vars -> Value]
    BY <1>1, <1>2 DEF Trace, EffectOf
  <2>2. Given(in).x = in /\ Given(in).acc = 0 /\ Given(in).in = in
    BY <2>1, GivenOK
  <2>3. ~ Given(in).valid
    BY DEF Given, Begin
  <2>4. e.in = in
    <3>1. n + 1 \in 1 .. n + 1
      BY <1>0
    <3>2. q[n + 1].in = in /\ q[n + 1] \in KState(inst)
      BY <1>3, <3>1
    <3>. QED  BY <1>2, <3>2 DEF KState
  <2>5. f[0].ok /\ f[0].acc = 0 /\ \A w \in Vars : f[0].x[w] = in[w]
    BY <2>1, <2>4 DEF Reset
  <2>6. ASSUME NEW m \in 0 + 1 .. n PROVE f[0].x[inst.script[m].v] = q[0 + 1].x[inst.script[m].v]
    <3>1. inst.script[m].v \in Vars
      BY <1>0, StepFormed DEF Vars
    <3>. QED  BY <2>1, <2>2, <2>5, <3>1
  <2>7. Sync(0)
    BY <2>1, <2>2, <2>3, <2>5, <2>6
  <2>. QED  BY <2>7
<1>10. ASSUME NEW k \in 0 .. n - 1, k \in P PROVE k + 1 \in P
  <2>1. CASE k + 1 = n
    BY <2>1
  <2>2. CASE k + 1 # n
    <3>. DEFINE l == k + 1
                s == f[k]
                p == q[l]
    <3>1. l \in 1 .. n - 1 /\ l - 1 = k /\ l \in 1 .. n + 1 /\ l \in 1 .. n /\ l \in 1 .. (n + 1) - 1
      BY <1>0, <2>2
    <3>2. Sync(k)
      BY <1>0, <1>10, <2>2
    <3>3. f[l] = Execute(s, inst.script[l]) /\ q[l + 1] = KStep(inst, p, inst.script[l])
      <4>1. f[l] = Execute(f[l - 1], inst.script[l])
        BY <1>1, <3>1 DEF EffectOf
      <4>2. q[l + 1] = KStep(inst, q[l], inst.script[l])
        BY <1>2, <3>1 DEF Trace
      <4>. QED  BY <3>1, <4>1, <4>2
    <3>4. s \in MState /\ p \in KState(inst)
      BY <1>0, <1>3, <3>1
    <3>5. s.ok /\ ~ p.valid /\ s.acc = p.acc /\ \A m \in l .. n : s.x[inst.script[m].v] = p.x[inst.script[m].v]
      BY <3>2
    <3>. HIDE DEF Sync, s, p, l
    <3>6. LET s2 == Execute(s, inst.script[l])
              q2 == KStep(inst, p, inst.script[l])
          IN  /\ s2.ok /\ ~ q2.valid /\ s2.acc = q2.acc
              /\ \A m \in l + 1 .. n : s2.x[inst.script[m].v] = q2.x[inst.script[m].v]
      BY <1>0, <1>8, <3>1, <3>4, <3>5, JumpStep, ZenonT(30)
    <3>7. Sync(l)
      BY <3>3, <3>6 DEF Sync
    <3>. QED  BY <3>7 DEF l
  <2>. QED  BY <2>1, <2>2
<1>11. \A k \in 0 .. n : k \in P
  <2>. HIDE DEF P, n
  <2>. QED  BY <1>0, <1>9, <1>10, UpTo
<1>12. Sync(n - 1)
  <2>1. n - 1 \in P /\ n - 1 < n
    BY <1>0, <1>5, <1>11
  <2>. QED  BY <2>1
<1>. DEFINE p == q[n]
            p2 == q[n + 1]
            va == p.valid \/ p.x[z] = inst.size + 4
<1>13. ~ p.valid /\ Taken(step, p.acc) /\ p.x[z] = f[n - 1].x[z] /\ p \in KState(inst)
  <2>1. n - 1 + 1 = n /\ n \in n - 1 + 1 .. n /\ n \in 1 .. n + 1
    BY <1>0, <1>5
  <2>2. ~ p.valid /\ f[n - 1].acc = p.acc /\ f[n - 1].x[z] = p.x[z]
    BY <1>12, <2>1
  <2>. QED  BY <1>3, <1>8, <2>1, <2>2
<1>14. p2 = [p EXCEPT !.u = p.u + 1, !.jump = TRUE, !.valid = va]
  <2>1. p2 = KStep(inst, p, step)
    BY <1>0, <1>2, <1>5 DEF Trace
  <2>. QED  BY <1>8, <1>13, <2>1 DEF KStep
<1>15. e = [p2 EXCEPT !.u = 0]
  BY <1>2
<1>. HIDE DEF p, p2, va
<1>16. e.jump = TRUE /\ e.valid = va
  BY <1>13, <1>14, <1>15 DEF KState
<1>. QED  BY <1>6, <1>8, <1>13, <1>16 DEF va

-----------------------------------------------------------------------------
(* Every step of a program leads to the start of an item, and what is      *)
(* known there holds.                                                      *)

(* The machine works on a program that is written.                         *)
Rests == UNCHANGED <<t, todo, v, args, text, cvars>> /\ UNCHANGED io

(* A step that leaves the scripts alone keeps their types.                 *)
LEMMA RestType ==
  ASSUME ScriptType, Rests, stage' \in Stages
  PROVE  ScriptType'
<1>. USE DEF Rests, io, cvars
<1>1. KleeInv'
  BY KleeSame DEF ScriptType
<1>2. SizesOK' /\ Stages' = Stages /\ Value' = Value
  BY DEF ScriptType, SizesOK, Stages, Value
<1>. QED  BY <1>1, <1>2 DEF ScriptType

(* A step that leaves the scripts alone keeps the invariant of a final     *)
(* text.                                                                   *)
LEMMA RestText ==
  ASSUME ScriptType, NEW K, IsKnown(K, text), TextInv(K), Rests, Final, Final'
  PROVE  IsKnown(K, text)' /\ TextInv(K)'
<1>. USE DEF Rests, io, cvars
<1>0. Continues /\ t \in Nat /\ stage # "checks" /\ stage \notin {"tests", "ended"} /\ stage # "klee"
      /\ stage' \notin {"tests", "ended", "klee", "loads", "variables", "checks", "stores", "ctests",
                        "cloads", "cvariables", "cstores"}
      /\ format \in {"elf", "c"} /\ t <= t
  BY DEF Continues, Final, ScriptType, TextInv, Formats
<1>1. \A j \in DOMAIN text : ItemOK(K, j)
  BY <1>0 DEF TextInv
<1>2. /\ IsKnown(K, text')
      /\ \A j \in DOMAIN text' : ItemOK(K, j)'
      /\ \A e, left : Covered(K, e, left) => Covered(K, e, left)'
  BY <1>0, <1>1, Keeping
<1>3. Tested' = Tested
  BY <1>0, Same
<1>4. AtFinal(K)'
  BY <1>2, <1>3 DEF AtFinal, TextInv
<1>5. Formats'
  BY <1>0 DEF Formats, TextInv, Final
<1>6. IsKnown(K, text)'
  BY <1>2 DEF IsKnown, After, Stored, Nothing
<1>. QED  BY <1>0, <1>2, <1>4, <1>5, <1>6 DEF TextInv

(* What a step that leaves the scripts alone does not change.              *)
LEMMA RestSame ==
  ASSUME Rests
  PROVE  /\ text' = text /\ tests' = tests /\ inst' = inst /\ format' = format /\ t' = t
         /\ \A j : End[j]' = End[j] /\ Alive(j)' = Alive(j) /\ Executed(j)' = Executed(j)
         /\ Vars' = Vars /\ Outputs' = Outputs /\ Tested' = Tested /\ Scope' = Scope
         /\ \A w, o : Index(w, o)' = Index(w, o)
         /\ \A k : Owner(k)' = Owner(k)
<1>. USE DEF Rests, io, cvars
<1>1. Continues
  BY DEF Continues
<1>. QED  BY <1>1, Same DEF End, Alive, Executed, Scope, Owner

(* Going to the next program keeps types and text.                         *)
LEMMA NextProgramText ==
  ASSUME ScriptType, TextKnown, NextProgram
  PROVE  ScriptType' /\ TextKnown'
<1>. USE DEF NextProgram, io, cvars
<1>0. stage' \in {"tests", "ended"} /\ (t' = t \/ t' = t + 1)
      /\ text' = text /\ inst' = inst /\ tests' = tests /\ format' = format
  OBVIOUS
<1>1. PICK K : IsKnown(K, text) /\ TextInv(K)
  BY DEF TextKnown
<1>2. KleeInv'
  BY KleeSame DEF ScriptType
<1>3. ScriptType'
  BY <1>0, <1>2 DEF ScriptType, SizesOK, Stages, Value
<1>4. Formats'
  BY <1>0, <1>1 DEF Formats, TextInv, Final
<1>5. TextInv(K)'
  BY <1>0, <1>4 DEF TextInv, Final
<1>6. IsKnown(K, text)'
  BY <1>0, <1>1 DEF IsKnown
<1>. QED  BY <1>3, <1>5, <1>6 DEF TextKnown

Impls == {"right", "out", "store", "jump"}
Verdicts == {"none", "pass", "fail", "crash"}
BenchType ==
  /\ impl \in Impls /\ pc \in Nat
  /\ Reg \subseteq DOMAIN regs /\ \A r \in DOMAIN regs : regs[r] \in Value
  /\ mem \in Memory
  /\ verdict \in Verdicts
  /\ DOMAIN effects \subseteq DOMAIN tests

(* The machine is at item p. *)
AtItem(K, p) ==
  /\ ScriptType /\ BenchType /\ IsKnown(K, text) /\ TextInv(K)
  /\ stage = "run" /\ p \in DOMAIN text /\ Reached(K, p)

(* An idle bench is well typed.                                            *)
LEMMA IdleType ==
  ASSUME impl = Idle.impl, pc = Idle.pc, regs = Idle.regs, mem = Idle.mem, verdict = Idle.verdict,
         effects = Idle.effects
  PROVE  BenchType
BY ValueNat, BytesIs DEF Idle, BenchType, Memory, Empty, Impls, Verdicts

(* A program counter at the start of item p fetches item p.                *)
LEMMA Fetched ==
  ASSUME NEW K, NEW p, AtItem(K, p)
  PROVE  /\ OnItem /\ Here = text[p] /\ ItemOK(K, p)
         /\ p \in Nat /\ p > 0 /\ Len(text) \in Nat /\ DOMAIN text = 1 .. Len(text)
         /\ pc = End[p - 1] /\ text[p].size \in Nat
         /\ \A j \in DOMAIN text : End[j] = End[j - 1] + text[j].size
         /\ \A j \in 0 .. Len(text) : End[j] \in Nat
         /\ \A j \in DOMAIN text : j + 1 \in DOMAIN text \/ text[j] = Exit(0)
         /\ text[p].op # "exit" => Alive(p)
         /\ \A j \in DOMAIN text : K[j] = After(K[j - 1], text[j], j)
         /\ Final /\ AtFinal(K)
<1>1. IsText(text) /\ SizesOK /\ p \in DOMAIN text /\ pc = End[p - 1] /\ Final
  BY DEF AtItem, ScriptType, Reached, Final
<1>2. Len(text) \in Nat /\ DOMAIN text = 1 .. Len(text)
  BY <1>1, TextIs
<1>3. OnItem /\ Here = text[p]
  BY <1>1, <1>2, HereIs
<1>4. /\ \A j \in 1 .. Len(text) : End[j] = End[j - 1] + text[j].size
      /\ \A j \in 0 .. Len(text) : End[j] \in Nat
  BY <1>1, <1>2, Ends0
<1>5. ItemOK(K, p) /\ AtFinal(K)
  BY <1>1 DEF AtItem, TextInv
<1>6. \A j \in DOMAIN text : j + 1 \in DOMAIN text \/ text[j] = Exit(0)
  BY <1>2, <1>5 DEF AtFinal
<1>7. \A j \in DOMAIN text : K[j] = After(K[j - 1], text[j], j)
  BY <1>2 DEF AtItem, IsKnown
<1>8. text[p].op # "exit" => Alive(p)
  BY DEF Alive, Exit, Item
<1>. QED  BY <1>1, <1>2, <1>3, <1>4, <1>5, <1>6, <1>7, <1>8 DEF SizesOK

(* The instruction known about is an item before, in order, of a tested    *)
(* entry.                                                                  *)
LEMMA InstBefore ==
  ASSUME NEW K, NEW p, AtItem(K, p), NEW j \in 0 .. p, K[j].inst # 0
  PROVE  /\ K[j].inst \in 1 .. j /\ K[j].inst \in DOMAIN text /\ text[K[j].inst].op = "inst"
         /\ InstOK(K[K[j].inst - 1], K[j].inst) /\ Owner(K[j]) \in Tested
<1>1. IsText(text) /\ IsKnown(K, text) /\ j \in 0 .. Len(text) /\ DOMAIN text = 1 .. Len(text)
      /\ Len(text) \in Nat /\ p \in Nat /\ p <= Len(text)
  BY Fetched DEF AtItem, ScriptType
<1>2. K[j].inst \in 1 .. j /\ text[K[j].inst].op = "inst"
  BY <1>1, KnownInst
<1>3. K[j].inst \in DOMAIN text
  BY <1>1, <1>2
<1>4. ItemOK(K, K[j].inst)
  BY <1>3 DEF AtItem, TextInv
<1>. QED  BY <1>2, <1>3, <1>4, InstItem DEF Owner

(* What has been passed stays passed, if the effects it is about stay.     *)
LEMMA PassedStays ==
  ASSUME Rests, NEW K, NEW j, Passed(K, j), K[j - 1].inst # 0 => effects'[Owner(K[j - 1])] = effects[Owner(K[j - 1])]
  PROVE  Passed(K, j)'
<1>1. CASE K[j - 1].inst = 0
  BY <1>1 DEF Passed
<1>2. CASE K[j - 1].inst # 0
  <2>. DEFINE k == K[j - 1]
  <2>1. text' = text /\ Outputs' = Outputs /\ (\A w, o : Index(w, o)' = Index(w, o)) /\ Owner(k)' = Owner(k)
    BY RestSame
  <2>2. effects[Owner(k)]' = effects[Owner(k)]
    BY <1>2, <2>1
  <2>. QED  BY <1>2, <2>1, <2>2, ZenonT(30) DEF Passed
<1>. QED  BY <1>1, <1>2

(* The instruction of an entry that jumps is followed by a j.              *)
LEMMA JumpAfter ==
  ASSUME NEW K, NEW p, AtItem(K, p), NEW i \in 1 .. Len(text), text[i].op = "inst", tests[text[i].r].jump
  PROVE  i + 1 \in DOMAIN text /\ text[i + 1].op = "j"
<1>1. i \in DOMAIN text /\ stage # "checks"
  BY Fetched DEF AtItem
<1>2. ItemOK(K, i)
  BY <1>1 DEF AtItem, TextInv
<1>3. InstOK(K[i - 1], i)
  BY <1>1, <1>2, InstItem
<1>. QED  BY <1>1, <1>3 DEF InstOK

(* From item p to item q, past items that execute no instruction.          *)
LEMMA Moved ==
  ASSUME NEW K, NEW p, AtItem(K, p), Alive(p), Rests, UNCHANGED effects,
         NEW q \in DOMAIN text, p < q, pc' = End[q - 1],
         \A j \in p .. q - 1 : text[j].op # "inst",
         Alive(q) => /\ Holds(K[q - 1])' /\ \A j \in p .. q - 1 : Passed(K, j)
                     /\ p > 1 /\ text[p - 1].op = "inst" => text[p].op # "j"
  PROVE  q \in DOMAIN text' /\ Reached(K, q)'
<1>1. /\ text' = text /\ tests' = tests
      /\ \A j : End[j]' = End[j] /\ Alive(j)' = Alive(j) /\ Executed(j)' = Executed(j)
  BY RestSame
<1>2. /\ p \in Nat /\ p > 0 /\ Len(text) \in Nat /\ DOMAIN text = 1 .. Len(text) /\ q \in Nat
      /\ p \in DOMAIN text
  <2>1. p \in DOMAIN text
    BY DEF AtItem
  <2>. QED  BY <2>1, Fetched
<1>3. Executed(q) = Executed(p)
  BY <1>2 DEF Executed
<1>4. DOMAIN effects' = {text'[i].r : i \in Executed(q)'}
  BY <1>1, <1>3 DEF AtItem, Reached
<1>5. pc' = End[q - 1]'
  BY <1>1
<1>6. ASSUME Alive(q)' PROVE
        /\ Holds(K[q - 1])'
        /\ \A j \in 1 .. q - 1 : Passed(K, j)'
        /\ \A i \in 1 .. q - 2 : text'[i].op = "inst" /\ tests'[text'[i].r].jump => effects'[text'[i].r].jumped
  <2>0. Alive(q)
    BY <1>1, <1>6
  <2>1. \A j \in 1 .. p - 1 : Passed(K, j)
    BY DEF AtItem, Reached
  <2>2. \A j \in 1 .. q - 1 : Passed(K, j)
    <3>1. \A j \in 1 .. q - 1 : j \in 1 .. p - 1 \/ j \in p .. q - 1
      BY <1>2
    <3>. QED  BY <2>0, <2>1, <3>1
  <2>3. \A j \in 1 .. q - 1 : Passed(K, j)'
    BY <2>2, PassedStays
  <2>4. ASSUME NEW i \in 1 .. q - 2, text[i].op = "inst", tests[text[i].r].jump PROVE effects[text[i].r].jumped
    <3>1. i \in 1 .. Len(text) /\ i \in Nat
      BY <1>2
    <3>2. i + 1 \in DOMAIN text /\ text[i + 1].op = "j"
      BY <2>4, <3>1, JumpAfter
    <3>3. ~ (i \in p .. q - 1)
      BY <2>4
    <3>4. i # p - 1
      <4>1. SUFFICES ASSUME i = p - 1 PROVE FALSE
        OBVIOUS
      <4>2. i + 1 = p /\ p > 1
        BY <1>2, <4>1, <3>1
      <4>. QED  BY <2>0, <2>4, <3>2, <4>1, <4>2
    <3>5. i \in 1 .. p - 2
      BY <1>2, <3>1, <3>3, <3>4
    <3>. QED  BY <2>4, <3>5 DEF AtItem, Reached
  <2>. QED  BY <1>1, <2>0, <2>3, <2>4
<1>. QED  BY <1>1, <1>4, <1>5, <1>6 DEF Reached

(* The next item.                                                          *)
LEMMA MovedOn ==
  ASSUME NEW K, NEW p, AtItem(K, p), Rests, UNCHANGED effects, Next1,
         text[p].op \notin {"inst", "exit", "j"},
         Holds(K[p])', Passed(K, p)
  PROVE  \E q \in DOMAIN text' : Reached(K, q)'
<1>1. /\ Here = text[p] /\ p \in Nat /\ p > 0 /\ pc = End[p - 1] /\ End[p] = End[p - 1] + text[p].size
      /\ Alive(p) /\ p + 1 \in DOMAIN text
  <2>1. p \in DOMAIN text
    BY DEF AtItem
  <2>2. text[p] # Exit(0)
    BY DEF Exit, Item
  <2>. QED  BY <2>1, <2>2, Fetched
<1>. DEFINE q == p + 1
<1>2. q \in Nat /\ p < q /\ q - 1 = p /\ \A j \in p .. q - 1 : j = p
  BY <1>1
<1>3. pc' = End[q - 1]
  BY <1>1, <1>2 DEF Next1
<1>. HIDE DEF q
<1>4. q \in DOMAIN text
  BY <1>1 DEF q
<1>5. q \in DOMAIN text' /\ Reached(K, q)'
  BY <1>1, <1>2, <1>3, <1>4, Moved
<1>. QED  BY <1>5

(* What holds of the machine, with the results of the last instruction in  *)
(* the registers of its operands.                                          *)
ResultHeld(k, g, w) ==
  LET operand == text[k.inst].n[w]
  IN  operand.kind = "r" =>
        /\ Index(w, operand) \in DOMAIN g
        /\ Index(w, operand) \notin k.dirty => g[Index(w, operand)] = effects[Owner(k)].x[w]
HoldsIn(k, g, m) ==
  /\ \A r \in DOMAIN k.regs : r \in DOMAIN g /\ g[r] = k.regs[r]
  /\ \A a \in DOMAIN k.words : InData(a, WordBytes) /\ ReadMem(m, a, WordBytes) = k.words[a]
  /\ \A a \in k.loaded : g[DstReg] = ReadMem(m, a, WordBytes)
  /\ k.inst # 0 =>
       /\ k.same => m = effects[Owner(k)].mem
       /\ \A w \in Outputs : ResultHeld(k, g, w)

(* What is known holds in the machine.                                     *)
LEMMA HoldsNow == ASSUME NEW k, Holds(k) PROVE HoldsIn(k, regs, mem)
BY DEF Holds, HoldsIn, ResultHeld, InData

(* What holds in the registers and the memory of the next state is known   *)
(* there.                                                                  *)
LEMMA HoldsNext ==
  ASSUME Rests, UNCHANGED effects, NEW k, HoldsIn(k, regs', mem')
  PROVE  Holds(k)'
<1>1. /\ text' = text /\ Outputs' = Outputs /\ (\A w, o : Index(w, o)' = Index(w, o)) /\ Owner(k)' = Owner(k)
      /\ Addresses' = Addresses /\ effects' = effects
  BY RestSame DEF Addresses
<1>. QED  BY <1>1 DEF Holds, HoldsIn, ResultHeld, InData

(* Loading a constant goes to the next item, and what is known there       *)
(* holds.                                                                  *)
LEMMA SetRegRuns ==
  ASSUME NEW K, NEW p, AtItem(K, p), SetReg
  PROVE  BenchType' /\ \E q \in DOMAIN text' : Reached(K, q)'
<1>. DEFINE item == text[p]
            k == K[p - 1]
            k2 == K[p]
            n == item.n
            r == item.r
<1>1. Rests /\ Next1 /\ stage' = stage /\ mem' = mem /\ effects' = effects /\ verdict' = verdict /\ impl' = impl
  BY DEF SetReg, Keep, Rests
<1>2. /\ Here = item /\ ItemOK(K, p) /\ p \in Nat /\ p > 0 /\ k2 = After(k, item, p)
      /\ pc \in Nat /\ item.size \in Nat /\ p \in DOMAIN text
  <2>1. p \in DOMAIN text /\ pc \in Nat
    BY DEF AtItem, BenchType
  <2>. QED  BY <2>1, Fetched
<1>3. item.op \in {"li", "let"}
  BY <1>2 DEF SetReg, Fetch
<1>4. n \in Value
  BY <1>2, <1>3 DEF ItemOK, ItemFine
<1>5. regs' = With(regs, r, n)
  <2>1. n \in 0 .. Word - 1
    BY <1>4 DEF Value
  <2>2. Li(n) = n
    BY <2>1, LiExact
  <2>. QED  BY <1>2, <2>2 DEF SetReg
<1>6. DOMAIN regs' = DOMAIN regs \cup {r} /\ regs'[r] = n /\ \A z \in DOMAIN regs : z # r => regs'[z] = regs[z]
  BY <1>5 DEF With
<1>7. Alive(p) /\ HoldsIn(k, regs, mem)
  <2>1. Alive(p)
    BY <1>2, <1>3, Fetched DEF SetReg
  <2>. QED  BY <2>1, HoldsNow DEF AtItem, Reached
<1>8. /\ DOMAIN k2.regs = DOMAIN k.regs \cup {r}
      /\ k2.regs[r] = n
      /\ \A z \in DOMAIN k.regs : z # r => k2.regs[z] = k.regs[z]
      /\ k2.words = k.words /\ k2.inst = k.inst /\ k2.same = k.same
      /\ k2.dirty = k.dirty \cup {r}
      /\ k2.loaded = IF r = DstReg THEN {} ELSE k.loaded
  BY <1>2, <1>3, AfterLoadReg
<1>9. DstReg \in DOMAIN regs /\ Reg' = Reg /\ Memory' = Memory /\ Reg \subseteq DOMAIN regs
      /\ \A z \in DOMAIN regs : regs[z] \in Value
  BY DEF AtItem, BenchType, Reg, DstReg, Memory, Addresses
<1>. HIDE DEF k, k2, n, r
<1>10. HoldsIn(k2, regs', mem')
  <2>1. \A z \in DOMAIN k2.regs : z \in DOMAIN regs' /\ regs'[z] = k2.regs[z]
    BY <1>6, <1>7, <1>8 DEF HoldsIn
  <2>2. \A a \in k2.loaded : regs'[DstReg] = ReadMem(mem', a, WordBytes)
    BY <1>1, <1>6, <1>7, <1>8, <1>9 DEF HoldsIn
  <2>3. k2.inst # 0 => \A w \in Outputs : ResultHeld(k2, regs', w)
    BY <1>6, <1>7, <1>8 DEF HoldsIn, ResultHeld, Owner
  <2>. QED  BY <1>1, <1>7, <1>8, <2>1, <2>2, <2>3 DEF HoldsIn, Owner
<1>11. Holds(k2)'
  BY <1>1, <1>10, HoldsNext
<1>12. Passed(K, p)
  BY <1>3 DEF Passed, Exit, Item
<1>13. \E q \in DOMAIN text' : Reached(K, q)'
  BY <1>1, <1>3, <1>11, <1>12, MovedOn DEF k2
<1>14. BenchType'
  <2>1. \A z \in DOMAIN regs' : regs'[z] \in Value
    BY <1>4, <1>6, <1>9
  <2>2. pc' \in Nat
    BY <1>1, <1>2 DEF Next1
  <2>3. tests' = tests /\ Value' = Value /\ Impls' = Impls /\ Verdicts' = Verdicts
    BY <1>1, RestSame DEF Value, Impls, Verdicts
  <2>. QED  BY <1>1, <1>6, <1>9, <2>1, <2>2, <2>3 DEF BenchType, AtItem
<1>. QED  BY <1>13, <1>14

(* What is known after a store holds after the store.                      *)
LEMMA StoredHolds ==
  ASSUME mem \in Memory, NEW k, HoldsIn(k, regs, mem), NEW a, InData(a, WordBytes), NEW n \in Value
  PROVE  HoldsIn(Stored(k, a, n), regs, WriteMem(mem, a, WordBytes, n))
<1>. DEFINE k2 == Stored(k, a, n)
            m2 == WriteMem(mem, a, WordBytes, n)
<1>1. /\ k2.regs = k.regs /\ k2.loaded = {} /\ k2.inst = k.inst /\ ~ k2.same /\ k2.dirty = k.dirty
      /\ DOMAIN k2.words = {c \in DOMAIN k.words : Apart(a, c)} \cup {a}
      /\ k2.words[a] = n
      /\ \A b \in DOMAIN k2.words : b # a => k2.words[b] = k.words[b]
  BY DEF Stored
<1>2. a \in Nat /\ n \in Nat /\ WordBytes \in 1 .. WordBytes
  <2>1. WordBytes \in 1 .. WordBytes
    BY BytesIs
  <2>. QED  BY <2>1, Data, ValueNat
<1>3. ReadMem(m2, a, WordBytes) = n
  BY WholeWord
<1>4. ASSUME NEW b \in DOMAIN k.words, Apart(a, b)
      PROVE  InData(b, WordBytes) /\ ReadMem(m2, b, WordBytes) = k.words[b]
  <2>1. InData(b, WordBytes) /\ ReadMem(mem, b, WordBytes) = k.words[b]
    BY <1>4 DEF HoldsIn
  <2>2. ReadMem(m2, b, WordBytes) = ReadMem(mem, b, WordBytes)
    BY <1>2, <1>4, <2>1, OtherWord
  <2>. QED  BY <2>1, <2>2
<1>. HIDE DEF k2, m2
<1>5. \A b \in DOMAIN k2.words : InData(b, WordBytes) /\ ReadMem(m2, b, WordBytes) = k2.words[b]
  <2>. SUFFICES ASSUME NEW b \in DOMAIN k2.words
                PROVE  InData(b, WordBytes) /\ ReadMem(m2, b, WordBytes) = k2.words[b]
    OBVIOUS
  <2>1. CASE b = a
    BY <1>1, <1>3, <2>1
  <2>2. CASE b # a
    <3>1. b \in DOMAIN k.words /\ Apart(a, b)
      BY <1>1, <2>2
    <3>. QED  BY <1>1, <1>4, <2>2, <3>1
  <2>. QED  BY <2>1, <2>2
<1>6. HoldsIn(k2, regs, m2)
  BY <1>1, <1>5 DEF HoldsIn, ResultHeld, Owner
<1>. QED  BY <1>6 DEF k2, m2

(* A store goes to the next item, and what is known there holds.           *)
LEMMA StoreRuns ==
  ASSUME NEW K, NEW p, AtItem(K, p), Store
  PROVE  BenchType' /\ \E q \in DOMAIN text' : Reached(K, q)'
<1>. DEFINE item == text[p]
            k == K[p - 1]
            k2 == K[p]
            a == Place
            n == IF item.op = "sw" THEN regs[item.r] ELSE item.n
<1>1. /\ Rests /\ Next1 /\ stage' = stage /\ regs' = regs /\ effects' = effects /\ verdict' = verdict
      /\ impl' = impl
  BY DEF Store, Keep, Rests
<1>2. /\ Here = item /\ ItemOK(K, p) /\ p \in Nat /\ p > 0 /\ k2 = After(k, item, p)
      /\ pc \in Nat /\ item.size \in Nat /\ p \in DOMAIN text
  <2>1. p \in DOMAIN text /\ pc \in Nat
    BY DEF AtItem, BenchType
  <2>. QED  BY <2>1, Fetched
<1>3. item.op \in {"sw", "poke"} /\ InData(a, WordBytes) /\ mem' = WriteMem(mem, a, WordBytes, n)
  BY <1>2 DEF Store, Fetch, Mapped, InData
<1>4. item.op = "sw" => /\ item.r = DstReg /\ DstReg \in DOMAIN k.regs /\ AddressReg \in DOMAIN k.regs
  BY <1>2 DEF ItemOK, ItemFine
<1>5. item.op = "poke" => item.n \in Value
  BY <1>2 DEF ItemOK, ItemFine
<1>6. Alive(p) /\ HoldsIn(k, regs, mem)
  <2>1. Alive(p)
    BY <1>3, Fetched
  <2>. QED  BY <2>1, HoldsNow DEF AtItem, Reached
<1>7. /\ \A z \in DOMAIN regs : regs[z] \in Value
      /\ mem \in Memory /\ DstReg \in DOMAIN regs /\ Reg' = Reg /\ Memory' = Memory /\ Reg \subseteq DOMAIN regs
  BY DEF AtItem, BenchType, Reg, DstReg, Memory, Addresses
<1>8. n \in Value
  BY <1>3, <1>4, <1>5, <1>7
<1>9. k2 = Stored(k, a, n)
  <2>1. CASE item.op = "sw"
    <3>1. k.regs[AddressReg] = regs[AddressReg] /\ k.regs[DstReg] = regs[DstReg]
      BY <1>4, <1>6, <2>1 DEF HoldsIn
    <3>2. a = regs[AddressReg] /\ n = regs[DstReg]
      BY <1>2, <1>4, <2>1 DEF Place
    <3>. QED  BY <1>2, <2>1, <3>1, <3>2 DEF After
  <2>2. CASE item.op = "poke"
    <3>1. a = item.r /\ n = item.n
      BY <1>2, <2>2 DEF Place
    <3>. QED  BY <1>2, <2>2, <3>1 DEF After
  <2>. QED  BY <1>3, <2>1, <2>2
<1>. HIDE DEF k, k2, a, n
<1>10. HoldsIn(k2, regs', mem')
  BY <1>1, <1>3, <1>6, <1>7, <1>8, <1>9, StoredHolds
<1>11. Holds(k2)'
  BY <1>1, <1>10, HoldsNext
<1>12. Passed(K, p)
  BY <1>3 DEF Passed, Exit, Item
<1>13. \E q \in DOMAIN text' : Reached(K, q)'
  BY <1>1, <1>3, <1>11, <1>12, MovedOn DEF k2
<1>14. BenchType'
  <2>1. mem' \in Memory
    <3>1. a \in Nat /\ n \in Nat /\ WordBytes \in 1 .. WordBytes
      <4>1. WordBytes \in 1 .. WordBytes
        BY BytesIs
      <4>. QED  BY <1>3, <1>8, <4>1, Data, ValueNat
    <3>. QED  BY <1>3, <1>7, <3>1, WriteType
  <2>2. pc' \in Nat
    BY <1>1, <1>2 DEF Next1
  <2>3. tests' = tests /\ Value' = Value /\ Impls' = Impls /\ Verdicts' = Verdicts
    BY <1>1, RestSame DEF Value, Impls, Verdicts
  <2>. QED  BY <1>1, <1>7, <2>1, <2>2, <2>3 DEF BenchType, AtItem
<1>. QED  BY <1>13, <1>14

(* A load goes to the next item, and what is known there holds.            *)
LEMMA LoadIntoRegRuns ==
  ASSUME NEW K, NEW p, AtItem(K, p), LoadIntoReg
  PROVE  BenchType' /\ \E q \in DOMAIN text' : Reached(K, q)'
<1>. DEFINE item == text[p]
            k == K[p - 1]
            k2 == K[p]
            a == Place
            n == ReadMem(mem, a, WordBytes)
<1>1. /\ Rests /\ Next1 /\ stage' = stage /\ mem' = mem /\ effects' = effects /\ verdict' = verdict
      /\ impl' = impl
  BY DEF LoadIntoReg, Keep, Rests
<1>2. /\ Here = item /\ ItemOK(K, p) /\ p \in Nat /\ p > 0 /\ k2 = After(k, item, p)
      /\ pc \in Nat /\ item.size \in Nat /\ p \in DOMAIN text
  <2>1. p \in DOMAIN text /\ pc \in Nat
    BY DEF AtItem, BenchType
  <2>. QED  BY <2>1, Fetched
<1>3. item.op = "lw" /\ InData(a, WordBytes) /\ regs' = [regs EXCEPT ![item.r] = n]
  BY <1>2 DEF LoadIntoReg, Fetch, Mapped, InData
<1>4. item.r = DstReg /\ AddressReg \in DOMAIN k.regs
  BY <1>2, <1>3 DEF ItemOK, ItemFine
<1>6. Alive(p) /\ HoldsIn(k, regs, mem)
  <2>1. Alive(p)
    BY <1>3, Fetched
  <2>. QED  BY <2>1, HoldsNow DEF AtItem, Reached
<1>7. /\ \A z \in DOMAIN regs : regs[z] \in Value
      /\ mem \in Memory /\ DstReg \in DOMAIN regs /\ Reg' = Reg /\ Memory' = Memory /\ Reg \subseteq DOMAIN regs
  BY DEF AtItem, BenchType, Reg, DstReg, Memory, Addresses
<1>8. n \in Value
  <2>1. WordBytes \in 1 .. WordBytes
    BY BytesIs
  <2>. QED  BY <1>3, <1>7, <2>1, ReadType
<1>9. a = k.regs[AddressReg]
  <2>1. a = regs[AddressReg]
    BY <1>2, <1>3 DEF Place
  <2>. QED  BY <1>4, <1>6, <2>1 DEF HoldsIn
<1>10. /\ k2.loaded = {a} /\ k2.inst = k.inst /\ k2.same = k.same
       /\ k2.dirty = k.dirty \cup {DstReg} /\ k2.words = k.words
       /\ DOMAIN k2.regs = DOMAIN k.regs \ {DstReg}
       /\ \A r \in DOMAIN k2.regs : k2.regs[r] = k.regs[r]
  BY <1>2, <1>3, <1>9 DEF After
<1>11. DOMAIN regs' = DOMAIN regs /\ regs'[DstReg] = n /\ \A z \in DOMAIN regs : z # DstReg => regs'[z] = regs[z]
  BY <1>3, <1>4, <1>7
<1>. HIDE DEF k, k2, a
<1>12. HoldsIn(k2, regs', mem')
  <2>1. \A z \in DOMAIN k2.regs : z \in DOMAIN regs' /\ regs'[z] = k2.regs[z]
    BY <1>6, <1>10, <1>11 DEF HoldsIn
  <2>2. \A b \in k2.loaded : regs'[DstReg] = ReadMem(mem', b, WordBytes)
    BY <1>1, <1>10, <1>11
  <2>3. k2.inst # 0 => \A w \in Outputs : ResultHeld(k2, regs', w)
    BY <1>6, <1>10, <1>11 DEF HoldsIn, ResultHeld, Owner
  <2>. QED  BY <1>1, <1>6, <1>10, <2>1, <2>2, <2>3 DEF HoldsIn, Owner
<1>13. Holds(k2)'
  BY <1>1, <1>12, HoldsNext
<1>14. Passed(K, p)
  BY <1>3 DEF Passed, Exit, Item
<1>15. \E q \in DOMAIN text' : Reached(K, q)'
  BY <1>1, <1>3, <1>13, <1>14, MovedOn DEF k2
<1>. HIDE DEF n
<1>16. BenchType'
  <2>1. \A z \in DOMAIN regs' : regs'[z] \in Value
    BY <1>7, <1>8, <1>11
  <2>2. pc' \in Nat
    BY <1>1, <1>2 DEF Next1
  <2>3. tests' = tests /\ Value' = Value /\ Impls' = Impls /\ Verdicts' = Verdicts
    BY <1>1, RestSame DEF Value, Impls, Verdicts
  <2>. QED  BY <1>1, <1>7, <1>11, <2>1, <2>2, <2>3 DEF BenchType, AtItem
<1>. QED  BY <1>15, <1>16

(* The items of a check.                                                   *)
LEMMA ExitIs ==
  /\ Exit(255).op = "exit" /\ Exit(255).size = 12 /\ Exit(0).op = "exit" /\ Exit(0) # Exit(255)
  /\ Exit(255).n = 255 /\ Exit(0).n = 0
  /\ SkipIfExpected(16).op = "beq" /\ SkipIfExpected(16).size = 4 /\ SkipIfExpected(16).n = 16
BY DEF Exit, Item, SkipIfExpected

(* Branches, exits and checks change nothing that is known.                *)
LEMMA AfterNothing ==
  ASSUME NEW k, NEW item, NEW j, item.op \in {"beq", "j", "exit", "check", "checkmem"}
  PROVE  After(k, item, j) = k
BY DEF After

(* What the next items are, and where they end. *)
LEMMA NextItems ==
  ASSUME NEW K, NEW p, AtItem(K, p)
  PROVE  /\ text[p].op # "exit" => /\ p + 1 \in DOMAIN text /\ End[p] = End[p - 1] + text[p].size
                                   /\ p \in Nat /\ p > 0
                                   /\ K[p + 1] = After(K[p], text[p + 1], p + 1)
         /\ p + 1 \in DOMAIN text => End[p + 1] = End[p] + text[p + 1].size
         /\ p + 2 \in DOMAIN text => End[p + 2] = End[p + 1] + text[p + 2].size
         /\ p + 1 \in DOMAIN text /\ text[p + 1] # Exit(0) => p + 2 \in DOMAIN text
         /\ p + 3 \in DOMAIN text => p + 2 \in DOMAIN text
<1>1. /\ p \in Nat /\ p > 0 /\ Len(text) \in Nat /\ DOMAIN text = 1 .. Len(text)
      /\ p \in DOMAIN text
      /\ \A j \in DOMAIN text : End[j] = End[j - 1] + text[j].size
      /\ \A j \in DOMAIN text : j + 1 \in DOMAIN text \/ text[j] = Exit(0)
      /\ \A j \in DOMAIN text : K[j] = After(K[j - 1], text[j], j)
  <2>1. p \in DOMAIN text
    BY DEF AtItem
  <2>. QED  BY <2>1, Fetched
<1>2. p + 1 - 1 = p /\ p + 2 - 1 = p + 1 /\ (p + 1) + 1 = p + 2
  BY <1>1
<1>3. text[p].op # "exit" => p + 1 \in DOMAIN text
  BY <1>1, ExitIs
<1>4. p + 1 \in DOMAIN text => End[p + 1] = End[p] + text[p + 1].size /\ K[p + 1] = After(K[p], text[p + 1], p + 1)
  BY <1>1, <1>2
<1>5. p + 2 \in DOMAIN text => End[p + 2] = End[p + 1] + text[p + 2].size
  BY <1>1, <1>2
<1>6. p + 1 \in DOMAIN text /\ text[p + 1] # Exit(0) => p + 2 \in DOMAIN text
  BY <1>1, <1>2
<1>7. p + 3 \in DOMAIN text => p + 2 \in DOMAIN text
  BY <1>1
<1>. QED  BY <1>1, <1>3, <1>4, <1>5, <1>6, <1>7

(* Past an exit: what was compared is what was expected. *)
LEMMA BeqRuns ==
  ASSUME NEW K, NEW p, AtItem(K, p), Branch, text[p].op = "beq"
  PROVE  \E q \in DOMAIN text' : Reached(K, q)'
<1>. DEFINE k == K[p - 1]
<1>1. Rests /\ mem' = mem /\ effects' = effects /\ regs' = regs
  BY DEF Branch, Keep, Rests
<1>2. /\ Here = text[p] /\ p \in Nat /\ p > 0 /\ K[p] = After(k, text[p], p) /\ Alive(p) /\ pc = End[p - 1]
      /\ End[p - 1] \in Nat /\ BeqOK(k, p)
  <2>1. p \in DOMAIN text /\ p - 1 \in 0 .. Len(text) /\ ItemOK(K, p)
    BY Fetched DEF AtItem
  <2>. QED  BY <2>1, Fetched DEF ItemOK, ItemFine
<1>3. /\ text[p] = SkipIfExpected(16) /\ text[p + 1] = Exit(255) /\ ExpectedReg \in DOMAIN k.regs
  BY <1>2 DEF BeqOK
<1>4. /\ p + 1 \in DOMAIN text /\ p + 2 \in DOMAIN text
      /\ End[p] = End[p - 1] + 4 /\ End[p + 1] = End[p] + 12 /\ K[p + 1] = K[p] /\ K[p] = k
  BY <1>2, <1>3, NextItems, ExitIs, AfterNothing
<1>5. HoldsIn(k, regs, mem)
  BY <1>2, HoldsNow DEF AtItem, Reached
<1>6. pc' = pc + (IF regs[ExpectedReg] = regs[DstReg] THEN 16 ELSE 4)
  BY <1>2, <1>3, ExitIs DEF Branch
<1>. HIDE DEF k
<1>7. CASE regs[ExpectedReg] # regs[DstReg]
  <2>1. p + 1 - 1 = p /\ p < p + 1 /\ \A j \in p .. p + 1 - 1 : j = p
    BY <1>2
  <2>2. pc' = End[p + 1 - 1] /\ ~ Alive(p + 1)
    BY <1>2, <1>3, <1>4, <1>6, <1>7, <2>1 DEF Alive
  <2>3. \A j \in p .. p + 1 - 1 : text[j].op # "inst"
    BY <1>3, <2>1, ExitIs
  <2>. QED  BY <1>1, <1>2, <1>4, <2>1, <2>2, <2>3, Moved
<1>8. CASE regs[ExpectedReg] = regs[DstReg]
  <2>1. p + 2 - 1 = p + 1 /\ p < p + 2 /\ (\A j \in p .. p + 2 - 1 : j = p \/ j = p + 1) /\ p + 1 - 1 = p
    BY <1>2
  <2>2. pc' = End[p + 2 - 1]
    BY <1>2, <1>4, <1>6, <1>8, <2>1
  <2>3. \A j \in p .. p + 2 - 1 : text[j].op # "inst"
    BY <1>3, <2>1, ExitIs
  <2>4. Holds(K[p + 2 - 1])'
    BY <1>1, <1>4, <1>5, <2>1, HoldsNext
  <2>5. Passed(K, p)
    BY <1>3, ExitIs DEF Passed
  <2>6. Passed(K, p + 1)
    <3>1. K[p + 1 - 1] = k
      BY <1>4, <2>1
    <3>2. ASSUME k.inst # 0 PROVE
            /\ k.same => \A a \in k.loaded : ReadMem(effects[Owner(k)].mem, a, WordBytes) = k.regs[ExpectedReg]
            /\ \A w \in Outputs :
                 (text[k.inst].n[w].kind = "r" /\ Index(w, text[k.inst].n[w]) = DstReg /\ DstReg \notin k.dirty)
                 => effects[Owner(k)].x[w] = k.regs[ExpectedReg]
      <4>1. k.regs[ExpectedReg] = regs[DstReg]
        BY <1>3, <1>5, <1>8 DEF HoldsIn
      <4>. QED  BY <1>5, <3>2, <4>1 DEF HoldsIn, ResultHeld
    <3>3. PICK j : j = p + 1
      OBVIOUS
    <3>4. K[j - 1] = k
      BY <1>2, <1>4, <3>3
    <3>5. text[j].op = "exit"
      BY <1>3, <3>3, ExitIs
    <3>6. Passed(K, j)
      BY <3>2, <3>4, <3>5 DEF Passed
    <3>. QED  BY <3>3, <3>6
  <2>7. \A j \in p .. p + 2 - 1 : Passed(K, j)
    BY <2>1, <2>5, <2>6
  <2>8. text[p].op # "j"
    BY <1>3, ExitIs
  <2>. QED  BY <1>1, <1>2, <1>4, <2>1, <2>2, <2>3, <2>4, <2>7, <2>8, Moved
<1>. QED  BY <1>7, <1>8

(* Every item of the program is in order.                                  *)
LEMMA ItemAt ==
  ASSUME NEW K, NEW p, AtItem(K, p), NEW j \in DOMAIN text
  PROVE  ItemOK(K, j) /\ ItemFine(K[j - 1], text[j], j)
BY DEF AtItem, TextInv, ItemOK

(* A j of the program goes to the start of an item: past the check, to the *)
(* exit, or past the exit.                                                 *)
LEMMA JRuns ==
  ASSUME NEW K, NEW p, AtItem(K, p), Branch, text[p].op = "j"
  PROVE  \E q \in DOMAIN text' : Reached(K, q)'
<1>. DEFINE k == K[p - 1]
<1>1. Rests /\ mem' = mem /\ effects' = effects /\ regs' = regs
  BY DEF Branch, Keep, Rests
<1>2. /\ Here = text[p] /\ p \in Nat /\ p > 0 /\ K[p] = After(k, text[p], p) /\ Alive(p) /\ pc = End[p - 1]
      /\ End[p - 1] \in Nat /\ JumpOK(p) /\ p \in DOMAIN text /\ DOMAIN text = 1 .. Len(text)
      /\ Len(text) \in Nat
  <2>1. p \in DOMAIN text /\ p - 1 \in 0 .. Len(text) /\ ItemOK(K, p)
    BY Fetched DEF AtItem
  <2>. QED  BY <2>1, Fetched DEF ItemOK, ItemFine
<1>3. pc' = End[p - 1] + text[p].n
  BY <1>2 DEF Branch
<1>4. text[p].size = 4 /\ End[p] = End[p - 1] + 4 /\ p + 1 \in DOMAIN text
  <2>1. text[p].size = 4
    BY <1>2 DEF JumpOK
  <2>. QED  BY <2>1, NextItems
<1>. HIDE DEF k
<1>5. CASE /\ text[p].n = 16 /\ p + 3 \in DOMAIN text
           /\ text[p + 1].op = "li" /\ text[p + 2].op = "beq" /\ text[p + 3] = Exit(255)
  <2>1. p + 1 \in DOMAIN text /\ p + 2 \in DOMAIN text
    BY <1>2, <1>5
  <2>2. text[p + 1].size = 8
    BY <1>5, <2>1, ItemAt DEF ItemFine
  <2>3. text[p + 2].size = 4
    BY <1>5, <2>1, ItemAt, ExitIs DEF ItemFine, BeqOK
  <2>4. End[p + 1] = End[p] + 8 /\ End[p + 2] = End[p + 1] + 4
    BY <2>1, <2>2, <2>3, NextItems
  <2>5. p + 3 - 1 = p + 2 /\ p < p + 3 /\ \A j \in p .. p + 3 - 1 : j = p \/ j = p + 1 \/ j = p + 2
    BY <1>2
  <2>6. pc' = End[p + 3 - 1]
    <3>. PICK e : e = End[p - 1]
      OBVIOUS
    <3>1. e \in Nat /\ pc' = e + 16 /\ End[p + 2] = ((e + 4) + 8) + 4
      BY <1>2, <1>3, <1>4, <1>5, <2>4
    <3>. QED  BY <2>5, <3>1
  <2>7. ~ Alive(p + 3) /\ \A j \in p .. p + 3 - 1 : text[j].op # "inst"
    BY <1>5, <2>5 DEF Alive
  <2>8. PICK q : q = p + 3
    OBVIOUS
  <2>9. q \in DOMAIN text /\ p < q
    BY <1>5, <2>5, <2>8
  <2>10. pc' = End[q - 1]
    BY <1>2, <2>6, <2>8
  <2>11. ~ Alive(q) /\ \A j \in p .. q - 1 : text[j].op # "inst"
    BY <1>2, <2>7, <2>8
  <2>. QED  BY <1>1, <1>2, <2>9, <2>10, <2>11, Moved
<1>6. CASE /\ text[p].n = 8 /\ p + 2 \in DOMAIN text
           /\ text[p + 1].op = "j" /\ text[p + 2] = Exit(255)
  <2>1. text[p + 1].size = 4
    BY <1>4, <1>6, ItemAt DEF ItemFine, JumpOK
  <2>2. End[p + 1] = End[p] + 4
    BY <1>4, <2>1, NextItems
  <2>3. p + 2 - 1 = p + 1 /\ p < p + 2 /\ \A j \in p .. p + 2 - 1 : j = p \/ j = p + 1
    BY <1>2
  <2>4. pc' = End[p + 2 - 1]
    BY <1>2, <1>3, <1>4, <1>6, <2>2, <2>3
  <2>5. ~ Alive(p + 2) /\ \A j \in p .. p + 2 - 1 : text[j].op # "inst"
    BY <1>6, <2>3 DEF Alive
  <2>6. PICK q : q = p + 2
    OBVIOUS
  <2>7. q \in DOMAIN text /\ p < q
    BY <1>6, <2>3, <2>6
  <2>8. pc' = End[q - 1]
    BY <1>2, <2>4, <2>6
  <2>9. ~ Alive(q) /\ \A j \in p .. q - 1 : text[j].op # "inst"
    BY <1>2, <2>5, <2>6
  <2>. QED  BY <1>1, <1>2, <2>7, <2>8, <2>9, Moved
<1>7. CASE /\ text[p].n = 16 /\ p > 2 /\ text[p - 1].op = "j" /\ text[p - 2].op = "inst"
           /\ text[p + 1] = Exit(255)
  <2>1. p + 2 \in DOMAIN text /\ End[p + 1] = End[p] + 12 /\ K[p + 1] = K[p] /\ K[p] = k
    <3>1. text[p + 1].op = "exit" /\ text[p + 1].size = 12 /\ text[p + 1] # Exit(0)
      BY <1>7, ExitIs
    <3>2. K[p + 1] = K[p] /\ K[p] = k
      <4>1. K[p + 1] = After(K[p], text[p + 1], p + 1)
        BY NextItems
      <4>. QED  BY <1>2, <3>1, <4>1, AfterNothing
    <3>. QED  BY <1>4, <3>1, <3>2, NextItems
  <2>2. p + 2 - 1 = p + 1 /\ p < p + 2 /\ (\A j \in p .. p + 2 - 1 : j = p \/ j = p + 1) /\ p + 1 - 1 = p
    BY <1>2
  <2>3. pc' = End[p + 2 - 1]
    BY <1>2, <1>3, <1>4, <1>7, <2>1, <2>2
  <2>4. \A j \in p .. p + 2 - 1 : text[j].op # "inst"
    BY <1>7, <2>2, ExitIs
  <2>5. HoldsIn(k, regs, mem)
    BY <1>2, HoldsNow DEF AtItem, Reached, k
  <2>6. Holds(K[p + 2 - 1])'
    BY <1>1, <2>1, <2>2, <2>5, HoldsNext
  <2>7. DOMAIN k.regs = {}
    <3>1. PICK m : m = p - 2
      OBVIOUS
    <3>2. m \in Nat /\ m > 0 /\ m \in DOMAIN text /\ m + 1 \in DOMAIN text /\ m + 1 - 1 = m
          /\ p - 1 = m + 1 /\ text[m].op = "inst" /\ text[m + 1].op = "j"
      BY <1>2, <1>7, <3>1
    <3>3. K[m] = After(K[m - 1], text[m], m) /\ K[m + 1] = After(K[m], text[m + 1], m + 1)
      BY <3>2, Fetched
    <3>4. K[m + 1] = K[m] /\ DOMAIN K[m].regs = {}
      BY <3>2, <3>3 DEF After, Empty
    <3>. QED  BY <3>2, <3>4 DEF k
  <2>8. Passed(K, p)
    BY <1>7, ExitIs DEF Passed, Exit, Item
  <2>9. Passed(K, p + 1)
    <3>1. PICK j : j = p + 1
      OBVIOUS
    <3>2. K[j - 1] = k
      BY <1>2, <2>1, <3>1
    <3>3. text[j].op = "exit"
      BY <1>7, <3>1, ExitIs
    <3>4. Passed(K, j)
      BY <2>7, <3>2, <3>3 DEF Passed
    <3>. QED  BY <3>1, <3>4
  <2>10. \A j \in p .. p + 2 - 1 : Passed(K, j)
    BY <2>2, <2>8, <2>9
  <2>11. text[p - 1].op # "inst"
    BY <1>7
  <2>12. PICK q : q = p + 2
    OBVIOUS
  <2>13. /\ q \in DOMAIN text /\ p < q /\ pc' = End[q - 1] /\ Holds(K[q - 1])'
         /\ \A j \in p .. q - 1 : text[j].op # "inst"
         /\ \A j \in p .. q - 1 : Passed(K, j)
    <3>1. q \in DOMAIN text /\ p < q
      BY <2>1, <2>2, <2>12
    <3>2. q - 1 = p + 2 - 1
      BY <1>2, <2>12
    <3>. QED  BY <2>3, <2>4, <2>6, <2>10, <3>1, <3>2
  <2>. QED  BY <1>1, <1>2, <2>11, <2>13, Moved
<1>. QED  BY <1>2, <1>5, <1>6, <1>7 DEF JumpOK

(* A branch goes to the start of an item, and if that is not an exit(255)  *)
(* the comparison held.                                                    *)
LEMMA BranchRuns ==
  ASSUME NEW K, NEW p, AtItem(K, p), Branch
  PROVE  BenchType' /\ \E q \in DOMAIN text' : Reached(K, q)'
<1>1. Here = text[p]
  BY Fetched
<1>2. text[p].op \in {"beq", "j"}
  BY <1>1 DEF Branch, Fetch
<1>3. \E q \in DOMAIN text' : Reached(K, q)'
  BY <1>2, BeqRuns, JRuns
<1>4. Rests /\ mem' = mem /\ effects' = effects /\ regs' = regs /\ verdict' = verdict /\ impl' = impl
  BY DEF Branch, Keep, Rests
<1>5. pc' \in Nat
  <2>1. PICK q \in DOMAIN text' : Reached(K, q)'
    BY <1>3
  <2>2. pc' = End[q - 1] /\ q \in DOMAIN text
    BY <1>4, <2>1, RestSame DEF Reached
  <2>3. q - 1 \in 0 .. Len(text)
    BY <2>2, Fetched
  <2>4. \A j \in 0 .. Len(text) : End[j] \in Nat
    BY Fetched
  <2>. QED  BY <2>2, <2>3, <2>4
<1>6. tests' = tests /\ Value' = Value /\ Impls' = Impls /\ Verdicts' = Verdicts /\ Reg' = Reg /\ Memory' = Memory
  BY <1>4, RestSame DEF Value, Impls, Verdicts, Reg, Memory, Addresses
<1>. QED  BY <1>3, <1>4, <1>5, <1>6 DEF BenchType, AtItem

(* Only the last step jumps.                                               *)
LEMMA JumpIsLast ==
  ASSUME inst \in Instruction, NEW operands, Reset(operands) \in MState, Effect(operands).jumped
  PROVE  /\ Len(inst.script) \in DOMAIN inst.script
         /\ inst.script[Len(inst.script)].do = "jump"
<1>. DEFINE n == Len(inst.script)
<1>0. n \in Nat /\ DOMAIN inst.script = 1 .. n
  BY Formed
<1>1. PICK f \in [0 .. n -> MState] : EffectOf(f, operands)
  BY EffectRun
<1>2. n # 0
  BY <1>0, <1>1 DEF EffectOf, Reset
<1>3. n \in DOMAIN inst.script /\ n - 1 \in 0 .. n - 1 /\ n - 1 \in 0 .. n
  BY <1>0, <1>2
<1>4. ~ f[n - 1].jumped
  BY <1>1, <1>3, NotYetJumped
<1>5. f[n] = Execute(f[n - 1], inst.script[n]) /\ f[n].jumped /\ f[n - 1] \in MState
  BY <1>0, <1>1, <1>3 DEF EffectOf
<1>6. inst.script[n].do \in {"addr", "add", "out", "ld", "st", "jump"}
  BY <1>3, StepFormed
<1>. DEFINE s == f[n - 1]
            step == inst.script[n]
<1>7. s \in MState /\ Execute(s, step).jumped /\ ~ s.jumped /\ step.do \in {"addr", "add", "out", "ld", "st", "jump"}
  BY <1>4, <1>5, <1>6
<1>8. step.do = "jump"
  <2>. HIDE DEF s, step
  <2>. QED  BY <1>7 DEF Execute, MState
<1>. QED  BY <1>3, <1>8

(* The operands of an instruction the machine has come to.                 *)
LEMMA OperandsReady ==
  ASSUME NEW K, NEW p, AtItem(K, p), text[p].op = "inst"
  PROVE  /\ InstOK(K[p - 1], p) /\ text[p].r \in Tested
         /\ Reset(text[p].n) \in MState
         /\ inst.rdLast \/ format = "elf" =>
              \A w \in Vars : OperandValue(w, text[p].n[w]) = tests[text[p].r].in[w]
<1>. DEFINE k == K[p - 1]
            operands == text[p].n
            e == text[p].r
<1>0. p \in DOMAIN text /\ Alive(p) /\ ItemOK(K, p)
  BY Fetched DEF AtItem
<1>1. InstOK(k, p) /\ e \in Tested
  BY <1>0, InstItem
<1>2. HoldsIn(k, regs, mem)
  BY <1>0, HoldsNow DEF AtItem, Reached
<1>3. /\ \A w \in Vars : Usable(k, w, operands[w])
      /\ inst.rdLast \/ format = "elf" => \A w \in Vars : Fits(k, w, operands[w], e)
  BY <1>1 DEF InstOK
<1>4. (\A z \in DOMAIN regs : regs[z] \in Value) /\ mem \in Memory
  BY DEF AtItem, BenchType
<1>. HIDE DEF k, operands, e
<1>5. \A w \in Vars : OperandValue(w, operands[w]) \in Value
  <2>. SUFFICES ASSUME NEW w \in Vars PROVE OperandValue(w, operands[w]) \in Value
    OBVIOUS
  <2>1. CASE operands[w].kind = "i" /\ operands[w].n \in Value
    BY <2>1 DEF OperandValue
  <2>2. CASE operands[w].kind = "r" /\ Index(w, operands[w]) \in DOMAIN k.regs
    BY <1>2, <1>4, <2>2 DEF OperandValue, HoldsIn
  <2>. QED  BY <1>3, <2>1, <2>2 DEF Usable
<1>6. Reset(operands) \in MState
  <2>. DEFINE x == [w \in Vars |-> OperandValue(w, operands[w])]
  <2>1. x \in [Vars -> Value] /\ 0 \in Value
    BY <1>5, ValueNat
  <2>. QED  BY <1>4, <2>1 DEF Reset, MState
<1>7. inst.rdLast \/ format = "elf" => \A w \in Vars : OperandValue(w, operands[w]) = tests[e].in[w]
  <2>. SUFFICES ASSUME inst.rdLast \/ format = "elf", NEW w \in Vars
                PROVE  OperandValue(w, operands[w]) = tests[e].in[w]
    OBVIOUS
  <2>1. Fits(k, w, operands[w], e)
    BY <1>3
  <2>2. CASE inst.vars[w].role = "imm"
    BY <2>1, <2>2 DEF Fits, OperandValue
  <2>3. CASE inst.vars[w].role # "imm"
    BY <1>2, <2>1, <2>3 DEF Fits, OperandValue, HoldsIn
  <2>. QED  BY <2>2, <2>3
<1>. QED  BY <1>1, <1>6, <1>7 DEF k, operands, e

(* Only an entry that jumps to where the checks expect it makes the        *)
(* machine jump.                                                           *)
LEMMA JumpLands ==
  ASSUME NEW K, NEW p, AtItem(K, p), text[p].op = "inst", Effect(text[p].n).jumped
  PROVE  tests[text[p].r].jump /\ Effect(text[p].n).to = inst.size + 4
<1>. DEFINE operands == text[p].n
            e == text[p].r
<1>1. /\ InstOK(K[p - 1], p) /\ e \in Tested /\ Reset(operands) \in MState
      /\ inst.rdLast \/ format = "elf" => \A w \in Vars : OperandValue(w, operands[w]) = tests[e].in[w]
  BY OperandsReady
<1>2. inst \in Instruction /\ KleeInv /\ Formats /\ stage = "run" /\ format \in {"elf", "c"}
  BY DEF AtItem, ScriptType, KleeInv, TextInv, Formats, Final
<1>3. format = "c" => ~ inst.cskip /\ \A j \in DOMAIN tests : ~ tests[j].jump
  BY <1>2 DEF Formats
<1>4. inst.rdLast \/ inst.cskip
  BY <1>1, <1>2, JumpIsLast, JumpFormed
<1>5. e \in DOMAIN tests /\ ~ Skipped(tests[e])
  BY <1>1 DEF Tested
<1>6. IsRun(inst, tests[e])
  BY <1>2, <1>5, EntryIs
<1>7. tests[e].jump /\ (tests[e].valid => Effect(operands).to = inst.size + 4)
  BY <1>1, <1>2, <1>3, <1>4, <1>6, JumpRight
<1>. QED  BY <1>5, <1>7 DEF Skipped

(* The instruction goes to the next item, or past the j that follows it if *)
(* it jumps.                                                               *)
LEMMA InstLands ==
  ASSUME NEW K, NEW p, AtItem(K, p), Instr
  PROVE  /\ text[p].op = "inst" /\ p + 1 \in DOMAIN text
         /\ Effect(text[p].n) \in MState /\ K[p].inst = p
         /\ Effect(text[p].n).jumped =>
              /\ pc' = End[p + 1] /\ p + 2 \in DOMAIN text /\ text[p + 1].op = "j" /\ K[p + 1] = K[p]
         /\ ~ Effect(text[p].n).jumped => pc' = End[p]
<1>. DEFINE operands == text[p].n
            e == Effect(operands)
<1>1. Here = text[p] /\ p \in DOMAIN text /\ p \in Nat /\ pc = End[p - 1] /\ End[p] = End[p - 1] + text[p].size
      /\ K[p] = After(K[p - 1], text[p], p)
  BY Fetched DEF AtItem
<1>2. text[p].op = "inst" /\ pc' = pc + (IF e.jumped THEN e.to ELSE text[p].size)
  BY <1>1 DEF Instr, Fetch
<1>3. InstOK(K[p - 1], p) /\ Reset(operands) \in MState
  BY <1>2, OperandsReady
<1>4. inst \in Instruction
  BY DEF AtItem, ScriptType, KleeInv
<1>5. e \in MState
  <2>1. PICK f \in [0 .. Len(inst.script) -> MState] : EffectOf(f, operands)
    BY <1>3, <1>4, EffectRun
  <2>2. Len(inst.script) \in 0 .. Len(inst.script)
    BY <1>4, Formed
  <2>. QED  BY <2>1, <2>2 DEF EffectOf
<1>6. p + 1 \in DOMAIN text /\ K[p].inst = p
  <2>1. text[p].op # "exit" /\ text[p].op # "li" /\ text[p].op \notin {"li", "let", "lw", "sw", "poke"}
    BY <1>2
  <2>2. K[p].inst = p
    BY <1>1, <1>2 DEF After
  <2>. QED  BY <2>1, <2>2, NextItems
<1>. HIDE DEF operands, e
<1>7. ASSUME e.jumped PROVE pc' = End[p + 1] /\ p + 2 \in DOMAIN text /\ text[p + 1].op = "j" /\ K[p + 1] = K[p]
  <2>1. tests[text[p].r].jump /\ e.to = inst.size + 4
    BY <1>2, <1>7, JumpLands DEF e, operands
  <2>2. text[p + 1].op = "j"
    BY <1>3, <2>1 DEF InstOK, AtItem
  <2>3. JumpOK(p + 1)
    BY <1>6, <2>2, ItemAt DEF ItemFine
  <2>4. text[p + 1].size = 4
    BY <2>3 DEF JumpOK
  <2>5. text[p].size = inst.size /\ inst.size \in Nat
    BY <1>3, <1>4, Formed DEF InstOK
  <2>6. End[p + 1] = End[p] + 4
    BY <1>6, <2>4, NextItems
  <2>7. text[p + 1] # Exit(0)
    BY <2>2, ExitIs
  <2>8. p + 2 \in DOMAIN text
    BY <1>6, <2>7, NextItems
  <2>9. K[p + 1] = K[p]
    <3>1. K[p + 1] = After(K[p], text[p + 1], p + 1)
      BY <1>2, NextItems
    <3>. QED  BY <2>2, <3>1, AfterNothing
  <2>10. End[p - 1] \in Nat
    BY <1>1 DEF AtItem, BenchType
  <2>. QED  BY <1>1, <1>2, <1>7, <2>1, <2>2, <2>5, <2>6, <2>8, <2>9, <2>10
<1>8. ~ e.jumped => pc' = End[p]
  BY <1>1, <1>2
<1>. QED  BY <1>2, <1>5, <1>6, <1>7, <1>8 DEF e, operands

(* The instruction leaves its results, and nothing else is known.          *)
LEMMA InstHolds ==
  ASSUME NEW K, NEW p, AtItem(K, p), Instr
  PROVE  Holds(K[p])'
<1>. DEFINE k == K[p]
            e == Effect(text[p].n)
            o == text[p].n
<1>1. Here = text[p] /\ p \in DOMAIN text /\ text[p].op = "inst" /\ k = After(K[p - 1], text[p], p)
      /\ Alive(p)
  BY Fetched, InstLands DEF AtItem
<1>2. k = [regs |-> Empty, words |-> Empty, loaded |-> {}, inst |-> p, same |-> TRUE, dirty |-> {}]
  BY <1>1 DEF After
<1>3. Rests
  BY DEF Instr, Keep, Rests
<1>4. /\ regs' = [r \in DOMAIN regs |->
                    IF \E w \in Outputs : o[w].kind = "r" /\ Index(w, o[w]) = r
                    THEN e.x[CHOOSE w \in Outputs : Index(w, o[w]) = r] ELSE regs[r]]
      /\ mem' = e.mem
      /\ effects' = With(effects, text[p].r, e)
  BY <1>1 DEF Instr
<1>5. effects'[text[p].r] = e
  BY <1>4 DEF With
<1>6. InstOK(K[p - 1], p) /\ HoldsIn(K[p - 1], regs, mem)
  BY <1>1, OperandsReady, HoldsNow DEF AtItem, Reached
<1>7. \A w, z \in Outputs : w = z
  BY Variables DEF AtItem, ScriptType
<1>. HIDE DEF k, e, o
<1>8. ASSUME NEW w \in Outputs, o[w].kind = "r"
      PROVE  Index(w, o[w]) \in DOMAIN regs' /\ regs'[Index(w, o[w])] = e.x[w]
  <2>1. w \in Vars
    BY DEF Outputs
  <2>2. Usable(K[p - 1], w, o[w])
    BY <1>6, <2>1 DEF InstOK, o
  <2>3. Index(w, o[w]) \in DOMAIN regs
    BY <1>6, <1>8, <2>2 DEF Usable, HoldsIn
  <2>4. (CHOOSE z \in Outputs : Index(z, o[z]) = Index(w, o[w])) = w
    BY <1>7
  <2>. QED  BY <1>4, <1>8, <2>3, <2>4
<1>9. /\ text' = text /\ Outputs' = Outputs /\ (\A w, x : Index(w, x)' = Index(w, x)) /\ Owner(k)' = Owner(k)
      /\ Addresses' = Addresses
  BY <1>3, RestSame DEF Addresses
<1>10. Owner(k) = text[p].r /\ text[k.inst].n = o
  BY <1>2 DEF Owner, o
<1>11. /\ DOMAIN k.regs = {} /\ DOMAIN k.words = {} /\ k.loaded = {} /\ k.dirty = {}
  BY <1>2 DEF Empty
<1>. QED  BY <1>4, <1>5, <1>8, <1>9, <1>10, <1>11 DEF Holds, k

(* The instruction goes to the start of an item, and what is known there   *)
(* holds.                                                                  *)
LEMMA InstrRuns ==
  ASSUME NEW K, NEW p, AtItem(K, p), Instr
  PROVE  \E q \in DOMAIN text' : Reached(K, q)'
<1>. DEFINE e == Effect(text[p].n)
            q0 == IF e.jumped THEN p + 2 ELSE p + 1
<1>. PICK b, q : b = text[p].r /\ q = q0
  OBVIOUS
<1>1. /\ Here = text[p] /\ p \in DOMAIN text /\ p \in Nat /\ p > 0 /\ DOMAIN text = 1 .. Len(text)
      /\ Len(text) \in Nat /\ Alive(p) /\ text[p].op = "inst" /\ p + 1 \in DOMAIN text
  BY Fetched, InstLands DEF AtItem
<1>2. Rests /\ effects' = With(effects, b, e) /\ b = text[p].r
  BY <1>1 DEF Instr, Keep, Rests
<1>3. InstOK(K[p - 1], p) /\ b \in Tested
  BY <1>1, OperandsReady
<1>4. q \in DOMAIN text /\ q - 1 \in {p, p + 1} /\ pc' = End[q - 1] /\ K[q - 1] = K[p] /\ p <= q - 1 /\ q \in Nat
      /\ \A j \in 1 .. q - 1 : j \in 1 .. p - 1 \/ j = p \/ (j = p + 1 /\ text[p + 1].op = "j")
  <2>1. CASE e.jumped
    <3>1. q = p + 2 /\ q - 1 = p + 1
      BY <1>1, <2>1
    <3>. QED  BY <1>1, <2>1, <3>1, InstLands
  <2>2. CASE ~ e.jumped
    <3>1. q = p + 1 /\ q - 1 = p
      BY <1>1, <2>2
    <3>. QED  BY <1>1, <2>2, <3>1, InstLands
  <2>. QED  BY <2>1, <2>2
<1>5. e.jumped \/ q = p + 1
  OBVIOUS
<1>. HIDE DEF e, q0
<1>6. /\ text' = text /\ tests' = tests
      /\ \A j : End[j]' = End[j] /\ Alive(j)' = Alive(j) /\ Executed(j)' = Executed(j)
  BY <1>2, RestSame
<1>7. DOMAIN effects' = DOMAIN effects \cup {b} /\ effects'[b] = e
      /\ \A c \in DOMAIN effects : c # b => effects'[c] = effects[c]
  BY <1>2 DEF With
<1>8. Executed(q) = Executed(p) \cup {p}
  BY <1>1, <1>4 DEF Executed
<1>9. DOMAIN effects' = {text'[i].r : i \in Executed(q)'}
  BY <1>6, <1>7, <1>8 DEF AtItem, Reached
<1>10. ASSUME NEW i \in 1 .. p - 1, text[i].op = "inst"
       PROVE  effects'[text[i].r] = effects[text[i].r]
  <2>1. i \in Executed(p)
    BY <1>10 DEF Executed
  <2>2. text[i].r \in DOMAIN effects
    BY <2>1 DEF AtItem, Reached
  <2>3. text[i].r < b
    BY <1>3, <1>10 DEF InstOK
  <2>4. b \in Nat
    BY <1>3, TestedNat DEF AtItem, ScriptType
  <2>. QED  BY <1>7, <2>2, <2>3, <2>4
<1>11. \A j \in 1 .. q - 1 : Passed(K, j)'
  <2>. SUFFICES ASSUME NEW j \in 1 .. q - 1 PROVE Passed(K, j)'
    OBVIOUS
  <2>1. CASE j \in 1 .. p - 1
    <3>1. Passed(K, j)
      BY <1>1, <2>1 DEF AtItem, Reached
    <3>2. ASSUME K[j - 1].inst # 0 PROVE effects'[Owner(K[j - 1])] = effects[Owner(K[j - 1])]
      <4>1. j - 1 \in 0 .. p
        BY <1>1, <2>1
      <4>2. K[j - 1].inst \in 1 .. j - 1 /\ text[K[j - 1].inst].op = "inst"
        BY <3>2, <4>1, InstBefore
      <4>3. K[j - 1].inst \in 1 .. p - 1
        BY <1>1, <2>1, <4>2
      <4>. QED  BY <1>10, <4>2, <4>3 DEF Owner
    <3>. QED  BY <1>2, <3>1, <3>2, PassedStays
  <2>2. CASE text[j].op \in {"inst", "j"}
    <3>1. text'[j].op \in {"inst", "j"}
      BY <1>6, <2>2
    <3>. QED  BY <3>1 DEF Passed, Exit, Item
  <2>. QED  BY <1>1, <1>4, <2>1, <2>2
<1>12. ASSUME NEW i \in 1 .. q - 2, text[i].op = "inst", tests[text[i].r].jump
       PROVE  effects'[text[i].r].jumped
  <2>1. CASE i \in 1 .. p - 2
    <3>1. effects[text[i].r].jumped
      BY <1>1, <1>12, <2>1 DEF AtItem, Reached
    <3>2. i \in 1 .. p - 1
      BY <1>1, <2>1
    <3>. QED  BY <1>10, <1>12, <3>1, <3>2
  <2>2. CASE i = p - 1
    <3>1. i \in 1 .. Len(text) /\ i + 1 = p
      BY <1>1, <2>2
    <3>2. text[i + 1].op = "j"
      BY <1>12, <3>1, JumpAfter
    <3>. QED  BY <1>1, <3>1, <3>2
  <2>3. CASE i = p
    <3>1. e.jumped
      BY <1>1, <1>4, <1>5, <2>3
    <3>. QED  BY <1>7, <2>3, <3>1
  <2>4. i \in 1 .. p - 2 \/ i = p - 1 \/ i = p
    BY <1>1, <1>4
  <2>. QED  BY <2>1, <2>2, <2>3, <2>4
<1>13. Holds(K[q - 1])'
  BY <1>4, InstHolds
<1>14. Reached(K, q)'
  BY <1>4, <1>6, <1>9, <1>11, <1>12, <1>13 DEF Reached
<1>. QED  BY <1>4, <1>6, <1>14

(* The instruction keeps the type of the bench.                            *)
LEMMA InstrType ==
  ASSUME NEW K, NEW p, AtItem(K, p), Instr
  PROVE  BenchType'
<1>. DEFINE e == Effect(text[p].n)
            b == text[p].r
            o == text[p].n
<1>1. Here = text[p] /\ e \in MState /\ b \in Tested /\ b \in DOMAIN tests
  BY Fetched, InstLands, OperandsReady DEF Tested
<1>2. /\ Rests /\ effects' = With(effects, b, e) /\ mem' = e.mem /\ verdict' = verdict /\ impl' = impl
      /\ regs' = [r \in DOMAIN regs |->
                    IF \E w \in Outputs : o[w].kind = "r" /\ Index(w, o[w]) = r
                    THEN e.x[CHOOSE w \in Outputs : Index(w, o[w]) = r] ELSE regs[r]]
  BY <1>1 DEF Instr, Keep, Rests
<1>3. PICK q \in DOMAIN text' : Reached(K, q)'
  BY InstrRuns
<1>4. pc' \in Nat
  <2>1. pc' = End[q - 1] /\ q \in DOMAIN text
    BY <1>2, <1>3, RestSame DEF Reached
  <2>2. q - 1 \in 0 .. Len(text) /\ \A j \in 0 .. Len(text) : End[j] \in Nat
    BY <2>1, Fetched
  <2>. QED  BY <2>1, <2>2
<1>. HIDE DEF e, b, o
<1>5. e.mem \in Memory /\ e.x \in [Vars -> Value]
  BY <1>1 DEF MState
<1>6. \A r \in DOMAIN regs' : regs'[r] \in Value
  <2>. SUFFICES ASSUME NEW r \in DOMAIN regs PROVE regs'[r] \in Value
    BY <1>2
  <2>1. regs[r] \in Value
    BY DEF AtItem, BenchType
  <2>2. ASSUME NEW w \in Outputs, Index(w, o[w]) = r
        PROVE  (CHOOSE z \in Outputs : Index(z, o[z]) = r) \in Vars
    BY <2>2 DEF Outputs
  <2>. QED  BY <1>2, <1>5, <2>1, <2>2
<1>7. DOMAIN effects' \subseteq DOMAIN tests /\ DOMAIN regs' = DOMAIN regs
  BY <1>1, <1>2 DEF With, AtItem, BenchType
<1>8. tests' = tests /\ Value' = Value /\ Impls' = Impls /\ Verdicts' = Verdicts /\ Reg' = Reg /\ Memory' = Memory
  BY <1>2, RestSame DEF Value, Impls, Verdicts, Reg, Memory, Addresses
<1>. QED  BY <1>2, <1>4, <1>5, <1>6, <1>7, <1>8 DEF BenchType, AtItem

(* A check that is passed. *)
LEMMA CheckRuns ==
  ASSUME NEW K, NEW p, AtItem(K, p), Check, stage' # "verdict"
  PROVE  \E q \in DOMAIN text' : Reached(K, q)'
<1>. DEFINE k == K[p - 1]
            item == text[p]
<1>1. Here = item /\ K[p] = After(k, item, p)
  BY Fetched DEF AtItem
<1>2. /\ Rests /\ Next1 /\ mem' = mem /\ effects' = effects /\ regs' = regs
      /\ item.op \in {"check", "checkmem"}
      /\ item.op = "check" => regs[item.r] = item.n
  BY <1>1 DEF Check, Keep, Rests, Fetch
<1>3. item.op = "checkmem" => ReadMem(mem, item.r, WordBytes) = item.n
  BY <1>1 DEF Check, Place
<1>4. HoldsIn(k, regs, mem)
  <2>1. Alive(p)
    BY <1>2, Fetched
  <2>. QED  BY <2>1, HoldsNow DEF AtItem, Reached
<1>5. K[p] = k
  BY <1>1, <1>2, AfterNothing
<1>6. Holds(K[p])'
  BY <1>2, <1>4, <1>5, HoldsNext
<1>7. Passed(K, p)
  <2>1. item # Exit(255)
    BY <1>2, ExitIs
  <2>. QED  BY <1>2, <1>3, <1>4, <2>1 DEF Passed, HoldsIn, ResultHeld
<1>8. item.op \notin {"inst", "exit", "j"}
  BY <1>2
<1>. QED  BY <1>2, <1>6, <1>7, <1>8, MovedOn

(* No register, no memory and no effect changes.                           *)
LEMMA QuietType ==
  ASSUME ScriptType, BenchType, Rests, UNCHANGED <<impl, regs, mem, effects>>, pc' \in Nat,
         verdict' \in {"none", "pass", "fail", "crash"}
  PROVE  BenchType'
<1>1. tests' = tests /\ Value' = Value /\ Impls' = Impls /\ Verdicts' = Verdicts /\ Reg' = Reg /\ Memory' = Memory
  BY RestSame DEF Value, Impls, Verdicts, Reg, Memory, Addresses
<1>. QED  BY <1>1 DEF BenchType, Verdicts

(* A check of the C test keeps the type of the bench.                      *)
LEMMA CheckType ==
  ASSUME NEW K, NEW p, AtItem(K, p), Check
  PROVE  BenchType'
<1>1. Rests /\ UNCHANGED <<impl, regs, mem, effects>> /\ ScriptType /\ BenchType
  BY DEF Check, Keep, Rests, AtItem
<1>2. verdict' \in {"none", "pass", "fail", "crash"}
  BY <1>1 DEF Check, BenchType, Verdicts
<1>3. pc' \in Nat
  <2>1. Here.size \in Nat /\ pc \in Nat
    BY <1>1, Fetched DEF BenchType
  <2>. QED  BY <2>1 DEF Check, Next1
<1>. QED  BY <1>1, <1>2, <1>3, QuietType

(* Ending a run keeps the type of the bench.                               *)
LEMMA EndsType ==
  ASSUME ScriptType, BenchType, ExitSyscall \/ Crash
  PROVE  BenchType'
<1>1. Rests /\ UNCHANGED <<impl, regs, mem, effects>> /\ pc' \in Nat
  BY DEF ExitSyscall, Crash, Keep, Rests, BenchType
<1>2. verdict' \in {"none", "pass", "fail", "crash"}
  BY DEF ExitSyscall, Crash
<1>. QED  BY <1>1, <1>2, QuietType

(* At the end of the program all that it checks has been checked.          *)
LEMMA ResultsSeen ==
  ASSUME NEW K, NEW p, AtItem(K, p), text[p] = Exit(0), p = Len(text),
         NEW e, Covered(K, e, {}), inst.rdLast \/ format = "elf", NEW w \in Outputs
  PROVE  effects[e].x[w] = tests[e].x[w]
<1>1. PICK j \in DOMAIN text : ResultAt(K[j - 1], text[j], w, e)
  BY DEF Covered, ResultSeen
<1>. DEFINE k == K[j - 1]
            r == Index(w, text[k.inst].n[w])
<1>2. /\ k.inst # 0 /\ Owner(k) = e /\ r \notin k.dirty
      /\ \/ /\ text[j] = Exit(255) /\ r = DstReg /\ ExpectedReg \in DOMAIN k.regs
            /\ k.regs[ExpectedReg] = tests[e].x[w]
         \/ text[j].op = "check" /\ text[j].r = r /\ text[j].n = tests[e].x[w]
  BY <1>1 DEF ResultAt, FromEntry
<1>3. text[j] # text[p]
  BY <1>2, ExitIs
<1>4. j \in 1 .. p - 1 /\ Alive(p)
  BY <1>3, Fetched, ExitIs DEF Alive
<1>5. Passed(K, j)
  BY <1>4 DEF AtItem, Reached
<1>6. text[k.inst].n[w].kind = "r"
  <2>1. j - 1 \in 0 .. p
    BY <1>4, Fetched
  <2>2. InstOK(K[k.inst - 1], k.inst)
    BY <1>2, <2>1, InstBefore
  <2>3. w \in Vars /\ inst.vars[w].role # "imm"
    BY DEF Outputs
  <2>4. Fits(K[k.inst - 1], w, text[k.inst].n[w], text[k.inst].r)
    BY <2>2, <2>3 DEF InstOK
  <2>. QED  BY <2>3, <2>4 DEF Fits
<1>. HIDE DEF k, r
<1>7. CASE text[j] = Exit(255) /\ r = DstReg /\ ExpectedReg \in DOMAIN k.regs /\ k.regs[ExpectedReg] = tests[e].x[w]
  BY <1>2, <1>5, <1>6, <1>7 DEF Passed, k, r
<1>8. CASE text[j].op = "check" /\ text[j].r = r /\ text[j].n = tests[e].x[w]
  BY <1>2, <1>5, <1>6, <1>8 DEF Passed, k, r
<1>. QED  BY <1>2, <1>7, <1>8

(* At exit(0) every word of a covered entry was compared.                  *)
LEMMA WordsSeen ==
  ASSUME NEW K, NEW p, AtItem(K, p), text[p] = Exit(0), p = Len(text),
         NEW e, Covered(K, e, {}), NEW a \in DOMAIN tests[e].wmem
  PROVE  ReadMem(effects[e].mem, a, WordBytes) = tests[e].wmem[a]
<1>1. PICK j \in DOMAIN text : WordAt(K[j - 1], text[j], a, e)
  BY DEF Covered, WordSeen
<1>. DEFINE k == K[j - 1]
<1>2. /\ k.inst # 0 /\ Owner(k) = e /\ k.same
      /\ \/ /\ text[j] = Exit(255) /\ a \in k.loaded /\ ExpectedReg \in DOMAIN k.regs
            /\ k.regs[ExpectedReg] = tests[e].wmem[a]
         \/ text[j].op = "checkmem" /\ text[j].r = a /\ text[j].n = tests[e].wmem[a]
  BY <1>1 DEF WordAt, FromEntry
<1>3. text[j] # text[p]
  BY <1>2, ExitIs
<1>4. j \in 1 .. p - 1 /\ Alive(p)
  BY <1>3, Fetched, ExitIs DEF Alive
<1>5. Passed(K, j)
  BY <1>4 DEF AtItem, Reached
<1>. HIDE DEF k
<1>6. CASE text[j] = Exit(255) /\ a \in k.loaded /\ ExpectedReg \in DOMAIN k.regs /\ k.regs[ExpectedReg] = tests[e].wmem[a]
  BY <1>2, <1>5, <1>6 DEF Passed, k
<1>7. CASE text[j].op = "checkmem" /\ text[j].r = a /\ text[j].n = tests[e].wmem[a]
  BY <1>2, <1>5, <1>7 DEF Passed, k
<1>. QED  BY <1>2, <1>6, <1>7

-----------------------------------------------------------------------------
(* The invariant of the bench, and what it implies.                        *)

(* A run that ends with pass did everything its entries say.               *)
LEMMA ExitRuns ==
  ASSUME NEW K, NEW p, AtItem(K, p), ExitSyscall
  PROVE  PassMeansChecked'
<1>. DEFINE those == IF format = "elf" THEN {t} ELSE Tested
<1>1. Here = text[p] /\ p \in DOMAIN text /\ p \in Nat /\ DOMAIN text = 1 .. Len(text) /\ Len(text) \in Nat
      /\ AtFinal(K) /\ ItemFine(K[p - 1], text[p], p)
  BY Fetched, ItemAt DEF AtItem
<1>2. /\ Rests /\ effects' = effects /\ text[p].op = "exit"
      /\ verdict' = IF text[p].n = 0 THEN "pass" ELSE "fail"
  BY <1>1 DEF ExitSyscall, Keep, Rests, Fetch
<1>3. /\ tests' = tests /\ format' = format /\ t' = t /\ Tested' = Tested /\ inst' = inst /\ Outputs' = Outputs
  BY <1>2, RestSame
<1>4. SUFFICES ASSUME text[p].n = 0, NEW e \in those
               PROVE  /\ e \in DOMAIN effects
                      /\ inst.rdLast \/ format = "elf" => \A w \in Outputs : effects[e].x[w] = tests[e].x[w]
                      /\ \A a \in DOMAIN tests[e].wmem : ReadMem(effects[e].mem, a, WordBytes) = tests[e].wmem[a]
                      /\ tests[e].jump => effects[e].jumped
  BY <1>2, <1>3 DEF PassMeansChecked
<1>5. text[p] = Exit(0) /\ p = Len(text) /\ Alive(p)
  BY <1>1, <1>2, <1>4, ExitIs DEF ItemFine, Alive
<1>6. Covered(K, e, {})
  <2>1. format \in {"elf", "c"}
    BY DEF AtItem, TextInv, Formats, Final
  <2>. QED  BY <1>1, <1>4, <2>1 DEF AtFinal
<1>7. PICK i \in DOMAIN text : text[i].op = "inst" /\ text[i].r = e
  BY <1>6 DEF Covered, HasInst
<1>8. i \in 1 .. p - 1 /\ i \in Executed(p)
  <2>1. i # p
    BY <1>2, <1>7
  <2>. QED  BY <1>1, <1>5, <1>7, <2>1 DEF Executed
<1>9. e \in DOMAIN effects
  BY <1>7, <1>8 DEF AtItem, Reached
<1>10. inst.rdLast \/ format = "elf" => \A w \in Outputs : effects[e].x[w] = tests[e].x[w]
  BY <1>5, <1>6, ResultsSeen
<1>11. \A a \in DOMAIN tests[e].wmem : ReadMem(effects[e].mem, a, WordBytes) = tests[e].wmem[a]
  BY <1>5, <1>6, WordsSeen
<1>12. tests[e].jump => effects[e].jumped
  <2>. SUFFICES ASSUME tests[e].jump PROVE effects[e].jumped
    OBVIOUS
  <2>1. i + 1 \in DOMAIN text /\ text[i + 1].op = "j"
    BY <1>1, <1>7, JumpAfter
  <2>2. i + 1 # p
    BY <1>2, <2>1
  <2>3. i \in 1 .. p - 2
    BY <1>1, <1>8, <2>2
  <2>. QED  BY <1>5, <1>7, <2>3 DEF AtItem, Reached
<1>. QED  BY <1>9, <1>10, <1>11, <1>12

IdleOK ==
  stage \notin {"run", "verdict"} =>
    /\ impl = Idle.impl /\ pc = Idle.pc /\ regs = Idle.regs /\ mem = Idle.mem
    /\ verdict = Idle.verdict /\ effects = Idle.effects
AtSomeItem(K) == stage = "run" => \E p \in DOMAIN text : Reached(K, p)
BenchInv ==
  /\ ScriptType /\ BenchType /\ IdleOK /\ PassMeansChecked
  /\ \E K : IsKnown(K, text) /\ TextInv(K) /\ AtSomeItem(K)

(* Nothing runs while a program is generated.                              *)
LEMMA GenerateStage ==
  ASSUME Generate
  PROVE  stage \notin {"run", "verdict"} /\ stage' \notin {"run", "verdict"}
BY DEF Generate, pvars, TestNext, NextTest, EmitLoad, EndLoads, EmitVariable, EmitInstruction, EmitChecks,
       EmitStoreCheck, Finish, CNext, StartElf, StartC, NextEntry, Poke, EndPokes, DeclareVariable, EmitAsm,
       CheckMemory, EndEntry, FinishC

(* Generation only adds entries.                                           *)
LEMMA KleeType == ASSUME Generate, ScriptType, TextKnown PROVE DOMAIN tests \subseteq DOMAIN tests'
<1>1. CASE KleeNext
  <2>1. tests \in Seq(Runs(inst))
    BY DEF ScriptType, KleeInv
  <2>2. \A e : tests' = Append(tests, e) => DOMAIN tests \subseteq DOMAIN tests'
    <3>. SUFFICES ASSUME NEW e, tests' = Append(tests, e) PROVE DOMAIN tests \subseteq DOMAIN tests'
      OBVIOUS
    <3>1. IsText(tests)
      BY <2>1, TextFrom
    <3>. QED  BY <3>1, Appended, TextIs
  <2>3. tests' = tests \/ \E e : tests' = Append(tests, e)
    BY <1>1 DEF KleeNext, MakeSymbolic, SkipStep, AddAddress, Add, SetRegister, ReadMemory, WriteMemory, Jump,
                PrintTest
  <2>. QED  BY <2>2, <2>3
<1>2. CASE ~ KleeNext
  BY <1>2 DEF Generate, io, TestNext, NextTest, EmitLoad, EndLoads, EmitVariable, EmitInstruction, EmitChecks,
       EmitStoreCheck, Finish, CNext, StartElf, StartC, NextEntry, Poke, EndPokes, DeclareVariable, EmitAsm,
       CheckMemory, EndEntry, FinishC
<1>. QED  BY <1>1, <1>2

(* Generation keeps the invariant of the bench.                            *)
LEMMA GenerateBench ==
  ASSUME BenchInv, Generate, UNCHANGED bench
  PROVE  BenchInv'
<1>. USE DEF bench
<1>1. ScriptType /\ TextKnown /\ BenchType /\ IdleOK
  BY DEF BenchInv, TextKnown
<1>2. ScriptType' /\ TextKnown'
  BY <1>1, GenerateType, GenerateText
<1>3. stage \notin {"run", "verdict"} /\ stage' \notin {"run", "verdict"}
  BY GenerateStage
<1>4. BenchType'
  <2>1. DOMAIN tests \subseteq DOMAIN tests'
    BY <1>1, KleeType
  <2>2. Value' = Value /\ Impls' = Impls /\ Verdicts' = Verdicts /\ Reg' = Reg /\ Memory' = Memory
    BY DEF Value, Impls, Verdicts, Reg, Memory, Addresses
  <2>. QED  BY <1>1, <2>1, <2>2 DEF BenchType
<1>5. IdleOK'
  BY <1>1, <1>3 DEF IdleOK, Idle
<1>6. PassMeansChecked'
  BY <1>3 DEF PassMeansChecked
<1>. QED  BY <1>2, <1>3, <1>4, <1>5, <1>6 DEF BenchInv, TextKnown, AtSomeItem

(* Going to the next program keeps the invariant of the bench.             *)
LEMMA NextProgramBench ==
  ASSUME BenchInv, NextProgram
  PROVE  BenchInv'
<1>1. ScriptType /\ TextKnown
  BY DEF BenchInv, TextKnown
<1>2. ScriptType' /\ TextKnown'
  BY <1>1, NextProgramText
<1>3. stage' \notin {"run", "verdict"}
  BY DEF NextProgram
<1>4. /\ impl' = Idle.impl /\ pc' = Idle.pc /\ regs' = Idle.regs /\ mem' = Idle.mem
      /\ verdict' = Idle.verdict /\ effects' = Idle.effects
  BY DEF NextProgram
<1>5. Idle' = Idle
  BY DEF Idle, Reg, Addresses, Empty
<1>6. IdleOK'
  BY <1>4, <1>5 DEF IdleOK
<1>7. BenchType'
  <2>1. 0 \in Value /\ 0 \in 0 .. Byte - 1
    BY ValueNat, BytesIs
  <2>. QED  BY <1>4, <2>1 DEF Idle, BenchType, Memory, Empty, Impls, Verdicts, Reg, Addresses, Value
<1>8. PassMeansChecked'
  BY <1>3 DEF PassMeansChecked
<1>. QED  BY <1>2, <1>3, <1>6, <1>7, <1>8 DEF BenchInv, TextKnown, AtSomeItem

(* Loading a program with any implementation keeps the invariant of the    *)
(* bench.                                                                  *)
LEMMA LoadBench ==
  ASSUME BenchInv, Load
  PROVE  BenchInv'
<1>1. PICK K : IsKnown(K, text) /\ TextInv(K)
  BY DEF BenchInv
<1>2. Rests /\ stage = "load" /\ stage' = "run" /\ UNCHANGED <<pc, regs, mem, verdict, effects>>
      /\ ScriptType /\ IdleOK /\ BenchType
  BY DEF Load, Rests, BenchInv
<1>3. impl' \in Impls /\ Final /\ Final'
  BY <1>2 DEF Load, Impls, Final
<1>4. ScriptType'
  BY <1>2, RestType DEF Stages
<1>5. IsKnown(K, text)' /\ TextInv(K)'
  BY <1>1, <1>2, <1>3, RestText
<1>6. BenchType'
  <2>1. tests' = tests /\ Value' = Value /\ Impls' = Impls /\ Verdicts' = Verdicts /\ Reg' = Reg /\ Memory' = Memory
    BY <1>2, RestSame DEF Value, Impls, Verdicts, Reg, Memory, Addresses
  <2>. QED  BY <1>2, <1>3, <2>1 DEF BenchType
<1>7. IdleOK' /\ PassMeansChecked'
  BY <1>2 DEF IdleOK, PassMeansChecked
<1>8. 1 \in DOMAIN text' /\ Reached(K, 1)'
  <2>1. text # <<>> /\ IsText(text) /\ SizesOK
    BY <1>1, <1>2, <1>3 DEF TextInv, AtFinal, ScriptType
  <2>2. Len(text) \in Nat /\ DOMAIN text = 1 .. Len(text)
    BY <2>1, TextIs
  <2>3. Len(text) # 0
    BY <2>1, <2>2 DEF IsText
  <2>4. 1 \in DOMAIN text /\ text' = text
    BY <1>2, <2>2, <2>3, RestSame
  <2>5. End[0] = 0
    BY <2>1, <2>2, Ends0
  <2>6. pc' = 0 /\ DOMAIN effects' = {}
    BY <1>2 DEF IdleOK, Idle, Empty
  <2>7. End[1 - 1]' = 0 /\ Executed(1)' = {}
    <3>1. End[1 - 1]' = End[1 - 1] /\ Executed(1)' = Executed(1)
      BY <1>2, RestSame
    <3>. QED  BY <2>5, <3>1 DEF Executed
  <2>8. K[1 - 1] = Nothing
    BY <1>1 DEF IsKnown
  <2>9. Holds(K[1 - 1])'
    BY <2>8 DEF Holds, Nothing, Empty
  <2>10. (1 .. 1 - 1) = {} /\ (1 .. 1 - 2) = {}
    OBVIOUS
  <2>. QED  BY <2>4, <2>6, <2>7, <2>9, <2>10 DEF Reached
<1>. QED  BY <1>4, <1>5, <1>6, <1>7, <1>8 DEF BenchInv, AtSomeItem

RunStep == SetReg \/ Store \/ LoadIntoReg \/ Branch \/ Instr \/ Check \/ ExitSyscall \/ Crash

(* A step of the machine leaves the scripts alone.                         *)
LEMMA RunStepStage ==
  ASSUME RunStep
  PROVE  Rests /\ impl' = impl /\ stage = "run" /\ stage' \in {"run", "verdict"}
BY DEF RunStep, SetReg, Store, LoadIntoReg, Branch, Instr, Check, ExitSyscall, Crash, Fetch, Keep, Rests, Next1

(* Every step of the machine keeps the invariant of the bench.             *)
LEMMA RunBench ==
  ASSUME BenchInv, RunStep
  PROVE  BenchInv'
<1>1. Rests /\ impl' = impl /\ stage = "run" /\ stage' \in {"run", "verdict"} /\ ScriptType /\ BenchType
  BY RunStepStage DEF BenchInv
<1>2. PICK K : IsKnown(K, text) /\ TextInv(K) /\ AtSomeItem(K)
  BY DEF BenchInv
<1>3. PICK p \in DOMAIN text : AtItem(K, p)
  BY <1>1, <1>2 DEF AtSomeItem, AtItem
<1>4. ScriptType'
  BY <1>1, RestType DEF Stages
<1>5. IsKnown(K, text)' /\ TextInv(K)'
  BY <1>1, <1>2, RestText DEF Final
<1>6. BenchType'
  BY <1>1, <1>3, SetRegRuns, StoreRuns, LoadIntoRegRuns, BranchRuns, InstrType, CheckType, EndsType DEF RunStep
<1>7. AtSomeItem(K)'
  <2>. SUFFICES ASSUME stage' = "run" PROVE \E q \in DOMAIN text' : Reached(K, q)'
    BY DEF AtSomeItem
  <2>1. ~ ExitSyscall /\ ~ Crash
    BY DEF ExitSyscall, Crash
  <2>. QED  BY <1>3, <2>1, SetRegRuns, StoreRuns, LoadIntoRegRuns, BranchRuns, InstrRuns, CheckRuns DEF RunStep
<1>8. IdleOK'
  BY <1>1 DEF IdleOK
<1>9. PassMeansChecked'
  <2>1. CASE ExitSyscall
    BY <1>3, <2>1, ExitRuns
  <2>2. CASE stage' = "run" \/ verdict' \in {"fail", "crash"}
    BY <2>2 DEF PassMeansChecked
  <2>3. CASE Check
    <3>1. stage' = "run" \/ verdict' = "fail"
      BY <1>1, <2>3 DEF Check
    <3>. QED  BY <2>2, <3>1
  <2>4. CASE Crash
    BY <2>2, <2>4 DEF Crash
  <2>5. CASE SetReg \/ Store \/ LoadIntoReg \/ Branch \/ Instr
    BY <1>1, <2>2, <2>5 DEF SetReg, Store, LoadIntoReg, Branch, Instr
  <2>. QED  BY <2>1, <2>3, <2>4, <2>5 DEF RunStep
<1>. QED  BY <1>4, <1>5, <1>6, <1>7, <1>8, <1>9 DEF BenchInv

(* Nothing changes.                                                        *)
LEMMA StutterText ==
  ASSUME ScriptType, NEW K, IsKnown(K, text), TextInv(K), UNCHANGED vars
  PROVE  TextInv(K)'
<1>. USE DEF vars
<1>1. Continues /\ UNCHANGED <<text, args, outs, stage, t, v, todo, inst, tests, format>> /\ t \in Nat
  BY DEF Continues, ScriptType
<1>2. CASE stage \in {"tests", "ended"}
  BY <1>1, <1>2 DEF TextInv, Formats, Final
<1>3. CASE stage \notin {"tests", "ended"}
  <2>1. \A j \in DOMAIN text : ItemOK(K, j)
    BY <1>3 DEF TextInv
  <2>2. /\ \A j \in DOMAIN text' : ItemOK(K, j)'
        /\ \A e, left : Covered(K, e, left) => Covered(K, e, left)'
    <3>1. t <= t /\ (Final => Final')
      BY <1>1 DEF Final
    <3>. QED  BY <1>1, <2>1, <3>1, Keeping
  <2>3. /\ Vars' = Vars /\ Outputs' = Outputs /\ Tested' = Tested /\ Width' = Width
        /\ \A w, o : Index(w, o)' = Index(w, o)
        /\ \A k, w, o, e : Fits(k, w, o, e)' <=> Fits(k, w, o, e)
        /\ \A k, e, d : WordsReady(k, e, d)' <=> WordsReady(k, e, d)
    BY <1>1, Same
  <2>4. /\ Entry' = Entry /\ Known(K)' = Known(K) /\ (NoInst => NoInst') /\ (OnlyEarlier => OnlyEarlier')
        /\ \A k, e : FromEntry(k, e)' <=> FromEntry(k, e)
        /\ \A w : InputReg(w)' = InputReg(w)
    BY <1>1, <2>3 DEF Entry, Known, NoInst, OnlyEarlier, FromEntry, Owner, InputReg
  <2>5. Earlier(K) => Earlier(K)'
    BY <1>1, <2>2, <2>3 DEF Earlier
  <2>6. AtLoads(K) => AtLoads(K)'
    BY <1>1, <2>3, <2>4 DEF AtLoads
  <2>7. AtVariables(K) => AtVariables(K)'
    BY <1>1, <2>3, <2>4 DEF AtVariables
  <2>8. AtChecks => AtChecks'
    BY <1>1, <2>3 DEF AtChecks
  <2>9. AtStores(K) => AtStores(K)'
    BY <1>1, <2>2, <2>3, <2>4 DEF AtStores
  <2>10. AtCLoads(K) => AtCLoads(K)'
    BY <1>1, <2>3, <2>4, <2>5 DEF AtCLoads
  <2>11. \A os : OperandsOK(K, os) => OperandsOK(K, os)'
    BY <1>1, <2>3, <2>4 DEF OperandsOK
  <2>12. AtCVariables(K) => AtCVariables(K)'
    BY <1>1, <2>3, <2>4, <2>5, <2>11 DEF AtCVariables
  <2>13. AtFinal(K) => AtFinal(K)'
    BY <1>1, <2>2, <2>3 DEF AtFinal
  <2>14. Formats => Formats'
    BY <1>1 DEF Formats, Final
  <2>15. AtCStores(K) => AtCStores(K)'
    BY <2>5, <2>9 DEF AtCStores
  <2>16. Final' <=> Final
    BY <1>1 DEF Final
  <2>. QED  BY <1>1, <2>2, <2>5, <2>4, <2>6, <2>7, <2>8, <2>9, <2>10, <2>12, <2>13, <2>14, <2>15, <2>16 DEF TextInv
<1>. QED  BY <1>2, <1>3

(* Stuttering keeps the invariant of the bench.                            *)
LEMMA StutterBench ==
  ASSUME BenchInv, UNCHANGED vars
  PROVE  BenchInv'
<1>. USE DEF vars
<1>1. PICK K : IsKnown(K, text) /\ TextInv(K) /\ AtSomeItem(K)
  BY DEF BenchInv
<1>2. Rests
  BY DEF Rests, io, cvars
<1>3. ScriptType'
  BY <1>2, RestType DEF BenchInv, ScriptType
<1>4. TextInv(K)' /\ IsKnown(K, text)'
  BY <1>1, StutterText DEF BenchInv, IsKnown
<1>5. BenchType'
  BY DEF BenchInv, BenchType, Value, Impls, Verdicts, Reg, Memory, Addresses
<1>6. IdleOK' /\ PassMeansChecked'
  <2>1. IdleOK'
    BY DEF BenchInv, IdleOK, Idle, Addresses, Reg, Empty
  <2>2. Tested' = Tested /\ Outputs' = Outputs
    BY <1>2, RestSame
  <2>3. PassMeansChecked'
    BY <2>2 DEF BenchInv, PassMeansChecked
  <2>. QED  BY <2>1, <2>3
<1>7. AtSomeItem(K)'
  <2>. SUFFICES ASSUME NEW p \in DOMAIN text, Reached(K, p) PROVE Reached(K, p)'
    BY <1>1 DEF AtSomeItem
  <2>1. /\ \A j : End[j]' = End[j] /\ Alive(j)' = Alive(j) /\ Executed(j)' = Executed(j)
    BY <1>2, RestSame
  <2>2. Alive(p) => Holds(K[p - 1])'
    <3>1. Alive(p) => HoldsIn(K[p - 1], regs, mem)
      BY HoldsNow DEF Reached
    <3>. QED  BY <1>2, <3>1, HoldsNext
  <2>3. \A j : Passed(K, j) => Passed(K, j)'
    BY <1>2, PassedStays
  <2>. QED  BY <2>1, <2>2, <2>3 DEF Reached
<1>. QED  BY <1>3, <1>4, <1>5, <1>6, <1>7 DEF BenchInv

(* The invariant of the bench holds initially.                             *)
LEMMA InitBench ==
  ASSUME Init
  PROVE  BenchInv
<1>1. KleeInv
  BY DEF Init, KleeInit, KleeInv
<1>2. ScriptType
  <2>1. IsText(text) /\ IsText(args) /\ IsText(outs) /\ text = <<>>
    BY NoText DEF Init, TestInit, CInit
  <2>2. SizesOK
    BY <2>1 DEF SizesOK
  <2>. QED  BY <1>1, <2>1, <2>2 DEF Init, TestInit, CInit, ScriptType, Stages
<1>. DEFINE K == [j \in {0} |-> Nothing]
<1>3. IsKnown(K, text)
  BY EmptyKnown DEF Init, TestInit
<1>4. TextInv(K)
  BY DEF Init, TestInit, CInit, TextInv, Formats, Final
<1>5. BenchType /\ IdleOK
  BY IdleType DEF Init, IdleOK
<1>6. PassMeansChecked /\ AtSomeItem(K)
  BY DEF Init, TestInit, PassMeansChecked, AtSomeItem
<1>. QED  BY <1>2, <1>3, <1>4, <1>5, <1>6 DEF BenchInv

(* Every step keeps the invariant of the bench.                            *)
LEMMA NextBench ==
  ASSUME BenchInv, [Next]_vars
  PROVE  BenchInv'
<1>1. CASE Generate /\ UNCHANGED bench
  BY <1>1, GenerateBench
<1>2. CASE Machine
  BY <1>2, LoadBench, RunBench, NextProgramBench DEF Machine, RunStep
<1>3. CASE UNCHANGED vars
  BY <1>3, StutterBench
<1>. QED  BY <1>1, <1>2, <1>3 DEF Next

(* The invariant of the bench holds in every reachable state.              *)
THEOREM BenchInvariant == Spec => []BenchInv
<1>1. Init => BenchInv
  BY InitBench
<1>2. BenchInv /\ [Next]_vars => BenchInv'
  BY NextBench
<1>. QED  BY <1>1, <1>2, PTL DEF Spec

(* The invariant of the bench implies its types.                           *)
LEMMA BenchIsTyped ==
  ASSUME BenchInv
  PROVE  TypeOK
<1>1. ScriptType /\ BenchType /\ KleeInv
  BY DEF BenchInv, ScriptType
<1>2. \A e \in DOMAIN tests : EntryOK(tests[e])
  <2>. SUFFICES ASSUME NEW e \in DOMAIN tests PROVE EntryOK(tests[e])
    OBVIOUS
  <2>1. EntryType(inst, tests[e])
    BY <1>1, EntryIs
  <2>2. DOMAIN tests[e].in = Vars
    BY <2>1 DEF EntryType, Vars
  <2>. QED  BY <1>1, <2>2, EntryMaps, ValueNat DEF EntryOK
<1>3. path.u \in Nat /\ path.acc \in Value /\ EntryOK(path)
  <2>1. CASE path = Begin
    BY <2>1, ValueNat DEF Begin, EntryOK, Empty
  <2>2. CASE path # Begin
    <3>1. PICK q, in : path.u \in 1 .. Len(inst.script) + 1 /\ Trace(inst, q, in, path.u) /\ path = q[path.u]
      BY <1>1, <2>2 DEF KleeInv
    <3>2. inst \in Instruction
      BY <1>1 DEF KleeInv
    <3>3. path \in KState(inst)
      <4>1. \A k \in 1 .. path.u : q[k] \in KState(inst)
        BY <3>1, <3>2, TraceOK
      <4>2. path.u \in 1 .. path.u
        BY <3>1, <3>2, Formed
      <4>. QED  BY <3>1, <4>1, <4>2
    <3>4. path.rmem \in Partial(Value) /\ path.wmem \in Partial(Addresses)
      BY <3>3 DEF KState
    <3>5. /\ DOMAIN path.rmem \subseteq Value /\ \A a \in DOMAIN path.rmem : path.rmem[a] \in Value
          /\ DOMAIN path.wmem \subseteq Addresses /\ \A a \in DOMAIN path.wmem : path.wmem[a] \in Value
      BY <3>4, PartialType
    <3>. QED  BY <3>3, <3>5 DEF KState, EntryOK
  <2>. QED  BY <2>1, <2>2
<1>. QED  BY <1>1, <1>2, <1>3 DEF TypeOK, ScriptType, BenchType, KleeInv, Stages, Impls, Verdicts, SizesOK, Memory

(* Entries are runs of the instruction, the text is a sequence of items,   *)
(* and the machine is a machine: the types hold in every reachable state.  *)
THEOREM TypeCorrect == Spec => []TypeOK
<1>1. BenchInv => TypeOK
  BY BenchIsTyped
<1>. QED  BY <1>1, BenchInvariant, PTL

(* A run that ends with exit(0) did everything its entries say, whatever   *)
(* the implementation did: every output, every stored word and every jump  *)
(* were compared (TestProgram and CProgram, run on any implementation).    *)
THEOREM PassMeansCheckedAlways == Spec => []PassMeansChecked
<1>1. BenchInv => PassMeansChecked
  BY DEF BenchInv
<1>. QED  BY <1>1, BenchInvariant, PTL

(* The invariant of the bench implies that the inputs are ready.           *)
LEMMA BenchIsReady ==
  ASSUME BenchInv
  PROVE  InputsReady
<1>. SUFFICES ASSUME Fetch("inst") PROVE InputsReady
  BY DEF InputsReady
<1>1. PICK K : IsKnown(K, text) /\ TextInv(K) /\ AtSomeItem(K)
  BY DEF BenchInv
<1>2. stage = "run" /\ Here.op = "inst"
  BY DEF Fetch
<1>3. PICK p \in DOMAIN text : AtItem(K, p)
  BY <1>1, <1>2 DEF AtSomeItem, AtItem, BenchInv
<1>4. Here = text[p] /\ Alive(p) /\ text[p].op = "inst"
  BY <1>2, <1>3, Fetched
<1>. DEFINE e == text[p].r
            k == K[p - 1]
<1>5. /\ InstOK(k, p)
      /\ inst.rdLast \/ format = "elf" => \A w \in Vars : OperandValue(w, text[p].n[w]) = tests[e].in[w]
  BY <1>3, <1>4, OperandsReady
<1>6. HoldsIn(k, regs, mem)
  BY <1>3, <1>4, HoldsNow DEF AtItem, Reached
<1>7. WordsReady(k, e, DOMAIN tests[e].rmem)
  BY <1>5 DEF InstOK
<1>8. \A a \in DOMAIN tests[e].rmem :
        (\A b \in DOMAIN tests[e].rmem \ {a} : Apart(a, b)) => ReadMem(mem, a, WordBytes) = tests[e].rmem[a]
  BY <1>6, <1>7 DEF WordsReady, Alone, HoldsIn
<1>. QED  BY <1>4, <1>5, <1>8 DEF InputsReady

(* When the instruction is reached, its operands name the values of the    *)
(* entry and the words it loads are in memory, whatever ran before         *)
(* (TestProgram and CProgram).                                             *)
THEOREM InputsReadyAlways == Spec => []InputsReady
<1>1. BenchInv => InputsReady
  BY BenchIsReady
<1>. QED  BY <1>1, BenchInvariant, PTL

-----------------------------------------------------------------------------
(* A right implementation is in step with the harness.                     *)

(* Before the instruction: the words it touches are in the data and apart, *)
(* those it loads are there and those it stores are zero.                  *)
Laid(m, T) ==
  /\ \A k \in DOMAIN T : InData(T[k].at, WordBytes)
  /\ \A k, l \in DOMAIN T : k # l => Apart(T[k].at, T[l].at)
  /\ \A k \in DOMAIN T : T[k].by = "ld" => ReadMem(m, T[k].at, WordBytes) = T[k].n
  /\ \A k \in DOMAIN T : T[k].by = "st" => \A c \in 0 .. WordBytes - 1 : m[T[k].at + c] = 0

(* Afterwards: the words it stored are there, and nothing else has changed. *)
Within(c, a) == c \in a .. a + WordBytes - 1
Kept(m2, m, T) ==
  /\ \A k \in DOMAIN T : T[k].by = "st" => ReadMem(m2, T[k].at, WordBytes) = T[k].n
  /\ \A c \in Addresses : m2[c] # m[c] => \E k \in DOMAIN T : T[k].by = "st" /\ Within(c, T[k].at)

(* A word apart from all touches is kept.                                  *)
LEMMA KeptWord ==
  ASSUME NEW m, NEW m2, NEW T, Kept(m2, m, T), NEW a, InData(a, WordBytes),
         \A k \in DOMAIN T : T[k].at \in Nat /\ Apart(T[k].at, a)
  PROVE  \A c \in 0 .. WordBytes - 1 : m2[a + c] = m[a + c]
<1>0. WordBytes \in 1 .. WordBytes /\ WordBytes \in Nat
  BY BytesIs
<1>1. a \in Nat /\ \A c \in 0 .. WordBytes - 1 : a + c \in Addresses
  BY <1>0, Data
<1>. SUFFICES ASSUME NEW c \in 0 .. WordBytes - 1, m2[a + c] # m[a + c] PROVE FALSE
  OBVIOUS
<1>2. PICK k \in DOMAIN T : Within(a + c, T[k].at)
  BY <1>1 DEF Kept
<1>3. T[k].at \in Nat /\ Apart(T[k].at, a)
  OBVIOUS
<1>. QED  BY <1>0, <1>1, <1>2, <1>3 DEF Within, Apart

(* The next load of the path reads the marker the harness recorded for it, *)
(* if the words that were loaded are laid out and the touches are apart.   *)
LEMMA LoadKept ==
  ASSUME NEW m \in Memory, NEW m2 \in Memory, NEW T \in Seq(Touch), NEW T2 \in Seq(Touch), Laid(m, T2),
         Kept(m2, m, T), NEW l, l = Len(T) + 1, l \in DOMAIN T2, \A k \in DOMAIN T : T2[k] = T[k],
         T2[l].by = "ld", NEW w \in 1 .. WordBytes, T2[l].n < Bytes[w]
  PROVE  InData(T2[l].at, WordBytes) /\ ReadMem(m2, T2[l].at, w) = T2[l].n
<1>. DEFINE a == T2[l].at
<1>0. Len(T) \in Nat /\ DOMAIN T = 1 .. Len(T) /\ Len(T2) \in Nat /\ DOMAIN T2 = 1 .. Len(T2)
      /\ WordBytes \in Nat /\ WordBytes \in 0 .. WordBytes /\ WordBytes \in 1 .. WordBytes /\ w \in 0 .. WordBytes
  BY BytesIs
<1>1. InData(a, WordBytes) /\ ReadMem(m, a, WordBytes) = T2[l].n
  BY DEF Laid
<1>2. \A k \in DOMAIN T : T[k].at \in Nat /\ Apart(T[k].at, a)
  <2>. SUFFICES ASSUME NEW k \in DOMAIN T PROVE T[k].at \in Nat /\ Apart(T[k].at, a)
    OBVIOUS
  <2>1. k \in DOMAIN T2 /\ k # l /\ T[k] \in Touch
    BY <1>0
  <2>2. T[k].at \in Value
    BY <2>1 DEF Touch
  <2>. QED  BY <2>1, <2>2, ValueNat DEF Laid
<1>3. \A c \in 0 .. WordBytes - 1 : m2[a + c] = m[a + c]
  BY <1>1, <1>2, KeptWord
<1>4. a \in Nat /\ \A c \in 0 .. WordBytes - 1 : a + c \in Addresses
  BY <1>0, <1>1, Data
<1>. HIDE DEF a
<1>5. \A c \in 0 .. WordBytes - 1 : m[a + c] \in 0 .. Byte - 1 /\ m2[a + c] \in 0 .. Byte - 1 /\ m[a + c] \in Nat
  <2>. SUFFICES ASSUME NEW c \in 0 .. WordBytes - 1
                PROVE  m[a + c] \in 0 .. Byte - 1 /\ m2[a + c] \in 0 .. Byte - 1 /\ m[a + c] \in Nat
    OBVIOUS
  <2>1. a + c \in Addresses
    BY <1>4
  <2>2. m[a + c] \in 0 .. Byte - 1 /\ m2[a + c] \in 0 .. Byte - 1
    BY <2>1 DEF Memory
  <2>. QED  BY <2>2, BytesIs
<1>6. ReadMem(m2, a, WordBytes) = ReadMem(m, a, WordBytes)
  BY <1>0, <1>3, <1>4, <1>5, SameBytes
<1>7. ReadMem(m2, a, w) = ReadMem(m2, a, WordBytes)
  <2>1. ReadMem(m2, a, WordBytes) < Bytes[w]
    BY <1>1, <1>6 DEF a
  <2>. QED  BY <1>0, <1>4, <1>5, <2>1, ReadNarrow
<1>. QED  BY <1>1, <1>6, <1>7 DEF a

(* The next store of the path leaves what the harness recorded for it and  *)
(* everything else as it was.                                              *)
LEMMA StoreKept ==
  ASSUME NEW m \in Memory, NEW m2 \in Memory, NEW T \in Seq(Touch), NEW T2 \in Seq(Touch), Laid(m, T2),
         Kept(m2, m, T), NEW l, l = Len(T) + 1, l \in DOMAIN T2, \A k \in DOMAIN T : T2[k] = T[k],
         T2[l].by = "st", NEW w \in 1 .. WordBytes, NEW n \in Nat, T2[l].n = n % Bytes[w]
  PROVE  /\ InData(T2[l].at, WordBytes)
         /\ ReadMem(WriteMem(m2, T2[l].at, w, n), T2[l].at, WordBytes) = T2[l].n
         /\ \A k \in DOMAIN T : T[k].by = "st" =>
              ReadMem(WriteMem(m2, T2[l].at, w, n), T[k].at, WordBytes) = T[k].n
         /\ \A c \in Addresses : ~ Within(c, T2[l].at) => WriteMem(m2, T2[l].at, w, n)[c] = m2[c]
<1>. DEFINE a == T2[l].at
<1>0. Len(T) \in Nat /\ DOMAIN T = 1 .. Len(T) /\ Len(T2) \in Nat /\ DOMAIN T2 = 1 .. Len(T2)
      /\ WordBytes \in Nat /\ WordBytes \in 1 .. WordBytes
  BY BytesIs
<1>1. InData(a, WordBytes) /\ \A c \in 0 .. WordBytes - 1 : m[a + c] = 0
  BY DEF Laid
<1>2. \A k \in DOMAIN T : T[k].at \in Nat /\ Apart(T[k].at, a) /\ Apart(a, T[k].at) /\ InData(T[k].at, WordBytes)
  <2>. SUFFICES ASSUME NEW k \in DOMAIN T
                PROVE  T[k].at \in Nat /\ Apart(T[k].at, a) /\ Apart(a, T[k].at) /\ InData(T[k].at, WordBytes)
    OBVIOUS
  <2>1. k \in DOMAIN T2 /\ k # l /\ T[k] \in Touch /\ T2[k] = T[k]
    BY <1>0
  <2>2. T[k].at \in Value
    BY <2>1 DEF Touch
  <2>. QED  BY <2>1, <2>2, ValueNat DEF Laid
<1>3. \A c \in 0 .. WordBytes - 1 : m2[a + c] = m[a + c]
  BY <1>1, <1>2, KeptWord
<1>4. a \in Nat
  BY <1>0, <1>1, Data
<1>. HIDE DEF a
<1>5. ReadMem(WriteMem(m2, a, w, n), a, WordBytes) = n % Bytes[w]
  <2>1. \A c \in 0 .. WordBytes - 1 : m2[a + c] = 0
    BY <1>1, <1>3
  <2>. QED  BY <1>1, <2>1, NarrowStore
<1>6. ASSUME NEW k \in DOMAIN T, T[k].by = "st"
      PROVE  ReadMem(WriteMem(m2, a, w, n), T[k].at, WordBytes) = T[k].n
  <2>1. ReadMem(m2, T[k].at, WordBytes) = T[k].n
    BY <1>6 DEF Kept
  <2>2. InData(T[k].at, WordBytes) /\ Apart(a, T[k].at)
    BY <1>2
  <2>3. ReadMem(WriteMem(m2, a, w, n), T[k].at, WordBytes) = ReadMem(m2, T[k].at, WordBytes)
    BY <1>4, <2>2, OtherWord
  <2>. QED  BY <2>1, <2>3
<1>7. ASSUME NEW c \in Addresses, ~ Within(c, a) PROVE WriteMem(m2, a, w, n)[c] = m2[c]
  <2>1. c \in Nat
    BY ValueNat
  <2>2. ~ (c \in a .. a + w - 1)
    BY <1>0, <1>4, <1>7, <2>1 DEF Within
  <2>. QED  BY <1>4, <2>2, OtherBytes
<1>. QED  BY <1>1, <1>5, <1>6, <1>7 DEF a

(* The machine and the harness agree.                                      *)
Lock(s, q, m) ==
  /\ s.ok /\ s.x = q.x /\ s.ea = q.ea /\ s.acc = q.acc /\ s.jumped = q.jump
  /\ Kept(s.mem, m, q.touched)

(* All that is touched is mapped, laid out and among T. *)
LaidFor(m, T) == T \in Seq(Touch) /\ m \in Memory /\ Laid(m, T) /\ \A k \in DOMAIN T : Mapped(T[k].at, WordBytes)

(* The touch that comes next in a longer list of touches.                  *)
LEMMA TouchedNext ==
  ASSUME NEW T0 \in Seq(Touch), NEW tt, NEW T \in Seq(Touch), Grows(Append(T0, tt), T)
  PROVE  \E l \in DOMAIN T : l = Len(T0) + 1 /\ T[l] = tt /\ \A k \in DOMAIN T0 : T[k] = T0[k]
<1>1. IsText(T0) /\ Len(T0) \in Nat /\ DOMAIN T0 = 1 .. Len(T0) /\ DOMAIN T = 1 .. Len(T) /\ Len(T) \in Nat
  BY TextFrom
<1>2. /\ Len(Append(T0, tt)) = Len(T0) + 1
      /\ \A j \in 1 .. Len(T0) : Append(T0, tt)[j] = T0[j]
      /\ Append(T0, tt)[Len(T0) + 1] = tt
  BY <1>1, Appended
<1>3. Len(T0) + 1 <= Len(T) /\ \A j \in 1 .. Len(T0) + 1 : T[j] = Append(T0, tt)[j]
  BY <1>2 DEF Grows
<1>. DEFINE l == Len(T0) + 1
<1>4. l \in 1 .. Len(T0) + 1 /\ l \in DOMAIN T /\ \A k \in DOMAIN T0 : k \in 1 .. Len(T0) + 1
  BY <1>1, <1>3
<1>5. T[l] = tt /\ \A k \in DOMAIN T0 : T[k] = T0[k]
  BY <1>1, <1>2, <1>3, <1>4
<1>. QED  BY <1>4, <1>5

(* An access is in the data where the word at its address is.              *)
LEMMA MappedNarrow ==
  ASSUME NEW a, Mapped(a, WordBytes), NEW w \in 1 .. WordBytes
  PROVE  Mapped(a, w) /\ InData(a, WordBytes) /\ InRange(a)
<1>1. WordBytes \in Nat /\ Base \in Nat /\ Top \in Nat
  BY BytesIs, MemoryAssumption
<1>. QED  BY <1>1 DEF Mapped, InData, InRange, Addresses

(* A load keeps harness and machine in step.                               *)
LEMMA LockLoad ==
  ASSUME inst \in Instruction, NEW s \in MState, NEW q \in KState(inst), NEW m, NEW T, LaidFor(m, T),
         Lock(s, q, m), NEW w \in 1 .. WordBytes, Grows(Read(q, w).touched, T)
  PROVE  /\ Mapped(s.ea, w)
         /\ Lock([s EXCEPT !.acc = (s.acc + ReadMem(s.mem, s.ea, w)) % Word], Read(q, w), m)
<1>. DEFINE a == q.ea
            value == PatternOf(q.reads + 1, w)
            T0 == q.touched
            tt == [by |-> "ld", at |-> a, n |-> value]
            rm == IF InRange(a) THEN With(q.rmem, a, value)
                  ELSE IF a \in DOMAIN q.rmem THEN q.rmem ELSE With(q.rmem, a, 0)
            q2 == Read(q, w)
            s2 == [s EXCEPT !.acc = (s.acc + ReadMem(s.mem, s.ea, w)) % Word]
<1>1. T0 \in Seq(Touch) /\ T \in Seq(Touch) /\ m \in Memory /\ s.mem \in Memory /\ q.reads + 1 \in Nat
  BY DEF LaidFor, KState, MState
<1>2. q2.touched = Append(T0, tt) /\ q2.acc = (q.acc + rm[a]) % Word /\ q2.x = q.x /\ q2.ea = q.ea /\ q2.jump = q.jump
  BY DEF Read, KState
<1>3. s2.ok = s.ok /\ s2.x = s.x /\ s2.ea = s.ea /\ s2.jumped = s.jumped /\ s2.mem = s.mem
      /\ s2.acc = (s.acc + ReadMem(s.mem, s.ea, w)) % Word
  BY DEF MState
<1>4. value \in 0 .. Bytes[w] - 1 /\ Bytes[w] \in Nat
  <2>1. w \in 0 .. WordBytes
    BY BytesIs
  <2>. QED  BY <1>1, <2>1, PatternType, BytesUpToWord
<1>. HIDE DEF value, T0, tt, rm, q2, s2
<1>5. PICK l \in DOMAIN T : l = Len(T0) + 1 /\ T[l] = tt /\ \A k \in DOMAIN T0 : T[k] = T0[k]
  BY <1>1, <1>2, TouchedNext DEF q2
<1>6. tt.by = "ld" /\ tt.at = a /\ tt.n = value
  BY DEF tt
<1>7. Mapped(a, WordBytes)
  BY <1>5, <1>6 DEF LaidFor
<1>8. Mapped(a, w) /\ InRange(a)
  BY <1>7, MappedNarrow
<1>9. rm[a] = value
  BY <1>8 DEF rm, With
<1>10. s.ea = a /\ s.acc = q.acc /\ Kept(s.mem, m, T0) /\ s.x = q.x /\ s.ok /\ s.jumped = q.jump
  BY DEF Lock, T0
<1>11. ReadMem(s.mem, a, w) = value
  <2>1. T[l].by = "ld" /\ T[l].n < Bytes[w] /\ T[l].at = a /\ T[l].n = value
    BY <1>4, <1>5, <1>6
  <2>2. Laid(m, T)
    BY DEF LaidFor
  <2>. QED  BY <1>1, <1>5, <1>10, <2>1, <2>2, LoadKept
<1>12. Kept(s.mem, m, Append(T0, tt))
  <2>1. Len(T0) \in Nat /\ DOMAIN T0 = 1 .. Len(T0) /\ IsText(T0)
    BY <1>1, TextFrom
  <2>2. /\ Len(Append(T0, tt)) = Len(T0) + 1 /\ IsText(Append(T0, tt))
        /\ \A j \in 1 .. Len(T0) : Append(T0, tt)[j] = T0[j]
        /\ Append(T0, tt)[Len(T0) + 1] = tt
    BY <2>1, Appended
  <2>3. DOMAIN Append(T0, tt) = 1 .. Len(T0) + 1
    BY <2>2, TextIs
  <2>. DEFINE U == Append(T0, tt)
  <2>4. \A k \in DOMAIN U : (k \in DOMAIN T0 /\ U[k] = T0[k]) \/ U[k].by = "ld"
    BY <1>6, <2>1, <2>2, <2>3
  <2>5. \A k \in DOMAIN T0 : k \in DOMAIN U /\ U[k] = T0[k]
    BY <2>1, <2>2, <2>3
  <2>. HIDE DEF U
  <2>6. Kept(s.mem, m, U)
    BY <1>10, <2>4, <2>5 DEF Kept
  <2>. QED  BY <2>6 DEF U
<1>13. Lock(s2, q2, m)
  BY <1>2, <1>3, <1>9, <1>10, <1>11, <1>12 DEF Lock
<1>. QED  BY <1>8, <1>10, <1>13 DEF s2, q2

(* A store keeps harness and machine in step.                              *)
LEMMA LockStore ==
  ASSUME inst \in Instruction, NEW s \in MState, NEW q \in KState(inst), NEW m, NEW T, LaidFor(m, T),
         Lock(s, q, m), NEW z \in DOMAIN inst.vars, NEW w \in 1 .. WordBytes, Grows(Write(q, z, w).touched, T)
  PROVE  /\ Mapped(s.ea, w)
         /\ Lock([s EXCEPT !.mem = WriteMem(s.mem, s.ea, w, s.x[z])], Write(q, z, w), m)
<1>. DEFINE a == q.ea
            n == q.x[z]
            value == n % Bytes[w]
            T0 == q.touched
            tt == [by |-> "st", at |-> a, n |-> value]
            q2 == Write(q, z, w)
            m2 == WriteMem(s.mem, a, w, n)
            s2 == [s EXCEPT !.mem = WriteMem(s.mem, s.ea, w, s.x[z])]
<1>1. T0 \in Seq(Touch) /\ T \in Seq(Touch) /\ m \in Memory /\ s.mem \in Memory /\ n \in Value
  BY DEF LaidFor, KState, MState
<1>2. q2.touched = Append(T0, tt) /\ q2.acc = q.acc /\ q2.x = q.x /\ q2.ea = q.ea /\ q2.jump = q.jump
  BY DEF Write, KState
<1>3. s2.ok = s.ok /\ s2.x = s.x /\ s2.ea = s.ea /\ s2.jumped = s.jumped /\ s2.acc = s.acc
      /\ s2.mem = WriteMem(s.mem, s.ea, w, s.x[z])
  BY DEF MState
<1>4. n \in Nat
  BY <1>1, ValueNat
<1>. HIDE DEF value, T0, tt, q2, s2, n, m2
<1>5. PICK l \in DOMAIN T : l = Len(T0) + 1 /\ T[l] = tt /\ \A k \in DOMAIN T0 : T[k] = T0[k]
  BY <1>1, <1>2, TouchedNext DEF q2
<1>6. tt.by = "st" /\ tt.at = a /\ tt.n = value
  BY DEF tt
<1>7. Mapped(a, WordBytes)
  BY <1>5, <1>6 DEF LaidFor
<1>8. Mapped(a, w)
  BY <1>7, MappedNarrow
<1>10. s.ea = a /\ s.acc = q.acc /\ Kept(s.mem, m, T0) /\ s.x = q.x /\ s.ok /\ s.jumped = q.jump
  BY DEF Lock, T0
<1>11. /\ ReadMem(m2, a, WordBytes) = value
       /\ \A k \in DOMAIN T0 : T0[k].by = "st" => ReadMem(m2, T0[k].at, WordBytes) = T0[k].n
       /\ \A c \in Addresses : ~ Within(c, a) => m2[c] = s.mem[c]
  <2>1. T[l].by = "st" /\ T[l].at = a /\ T[l].n = value /\ value = n % Bytes[w]
    BY <1>5, <1>6 DEF value
  <2>2. Laid(m, T)
    BY DEF LaidFor
  <2>. QED  BY <1>1, <1>4, <1>5, <1>10, <2>1, <2>2, StoreKept DEF m2
<1>12. Kept(m2, m, Append(T0, tt))
  <2>1. Len(T0) \in Nat /\ DOMAIN T0 = 1 .. Len(T0) /\ IsText(T0)
    BY <1>1, TextFrom
  <2>2. /\ Len(Append(T0, tt)) = Len(T0) + 1 /\ IsText(Append(T0, tt))
        /\ \A j \in 1 .. Len(T0) : Append(T0, tt)[j] = T0[j]
        /\ Append(T0, tt)[Len(T0) + 1] = tt
    BY <2>1, Appended
  <2>3. DOMAIN Append(T0, tt) = 1 .. Len(T0) + 1
    BY <2>2, TextIs
  <2>. DEFINE U == Append(T0, tt)
              h == Len(T0) + 1
  <2>4. \A k \in DOMAIN U : (k \in DOMAIN T0 /\ U[k] = T0[k]) \/ U[k] = tt
    BY <2>1, <2>2, <2>3
  <2>5. (\A k \in DOMAIN T0 : k \in DOMAIN U /\ U[k] = T0[k]) /\ h \in DOMAIN U /\ U[h] = tt
    BY <2>1, <2>2, <2>3
  <2>. HIDE DEF U, h
  <2>6. \A k \in DOMAIN U : U[k].by = "st" => ReadMem(m2, U[k].at, WordBytes) = U[k].n
    BY <1>6, <1>11, <2>4
  <2>7. ASSUME NEW c \in Addresses, m2[c] # m[c]
        PROVE  \E k \in DOMAIN U : U[k].by = "st" /\ Within(c, U[k].at)
    <3>1. CASE Within(c, a)
      BY <1>6, <2>5, <3>1
    <3>2. CASE ~ Within(c, a)
      BY <1>10, <1>11, <2>5, <2>7, <3>2 DEF Kept
    <3>. QED  BY <3>1, <3>2
  <2>8. Kept(m2, m, U)
    BY <2>6, <2>7 DEF Kept
  <2>. QED  BY <2>8 DEF U
<1>13. s2.mem = m2
  BY <1>3, <1>10 DEF m2, n
<1>14. Lock(s2, q2, m)
  BY <1>2, <1>3, <1>10, <1>12, <1>13 DEF Lock
<1>. QED  BY <1>8, <1>10, <1>14 DEF s2, q2

(* Every step of the script keeps harness and machine in step, if the      *)
(* implementation is right.                                                *)
LEMMA LockStep ==
  ASSUME inst \in Instruction, impl = "right", NEW s \in MState, NEW q \in KState(inst), TouchOK(q),
         NEW m, NEW T, LaidFor(m, T), Lock(s, q, m), NEW k \in DOMAIN inst.script,
         Grows(KStep(inst, q, inst.script[k]).touched, T)
  PROVE  Lock(Execute(s, inst.script[k]), KStep(inst, q, inst.script[k]), m)
<1>. DEFINE step == inst.script[k]
            z == step.v
            w == step.width
            s2 == Execute(s, step)
            q2 == KStep(inst, q, step)
            Goal == Lock(s2, q2, m)
<1>. SUFFICES Goal
  OBVIOUS
<1>1. z \in DOMAIN inst.vars /\ w \in 1 .. WordBytes
      /\ step.do \in {"addr", "add", "out", "ld", "st", "jump"}
  BY StepFormed
<1>2. s.ok /\ s.x = q.x /\ s.ea = q.ea /\ s.acc = q.acc /\ s.jumped = q.jump /\ Kept(s.mem, m, q.touched)
  BY DEF Lock
<1>3. Taken(step, s.acc) <=> Taken(step, q.acc)
  BY <1>2
<1>4. Grows(q2.touched, T)
  OBVIOUS
<1>. HIDE DEF step, w, z
<1>6. CASE ~ Taken(step, s.acc)
  <2>1. s2 = s /\ q2 = [q EXCEPT !.u = q.u + 1]
    BY <1>3, <1>6 DEF Execute, KStep
  <2>. HIDE DEF s2, q2
  <2>2. q2.x = q.x /\ q2.acc = q.acc /\ q2.ea = q.ea /\ q2.jump = q.jump /\ q2.touched = q.touched
    BY <2>1 DEF KState
  <2>. QED  BY <1>2, <2>1, <2>2 DEF Lock
<1>7. CASE Taken(step, s.acc) /\ step.do = "addr"
  <2>. DEFINE ea == (s.ea + s.x[z]) % Word
  <2>1. s2 = [s EXCEPT !.ea = ea] /\ q2 = [q EXCEPT !.u = q.u + 1, !.ea = ea]
    BY <1>2, <1>3, <1>7 DEF Execute, KStep, z
  <2>. HIDE DEF s2, q2, ea
  <2>2. q2.x = q.x /\ q2.acc = q.acc /\ q2.ea = ea /\ q2.jump = q.jump /\ q2.touched = q.touched
    BY <2>1 DEF KState
  <2>3. s2.x = s.x /\ s2.acc = s.acc /\ s2.ea = ea /\ s2.jumped = s.jumped /\ s2.mem = s.mem /\ s2.ok = s.ok
    BY <2>1 DEF MState
  <2>. QED  BY <1>2, <2>2, <2>3 DEF Lock
<1>8. CASE Taken(step, s.acc) /\ step.do = "add"
  <2>. DEFINE acc == (s.acc + s.x[z]) % Word
  <2>1. s2 = [s EXCEPT !.acc = acc] /\ q2 = [q EXCEPT !.u = q.u + 1, !.acc = acc]
    BY <1>2, <1>3, <1>8 DEF Execute, KStep, z
  <2>. HIDE DEF s2, q2, acc
  <2>2. q2.x = q.x /\ q2.acc = acc /\ q2.ea = q.ea /\ q2.jump = q.jump /\ q2.touched = q.touched
    BY <2>1 DEF KState
  <2>3. s2.x = s.x /\ s2.acc = acc /\ s2.ea = s.ea /\ s2.jumped = s.jumped /\ s2.mem = s.mem /\ s2.ok = s.ok
    BY <2>1 DEF MState
  <2>. QED  BY <1>2, <2>2, <2>3 DEF Lock
<1>9. CASE Taken(step, s.acc) /\ step.do = "out"
  <2>. DEFINE a == (s.acc + 0) % Word
              x == [s.x EXCEPT ![z] = a]
  <2>1. a = s.acc
    <3>. DEFINE c == s.acc
    <3>1. c \in Value /\ Word \in Nat \ {0}
      BY Parts DEF MState
    <3>. HIDE DEF c
    <3>2. c = 0 * Word + c /\ c \in Int /\ c \in 0 .. Word - 1
      BY <3>1 DEF Value
    <3>3. c % Word = c
      BY <3>1, <3>2, DivMod
    <3>4. c + 0 = c
      BY <3>2
    <3>. QED  BY <3>3, <3>4 DEF c
  <2>2. s2 = [s EXCEPT !.x = x]
    BY <1>2, <1>9 DEF Execute, z
  <2>3. q2 = [q EXCEPT !.u = q.u + 1, !.x = x]
    BY <1>2, <1>3, <1>9, <2>1 DEF KStep, z
  <2>. HIDE DEF s2, q2, x, a
  <2>4. q2.x = x /\ q2.acc = q.acc /\ q2.ea = q.ea /\ q2.jump = q.jump /\ q2.touched = q.touched
    BY <2>3 DEF KState
  <2>5. s2.x = x /\ s2.acc = s.acc /\ s2.ea = s.ea /\ s2.jumped = s.jumped /\ s2.mem = s.mem /\ s2.ok = s.ok
    BY <2>2 DEF MState
  <2>. QED  BY <1>2, <2>4, <2>5 DEF Lock
<1>10. CASE Taken(step, s.acc) /\ step.do = "ld"
  <2>1. q2 = Read(q, w)
    BY <1>3, <1>10 DEF KStep, w
  <2>2. Grows(Read(q, w).touched, T)
    BY <1>4, <2>1
  <2>. DEFINE s3 == [s EXCEPT !.acc = (s.acc + ReadMem(s.mem, s.ea, w)) % Word]
  <2>3. Mapped(s.ea, w) /\ Lock(s3, Read(q, w), m)
    BY <1>1, <2>2, LockLoad
  <2>4. s2 = s3
    BY <1>2, <1>10, <2>3 DEF Execute, w
  <2>. HIDE DEF s2, s3, q2
  <2>. QED  BY <2>1, <2>3, <2>4
<1>11. CASE Taken(step, s.acc) /\ step.do = "st"
  <2>1. q2 = Write(q, z, w)
    BY <1>3, <1>11 DEF KStep, w, z
  <2>2. Grows(Write(q, z, w).touched, T)
    BY <1>4, <2>1
  <2>. DEFINE s3 == [s EXCEPT !.mem = WriteMem(s.mem, s.ea, w, s.x[z])]
  <2>3. Mapped(s.ea, w) /\ Lock(s3, Write(q, z, w), m)
    BY <1>1, <2>2, LockStore
  <2>4. s2 = s3
    BY <1>2, <1>11, <2>3 DEF Execute, w, z
  <2>. HIDE DEF s2, s3, q2
  <2>. QED  BY <2>1, <2>3, <2>4
<1>12. CASE Taken(step, s.acc) /\ step.do = "jump"
  <2>. DEFINE va == q.valid \/ q.x[z] = inst.size + 4
  <2>1. s2 = [s EXCEPT !.jumped = TRUE, !.to = s.x[z]]
    BY <1>2, <1>12 DEF Execute, z
  <2>2. q2 = [q EXCEPT !.u = q.u + 1, !.jump = TRUE, !.valid = va]
    BY <1>3, <1>12 DEF KStep, z
  <2>. HIDE DEF s2, q2, va
  <2>3. q2.x = q.x /\ q2.acc = q.acc /\ q2.ea = q.ea /\ q2.jump = TRUE /\ q2.touched = q.touched
    BY <2>2 DEF KState
  <2>4. s2.x = s.x /\ s2.acc = s.acc /\ s2.ea = s.ea /\ s2.jumped = TRUE /\ s2.mem = s.mem /\ s2.ok = s.ok
    BY <2>1 DEF MState
  <2>. QED  BY <1>2, <2>3, <2>4 DEF Lock
<1>. HIDE DEF Goal
<1>. QED  BY <1>1, <1>6, <1>7, <1>8, <1>9, <1>10, <1>11, <1>12

(* The touched words of a run only become more. *)
LEMMA GrowsOn ==
  ASSUME NEW a \in Seq(Touch), NEW b \in Seq(Touch), NEW c \in Seq(Touch), Grows(a, b), Grows(b, c)
  PROVE  Grows(a, c)
<1>1. Len(a) \in Nat /\ Len(b) \in Nat /\ Len(c) \in Nat
  OBVIOUS
<1>. QED  BY <1>1 DEF Grows

(* A step only adds touches.                                               *)
LEMMA KStepTouched ==
  ASSUME NEW i \in Instruction, NEW q \in KState(i), NEW k \in DOMAIN i.script
  PROVE  Grows(q.touched, KStep(i, q, i.script[k]).touched)
<1>. DEFINE step == i.script[k]
            q2 == KStep(i, q, step)
            T == q.touched
<1>1. \/ q2.touched = T
      \/ \E tt : q2.touched = Append(T, tt)
  BY DEF KStep, Read, Write, KState
<1>2. T \in Seq(Touch)
  BY DEF KState
<1>3. IsText(T)
  BY <1>2, TextFrom
<1>. HIDE DEF q2, T
<1>4. Len(T) \in Nat
  BY <1>2
<1>5. IsText(q2.touched) /\ Grows(T, q2.touched)
  <2>1. ASSUME NEW tt PROVE IsText(Append(T, tt)) /\ Grows(T, Append(T, tt))
    <3>. DEFINE U == Append(T, tt)
    <3>1. IsText(U) /\ Len(U) = Len(T) + 1 /\ \A j \in 1 .. Len(T) : U[j] = T[j]
      BY <1>3, Appended
    <3>. HIDE DEF U
    <3>2. Grows(T, U)
      BY <1>3, <1>4, <3>1 DEF Grows
    <3>. QED  BY <3>1, <3>2 DEF U
  <2>2. Grows(T, T)
    BY <1>3, <1>4 DEF Grows
  <2>. QED  BY <1>1, <1>3, <2>1, <2>2
<1>. QED  BY <1>5 DEF q2, T

(* A right implementation does to the registers and the memory what the    *)
(* harness recorded.                                                       *)
Did(e, entry, m) ==
  /\ e.ok /\ e.x = entry.x /\ e.jumped = entry.jump
  /\ Kept(e.mem, m, entry.touched)

(* A right implementation, started on the inputs of an entry and with its  *)
(* words laid out, does what the entry says.                               *)
LEMMA LockRun ==
  ASSUME inst \in Instruction, impl = "right", NEW e, IsRun(inst, e), NEW operands, Reset(operands) \in MState,
         \A w \in Vars : OperandValue(w, operands[w]) = e.in[w], LaidFor(mem, e.touched)
  PROVE  Did(Effect(operands), e, mem)
<1>. DEFINE n == Len(inst.script)
            T == e.touched
<1>0. n \in Nat /\ DOMAIN inst.script = 1 .. n
  BY Formed
<1>1. PICK f \in [0 .. n -> MState] : EffectOf(f, operands)
  BY EffectRun
<1>2. PICK q, in : Trace(inst, q, in, n + 1) /\ e = [q[n + 1] EXCEPT !.u = 0]
  BY DEF IsRun
<1>3. \A k \in 1 .. n + 1 : q[k] \in KState(inst) /\ TouchOK(q[k]) /\ q[k].in = in
  <2>. DEFINE m == n + 1
  <2>1. m \in 1 .. Len(inst.script) + 1
    BY <1>0
  <2>. HIDE DEF m
  <2>2. \A k \in 1 .. m : q[k] \in KState(inst) /\ TouchOK(q[k]) /\ q[k].in = in
    BY <1>2, <2>1, TraceOK DEF m
  <2>. QED  BY <2>2 DEF m
<1>4. \A k \in 1 .. n : q[k + 1] = KStep(inst, q[k], inst.script[k])
  <2>1. \A k \in 1 .. (n + 1) - 1 : q[k + 1] = KStep(inst, q[k], inst.script[k])
    BY <1>2 DEF Trace
  <2>. QED  BY <1>0, <2>1
<1>5. n + 1 \in 1 .. n + 1 /\ e.x = q[n + 1].x /\ e.jump = q[n + 1].jump /\ e.touched = q[n + 1].touched
      /\ e.in = in
  <2>1. n + 1 \in 1 .. n + 1
    BY <1>0
  <2>2. q[n + 1] \in KState(inst) /\ q[n + 1].in = in
    BY <1>3, <2>1
  <2>. QED  BY <1>2, <2>1, <2>2 DEF KState
<1>6. \A k \in 1 .. n + 1 : q[k].touched \in Seq(Touch)
  BY <1>3 DEF KState
<1>7. \A k \in 1 .. n + 1 : Grows(q[k].touched, T)
  <2>. DEFINE back(j) == q[n + 1 - j].touched
              P == {j \in Nat : j <= n => Grows(back(j), T)}
  <2>1. 0 \in P
    <3>1. n + 1 - 0 = n + 1 /\ T = q[n + 1].touched /\ T \in Seq(Touch)
      BY <1>0, <1>5, <1>6
    <3>2. IsText(T) /\ Len(T) \in Nat
      BY <3>1, TextFrom
    <3>. HIDE DEF T
    <3>3. Grows(T, T)
      BY <3>2 DEF Grows
    <3>. QED  BY <3>1, <3>3
  <2>2. ASSUME NEW j \in 0 .. n - 1, j \in P PROVE j + 1 \in P
    <3>0. n - j \in 1 .. n
      BY <1>0
    <3>1. PICK k \in 1 .. n : k = n - j
      BY <3>0
    <3>2. n + 1 - (j + 1) = k /\ n + 1 - j = k + 1 /\ k \in 1 .. n + 1 /\ k + 1 \in 1 .. n + 1 /\ j + 1 \in Nat
      BY <1>0, <3>1
    <3>3. Grows(q[k + 1].touched, T)
      BY <1>0, <2>2, <3>2
    <3>4. Grows(q[k].touched, q[k + 1].touched)
      <4>1. k \in DOMAIN inst.script /\ q[k] \in KState(inst)
        BY <1>0, <1>3, <3>2
      <4>2. Grows(q[k].touched, KStep(inst, q[k], inst.script[k]).touched)
        BY <4>1, KStepTouched
      <4>. QED  BY <1>4, <4>2
    <3>5. T \in Seq(Touch)
      BY <1>5, <1>6
    <3>. HIDE DEF T
    <3>6. Grows(q[k].touched, T)
      BY <1>6, <3>2, <3>3, <3>4, <3>5, GrowsOn
    <3>. QED  BY <3>2, <3>6
  <2>. HIDE DEF P
  <2>3. \A j \in 0 .. n : j \in P
    <3>. HIDE DEF n
    <3>. QED  BY <1>0, <2>1, <2>2, UpTo
  <2>4. ASSUME NEW k \in 1 .. n + 1 PROVE Grows(q[k].touched, T)
    <3>0. n + 1 - k \in 0 .. n
      BY <1>0
    <3>1. PICK j \in 0 .. n : j = n + 1 - k
      BY <3>0
    <3>2. j \in P /\ j <= n /\ n + 1 - j = k
      BY <1>0, <2>3, <3>1
    <3>. QED  BY <3>2 DEF P
  <2>. QED  BY <2>4
<1>. HIDE DEF T
<1>8. LaidFor(mem, T)
  BY DEF T
<1>. DEFINE Sync(k) == Lock(f[k], q[k + 1], mem)
            P == {k \in Nat : Sync(k)}
<1>9. 0 \in P
  <2>1. q[1] = Given(in) /\ f[0] = Reset(operands) /\ in \in [DOMAIN inst.vars -> Value]
    BY <1>1, <1>2 DEF Trace, EffectOf
  <2>2. Given(in).x = in /\ Given(in).acc = 0 /\ Given(in).ea = 0 /\ ~ Given(in).jump /\ Given(in).touched = <<>>
    BY <2>1, GivenOK
  <2>3. /\ f[0].ok /\ f[0].acc = 0 /\ f[0].ea = 0 /\ ~ f[0].jumped /\ f[0].mem = mem
        /\ f[0].x = [w \in Vars |-> OperandValue(w, operands[w])]
    BY <2>1 DEF Reset
  <2>4. f[0].x = in
    BY <1>5, <2>1, <2>3 DEF Vars
  <2>5. Kept(mem, mem, <<>>)
    BY DEF Kept
  <2>6. Given(in).jump = FALSE /\ f[0].jumped = FALSE
    <3>1. f[0].jumped = FALSE
      BY <2>1 DEF Reset
    <3>2. Given(in) \in KState(inst)
      BY <2>1, GivenOK
    <3>3. Given(in).jump \in BOOLEAN
      BY <3>2 DEF KState
    <3>. QED  BY <2>2, <3>1, <3>3
  <2>7. Lock(f[0], q[1], mem)
    BY <2>1, <2>2, <2>3, <2>4, <2>5, <2>6 DEF Lock
  <2>8. 0 + 1 = 1 /\ 0 \in Nat
    OBVIOUS
  <2>. QED  BY <2>7, <2>8
<1>10. ASSUME NEW k \in 0 .. n - 1, k \in P PROVE k + 1 \in P
  <2>1. PICK l \in 1 .. n : l = k + 1
    BY <1>0
  <2>2. l - 1 = k /\ l \in 1 .. n + 1 /\ l + 1 \in 1 .. n + 1 /\ l \in DOMAIN inst.script /\ k \in 0 .. n
    BY <1>0, <2>1
  <2>. DEFINE s == f[k]
              p == q[l]
  <2>3. f[l] = Execute(s, inst.script[l]) /\ q[l + 1] = KStep(inst, p, inst.script[l])
    BY <1>1, <1>4, <2>2 DEF EffectOf
  <2>4. s \in MState /\ p \in KState(inst) /\ TouchOK(p)
    BY <1>3, <2>2
  <2>5. Lock(s, p, mem)
    BY <1>10, <2>1
  <2>6. Grows(KStep(inst, p, inst.script[l]).touched, T)
    BY <1>7, <2>2, <2>3
  <2>. HIDE DEF s, p
  <2>7. Lock(Execute(s, inst.script[l]), KStep(inst, p, inst.script[l]), mem)
    BY <1>8, <2>2, <2>4, <2>5, <2>6, LockStep
  <2>8. Lock(f[l], q[l + 1], mem) /\ l \in Nat
    BY <2>3, <2>7
  <2>. QED  BY <2>1, <2>8
<1>. HIDE DEF P
<1>11. \A k \in 0 .. n : k \in P
  <2>. HIDE DEF n
  <2>. QED  BY <1>0, <1>9, <1>10, UpTo
<1>12. Lock(f[n], q[n + 1], mem)
  <2>1. n \in P
    BY <1>0, <1>11
  <2>. QED  BY <2>1 DEF P
<1>13. Effect(operands) = f[n]
  BY <1>1 DEF EffectOf
<1>. HIDE DEF n
<1>. QED  BY <1>5, <1>12, <1>13 DEF Lock, Did

(* The accesses of the entries of the program. *)
LEMMA ScopeTouched ==
  ASSUME KleeInv, Separate(Scope), NEW e \in Scope, e \in Tested, NEW k \in DOMAIN tests[e].touched
  PROVE  /\ Mapped(tests[e].touched[k].at, WordBytes) /\ InData(tests[e].touched[k].at, WordBytes)
         /\ tests[e].touched[k].at \in Nat
         /\ \A c \in 0 .. WordBytes - 1 : tests[e].touched[k].at + c \in Addresses
         /\ \A e2 \in Scope : e2 \in Tested => \A k2 \in DOMAIN tests[e2].touched :
              (e2 # e \/ k2 # k) => Apart(tests[e].touched[k].at, tests[e2].touched[k2].at)
                                    /\ Apart(tests[e2].touched[k2].at, tests[e].touched[k].at)
<1>1. \A e2, k2 : e2 \in Tested /\ e2 \in Scope /\ k2 \in DOMAIN tests[e2].touched =>
        /\ <<e2, k2>> \in Touched /\ <<e2, k2>>[1] \in Scope /\ Address(<<e2, k2>>) = tests[e2].touched[k2].at
  BY DEF Touched, Address, Tested
<1>2. Mapped(Address(<<e, k>>), WordBytes)
  BY <1>1 DEF Separate
<1>3. ASSUME NEW e2 \in Scope, e2 \in Tested, NEW k2 \in DOMAIN tests[e2].touched, e2 # e \/ k2 # k
      PROVE  /\ Apart(tests[e].touched[k].at, tests[e2].touched[k2].at)
             /\ Apart(tests[e2].touched[k2].at, tests[e].touched[k].at)
  <2>1. <<e, k>> # <<e2, k2>>
    BY <1>3
  <2>. DEFINE those == {jk \in Touched : jk[1] \in Scope}
  <2>2. <<e, k>> \in those /\ <<e2, k2>> \in those
    BY <1>1, <1>3
  <2>3. \A jk1, jk2 \in those : jk1 # jk2 => Apart(Address(jk1), Address(jk2))
    BY DEF Separate
  <2>. HIDE DEF those
  <2>4. Apart(Address(<<e, k>>), Address(<<e2, k2>>)) /\ Apart(Address(<<e2, k2>>), Address(<<e, k>>))
    BY <2>1, <2>2, <2>3
  <2>. QED  BY <1>1, <1>3, <2>4
<1>4. Mapped(tests[e].touched[k].at, WordBytes)
  BY <1>1, <1>2
<1>5. WordBytes \in 1 .. WordBytes /\ WordBytes \in Nat
  BY BytesIs
<1>6. InData(tests[e].touched[k].at, WordBytes)
  BY <1>4, <1>5, MappedNarrow
<1>7. tests[e].touched[k].at \in Nat /\ \A c \in 0 .. WordBytes - 1 : tests[e].touched[k].at + c \in Addresses
  BY <1>5, <1>6, Data
<1>. QED  BY <1>3, <1>4, <1>6, <1>7

(* The words an entry reads and writes are those it touched.               *)
LEMMA EntryTouched ==
  ASSUME KleeInv, NEW e \in Tested
  PROVE  /\ tests[e].touched \in Seq(Touch) /\ e \in DOMAIN tests
         /\ \A a \in DOMAIN tests[e].rmem : \E k \in DOMAIN tests[e].touched :
              /\ tests[e].touched[k].by = "ld" /\ tests[e].touched[k].at = a
              /\ InRange(a) => tests[e].touched[k].n = tests[e].rmem[a]
         /\ \A k \in DOMAIN tests[e].touched :
              tests[e].touched[k].by = "ld" => tests[e].touched[k].at \in DOMAIN tests[e].rmem
         /\ \A a \in DOMAIN tests[e].wmem : \E k \in DOMAIN tests[e].touched :
              tests[e].touched[k].by = "st" /\ tests[e].touched[k].at = a /\ tests[e].touched[k].n = tests[e].wmem[a]
<1>1. e \in DOMAIN tests
  BY DEF Tested
<1>2. EntryType(inst, tests[e])
  BY <1>1, EntryIs
<1>. QED  BY <1>1, <1>2 DEF EntryType, TouchOK

(* No word is apart from itself.                                           *)
LEMMA NotApart == ASSUME NEW a \in Nat PROVE ~ Apart(a, a)
<1>1. WordBytes \in Nat /\ WordBytes > 0
  BY BytesIs
<1>. QED  BY <1>1 DEF Apart

(* The words of the entries of a program are in the data.                  *)
LEMMA ScopeAddress ==
  ASSUME KleeInv, Separate(Scope), NEW e \in Scope, e \in Tested,
         NEW a, a \in DOMAIN tests[e].rmem \/ a \in DOMAIN tests[e].wmem
  PROVE  Mapped(a, WordBytes)
BY EntryTouched, ScopeTouched

(* What the machine is in before an instruction is what the harness        *)
(* started from.                                                           *)
LEMMA InstLaid ==
  ASSUME NEW K, NEW p, AtItem(K, p), text[p].op = "inst", Promised, Right(p)
  PROVE  /\ text[p].r \in Scope /\ text[p].r \in Tested /\ text[p].r \notin DOMAIN effects
         /\ LaidFor(mem, tests[text[p].r].touched)
<1>. DEFINE e == text[p].r
            T == tests[e].touched
            k == K[p - 1]
<1>1. KleeInv /\ mem \in Memory /\ impl = "right" /\ Separate(Scope) /\ format \in {"elf", "c"}
  BY Fetched DEF AtItem, ScriptType, BenchType, Promised, TextInv, Formats
<1>2. InstOK(k, p) /\ e \in Tested
  BY OperandsReady
<1>3. e \in Scope
  BY <1>1, <1>2 DEF Scope, InstOK
<1>4. e \notin DOMAIN effects
  <2>. SUFFICES ASSUME e \in DOMAIN effects PROVE FALSE
    OBVIOUS
  <2>1. PICK i \in Executed(p) : e = text[i].r
    BY DEF AtItem, Reached
  <2>2. text[i].r < e
    BY <1>2, <2>1 DEF InstOK, Executed
  <2>3. e \in Nat
    BY <1>1, <1>2, TestedNat
  <2>. QED  BY <2>1, <2>2, <2>3
<1>5. T \in Seq(Touch)
  BY <1>1, <1>2, EntryTouched
<1>6. \A l \in DOMAIN T : Mapped(T[l].at, WordBytes) /\ InData(T[l].at, WordBytes) /\ T[l].at \in Nat
  BY <1>1, <1>2, <1>3, ScopeTouched
<1>7. \A l, l2 \in DOMAIN T : l # l2 => Apart(T[l].at, T[l2].at)
  BY <1>1, <1>2, <1>3, ScopeTouched
<1>8. ASSUME NEW l \in DOMAIN T, T[l].by = "ld" PROVE ReadMem(mem, T[l].at, WordBytes) = T[l].n
  <2>. DEFINE a == T[l].at
  <2>1. a \in DOMAIN tests[e].rmem
    BY <1>1, <1>2, <1>8, EntryTouched
  <2>. PICK f : f = tests[e].rmem
    OBVIOUS
  <2>9. \A b \in DOMAIN f : \E l2 \in DOMAIN T : T[l2].at = b /\ (InRange(b) => T[l2].n = f[b])
    BY <1>1, <1>2, EntryTouched
  <2>2. PICK l2 \in DOMAIN T : T[l2].at = a /\ (InRange(a) => T[l2].n = tests[e].rmem[a])
    BY <2>1, <2>9
  <2>3. l2 = l
    <3>1. a \in Nat
      BY <1>6
    <3>. QED  BY <1>7, <2>2, <3>1, NotApart
  <2>4. InRange(a)
    BY <1>6 DEF InData, InRange
  <2>5. Alone(e, a)
    <3>. SUFFICES ASSUME NEW b \in DOMAIN tests[e].rmem \ {a} PROVE Apart(a, b)
      BY DEF Alone
    <3>1. PICK l3 \in DOMAIN T : T[l3].at = b
      BY <1>1, <1>2, EntryTouched
    <3>2. l3 # l
      BY <3>1
    <3>. QED  BY <1>7, <3>1, <3>2
  <2>6. a \in DOMAIN k.words /\ k.words[a] = tests[e].rmem[a]
    BY <1>2, <2>1, <2>5 DEF InstOK, WordsReady
  <2>7. HoldsIn(k, regs, mem)
    BY HoldsNow, Fetched DEF AtItem, Reached
  <2>8. ReadMem(mem, a, WordBytes) = k.words[a]
    BY <2>6, <2>7 DEF HoldsIn
  <2>. QED  BY <2>2, <2>3, <2>4, <2>6, <2>8
<1>9. \A l \in DOMAIN T : T[l].by = "st" => \A c \in 0 .. WordBytes - 1 : mem[T[l].at + c] = 0
  BY <1>3, <1>4 DEF Right, Unwritten
<1>. HIDE DEF T
<1>10. Laid(mem, T)
  BY <1>6, <1>7, <1>8, <1>9 DEF Laid
<1>. QED  BY <1>1, <1>2, <1>3, <1>4, <1>5, <1>6, <1>10 DEF LaidFor, T

-----------------------------------------------------------------------------
(* A right implementation passes.                                          *)

(* A right implementation at item p, and on its way to the next.           *)
RightAt(K, p) == AtItem(K, p) /\ Promised /\ Right(p)
OnTheWay(q) == q \in DOMAIN text /\ pc = End[q - 1] /\ Right(q)
StillUnwritten == \A e \in Scope : e \notin DOMAIN effects => Unwritten(e)

(* A step that leaves the scripts and the implementation alone keeps the   *)
(* promise.                                                                *)
LEMMA PromiseKept ==
  ASSUME Rests, impl' = impl
  PROVE  Promised' = Promised
<1>1. /\ tests' = tests /\ inst' = inst /\ format' = format /\ Scope' = Scope
      /\ Addresses' = Addresses
  BY RestSame DEF Addresses
<1>2. Separate(Scope)' = Separate(Scope)
  BY <1>1 DEF Separate, Touched, Address, Mapped, HasData, Addresses
<1>. QED  BY <1>1, <1>2 DEF Promised

(* No check fails and nothing jumps after an item that leads to the next.  *)
LEMMA NoTrap ==
  ASSUME NEW K, NEW p, AtItem(K, p), NEW q \in DOMAIN text, q > 1, text[q - 1].op \notin {"beq", "j", "inst"}
  PROVE  Alive(q) /\ text[q].op # "j"
<1>1. ItemFine(K[q - 1], text[q], q)
  BY ItemAt
<1>2. text[q] # Exit(255)
  <2>. SUFFICES ASSUME text[q] = Exit(255) PROVE FALSE
    OBVIOUS
  <2>1. text[q].op = "exit" /\ text[q] # Exit(0)
    BY ExitIs
  <2>. QED  BY <1>1, <2>1 DEF ItemFine
<1>3. text[q].op # "j"
  <2>. SUFFICES ASSUME text[q].op = "j" PROVE FALSE
    OBVIOUS
  <2>1. JumpOK(q)
    BY <1>1 DEF ItemFine
  <2>. QED  BY <2>1 DEF JumpOK
<1>. QED  BY <1>2, <1>3 DEF Alive

(* Going from item p to item q past no instruction, and not to an          *)
(* exit(255), all is still right.                                          *)
LEMMA RightMoves ==
  ASSUME NEW K, NEW p, RightAt(K, p), Rests, UNCHANGED effects, NEW q \in DOMAIN text, p < q, pc' = End[q - 1],
         \A j \in p .. q - 1 : text[j].op # "inst",
         Alive(q), text[q].op = "j" => text[q - 1].op = "j", StillUnwritten'
  PROVE  OnTheWay(q)'
<1>1. /\ text' = text /\ tests' = tests
      /\ \A j : End[j]' = End[j] /\ Alive(j)' = Alive(j) /\ Executed(j)' = Executed(j)
      /\ Vars' = Vars /\ Scope' = Scope
  BY RestSame
<1>2. p \in Nat /\ q \in Nat /\ p > 0
  <2>1. p \in Nat /\ p > 0 /\ Len(text) \in Nat /\ DOMAIN text = 1 .. Len(text)
    BY Fetched DEF RightAt
  <2>. QED  BY <2>1
<1>3. Executed(q) = Executed(p)
  <2>1. \A j \in 1 .. q - 1 : j \in 1 .. p - 1 \/ j \in p .. q - 1
    BY <1>2
  <2>2. \A j \in 1 .. p - 1 : j \in 1 .. q - 1
    BY <1>2
  <2>. QED  BY <2>1, <2>2 DEF Executed
<1>4. ASSUME NEW i \in Executed(q) PROVE Done(text[i].r)'
  <2>1. Done(text[i].r)
    BY <1>3 DEF RightAt, Right
  <2>. QED  BY <1>1, <2>1 DEF Done
<1>5. \A i \in Executed(q)' : Done(text[i].r)'
  BY <1>1, <1>4
<1>6. Right(q)'
  <2>1. Alive(q)' /\ (text'[q].op = "j" => text'[q - 1].op = "j")
    BY <1>1
  <2>. QED  BY <1>5, <2>1 DEF Right, StillUnwritten
<1>. QED  BY <1>1, <1>6 DEF OnTheWay

(* Going to the next item past anything but a branch, all is still right.  *)
LEMMA RightNext ==
  ASSUME NEW K, NEW p, RightAt(K, p), Rests, UNCHANGED effects, Next1,
         text[p].op \notin {"beq", "j", "inst", "exit"}, StillUnwritten'
  PROVE  \E q : OnTheWay(q)'
<1>1. PICK q : q = p + 1
  OBVIOUS
<1>2. /\ p \in Nat /\ p > 0 /\ Here = text[p] /\ pc = End[p - 1] /\ p + 1 \in DOMAIN text
      /\ End[p] = End[p - 1] + text[p].size
  BY Fetched, NextItems DEF RightAt
<1>3. q \in DOMAIN text /\ q - 1 = p /\ q > 1 /\ p < q /\ pc' = End[q - 1]
  BY <1>1, <1>2 DEF Next1
<1>4. Alive(q) /\ text[q].op # "j"
  BY <1>3, NoTrap DEF RightAt
<1>5. \A j \in p .. q - 1 : j = p
  BY <1>2, <1>3
<1>. QED  BY <1>3, <1>4, <1>5, RightMoves

(* A step that leaves the memory alone leaves the words of later entries   *)
(* unwritten.                                                              *)
LEMMA UnwrittenStays ==
  ASSUME NEW K, NEW p, RightAt(K, p), Rests, UNCHANGED <<effects, mem>>
  PROVE  StillUnwritten'
<1>1. tests' = tests /\ Scope' = Scope
  BY RestSame
<1>. QED  BY <1>1 DEF RightAt, Right, StillUnwritten, Unwritten

(* Loading a constant, all is still right.                                 *)
LEMMA SetRegRight ==
  ASSUME NEW K, NEW p, RightAt(K, p), SetReg
  PROVE  \E q : OnTheWay(q)'
<1>1. Rests /\ UNCHANGED <<effects, mem>> /\ Next1
  BY DEF SetReg, Keep, Rests
<1>2. Here = text[p]
  BY Fetched DEF RightAt
<1>3. text[p].op \in {"li", "let"}
  BY <1>2 DEF SetReg, Fetch
<1>. QED  BY <1>1, <1>3, RightNext, UnwrittenStays

(* Loading a word, all is still right.                                     *)
LEMMA LoadIntoRegRight ==
  ASSUME NEW K, NEW p, RightAt(K, p), LoadIntoReg
  PROVE  \E q : OnTheWay(q)'
<1>1. Rests /\ UNCHANGED <<effects, mem>> /\ Next1
  BY DEF LoadIntoReg, Keep, Rests
<1>2. Here = text[p]
  BY Fetched DEF RightAt
<1>3. text[p].op = "lw"
  BY <1>2 DEF LoadIntoReg, Fetch
<1>. QED  BY <1>1, <1>3, RightNext, UnwrittenStays

(* Where a word is written or read for an entry.                           *)
LEMMA PlaceIs ==
  ASSUME NEW K, NEW p, RightAt(K, p)
  PROVE  /\ text[p].op \in {"sw", "poke"} => \E e \in Scope : e \in Tested /\ Place \in DOMAIN tests[e].rmem
         /\ text[p].op \in {"lw", "checkmem"} => \E e \in Scope : e \in Tested /\ Place \in DOMAIN tests[e].wmem
         /\ text[p].op \in {"sw", "lw", "poke", "checkmem"} => Mapped(Place, WordBytes)
<1>. DEFINE k == K[p - 1]
<1>1. /\ Here = text[p] /\ KleeInv /\ Separate(Scope) /\ p \in DOMAIN text
      /\ ItemFine(k, text[p], p)
  BY Fetched, ItemAt DEF RightAt, AtItem, ScriptType, Promised
<1>2. text[p].op # "exit" => HoldsIn(k, regs, mem)
  BY Fetched, HoldsNow DEF RightAt, AtItem, Reached
<1>3. text[p].op \in {"sw", "lw"} => Place = k.regs[AddressReg] /\ format = "elf" /\ t \in Tested
  BY <1>1, <1>2 DEF ItemFine, HoldsIn, Place
<1>4. text[p].op \in {"poke", "checkmem"} => Place = text[p].r /\ format = "c"
  BY <1>1 DEF ItemFine, Place
<1>5. text[p].op = "checkmem" => Owner(k) \in Tested
  <2>1. text[p].op = "checkmem" => k.inst # 0
    BY <1>1 DEF ItemFine
  <2>2. p - 1 \in 0 .. p
    BY Fetched DEF RightAt
  <2>. QED  BY <2>1, <2>2, InstBefore DEF RightAt
<1>6. format = "elf" => Scope = {t}
  BY DEF Scope
<1>7. format = "c" => Scope = Tested
  BY DEF Scope
<1>8. ASSUME text[p].op \in {"sw", "poke"} PROVE \E e \in Scope : e \in Tested /\ Place \in DOMAIN tests[e].rmem
  <2>1. CASE text[p].op = "sw"
    BY <1>1, <1>3, <1>6, <2>1 DEF ItemFine, Entry
  <2>2. CASE text[p].op = "poke"
    BY <1>1, <1>4, <1>7, <2>2 DEF ItemFine
  <2>. QED  BY <1>8, <2>1, <2>2
<1>9. ASSUME text[p].op \in {"lw", "checkmem"} PROVE \E e \in Scope : e \in Tested /\ Place \in DOMAIN tests[e].wmem
  <2>1. CASE text[p].op = "lw"
    BY <1>1, <1>3, <1>6, <2>1 DEF ItemFine, Entry
  <2>2. CASE text[p].op = "checkmem"
    BY <1>1, <1>4, <1>5, <1>7, <2>2 DEF ItemFine
  <2>. QED  BY <1>9, <2>1, <2>2
<1>10. text[p].op \in {"sw", "lw", "poke", "checkmem"} => Mapped(Place, WordBytes)
  BY <1>1, <1>8, <1>9, ScopeAddress
<1>. QED  BY <1>8, <1>9, <1>10

(* Storing a word of the input, all is still right.                        *)
LEMMA StoreRight ==
  ASSUME NEW K, NEW p, RightAt(K, p), Store
  PROVE  \E q : OnTheWay(q)'
<1>. PICK a, n : a = Place /\ n = IF Here.op = "sw" THEN regs[Here.r] ELSE Here.n
  OBVIOUS
<1>1. Rests /\ UNCHANGED effects /\ Next1 /\ mem' = WriteMem(mem, a, WordBytes, n) /\ Mapped(a, WordBytes)
  BY DEF Store, Keep, Rests
<1>2. Here = text[p] /\ p \in DOMAIN text
  BY Fetched DEF RightAt, AtItem
<1>3. text[p].op \in {"sw", "poke"}
  BY <1>2 DEF Store, Fetch
<1>4. PICK e0 \in Scope : e0 \in Tested /\ a \in DOMAIN tests[e0].rmem
  BY <1>3, PlaceIs
<1>5. KleeInv /\ mem \in Memory /\ Separate(Scope) /\ StillUnwritten /\ Scope \subseteq Nat
  <2>1. KleeInv /\ mem \in Memory /\ Separate(Scope) /\ StillUnwritten /\ t \in Nat
    BY DEF RightAt, AtItem, ScriptType, BenchType, Promised, Right, StillUnwritten
  <2>. QED  BY <2>1, TestedNat DEF Scope
<1>6. PICK k0 \in DOMAIN tests[e0].touched : tests[e0].touched[k0].by = "ld" /\ tests[e0].touched[k0].at = a
  BY <1>4, <1>5, EntryTouched
<1>7. WordBytes \in 1 .. WordBytes /\ WordBytes \in Nat /\ a \in Nat
  <2>1. a \in Addresses
    BY <1>1 DEF Mapped
  <2>2. WordBytes \in Nat /\ WordBytes > 0
    BY BytesIs
  <2>. QED  BY <2>1, <2>2, ValueNat
<1>8. n \in Nat
  <2>1. text[p].op = "sw" => n \in Value
    <3>. SUFFICES ASSUME text[p].op = "sw" PROVE n \in Value
      OBVIOUS
    <3>1. ItemFine(K[p - 1], text[p], p)
      BY <1>2, ItemAt DEF RightAt
    <3>2. text[p].r = DstReg /\ DstReg \in Reg
      BY <3>1 DEF ItemFine, DstReg, Reg
    <3>. QED  BY <1>2, <3>2 DEF RightAt, AtItem, BenchType
  <2>2. text[p].op = "poke" => n \in Value
    <3>1. ItemFine(K[p - 1], text[p], p)
      BY <1>2, ItemAt DEF RightAt
    <3>. QED  BY <1>2, <3>1 DEF ItemFine
  <2>. QED  BY <1>3, <2>1, <2>2, ValueNat
<1>9. ASSUME NEW e \in Scope, e \in Tested, Unwritten(e),
             NEW k \in DOMAIN tests[e].touched, tests[e].touched[k].by = "st", NEW c \in 0 .. WordBytes - 1
      PROVE  mem'[tests[e].touched[k].at + c] = 0
  <2>. PICK b : b = tests[e].touched[k].at
    OBVIOUS
  <2>1. e # e0 \/ k # k0
    BY <1>6, <1>9
  <2>2. Apart(b, a) /\ b \in Nat /\ b + c \in Addresses
    BY <1>4, <1>5, <1>6, <1>9, <2>1, ScopeTouched
  <2>3. ~ (b + c \in a .. a + WordBytes - 1)
    BY <1>7, <2>2 DEF Apart
  <2>4. mem'[b + c] = mem[b + c]
    <3>. PICK d : d = b + c
      OBVIOUS
    <3>1. d \in Addresses /\ ~ (d \in a .. a + WordBytes - 1)
      BY <2>2, <2>3
    <3>2. mem'[d] = mem[d]
      BY <1>1, <1>5, <1>7, <1>8, <3>1, OtherBytes
    <3>. QED  BY <3>2
  <2>5. mem[b + c] = 0
    BY <1>9 DEF Unwritten
  <2>. QED  BY <2>4, <2>5
<1>10. StillUnwritten'
  <2>1. tests' = tests /\ Scope' = Scope
    BY <1>1, RestSame
  <2>2. format \in {"elf", "c"}
    BY Fetched DEF RightAt, AtItem, TextInv, Formats
  <2>3. Scope \subseteq Tested
    BY <1>4, <2>2 DEF Scope
  <2>4. ASSUME NEW e \in Scope, e \notin DOMAIN effects PROVE Unwritten(e)'
    <3>1. Unwritten(e) /\ e \in Tested
      BY <1>5, <2>3, <2>4 DEF StillUnwritten
    <3>. QED  BY <1>9, <2>1, <3>1 DEF Unwritten
  <2>. QED  BY <1>1, <2>1, <2>4 DEF StillUnwritten
<1>. QED  BY <1>1, <1>3, <1>10, RightNext

(* What has been seen of an executed entry is right.                       *)
LEMMA SeenRight ==
  ASSUME NEW K, NEW p, RightAt(K, p), K[p - 1].inst # 0
  PROVE  /\ Owner(K[p - 1]) \in Tested
         /\ Done(Owner(K[p - 1]))
         /\ \A w \in Outputs : inst.rdLast \/ format = "elf" => text[K[p - 1].inst].n[w].kind = "r"
<1>. DEFINE k == K[p - 1]
            i == k.inst
<1>1. p - 1 \in 0 .. p /\ p \in Nat
  BY Fetched DEF RightAt
<1>2. i \in 1 .. p - 1 /\ text[i].op = "inst" /\ InstOK(K[i - 1], i) /\ Owner(k) \in Tested
  BY <1>1, InstBefore DEF RightAt
<1>3. i \in Executed(p)
  BY <1>2 DEF Executed
<1>4. Done(Owner(k))
  BY <1>3 DEF RightAt, Right, Owner
<1>5. ASSUME NEW w \in Outputs, inst.rdLast \/ format = "elf" PROVE text[i].n[w].kind = "r"
  <2>1. w \in Vars /\ inst.vars[w].role = "rd"
    BY DEF Outputs
  <2>2. Fits(K[i - 1], w, text[i].n[w], text[i].r)
    BY <1>2, <1>5, <2>1 DEF InstOK
  <2>. QED  BY <2>1, <2>2 DEF Fits
<1>. QED  BY <1>2, <1>4, <1>5

(* The branch of a check is taken.                                         *)
LEMMA BeqRight ==
  ASSUME NEW K, NEW p, RightAt(K, p), text[p].op = "beq"
  PROVE  regs[ExpectedReg] = regs[DstReg] /\ BeqOK(K[p - 1], p)
<1>. DEFINE k == K[p - 1]
            o == Owner(k)
<1>1. p \in DOMAIN text /\ ItemFine(k, text[p], p) /\ HoldsIn(k, regs, mem)
  BY Fetched, ItemAt, HoldsNow DEF RightAt, AtItem, Reached
<1>2. BeqOK(k, p) /\ format = "elf"
  BY <1>1 DEF ItemFine
<1>3. k.inst # 0 /\ ExpectedReg \in DOMAIN k.regs
  BY <1>2 DEF BeqOK
<1>4. regs[ExpectedReg] = k.regs[ExpectedReg]
  BY <1>1, <1>3 DEF HoldsIn
<1>5. CASE ResultIn(k, DstReg) /\ \E w \in Outputs : k.regs[ExpectedReg] = tests[o].x[w]
  <2>1. PICK w \in Outputs : k.regs[ExpectedReg] = tests[o].x[w]
    BY <1>5
  <2>2. w \in Vars
    BY DEF Outputs
  <2>3. DstReg \notin k.dirty /\ DstReg = Index(w, text[k.inst].n[w]) /\ text[k.inst].n[w].kind = "r"
    BY <1>2, <1>3, <1>5, SeenRight DEF ResultIn
  <2>4. regs[DstReg] = effects[o].x[w]
    BY <1>1, <1>3, <2>3 DEF HoldsIn, ResultHeld
  <2>5. Done(o)
    BY <1>3, SeenRight
  <2>6. effects[o].x[w] = tests[o].x[w]
    BY <2>2, <2>5 DEF Done
  <2>. QED  BY <1>2, <1>4, <2>1, <2>4, <2>6
<1>6. CASE k.same /\ \E a \in DOMAIN tests[o].wmem : k.loaded = {a} /\ k.regs[ExpectedReg] = tests[o].wmem[a]
  <2>1. PICK a \in DOMAIN tests[o].wmem : k.loaded = {a} /\ k.regs[ExpectedReg] = tests[o].wmem[a]
    BY <1>6
  <2>2. regs[DstReg] = ReadMem(mem, a, WordBytes) /\ mem = effects[o].mem
    BY <1>1, <1>3, <1>6, <2>1 DEF HoldsIn
  <2>3. ReadMem(effects[o].mem, a, WordBytes) = tests[o].wmem[a]
    <3>1. Done(o)
      BY <1>3, SeenRight
    <3>. QED  BY <2>1, <3>1 DEF Done
  <2>. QED  BY <1>2, <1>4, <2>1, <2>2, <2>3
<1>. QED  BY <1>2, <1>5, <1>6 DEF BeqOK

(* Over the exit that the item before it skips. *)
LEMMA RightOver ==
  ASSUME NEW K, NEW p, RightAt(K, p), Rests, UNCHANGED <<effects, mem>>, text[p].op \in {"beq", "j"},
         text[p].size = 4, pc' = pc + 16, p + 1 \in DOMAIN text, text[p + 1] = Exit(255)
  PROVE  \E q : OnTheWay(q)'
<1>1. PICK q : q = p + 2
  OBVIOUS
<1>2. p \in Nat /\ p > 0 /\ pc = End[p - 1] /\ End[p - 1] \in Nat
  <2>1. p \in Nat /\ p > 0 /\ pc = End[p - 1]
    BY Fetched DEF RightAt
  <2>. QED  BY <2>1 DEF RightAt, AtItem, BenchType
<1>3. text[p].op # "exit" /\ text[p + 1] # Exit(0) /\ text[p + 1].size = 12 /\ text[p + 1].op = "exit"
  BY ExitIs
<1>4. p + 2 \in DOMAIN text /\ End[p] = End[p - 1] + 4 /\ End[p + 1] = End[p] + 12
  BY <1>3, NextItems DEF RightAt
<1>5. q \in DOMAIN text /\ q - 1 = p + 1 /\ q > 1 /\ p < q /\ pc' = End[q - 1] /\ text[q - 1].op = "exit"
  BY <1>1, <1>2, <1>3, <1>4
<1>6. Alive(q) /\ text[q].op # "j"
  BY <1>5, NoTrap DEF RightAt
<1>7. \A j \in p .. q - 1 : j = p \/ j = p + 1
  BY <1>2, <1>5
<1>8. \A j \in p .. q - 1 : text[j].op # "inst"
  BY <1>3, <1>7
<1>. QED  BY <1>5, <1>6, <1>8, RightMoves, UnwrittenStays

(* No comparison fails for a right implementation, and its jumps skip the  *)
(* exit.                                                                   *)
LEMMA BranchRight ==
  ASSUME NEW K, NEW p, RightAt(K, p), Branch
  PROVE  \E q : OnTheWay(q)'
<1>1. Rests /\ UNCHANGED <<effects, mem>>
  BY DEF Branch, Keep, Rests
<1>2. /\ Here = text[p] /\ p \in DOMAIN text /\ ItemFine(K[p - 1], text[p], p)
  BY Fetched, ItemAt DEF RightAt, AtItem
<1>3. CASE text[p].op = "beq"
  <2>1. regs[ExpectedReg] = regs[DstReg] /\ BeqOK(K[p - 1], p)
    BY <1>3, BeqRight
  <2>2. text[p].size = 4 /\ text[p].n = 16 /\ p + 1 \in DOMAIN text /\ text[p + 1] = Exit(255)
    BY <2>1, ExitIs DEF BeqOK
  <2>3. pc' = pc + 16
    BY <1>2, <2>1, <2>2 DEF Branch
  <2>. QED  BY <1>1, <1>3, <2>2, <2>3, RightOver
<1>4. CASE text[p].op = "j"
  <2>1. JumpOK(p) /\ text[p - 1].op = "j"
    BY <1>2, <1>4 DEF ItemFine, RightAt, Right
  <2>2. text[p].size = 4 /\ text[p].n = 16 /\ p + 1 \in DOMAIN text /\ text[p + 1] = Exit(255)
    BY <2>1 DEF JumpOK
  <2>3. pc' = pc + 16
    BY <1>2, <1>4, <2>2 DEF Branch
  <2>. QED  BY <1>1, <1>4, <2>2, <2>3, RightOver
<1>5. text[p].op \in {"beq", "j"}
  BY <1>2 DEF Branch, Fetch
<1>. QED  BY <1>3, <1>4, <1>5

(* No check fails.                                                         *)
LEMMA CheckRight ==
  ASSUME NEW K, NEW p, RightAt(K, p), Check
  PROVE  stage' = "run" /\ \E q : OnTheWay(q)'
<1>. DEFINE k == K[p - 1]
            o == Owner(k)
            got == IF Here.op = "check" THEN regs[Here.r] ELSE ReadMem(mem, Place, WordBytes)
<1>1. Rests /\ UNCHANGED <<effects, mem>> /\ stage = "run"
  BY DEF Check, Keep, Rests, Fetch
<1>2. /\ Here = text[p] /\ p \in DOMAIN text /\ ItemFine(k, text[p], p) /\ text[p].op \in {"check", "checkmem"}
  <2>1. Here = text[p] /\ p \in DOMAIN text
    BY Fetched DEF RightAt, AtItem
  <2>. QED  BY <2>1, ItemAt DEF RightAt, Check, Fetch
<1>3. HoldsIn(k, regs, mem) /\ format = "c" /\ inst.rdLast
  BY <1>2, Fetched, HoldsNow DEF RightAt, AtItem, Reached, ItemFine, Promised
<1>4. ASSUME text[p].op = "check" PROVE got = Here.n
  <2>1. ResultIn(k, text[p].r) /\ \E w \in Outputs : text[p].n = tests[o].x[w]
    BY <1>2, <1>4 DEF ItemFine
  <2>2. PICK w \in Outputs : text[p].n = tests[o].x[w]
    BY <2>1
  <2>3. w \in Vars /\ k.inst # 0
    BY <2>1 DEF Outputs, ResultIn
  <2>4. text[p].r \notin k.dirty /\ text[p].r = Index(w, text[k.inst].n[w]) /\ text[k.inst].n[w].kind = "r"
    BY <1>3, <2>1, <2>3, SeenRight DEF ResultIn
  <2>5. regs[text[p].r] = effects[o].x[w]
    BY <1>3, <2>3, <2>4 DEF HoldsIn, ResultHeld
  <2>6. effects[o].x[w] = tests[o].x[w]
    <3>1. Done(o)
      BY <2>3, SeenRight
    <3>. QED  BY <2>3, <3>1 DEF Done
  <2>7. got = regs[text[p].r] /\ Here.n = text[p].n
    BY <1>2, <1>4
  <2>. QED  BY <2>2, <2>5, <2>6, <2>7
<1>5. ASSUME text[p].op = "checkmem" PROVE got = Here.n
  <2>1. k.inst # 0 /\ k.same /\ text[p].r \in DOMAIN tests[o].wmem /\ text[p].n = tests[o].wmem[text[p].r]
    BY <1>2, <1>5 DEF ItemFine
  <2>2. mem = effects[o].mem /\ Place = text[p].r
    BY <1>2, <1>3, <1>5, <2>1 DEF HoldsIn, Place
  <2>3. \A a \in DOMAIN tests[o].wmem : ReadMem(effects[o].mem, a, WordBytes) = tests[o].wmem[a]
    <3>1. Done(o)
      BY <2>1, SeenRight
    <3>. QED  BY <3>1 DEF Done
  <2>4. got = ReadMem(mem, Place, WordBytes) /\ Here.n = text[p].n
    BY <1>2, <1>5
  <2>. QED  BY <2>1, <2>2, <2>3, <2>4
<1>6. got = Here.n
  BY <1>2, <1>4, <1>5
<1>7. Next1 /\ stage' = stage
  BY <1>6 DEF Check
<1>8. text[p].op \notin {"beq", "j", "inst", "exit"}
  BY <1>2
<1>. QED  BY <1>1, <1>7, <1>8, RightNext, UnwrittenStays

(* The exit a right implementation comes to is exit(0).                    *)
LEMMA ExitRight ==
  ASSUME NEW K, NEW p, RightAt(K, p), ExitSyscall
  PROVE  verdict' = "pass"
<1>1. /\ Here = text[p] /\ p \in DOMAIN text /\ ItemFine(K[p - 1], text[p], p) /\ Alive(p)
  BY Fetched, ItemAt DEF RightAt, AtItem, Right
<1>2. text[p].op = "exit"
  BY <1>1 DEF ExitSyscall, Fetch
<1>3. text[p] = Exit(0)
  BY <1>1, <1>2 DEF ItemFine, Alive
<1>. QED  BY <1>1, <1>3, ExitIs DEF ExitSyscall

(* The instruction does what the harness recorded. *)
LEMMA InstDid ==
  ASSUME NEW K, NEW p, RightAt(K, p), text[p].op = "inst"
  PROVE  Did(Effect(text[p].n), tests[text[p].r], mem)
<1>1. LaidFor(mem, tests[text[p].r].touched) /\ text[p].r \in Tested
  BY InstLaid DEF RightAt
<1>2. /\ Reset(text[p].n) \in MState
      /\ inst.rdLast \/ format = "elf" => \A w \in Vars : OperandValue(w, text[p].n[w]) = tests[text[p].r].in[w]
  BY OperandsReady DEF RightAt
<1>3. inst \in Instruction /\ impl = "right" /\ KleeInv /\ (inst.rdLast \/ format = "elf")
  BY Fetched DEF RightAt, AtItem, ScriptType, KleeInv, Promised, TextInv, Formats
<1>4. text[p].r \in DOMAIN tests
  BY <1>1, <1>3, EntryTouched
<1>5. IsRun(inst, tests[text[p].r])
  BY <1>3, <1>4, EntryIs
<1>. QED  BY <1>1, <1>2, <1>3, <1>5, LockRun

(* The instruction of a right implementation does what its entry says and  *)
(* leaves the words of later entries unwritten.                            *)
LEMMA InstrRight ==
  ASSUME NEW K, NEW p, RightAt(K, p), Instr
  PROVE  \E q : OnTheWay(q)'
<1>. PICK e, b, q : e = Effect(text[p].n) /\ b = text[p].r /\ q = IF e.jumped THEN p + 2 ELSE p + 1
  OBVIOUS
<1>1. /\ Here = text[p] /\ p \in DOMAIN text /\ p \in Nat /\ p > 0 /\ DOMAIN text = 1 .. Len(text)
      /\ Len(text) \in Nat /\ text[p].op = "inst" /\ p + 1 \in DOMAIN text
  BY Fetched, InstLands DEF RightAt, AtItem
<1>2. Rests /\ effects' = With(effects, b, e) /\ mem' = e.mem /\ impl' = impl
  BY <1>1 DEF Instr, Keep, Rests
<1>3. Did(e, tests[b], mem)
  BY <1>1, InstDid
<1>4. b \in Scope /\ b \in Tested /\ b \notin DOMAIN effects
  BY <1>1, InstLaid DEF RightAt
<1>5. KleeInv /\ Separate(Scope) /\ (format = "elf" \/ format = "c") /\ InstOK(K[p - 1], p)
  BY <1>1, Fetched, OperandsReady DEF RightAt, AtItem, ScriptType, Promised, TextInv, Formats
<1>6. Scope \subseteq Tested
  BY <1>4, <1>5 DEF Scope
<1>7. e.jumped = tests[b].jump
  BY <1>3 DEF Did
<1>8. q \in DOMAIN text /\ pc' = End[q - 1] /\ Alive(q) /\ (text[q].op = "j" => text[q - 1].op = "j")
      /\ \A j \in 1 .. q - 1 : j \in 1 .. p - 1 \/ j = p \/ (j = p + 1 /\ text[p + 1].op = "j")
  <2>1. CASE e.jumped
    <3>1. q = p + 2 /\ q - 1 = p + 1 /\ q - 2 = p /\ q \in DOMAIN text /\ pc' = End[q - 1]
      BY <1>1, <2>1, InstLands DEF RightAt
    <3>2. text[p + 1].op = "j"
      BY <1>1, <2>1, InstLands DEF RightAt
    <3>3. JumpOK(p + 1) /\ p + 1 - 1 = p
      BY <1>1, <3>2, ItemAt DEF RightAt, ItemFine
    <3>4. text[p + 1 + 1].op \in {"li", "j"}
      BY <1>1, <3>3 DEF JumpOK
    <3>5. p + 1 + 1 = q
      BY <1>1, <3>1
    <3>6. Alive(q)
      BY <3>4, <3>5, ExitIs DEF Alive
    <3>. QED  BY <1>1, <3>1, <3>2, <3>6
  <2>2. CASE ~ e.jumped
    <3>1. q = p + 1 /\ q - 1 = p /\ q > 1 /\ q \in DOMAIN text /\ pc' = End[q - 1]
      BY <1>1, <2>2, InstLands DEF RightAt
    <3>2. ItemFine(K[q - 1], text[q], q)
      BY <3>1, ItemAt DEF RightAt
    <3>3. text[q].op # "j"
      <4>. SUFFICES ASSUME text[q].op = "j" PROVE FALSE
        OBVIOUS
      <4>1. JumpOK(q)
        BY <3>2 DEF ItemFine
      <4>2. text[q - 1].op = "inst" /\ ~ tests[text[q - 1].r].jump
        BY <1>1, <1>7, <2>2, <3>1
      <4>. QED  BY <4>1, <4>2 DEF JumpOK
    <3>4. Alive(q)
      <4>. SUFFICES ASSUME text[q] = Exit(255) PROVE FALSE
        BY DEF Alive
      <4>1. text[q].op = "exit" /\ text[q] # Exit(0) /\ text[q - 1].op = "inst"
        BY <1>1, <3>1, ExitIs
      <4>. QED  BY <3>2, <4>1 DEF ItemFine
    <3>. QED  BY <1>1, <3>1, <3>3, <3>4
  <2>. QED  BY <2>1, <2>2
<1>9. Executed(q) = Executed(p) \cup {p}
  <2>1. q \in {p + 1, p + 2}
    OBVIOUS
  <2>2. p \in 1 .. q - 1 /\ \A j \in 1 .. p - 1 : j \in 1 .. q - 1
    BY <1>1, <2>1
  <2>. QED  BY <1>1, <1>8, <2>2 DEF Executed
<1>10. /\ text' = text /\ tests' = tests /\ Vars' = Vars /\ Scope' = Scope
       /\ \A j : End[j]' = End[j] /\ Alive(j)' = Alive(j) /\ Executed(j)' = Executed(j)
  BY <1>2, RestSame
<1>11. DOMAIN effects' = DOMAIN effects \cup {b} /\ effects'[b] = e
       /\ \A c \in DOMAIN effects : c # b => effects'[c] = effects[c]
  BY <1>2 DEF With
<1>12. Done(b)'
  <2>1. \A w \in Vars : e.x[w] = tests[b].x[w]
    BY <1>3 DEF Did
  <2>2. ASSUME NEW a \in DOMAIN tests[b].wmem PROVE ReadMem(e.mem, a, WordBytes) = tests[b].wmem[a]
    <3>. PICK T, g : T = tests[b].touched /\ g = tests[b].wmem
      OBVIOUS
    <3>1. \A c \in DOMAIN g : \E k \in DOMAIN T : T[k].by = "st" /\ T[k].at = c /\ T[k].n = g[c]
      BY <1>4, <1>5, EntryTouched
    <3>2. PICK k \in DOMAIN T : T[k].by = "st" /\ T[k].at = a /\ T[k].n = g[a]
      BY <3>1
    <3>3. Kept(e.mem, mem, T)
      BY <1>3 DEF Did
    <3>4. ReadMem(e.mem, T[k].at, WordBytes) = T[k].n
      BY <3>2, <3>3 DEF Kept
    <3>. QED  BY <3>2, <3>4
  <2>. QED  BY <1>10, <1>11, <2>1, <2>2 DEF Done
<1>13. ASSUME NEW i \in Executed(p) PROVE Done(text[i].r)'
  <2>1. Done(text[i].r)
    BY DEF RightAt, Right
  <2>2. text[i].r \in DOMAIN effects
    BY DEF RightAt, AtItem, Reached
  <2>3. effects'[text[i].r] = effects[text[i].r]
    BY <1>4, <1>11, <2>2
  <2>. QED  BY <1>10, <2>1, <2>3 DEF Done
<1>14. ASSUME NEW d \in Scope, d \notin DOMAIN effects' PROVE Unwritten(d)'
  <2>1. d # b /\ d \notin DOMAIN effects /\ d \in Tested
    BY <1>6, <1>11, <1>14
  <2>2. Unwritten(d)
    BY <2>1 DEF RightAt, Right
  <2>3. ASSUME NEW k \in DOMAIN tests[d].touched, tests[d].touched[k].by = "st", NEW c \in 0 .. WordBytes - 1
        PROVE  mem'[tests[d].touched[k].at + c] = 0
    <3>. PICK a : a = tests[d].touched[k].at
      OBVIOUS
    <3>1. mem[a + c] = 0
      BY <2>2, <2>3 DEF Unwritten
    <3>2. a \in Nat /\ a + c \in Addresses
      BY <1>5, <2>1, ScopeTouched
    <3>3. ASSUME mem'[a + c] # mem[a + c] PROVE FALSE
      <4>1. PICK k2 \in DOMAIN tests[b].touched : Within(a + c, tests[b].touched[k2].at)
        BY <1>2, <1>3, <3>2, <3>3 DEF Did, Kept
      <4>2. Apart(a, tests[b].touched[k2].at) /\ tests[b].touched[k2].at \in Nat
        BY <1>4, <1>5, <2>1, ScopeTouched
      <4>3. WordBytes \in Nat
        BY BytesIs
      <4>. QED  BY <3>2, <4>1, <4>2, <4>3 DEF Within, Apart
    <3>. QED  BY <3>1, <3>3
  <2>. QED  BY <1>10, <2>3 DEF Unwritten
<1>15. Right(q)'
  <2>1. Alive(q)' /\ (text'[q].op = "j" => text'[q - 1].op = "j")
    BY <1>8, <1>10
  <2>2. \A i \in Executed(q)' : Done(text[i].r)'
    BY <1>9, <1>10, <1>12, <1>13
  <2>3. \A d \in Scope' : d \notin DOMAIN effects' => Unwritten(d)'
    BY <1>10, <1>14
  <2>. QED  BY <2>1, <2>2, <2>3 DEF Right
<1>. QED  BY <1>8, <1>10, <1>15 DEF OnTheWay

(* A right implementation does not crash the program.                      *)
LEMMA NoCrash ==
  ASSUME NEW K, NEW p, RightAt(K, p)
  PROVE  ~ Crash
<1>1. OnItem /\ Here = text[p]
  BY Fetched DEF RightAt
<1>2. text[p].op = "inst" => Effect(text[p].n).ok
  BY InstDid DEF Did
<1>3. text[p].op \in {"sw", "lw", "poke", "checkmem"} => Mapped(Place, WordBytes)
  BY PlaceIs
<1>. QED  BY <1>1, <1>2, <1>3 DEF Crash

RightInv == stage = "run" /\ Promised => \E q : OnTheWay(q)
PassInv == BenchInv /\ RightInv /\ CorrectPasses

(* The address determines the item. *)
LEMMA SameItem ==
  ASSUME NEW K, NEW p, AtItem(K, p), NEW q \in DOMAIN text, pc = End[q - 1]
  PROVE  q = p
<1>1. IsText(text) /\ SizesOK /\ p \in DOMAIN text /\ pc = End[p - 1]
  BY DEF AtItem, ScriptType, Reached
<1>2. Len(text) \in Nat /\ DOMAIN text = 1 .. Len(text)
  BY <1>1, TextIs
<1>. PICK n, i, j : n = Len(text) /\ i = p - 1 /\ j = q - 1
  OBVIOUS
<1>3. n \in Nat /\ i \in 0 .. n /\ j \in 0 .. n /\ End[i] = End[j]
  BY <1>1, <1>2
<1>4. ~ (i < j) /\ ~ (j < i)
  <2>1. ASSUME i < j PROVE FALSE
    <3>1. End[i] < End[j] /\ End[i] \in Nat
      BY <1>1, <1>2, <1>3, <2>1, EndsGrow, Ends0
    <3>. QED  BY <1>3, <3>1
  <2>2. ASSUME j < i PROVE FALSE
    <3>1. End[j] < End[i] /\ End[j] \in Nat
      BY <1>1, <1>2, <1>3, <2>2, EndsGrow, Ends0
    <3>. QED  BY <1>3, <3>1
  <2>. QED  BY <2>1, <2>2
<1>5. p \in Nat /\ q \in Nat
  BY <1>1, <1>2
<1>. QED  BY <1>3, <1>4, <1>5

(* Loading a right implementation, all is right.                           *)
LEMMA LoadRight ==
  ASSUME BenchInv, Load
  PROVE  RightInv'
<1>. SUFFICES ASSUME Promised' PROVE \E q : OnTheWay(q)'
  BY DEF RightInv
<1>1. /\ Rests /\ UNCHANGED <<pc, mem, effects>> /\ stage = "load"
  BY DEF Load, Rests
<1>2. /\ text' = text /\ tests' = tests /\ format' = format
      /\ \A j : End[j]' = End[j] /\ Alive(j)' = Alive(j) /\ Executed(j)' = Executed(j)
      /\ Vars' = Vars /\ Scope' = Scope /\ Tested' = Tested
  BY <1>1, RestSame
<1>3. PICK K : IsKnown(K, text) /\ TextInv(K)
  BY DEF BenchInv
<1>4. KleeInv /\ IsText(text) /\ SizesOK /\ pc = 0 /\ mem = [a \in Addresses |-> 0]
  BY <1>1 DEF BenchInv, ScriptType, IdleOK, Idle
<1>5. Len(text) \in Nat /\ DOMAIN text = 1 .. Len(text) /\ text # <<>>
  BY <1>1, <1>3, <1>4, TextIs DEF TextInv, AtFinal, Final
<1>6. 1 \in DOMAIN text /\ End[0] = 0
  <2>1. Len(text) # 0
    BY <1>4, <1>5 DEF IsText
  <2>2. 1 \in DOMAIN text
    BY <1>5, <2>1
  <2>3. End[0] = 0
    BY <1>4, <1>5, Ends0
  <2>. QED  BY <2>2, <2>3
<1>7. ItemFine(K[1 - 1], text[1], 1)
  BY <1>1, <1>3, <1>6 DEF TextInv, ItemOK
<1>8. Alive(1) /\ text[1].op # "j"
  <2>1. text[1].op # "j"
    BY <1>7 DEF ItemFine, JumpOK
  <2>2. ASSUME text[1] = Exit(255) PROVE FALSE
    <3>1. text[1].op = "exit" /\ text[1] # Exit(0)
      BY <2>2, ExitIs
    <3>. QED  BY <1>7, <3>1 DEF ItemFine
  <2>. QED  BY <2>1, <2>2 DEF Alive
<1>9. Executed(1) = {}
  BY DEF Executed
<1>10. Separate(Scope)' /\ Scope' = Scope
  BY <1>2 DEF Promised
<1>11. Separate(Scope)
  <2>1. Addresses' = Addresses
    BY DEF Addresses
  <2>2. inst' = inst
    BY <1>1, RestSame
  <2>3. Touched' = Touched
    BY <1>2 DEF Touched
  <2>4. \A jk : Address(jk)' = Address(jk)
    BY <1>2 DEF Address
  <2>5. HasData' = HasData
    BY <1>2 DEF HasData
  <2>6. \A b : Mapped(b, WordBytes)' <=> Mapped(b, WordBytes)
    BY <1>2, <2>1, <2>5 DEF Mapped
  <2>. QED  BY <1>10, <2>3, <2>4, <2>6 DEF Separate, Apart
<1>12. format = "elf" \/ format = "c"
  BY <1>1, <1>3 DEF TextInv, Formats, Final
<1>13. Scope \subseteq Tested
  BY <1>1, <1>3, <1>12 DEF Scope, TextInv, AtFinal, Final
<1>14. ASSUME NEW d \in Scope PROVE Unwritten(d)'
  <2>1. ASSUME NEW k \in DOMAIN tests[d].touched, NEW c \in 0 .. WordBytes - 1
        PROVE  mem[tests[d].touched[k].at + c] = 0
    <3>1. tests[d].touched[k].at + c \in Addresses
      BY <1>4, <1>11, <1>13, ScopeTouched
    <3>. QED  BY <1>4, <3>1
  <2>. QED  BY <1>1, <1>2, <2>1 DEF Unwritten
<1>15. Right(1)'
  BY <1>2, <1>8, <1>9, <1>14 DEF Right
<1>16. OnTheWay(1)'
  BY <1>1, <1>2, <1>4, <1>6, <1>15 DEF OnTheWay
<1>. QED  BY <1>16

(* Every step of the machine keeps all right for a right implementation,   *)
(* which therefore passes.                                                 *)
LEMMA RunRight ==
  ASSUME PassInv, RunStep
  PROVE  RightInv' /\ CorrectPasses'
<1>1. Rests /\ impl' = impl /\ stage = "run" /\ stage' \in {"run", "verdict"}
  BY RunStepStage
<1>2. PICK K : IsKnown(K, text) /\ TextInv(K) /\ AtSomeItem(K)
  BY DEF PassInv, BenchInv
<1>3. PICK p \in DOMAIN text : AtItem(K, p)
  BY <1>1, <1>2 DEF AtSomeItem, AtItem, PassInv, BenchInv
<1>4. Promised' = Promised
  BY <1>1, PromiseKept
<1>5. CASE ~ Promised
  <2>1. RightInv'
    BY <1>4, <1>5 DEF RightInv
  <2>2. format \in {"elf", "c"} /\ format' = format /\ impl' = impl
    BY <1>1, <1>2, RestSame DEF TextInv, Formats, Final
  <2>3. CorrectPasses'
    BY <1>4, <1>5, <2>2 DEF CorrectPasses, Promised, Scope
  <2>. QED  BY <2>1, <2>3
<1>6. CASE Promised
  <2>1. PICK q : OnTheWay(q)
    BY <1>1, <1>6 DEF PassInv, RightInv
  <2>2. q = p
    BY <1>3, <2>1, SameItem DEF OnTheWay
  <2>3. RightAt(K, p)
    BY <1>3, <1>6, <2>1, <2>2 DEF RightAt, OnTheWay
  <2>4. CASE ExitSyscall
    <3>1. verdict' = "pass" /\ stage' = "verdict"
      BY <2>3, <2>4, ExitRight DEF ExitSyscall
    <3>. QED  BY <3>1 DEF RightInv, CorrectPasses
  <2>5. CASE SetReg \/ Store \/ LoadIntoReg \/ Branch \/ Instr \/ Check
    <3>1. \E r : OnTheWay(r)'
      BY <2>3, <2>5, SetRegRight, StoreRight, LoadIntoRegRight, BranchRight, InstrRight, CheckRight
    <3>2. stage' = "run"
      BY <1>1, <2>3, <2>5, CheckRight DEF SetReg, Store, LoadIntoReg, Branch, Instr
    <3>. QED  BY <3>1, <3>2 DEF RightInv, CorrectPasses
  <2>6. ~ Crash
    BY <2>3, NoCrash
  <2>. QED  BY <2>4, <2>5, <2>6 DEF RunStep
<1>. QED  BY <1>5, <1>6

(* Stuttering changes nothing of it.                                       *)
LEMMA StutterRight ==
  ASSUME PassInv, UNCHANGED vars
  PROVE  RightInv' /\ CorrectPasses'
<1>. USE DEF vars
<1>1. Rests /\ impl' = impl /\ UNCHANGED <<pc, mem, effects, stage, verdict>>
  BY DEF Rests, io, cvars
<1>2. /\ text' = text /\ tests' = tests /\ format' = format /\ t' = t
      /\ \A j : End[j]' = End[j] /\ Alive(j)' = Alive(j) /\ Executed(j)' = Executed(j)
      /\ Vars' = Vars /\ Scope' = Scope /\ Tested' = Tested
  BY <1>1, RestSame
<1>3. Promised' = Promised
  BY <1>1, PromiseKept
<1>4. \A q : OnTheWay(q) => OnTheWay(q)'
  <2>1. \A e : Unwritten(e) => Unwritten(e)'
    BY <1>1, <1>2 DEF Unwritten
  <2>2. \A i : Done(text[i].r) => Done(text[i].r)'
    BY <1>1, <1>2 DEF Done
  <2>3. \A q : Right(q) => Right(q)'
    BY <1>1, <1>2, <2>1, <2>2 DEF Right
  <2>. QED  BY <1>1, <1>2, <2>3 DEF OnTheWay
<1>5. RightInv'
  BY <1>1, <1>3, <1>4 DEF PassInv, RightInv
<1>6. Separate({t})' = Separate({t}) /\ Separate(Tested)' = Separate(Tested) /\ inst' = inst
  BY <1>1, <1>2, RestSame DEF Separate, Touched, Address, Mapped, HasData, Addresses
<1>7. CorrectPasses'
  BY <1>1, <1>2, <1>6 DEF PassInv, CorrectPasses
<1>. QED  BY <1>5, <1>7

(* Every step keeps the invariant with the right implementation.           *)
LEMMA NextRight ==
  ASSUME PassInv, [Next]_vars
  PROVE  PassInv'
<1>1. BenchInv'
  BY NextBench DEF PassInv
<1>2. CASE Generate /\ UNCHANGED bench
  <2>1. stage' \notin {"run", "verdict"}
    BY <1>2, GenerateStage
  <2>. QED  BY <1>1, <2>1 DEF PassInv, RightInv, CorrectPasses
<1>3. CASE NextProgram
  <2>1. stage' \notin {"run", "verdict"}
    BY <1>3 DEF NextProgram
  <2>. QED  BY <1>1, <2>1 DEF PassInv, RightInv, CorrectPasses
<1>4. CASE Load
  <2>1. stage' = "run"
    BY <1>4 DEF Load
  <2>. QED  BY <1>1, <1>4, <2>1, LoadRight DEF PassInv, CorrectPasses
<1>5. CASE RunStep
  BY <1>1, <1>5, RunRight DEF PassInv
<1>6. CASE UNCHANGED vars
  BY <1>1, <1>6, StutterRight DEF PassInv
<1>. QED  BY <1>2, <1>3, <1>4, <1>5, <1>6 DEF Next, Machine, RunStep

(* A right implementation passes every program whose words are apart: the  *)
(* scripts refuse no correct translation (TestProgram and CProgram, and    *)
(* the harness whose entries they compare with).                           *)
THEOREM CorrectPassesAlways == Spec => []CorrectPasses
<1>1. Init => PassInv
  BY InitBench DEF Init, TestInit, PassInv, RightInv, CorrectPasses
<1>2. PassInv /\ [Next]_vars => PassInv'
  BY NextRight
<1>3. PassInv => CorrectPasses
  BY DEF PassInv
<1>. QED  BY <1>1, <1>2, <1>3, PTL DEF Spec

==============================================================================
