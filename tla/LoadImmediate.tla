----------------------------- MODULE LoadImmediate -----------------------------
(***************************************************************************)
(* InstPrinter.li of assemble.py: a constant of 32 bits is loaded by a lui *)
(* and an addi whose immediate is sign-extended. Lo is 2^12, Hi is 2^20.   *)
(***************************************************************************)
EXTENDS Integers

CONSTANTS Lo, Hi

ASSUME PartsAssumption ==
  /\ Hi \in Nat \ {0}
  /\ \E half \in 1 .. Lo : Lo = 2 * half

Word == Lo * Hi

(* c_int32, and the sign extension of the 12 bits of an addi *)
SignedWord(x) == IF 2 * x < Word THEN x ELSE x - Word
SignedLow(x) == IF 2 * x < Lo THEN x ELSE x - Lo

(* M: the low part, sign-extended *)
LowPart(n) == SignedLow(n % Lo)

(* Seeded fault: the upper part without the borrow of the low part. *)
HighPartOfWord(n) == SignedWord(n) \div Lo

(* K: what the addi will not supply *)
HighPart(n) == (SignedWord(n) - LowPart(n)) \div Lo

(* What the two instructions load: append keeps the low 20 and 12 bits of  *)
(* the two parts.                                                          *)
Li(n) == ((HighPart(n) % Hi) * Lo + SignedLow(LowPart(n) % Lo)) % Word
=============================================================================
