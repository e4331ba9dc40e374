----------------------------- MODULE MCMultiWord -----------------------------
(* Small instances of MultiWord. *)
EXTENDS MultiWord

(* Registers hold addresses, small lengths and lengths whose sum with a    *)
(* register number exceeds Word.                                           *)
MCInitGpr == {g \in [Reg -> {0, 1, 2, Size - 1}] : g[0] = 0}

(* Every address has a value of its own, different from the address. *)
MCInitMem == {[a \in Word |-> (a + 3) % Size]}

(* Nothing is mapped, or a hole of two words. *)
MCInitMapped == {{}, Word \ {2, 3}}
=============================================================================
