-------------------------- MODULE MCInterruptFrame --------------------------
(* Small instances of InterruptFrame. *)
EXTENDS InterruptFrame

CONSTANTS x1, x5

(* The layout of the code, with fewer registers at its end. *)
MCLayout == <<RetPc, Fp, Cause, x1, Zero, x5>>

MCInitReg == {[r \in Reg |-> IF r = x1 THEN 1 ELSE IF r = x5 THEN 2 ELSE 3]}

(* Nothing is mapped, or all but some words of each frame. *)
MCInitMapped == {{}, {a \in Word : a % 4 # 0}}
=============================================================================
