----------------------------- MODULE MCDecoder -----------------------------
(* A small instance of Decoder. *)
EXTENDS Decoder, TLC

CONSTANTS p1, p2, p3, p4

(* Two plain patterns, which may share a format, beside a braced group. *)
PlainsAndGroup == <<<<p1>>, <<p2>>, <<p3, p4>>>>
=============================================================================
