----------------------------- MODULE MCFieldCodec -----------------------------
(***************************************************************************)
(* Match strings of six bits, decoded in words of eight; ints of four bits. *)
(***************************************************************************)
EXTENDS FieldCodec

R(first, n) == [start |-> first, len |-> n]
O(n, rs, s, sh, no) == [name |-> n, ranges |-> rs, sign |-> s, shift |-> sh, not |-> no]
I(ops, one, g) ==
  LET taken == UNION {Location(ops[v]) : v \in DOMAIN ops}
  IN  [operands |-> ops, fixed |-> (0 .. 5) \ taken, ones |-> one \ taken, grouped |-> g]

MCInstruction ==
  { \* split in three, descending and not; signed or not
    I(<<O("imm", <<R(5, 1), R(0, 2), R(3, 1)>>, TRUE, 0, {}), O("rd", <<R(4, 1)>>, FALSE, 0, {{}})>>, {2}, FALSE),
    I(<<O("imm", <<R(5, 1), R(0, 2), R(3, 1)>>, FALSE, 0, {{0}}), O("rd", <<R(4, 1)>>, FALSE, 0, {})>>, {}, FALSE),
    \* shifted; the width of the C type and less
    I(<<O("imm", <<R(4, 1), R(1, 2)>>, TRUE, 1, {{}})>>, {0, 3, 5}, FALSE),
    I(<<O("imm", <<R(4, 1), R(1, 2)>>, FALSE, 1, {{0}})>>, {0, 5}, FALSE),
    I(<<O("uimm", <<R(0, 2)>>, TRUE, 2, {}), O("rs1", <<R(3, 3)>>, FALSE, 0, {})>>, {2}, FALSE),
    \* in a group
    I(<<O("imm", <<R(4, 1), R(1, 2)>>, TRUE, 1, {})>>, {3}, TRUE),
    I(<<O("imm", <<R(4, 1), R(1, 2)>>, FALSE, 0, {})>>, {0}, TRUE),
    \* ranges that overlap: the decoder refuses the file
    I(<<O("imm", <<R(3, 2), R(2, 2)>>, FALSE, 0, {})>>, {}, FALSE) }

MCInput == SUBSET {0, 1, 2, 4, 5}
=============================================================================
