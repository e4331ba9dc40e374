------------------------------ MODULE MCTestBench ------------------------------
(***************************************************************************)
(* Words of four bits, two bytes of two bits each; data at 8 .. 11.        *)
(***************************************************************************)
EXTENDS TestBench

Variable(role, comp, no) == [role |-> role, compressed |-> comp, not |-> no]
Imm == Variable("imm", FALSE, {})
Rs == Variable("reg", FALSE, {})
RsC == Variable("reg", TRUE, {})
Rd == Variable("rd", FALSE, {})
RdNot0 == Variable("rd", FALSE, {0})

S(do, w, width, if) == [do |-> do, v |-> w, width |-> width, if |-> if]
I(vs, size, script, paths, skip) ==
  [vars |-> vs, size |-> size, script |-> script, paths |-> paths, cskip |-> skip,
   rdLast |-> \A w \in DOMAIN vs : vs[w].role = "rd" => w = Len(vs)]

MCInstruction ==
  { \* rd = rs2 + rs1 + rd; rd = rs1 + imm with rd first
    I(<<Rs, RsC, RdNot0>>, 4, <<S("add", 1, 1, FALSE), S("add", 2, 1, FALSE), S("add", 3, 1, FALSE),
                                S("out", 3, 1, FALSE)>>, 1, FALSE),
    I(<<Rd, Imm>>, 6, <<S("add", 1, 1, FALSE), S("add", 2, 1, FALSE), S("out", 1, 1, FALSE)>>, 1, FALSE),
    \* a load of a byte; a pair of loads of words
    I(<<Imm, RsC, Rd>>, 2, <<S("addr", 2, 1, FALSE), S("addr", 1, 1, FALSE), S("ld", 1, 1, FALSE),
                             S("out", 3, 1, FALSE)>>, 1, FALSE),
    I(<<Rs, Imm, Rd>>, 4, <<S("addr", 1, 1, FALSE), S("ld", 1, 2, FALSE), S("addr", 2, 1, FALSE),
                            S("ld", 1, 2, FALSE), S("out", 3, 1, FALSE)>>, 1, FALSE),
    \* a store of a byte if it is not 0, on two paths; a store of a word
    I(<<Rs, Rs>>, 2, <<S("addr", 1, 1, FALSE), S("add", 2, 1, FALSE), S("st", 2, 1, TRUE)>>, 2, FALSE),
    I(<<Rs, Rs>>, 6, <<S("addr", 1, 1, FALSE), S("st", 2, 2, FALSE)>>, 2, FALSE),
    \* a branch, on two paths, and a jump that links
    I(<<Imm, Rs>>, 4, <<S("add", 2, 1, FALSE), S("jump", 1, 1, TRUE)>>, 2, TRUE),
    I(<<Imm, Rd>>, 2, <<S("add", 2, 1, FALSE), S("add", 1, 1, FALSE), S("out", 2, 1, FALSE),
                        S("jump", 1, 1, FALSE)>>, 1, FALSE) }

MCInput == {0, 3, 8, 10}
MCImmediate == {0, 2, 6, 8}
=============================================================================
