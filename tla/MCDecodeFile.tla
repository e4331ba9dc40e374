----------------------------- MODULE MCDecodeFile -----------------------------
(***************************************************************************)
(* Words of three bytes of two bits each.                                  *)
(***************************************************************************)
EXTENDS DecodeFile

None == [n \in {} |-> {}]
F(fixed, ones, width, format, fields) ==
  [fixed |-> fixed, ones |-> ones, width |-> width, fmt |-> format, flds |-> fields]
One(n, refs) == [m \in {n} |-> refs]
Two(a, refsa, b, refsb) == [m \in {a, b} |-> IF m = a THEN refsa ELSE refsb]

MCPattern == {"short", "pair", "pair1", "long", "mid", "late", "any", "left", "far"}
MCDef ==
  [p \in MCPattern |->
     CASE p = "short" -> F({0}, {}, 2, Two("a", {"b"}, "b", {}), One("c", {"a", "b"}))
       [] p = "pair"  -> F({0, 1, 2}, {0}, 4, One("a", {"c"}), Two("b", {"c"}, "c", {}))
       [] p = "pair1" -> F({0, 1, 2}, {0, 2}, 4, One("a", {"c"}), One("c", {"a"}))
       [] p = "long"  -> F({0, 1, 2, 5}, {0, 1}, 6, Two("a", {"b"}, "b", {"a"}), None)
       [] p = "mid"   -> F({0, 1, 2}, {0, 1, 2}, 4, None, Two("a", {"d"}, "b", {}))
       [] p = "late"  -> F({0, 1, 2, 5}, {0, 1, 5}, 6, One("a", {"b", "c"}), Two("b", {"c"}, "c", {}))
       [] p = "left"  -> F({0, 2}, {}, 4, None, None)
       [] p = "far"   -> F({0, 2}, {0}, 6, None, None)
       [] p = "any"   -> F({2, 3}, {2}, 6, None, None)]

MCWords == {{}, {0}, {0, 2}, {0, 1}, {0, 1, 5}, {0, 1, 2}, {2}, {1, 2, 4}}
=============================================================================
