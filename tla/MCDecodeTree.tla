--------------------------- MODULE MCDecodeTree ---------------------------
(* Small instances of DecodeTree: three plain patterns, and two plain      *)
(* patterns beside a braced group.                                         *)
EXTENDS DecodeTree, TLC

CONSTANTS p1, p2, p3, p4

ThreePlain == <<<<p1>>, <<p2>>, <<p3>>>>
PlainsAndGroup == <<<<p1>>, <<p2>>, <<p3, p4>>>>

(* The two members of the group differ at position 0, if they fix it. *)
Opposite(e) ==
  [e EXCEPT !.bits = IF 0 \in @ \/ 0 \notin e.mask THEN @ \ {0} ELSE @ \cup {0}]

GroupInit == TreeInit /\ enc[p4] = Opposite(enc[p3])
GroupSpec == GroupInit /\ [][TreeNext]_treeVars /\ WF_treeVars(TreeNext)
=============================================================================
