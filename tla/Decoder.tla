------------------------------- MODULE Decoder -------------------------------
(***************************************************************************)
(* The decode function that decodetree-disas.py writes out of a finished   *)
(* tree (output_code of Tree, IncMultiPattern and Pattern), run on one     *)
(* instruction word, together with what the trans_* functions written by   *)
(* yaml-to-cpp.py do to its union `u' of argument structures.              *)
(*                                                                         *)
(* trans_* may refuse a word (a `not' condition of a variable holds) after *)
(* it has shifted arguments of earlier variables in place, so a refused    *)
(* structure is no longer what was extracted.                              *)
(***************************************************************************)
EXTENDS DecodeTree

CONSTANTS
  Format,   \* the formats that patterns share
  None,     \* no word, no outcome, nothing extracted
  Illegal   \* the decode function returned false

(* Every pattern is one object, appended to one MultiPattern once. *)
ASSUME ListedAssumption ==
  /\ \A p \in Pattern : \E i \in Item : \E k \in DOMAIN Members[i] : Members[i][k] = p
  /\ \A i, j \in Item : \A k \in DOMAIN Members[i], m \in DOMAIN Members[j] :
       Members[i][k] = Members[j][m] => i = j /\ k = m
ASSUME NoneAssumption == \A w \in SUBSET Bit : w # None

VARIABLES
  base,       \* the format of every pattern
  word,       \* the instruction word being decoded
  stage,      \* "idle", "switch", "member", "trans", "end"
  at,         \* the node reached, or the path and item of the leaf
  next,       \* index of the group member whose turn it is
  extracted,  \* fields were extracted by an enclosing node
  u,          \* the union: which format was extracted, and is it intact
  refused,    \* patterns whose trans_* returned false
  outcome     \* the pattern translated, Illegal or None

runVars == <<word, stage, at, next, extracted, u, refused, outcome>>
vars == <<treeVars, base, runVars>>

(* The tree and the stages of the generated function are not visible to    *)
(* the specification.                                                      *)
Abstract == INSTANCE DecodeSpec
              WITH Bit <- Bit, Pattern <- Pattern, Item <- Item, Members <- Members,
                   None <- None, Illegal <- Illegal,
                   enc <- enc, word <- word, refused <- refused, outcome <- outcome

-----------------------------------------------------------------------------
Below(n, l) == n.mask \subseteq l.mask /\ l.bits \cap n.mask = n.bits

(* Seeded fault: a braced group has the formats of its patterns. *)
FormatsThroughGroups(n) ==
  {f \in Format : \A l \in leaves : Below(n, l) =>
                     \A k \in DOMAIN Members[l.item] : base[Members[l.item][k]] = f}

(* __prop_format: a node has a format when all its subtrees have that one; *)
(* a braced group has none.                                                *)
NodeFormats(n) ==
  {f \in Format : \A l \in leaves : Below(n, l) =>
                     Len(Members[l.item]) = 1 /\ base[First(l.item)] = f}

(* The fields were read from the word into the structure of format f. *)
Fresh(f) == [format |-> f, intact |-> TRUE]

(* output_code: the fields are extracted once for all the cases below a    *)
(* node when they share their format.                                      *)
Hoist(n) ==
  IF extracted \/ NodeFormats(n) = {}
  THEN UNCHANGED <<extracted, u>>
  ELSE /\ extracted' = TRUE
       /\ \E f \in NodeFormats(n) : u' = Fresh(f)

Decode(w) ==
  /\ status = "done"
  /\ stage = "idle"
  /\ word' = w
  /\ stage' = "switch"
  /\ at' \in {n \in nodes : n.mask = {}}
  /\ UNCHANGED <<next, extracted, u, refused, outcome>>

(* switch (insn & thismask): the case taken has the bits of the word. *)
CaseMask(n) == n.mask \cup n.this
CaseBits(n) == n.bits \cup (word \cap n.this)
AtCase(n, x) == x.mask = CaseMask(n) /\ x.bits = CaseBits(n)

SwitchToNode ==
  /\ stage = "switch"
  /\ Hoist(at)
  /\ at' \in {n \in nodes : AtCase(at, n) /\ n # at}
  /\ UNCHANGED <<word, stage, next, refused, outcome>>

(* Seeded fault: the pattern of a case is taken for a subtree. *)
SwitchToLeafAsNode ==
  /\ stage = "switch"
  /\ Hoist(at)
  /\ at' \in {l \in leaves : AtCase(at, l)}
  /\ UNCHANGED <<word, stage, next, refused, outcome>>

SwitchToLeaf ==
  /\ stage = "switch"
  /\ Hoist(at)
  /\ at' \in {l \in leaves : AtCase(at, l)}
  /\ stage' = "member"
  /\ next' = 1
  /\ UNCHANGED <<word, refused, outcome>>

(* No case for these bits: the decode function returns false. *)
SwitchNoCase ==
  /\ stage = "switch"
  /\ ~ \E x \in leaves \cup (nodes \ {at}) : AtCase(at, x)
  /\ stage' = "end"
  /\ outcome' = Illegal
  /\ UNCHANGED <<word, at, next, extracted, u, refused>>

(* Seeded fault: any test on the path makes the test of the pattern idle. *)
GuardAfterAnyTest(p) == at.mask # {} \/ word \cap enc[p].mask = enc[p].bits

(* if ((insn & innermask) == innerbits), with what the path has tested     *)
(* removed from the mask and from the bits                                 *)
Guard(p) ==
  \/ at.mask = enc[p].mask
  \/ word \cap (enc[p].mask \ at.mask) = enc[p].bits \ at.mask

Candidate == Members[at.item][next]

(* The test of a group member fails: go on with the next one. *)
SkipMember ==
  /\ stage = "member"
  /\ next \in DOMAIN Members[at.item]
  /\ ~ Guard(Candidate)
  /\ next' = next + 1
  /\ UNCHANGED <<word, stage, at, extracted, u, refused, outcome>>

(* The test succeeds: fill the argument structure unless that was done by  *)
(* an enclosing node, then call trans_*.                                   *)
EnterMember ==
  /\ stage = "member"
  /\ next \in DOMAIN Members[at.item]
  /\ Guard(Candidate)
  /\ u' = IF extracted THEN u ELSE Fresh(base[Candidate])
  /\ stage' = "trans"
  /\ UNCHANGED <<word, at, next, extracted, refused, outcome>>

TransAccepts ==
  /\ stage = "trans"
  /\ outcome' = Candidate
  /\ stage' = "end"
  /\ UNCHANGED <<word, at, next, extracted, u, refused>>

(* trans_* returns false, perhaps after a left shift of an argument. *)
TransRefuses ==
  /\ stage = "trans"
  /\ \E intact \in {TRUE, FALSE} : u' = [u EXCEPT !.intact = @ /\ intact]
  /\ refused' = refused \cup {Candidate}
  /\ next' = next + 1
  /\ stage' = "member"
  /\ UNCHANGED <<word, at, extracted, outcome>>

(* After the last member: break, and the decode function returns false. *)
LeafExhausted ==
  /\ stage = "member"
  /\ next \notin DOMAIN Members[at.item]
  /\ stage' = "end"
  /\ outcome' = Illegal
  /\ UNCHANGED <<word, at, next, extracted, u, refused>>

-----------------------------------------------------------------------------
(* infer_format shares a format between patterns with the same fields, and *)
(* the fields are all the bits that are not fixed.                         *)
SharesFields(b) == \A p, q \in Pattern : b[p] = b[q] => enc[p].mask = enc[q].mask

Init ==
  /\ TreeInit
  /\ base \in {b \in [Pattern -> Format] : SharesFields(b)}
  /\ word = None
  /\ stage = "idle"
  /\ at = None
  /\ next = 1
  /\ extracted = FALSE
  /\ u = None
  /\ refused = {}
  /\ outcome = None

Generate == TreeNext /\ UNCHANGED <<base, runVars>>

Run ==
  /\ \/ \E w \in SUBSET Bit : Decode(w)
     \/ SwitchToNode \/ SwitchToLeaf \/ SwitchNoCase
     \/ SkipMember \/ EnterMember \/ TransAccepts \/ TransRefuses \/ LeafExhausted
  /\ UNCHANGED <<treeVars, base>>

Next == Generate \/ Run

(* The generator and then the decode function run to their end. *)
Spec == Init /\ [][Next]_vars /\ WF_vars(Next)

-----------------------------------------------------------------------------
(* Type invariant of the run of the decode function. *)
RunTypeOK ==
  /\ base \in [Pattern -> Format]
  /\ word = None \/ word \in SUBSET Bit
  /\ stage \in {"idle", "switch", "member", "trans", "end"}
  /\ stage = "switch" => at \in nodes
  /\ stage \in {"member", "trans"} => at \in leaves /\ next \in Nat
  /\ extracted \in BOOLEAN
  /\ u = None \/ u \in [format : Format, intact : BOOLEAN]
  /\ refused \subseteq Pattern
  /\ outcome \in Pattern \cup {Illegal, None}

(* A trans_* function is always entered with its own argument structure,   *)
(* read from the word and touched by nobody since: not with the structure  *)
(* of another format, and not with one that an earlier pattern of its      *)
(* group shifted before refusing the word.                                 *)
ArgumentsFresh == stage = "trans" => u = Fresh(base[Candidate])

-----------------------------------------------------------------------------
(* What there is below the nodes: a leaf, or a call still to be run. *)
Places == leaves \cup calls

(* Nothing is tested twice on a path; a node without a test has its only   *)
(* pattern attached.                                                       *)
NodeShape ==
  /\ \A n \in nodes : n.bits \subseteq n.mask /\ n.this \cap n.mask = {}
  /\ \A c \in calls : c.bits \subseteq c.mask
  /\ \A n \in nodes : n.this = {} =>
       \E l \in leaves : l.mask = n.mask /\ l.bits = n.bits

(* What is not under a node is told apart from it on the way there. *)
NodeApart ==
  \A n \in nodes, x \in Places : Apart(n, x) \/ (Below(n, x) /\ n.this \subseteq x.mask)

(* What is under a node is reached by one of its cases. *)
IsCaseOf(y, n, x) == y.mask = n.mask \cup n.this /\ y.bits = n.bits \cup (x.bits \cap n.this)
NodeCases ==
  \A n \in nodes, x \in Places :
    Below(n, x) => \E y \in Places \cup (nodes \ {n}) : IsCaseOf(y, n, x)

NodeInv == NodeShape /\ NodeApart /\ NodeCases

(* The word has taken the path to where the function is. *)
PathTaken(x) == word \in SUBSET Bit /\ word \cap x.mask = x.bits

(* Fields extracted by a node are in the format of all that is below it.   *)
HoistedFor(f) == \A l \in leaves :
  Below(at, l) => Len(Members[l.item]) = 1 /\ base[First(l.item)] = f

SwitchInv ==
  stage = "switch" =>
    /\ at \in nodes /\ PathTaken(at)
    /\ refused = {} /\ next = 1
    /\ extracted => \E f \in Format : u = Fresh(f) /\ HoistedFor(f)

(* At a leaf: the members before `next' had their turn, and the others have *)
(* not; a hoisted structure is that of the only member, until it refuses.  *)
LeafInv ==
  stage \in {"member", "trans"} =>
    /\ at \in leaves /\ PathTaken(at)
    /\ next \in 1 .. Len(Members[at.item]) + 1
    /\ refused \subseteq {Members[at.item][k] : k \in 1 .. next - 1}
    /\ \A k \in 1 .. next - 1 : Matches(word, Members[at.item][k]) => Members[at.item][k] \in refused
    /\ extracted => Len(Members[at.item]) = 1
    /\ extracted /\ next = 1 => u = Fresh(base[First(at.item)])

TransInv ==
  stage = "trans" =>
    /\ next \in DOMAIN Members[at.item]
    /\ Matches(word, Candidate)
    /\ u = Fresh(base[Candidate])

RunInv ==
  /\ stage # "idle" => status = "done" /\ word \in SUBSET Bit
  /\ stage = "idle" => word = None /\ refused = {} /\ next = 1 /\ ~ extracted
  /\ stage # "end" => outcome = None
  /\ SwitchInv /\ LeafInv /\ TransInv

(* The cases of the tree and the state of the generated function at every  *)
(* point of it: the word is on the path to where the function is, the      *)
(* patterns offered so far are those before the current one, and fields    *)
(* are extracted early only for what is below.                             *)
DecoderInv == TreeInv /\ NodeInv /\ RunInv

(* The decode function does what DecodeSpec promises. *)
ImplementsDecodeSpec == Abstract!Spec
=============================================================================
