----------------------------- MODULE DecodeTree -----------------------------
(***************************************************************************)
(* The decoder generator of scripts/decodetree-disas.py: how the top level *)
(* ExcMultiPattern ("a non-overlapping set of instruction patterns") is    *)
(* turned into a decode tree.                                              *)
(*                                                                         *)
(* An instruction word, a mask and a set of fixed bits are Python integers *)
(* in the code and sets of bit positions here: & is \cap, | is \cup and    *)
(* ~m & insnmask is Bit \ m.                                               *)
(*                                                                         *)
(* toppat.pats is the set Item.  Members[i] lists the patterns of item i:  *)
(* one for a plain pattern, several for a braced group (IncMultiPattern),  *)
(* in the order of the file.  These are the two kinds of item that         *)
(* yaml-to-cpp.py writes into a .decode file.                              *)
(*                                                                         *)
(* __build_tree is recursive.  Its invocations that have been made and     *)
(* have not run yet are the records in `calls'; the Tree objects it        *)
(* returned are `nodes' and the patterns appended to a Tree are `leaves'.  *)
(* A node, a leaf or a call is placed by the bits tested on the way to it: *)
(* mask (outermask) and bits (outerbits).                                  *)
(***************************************************************************)
EXTENDS Naturals, Sequences

CONSTANTS
  Bit,      \* the bit positions of an instruction word (insnmask)
  Pattern,  \* the names of the instruction patterns of the file
  Item,     \* the entries of toppat.pats
  Members   \* the patterns of each entry, in file order

ASSUME MembersAssumption ==
  Members \in [Item -> {s \in Seq(Pattern) : Len(s) > 0}]

VARIABLES
  enc,      \* the fixed bits of every pattern, as parsed
  fmask,    \* fixedmask of every item
  fbits,    \* fixedbits of every item
  settled,  \* the items whose prop_masks has returned
  status,   \* where main() is
  calls,    \* pending invocations of __build_tree
  nodes,    \* Tree objects built so far
  leaves    \* patterns attached to a Tree so far

treeVars == <<enc, fmask, fbits, settled, status, calls, nodes, leaves>>

(* What parse_generic accepts: fixedbits has no bit outside fixedmask. *)
Encoding == {e \in [mask : SUBSET Bit, bits : SUBSET Bit] : e.bits \subseteq e.mask}

Matches(w, p) == w \cap enc[p].mask = enc[p].bits

First(i) == Members[i][1]
Common(i) == {b \in Bit : \A k \in DOMAIN Members[i] : b \in enc[Members[i][k]].mask}

-----------------------------------------------------------------------------
(* MultiPattern.prop_masks: one pass of the loop that widens the mask.     *)

(* thisbits ^ fixedbits: where member k differs from the first one within  *)
(* the mask of this pass                                                   *)
Differ(i, k) ==
  {b \in fmask[i] : (b \in enc[Members[i][k]].bits) # (b \in enc[First(i)].bits)}

WidenPass(i) ==
  /\ status = "masks"
  /\ i \notin settled
  /\ fmask[i] # {}
  /\ \E k \in DOMAIN Members[i] :
       /\ Differ(i, k) # {}
       /\ \A j \in 1 .. (k - 1) : Differ(i, j) = {}
       /\ fmask' = [fmask EXCEPT ![i] = @ \ Differ(i, k)]
  /\ fbits' = [fbits EXCEPT ![i] = enc[First(i)].bits \cap fmask[i]]
  /\ UNCHANGED <<enc, settled, status, calls, nodes, leaves>>

(* Seeded fault: the loop over the members runs once. *)
SettleAtOnce(i) ==
  /\ status = "masks"
  /\ i \notin settled
  /\ settled' = settled \cup {i}
  /\ fbits' = [fbits EXCEPT ![i] = enc[First(i)].bits \cap fmask[i]]
  /\ UNCHANGED <<enc, fmask, status, calls, nodes, leaves>>

(* The pass finds no difference, or there was no bit left to make one: in  *)
(* the latter case fixedbits keeps what the last pass left in it.          *)
Settle(i) ==
  /\ status = "masks"
  /\ i \notin settled
  /\ \A k \in DOMAIN Members[i] : Differ(i, k) = {}
  /\ settled' = settled \cup {i}
  /\ fbits' = IF fmask[i] = {}
              THEN fbits
              ELSE [fbits EXCEPT ![i] = enc[First(i)].bits \cap fmask[i]]
  /\ UNCHANGED <<enc, fmask, status, calls, nodes, leaves>>

-----------------------------------------------------------------------------
(* ExcMultiPattern.build_tree and __build_tree.                            *)

(* main() does not compute masks for toppat: decoding begins from naught.  *)
StartTree ==
  /\ status = "masks"
  /\ settled = Item
  /\ status' = "tree"
  /\ calls' = {[items |-> Item, mask |-> {}, bits |-> {}]}
  /\ UNCHANGED <<enc, fmask, fbits, settled, nodes, leaves>>

(* Seeded fault: the bits tested so far are not taken out. *)
CommonMask(c) == {b \in Bit : \A i \in c.items : b \in fmask[i]}

(* The bits not tested yet that every remaining item fixes. *)
InnerMask(c) == {b \in Bit \ c.mask : \A i \in c.items : b \in fmask[i]}

(* Seeded fault: several patterns pass for one. *)
AnyNumber(S) == S # {}

OnlyOne(S) == \E i \in S : S = {i}

(* Seeded fault: the Tree is made without its own mask. *)
NodeUnmasked(c) == [mask |-> c.mask, bits |-> c.bits]

Node(c) == [mask |-> c.mask, bits |-> c.bits, this |-> InnerMask(c)]

(* No bit to switch on and one pattern left: it is the only case. *)
BuildSingle(c) ==
  /\ status = "tree"
  /\ InnerMask(c) = {}
  /\ OnlyOne(c.items)
  /\ calls' = calls \ {c}
  /\ nodes' = nodes \cup {Node(c)}
  /\ leaves' = leaves \cup {[item |-> i, mask |-> c.mask, bits |-> c.bits] : i \in c.items}
  /\ UNCHANGED <<enc, fmask, fbits, settled, status>>

(* No bit to switch on and several patterns left: the generator gives up.  *)
ReportOverlap(c) ==
  /\ status = "tree"
  /\ InnerMask(c) = {}
  /\ ~ OnlyOne(c.items)
  /\ status' = "error"
  /\ UNCHANGED <<enc, fmask, fbits, settled, calls, nodes, leaves>>

(* Seeded fault: the bins are keyed by all the fixed bits. *)
BinByAllBits(c, i) == {j \in c.items : fbits[j] = fbits[i]}

(* The items of c whose fixed bits within the inner mask are those of i. *)
Bin(c, i) == {j \in c.items : fbits[j] \cap InnerMask(c) = fbits[i] \cap InnerMask(c)}

(* Seeded fault: a pattern alone in its bin is not tested any further. *)
RecurseIfSeveral(c, i) == ~ OnlyOne(Bin(c, i))

(* A bin needs a subtree of its own unless it holds one item and the bits  *)
(* tested so far are all that item fixes.                                  *)
Recurse(c, i) ==
  \/ ~ OnlyOne(Bin(c, i))
  \/ ~ fmask[i] \subseteq c.mask \cup InnerMask(c)

Split(c) ==
  LET inner == InnerMask(c)
      full == c.mask \cup inner
      path(i) == c.bits \cup (fbits[i] \cap inner)
      deep == {i \in c.items : Recurse(c, i)}
  IN  /\ status = "tree"
      /\ inner # {}
      /\ calls' = (calls \ {c}) \cup
                    {[items |-> Bin(c, i), mask |-> full, bits |-> path(i)] : i \in deep}
      /\ nodes' = nodes \cup {Node(c)}
      /\ leaves' = leaves \cup
                    {[item |-> i, mask |-> full, bits |-> path(i)] : i \in c.items \ deep}
      /\ UNCHANGED <<enc, fmask, fbits, settled, status>>

(* build_tree returns to main(), which goes on to write the decoder. *)
FinishTree ==
  /\ status = "tree"
  /\ calls = {}
  /\ status' = "done"
  /\ UNCHANGED <<enc, fmask, fbits, settled, calls, nodes, leaves>>

-----------------------------------------------------------------------------
TreeInit ==
  /\ enc \in [Pattern -> Encoding]
  /\ fmask = [i \in Item |-> Common(i)]
  /\ fbits = [i \in Item |-> {}]
  /\ settled = {}
  /\ status = "masks"
  /\ calls = {}
  /\ nodes = {}
  /\ leaves = {}

TreeNext ==
  \/ \E i \in Item : WidenPass(i) \/ Settle(i)
  \/ StartTree
  \/ \E c \in calls : BuildSingle(c) \/ ReportOverlap(c) \/ Split(c)
  \/ FinishTree

(* The generator is one sequential process: it takes a step while it can.  *)
TreeSpec == TreeInit /\ [][TreeNext]_treeVars /\ WF_treeVars(TreeNext)

-----------------------------------------------------------------------------
(* Type invariant: the state of the generator is what the code declares. *)
CallType == [items : SUBSET Item, mask : SUBSET Bit, bits : SUBSET Bit]
NodeType == [mask : SUBSET Bit, bits : SUBSET Bit, this : SUBSET Bit]
LeafType == [item : Item, mask : SUBSET Bit, bits : SUBSET Bit]

TypeOK ==
  /\ enc \in [Pattern -> Encoding]
  /\ fmask \in [Item -> SUBSET Bit]
  /\ fbits \in [Item -> SUBSET Bit]
  /\ settled \in SUBSET Item
  /\ status \in {"masks", "tree", "done", "error"}
  /\ calls \subseteq CallType
  /\ nodes \subseteq NodeType
  /\ leaves \subseteq LeafType

(* The bits that every pattern of item i fixes, to the same value. *)
Agreed(i) ==
  {b \in Common(i) : \A k \in DOMAIN Members[i] :
                        (b \in enc[Members[i][k]].bits) <=> (b \in enc[First(i)].bits)}

(* prop_masks, whose passes stop at the first difference and whose loop    *)
(* also stops when the mask is used up, ends with exactly the agreed bits: *)
(* none is lost to the order of the members, none stays that two of them   *)
(* disagree on, and fixedbits, stale or not, has the right bits under the  *)
(* mask.                                                                   *)
WidenExact ==
  \A i \in settled : /\ fmask[i] = Agreed(i)
                     /\ fbits[i] \cap fmask[i] = enc[First(i)].bits \cap fmask[i]

(* Within the loop: the mask shrinks towards the agreed bits and never     *)
(* past them.                                                              *)
WidenInv ==
  /\ \A i \in Item : Agreed(i) \subseteq fmask[i] /\ fmask[i] \subseteq Common(i)
  /\ status # "masks" => settled = Item
  /\ status = "masks" => calls = {} /\ nodes = {} /\ leaves = {}

(* The path to a pending call has only bits that all its items fix, with   *)
(* the values they fix; a leaf has been tested for all that its item fixes.*)
OnPath(x, i) == x.mask \subseteq fmask[i] /\ x.bits = fbits[i] \cap x.mask

PathInv ==
  /\ \A c \in calls : \A i \in c.items : OnPath(c, i)
  /\ \A l \in leaves : OnPath(l, l.item) /\ l.mask = fmask[l.item]

(* No item is dropped while bins are made, and none waits at the end. *)
PlacedInv ==
  /\ status \in {"tree", "done"} =>
       \A i \in Item : \/ \E c \in calls : i \in c.items
                       \/ \E l \in leaves : l.item = i
  /\ status = "done" => calls = {}

(* Two different places of the tree are told apart by a bit tested on the  *)
(* way to both of them.                                                    *)
Apart(x, y) == \E b \in x.mask \cap y.mask : (b \in x.bits) # (b \in y.bits)

ApartInv ==
  /\ \A c, d \in calls : c # d => Apart(c, d)
  /\ \A c \in calls, l \in leaves : Apart(c, l)
  /\ \A l, m \in leaves : l # m => Apart(l, m)

TreeInv == WidenExact /\ WidenInv /\ PathInv /\ PlacedInv /\ ApartInv

(* A finished tree decides every item: for every instruction word, the     *)
(* tests on the way to the leaf of an item succeed exactly when the word   *)
(* has all the bits that the item fixes, and every item has its leaf.      *)
TreeDecides ==
  status = "done" =>
    \A i \in Item : \E l \in leaves :
      /\ l.item = i
      /\ \A w \in SUBSET Bit : w \cap l.mask = l.bits <=> w \cap fmask[i] = fbits[i] \cap fmask[i]

(* A file the generator accepts has no two patterns of different items     *)
(* that match a common word, so the order of its lines does not matter.    *)
AcceptedDisjoint ==
  status = "done" =>
    \A i, j \in Item : i # j =>
      \A k \in DOMAIN Members[i], m \in DOMAIN Members[j] :
        ~ \E w \in SUBSET Bit : Matches(w, Members[i][k]) /\ Matches(w, Members[j][m])

(* The recursion ends, with a tree or with an error. *)
Termination == <>(status \in {"done", "error"})

(* "overlapping patterns:" is printed for patterns that overlap. *)
ErrorMeansOverlap ==
  status = "error" =>
    \E i, j \in Item : i # j /\
      \E k \in DOMAIN Members[i], m \in DOMAIN Members[j], w \in SUBSET Bit :
        Matches(w, Members[i][k]) /\ Matches(w, Members[j][m])
=============================================================================
