------------------------------- MODULE SizeTree -------------------------------
(***************************************************************************)
(* Instructions of several widths: decodetree-disas.py --varinsnwidth      *)
(* writes a load function that reads the bytes of an instruction as far as *)
(* it must to know its width. build_size_tree, prop_size, and output_code  *)
(* of SizeTree and SizeLeaf.                                               *)
(*                                                                         *)
(* Bit 0 is the first bit that is loaded: shorter patterns end earlier.    *)
(* An item is a pattern or a group, [fixed, ones, width].                  *)
(***************************************************************************)
EXTENDS Integers, FiniteSets, FiniteSetsExt

CONSTANTS
  ByteBits,   \* 8
  InsnWidth   \* 64

VARIABLES
  items,     \* toppat.pats
  calls,     \* calls of build_size_tree that are not done
  nodes,     \* SizeTree objects: what was tested before, what is tested
  leaves,    \* SizeLeaf objects
  sizing,    \* "none", "build", "built", "overlap"
  mem,       \* what is in memory: the positions of the 1 bits
  read,      \* `extracted': the bits loaded
  reached    \* the node or leaf of the load function; none at its ends

sizeVars == <<items, calls, nodes, leaves, sizing, mem, read, reached>>

ASSUME WidthAssumption ==
  /\ ByteBits \in Nat \ {0}
  /\ InsnWidth \in Nat \ {0} /\ InsnWidth % ByteBits = 0

Call(pats, width, bits, mask) == [pats |-> pats, width |-> width, bits |-> bits, mask |-> mask]

SizeInit ==
  /\ items = {} /\ calls = {} /\ nodes = {} /\ leaves = {}
  /\ sizing = "none"
  /\ mem = {} /\ read = 0 /\ reached = {}

-----------------------------------------------------------------------------
(* Seeded fault: the patterns need not all fix a bit that is tested. *)
InnerOfSome(c) == UNION {p.fixed \cap ((c.width - ByteBits) .. (c.width - 1)) : p \in c.pats} \ c.mask

(* innermask: the bits of this byte that all patterns fix, not yet tested. *)
Inner(c) ==
  {b \in (c.width - ByteBits) .. (c.width - 1) : \A p \in c.pats : b \in p.fixed} \ c.mask

Widths(c) == {p.width : p \in c.pats}
OneWidth(c) == Cardinality(Widths(c)) = 1
Bins(c) == {p.ones \cap Inner(c) : p \in c.pats}
Bin(c, b) == {p \in c.pats : p.ones \cap Inner(c) = b}

(* Seeded fault: the byte is looked at again. *)
SameWidth(c) == c.width

Wider(c) == c.width + ByteBits
Replace(c, new) == calls' = (calls \ {c}) \cup new
memory == <<items, mem, read, reached>>

MakeLeaf(c) ==
  /\ OneWidth(c)
  /\ leaves' = leaves \cup {[bits |-> c.bits, mask |-> c.mask, width |-> Max(Widths(c))]}
  /\ Replace(c, {})
  /\ UNCHANGED <<nodes, sizing>>

(* Nothing to test in this byte: look at one more. minwidth is the largest *)
(* of the widths.                                                          *)
NextByte(c) ==
  /\ ~ OneWidth(c) /\ Inner(c) = {} /\ c.width < Max(Widths(c))
  /\ Replace(c, {Call(c.pats, Wider(c), c.bits, c.mask)})
  /\ UNCHANGED <<nodes, leaves, sizing>>

OverlappingSize(c) ==
  /\ ~ OneWidth(c) /\ Inner(c) = {} /\ c.width >= Max(Widths(c))
  /\ sizing' = "overlap"
  /\ calls' = {}
  /\ UNCHANGED <<nodes, leaves>>

SingleBin(c) ==
  /\ ~ OneWidth(c) /\ Inner(c) # {} /\ Cardinality(Bins(c)) = 1
  /\ \E b \in Bins(c) :
       Replace(c, {Call(c.pats, Wider(c), c.bits \cup b, c.mask \cup Inner(c))})
  /\ UNCHANGED <<nodes, leaves, sizing>>

Split(c) ==
  /\ ~ OneWidth(c) /\ Inner(c) # {} /\ Cardinality(Bins(c)) > 1
  /\ nodes' = nodes \cup
       {[bits |-> c.bits, mask |-> c.mask, this |-> Inner(c), width |-> c.width]}
  /\ Replace(c, {Call(Bin(c, b), c.width, c.bits \cup b, c.mask \cup Inner(c)) : b \in Bins(c)})
  /\ UNCHANGED <<leaves, sizing>>

BuildSizeTree ==
  /\ \E c \in calls : MakeLeaf(c) \/ NextByte(c) \/ OverlappingSize(c) \/ SingleBin(c) \/ Split(c)
  /\ UNCHANGED memory

(* prop_size: a node loads what all below it need. *)
OnWay(x, y) == x.mask \subseteq y.mask /\ y.bits \cap x.mask = x.bits
Under(n) == {l \in leaves : OnWay(n, l)}

(* Seeded fault: a node loads what the longest instruction below it needs. *)
WidthOfLongest(n) == Max({l.width : l \in Under(n)})

WidthAt(n) == Min({l.width : l \in Under(n)})

PropSize ==
  /\ sizing = "build" /\ calls = {}
  /\ sizing' = "built"
  /\ nodes' = {[n EXCEPT !.width = WidthAt(n)] : n \in nodes}
  /\ UNCHANGED <<calls, leaves>> /\ UNCHANGED memory

-----------------------------------------------------------------------------
(* The root is what no other node or leaf is on the way to. *)
Tree == nodes \cup leaves
Root == {n \in Tree : \A m \in Tree : n.mask \subseteq m.mask}

LoadCall(words) ==
  /\ sizing = "built" /\ reached = {} /\ read = 0
  /\ mem' \in words
  /\ reached' = Root
  /\ UNCHANGED <<items, calls, nodes, leaves, sizing, read>>

(* The larger of what is loaded and what the node needs *)
LoadBytes(n) == read' = Max({read, n.width})

Case(n, m) ==
  /\ n.mask \cup n.this \subseteq m.mask
  /\ m.bits \cap (n.mask \cup n.this) = n.bits \cup (mem \cap n.this)
(* The child for the bits of the word: the least tested of those there. *)
Child(n) ==
  {m \in Tree : Case(n, m) /\ \A o \in Tree : Case(n, o) => m.mask \subseteq o.mask}

Switch ==
  /\ \E n \in reached \cap nodes :
       /\ LoadBytes(n)
       /\ reached' = Child(n)
  /\ UNCHANGED <<items, calls, nodes, leaves, sizing, mem>>

ReturnInsn ==
  /\ \E l \in reached \cap leaves : LoadBytes(l)
  /\ reached' = {}
  /\ UNCHANGED <<items, calls, nodes, leaves, sizing, mem>>

SizeNext == BuildSizeTree \/ PropSize \/ Switch \/ ReturnInsn

-----------------------------------------------------------------------------
(* Two places told apart by a bit tested on the way to both; a place that  *)
(* is in one of the cases of a node; two places in the same case.          *)
Tells(x, y) == \E b \in x.mask \cap y.mask : (b \in x.bits) # (b \in y.bits)
Tested(n, x) == OnWay(n, x) /\ n.this \subseteq x.mask
SameCase(n, x, y) == Tested(n, x) /\ Tested(n, y) /\ x.bits \cap n.this = y.bits \cap n.this

SizeTypeOK ==
  /\ IsFiniteSet(items)
  /\ \A p \in items : p.width \in Nat /\ p.ones \subseteq p.fixed /\ p.fixed \subseteq 0 .. p.width - 1
  /\ calls \in SUBSET [pats : SUBSET items, width : Int, bits : SUBSET Int, mask : SUBSET Int]
  /\ nodes \in SUBSET [bits : SUBSET Int, mask : SUBSET Int, this : SUBSET Int, width : Int]
  /\ leaves \in SUBSET [bits : SUBSET Int, mask : SUBSET Int, width : Nat]
  /\ sizing \in {"none", "build", "built", "overlap"}
  /\ read \in Nat

(* What has been tested on the way to a call are bits that all its         *)
(* patterns fix, as they fix them; a leaf has what one item needs.         *)
WayInv ==
  /\ \A c \in calls : \A p \in c.pats : c.mask \subseteq p.fixed /\ c.bits = p.ones \cap c.mask
  /\ \A x \in calls \cup nodes \cup leaves : x.bits \subseteq x.mask
  /\ \A n \in nodes : n.this # {} /\ n.this \cap n.mask = {}
  /\ \A l \in leaves : l.mask \subseteq 0 .. l.width - 1

LeafOf(l, p) == l.width = p.width /\ l.mask \subseteq p.fixed /\ l.bits = p.ones \cap l.mask
ItemInv ==
  \A p \in items : (\E c \in calls : p \in c.pats) \/ (\E l \in leaves : LeafOf(l, p))

(* Two calls or leaves are told apart; a node tells a place apart or has a *)
(* case for it; below every node there is a leaf, or there will be one.    *)
TellInv ==
  /\ \A c, d \in calls : c # d => Tells(c, d)
  /\ \A c \in calls, l \in leaves : Tells(c, l)
  /\ \A l, m \in leaves : l # m => Tells(l, m)
  /\ \A n \in nodes, x \in calls \cup leaves : Tested(n, x) \/ Tells(n, x)
  /\ \A n \in nodes : \E x \in calls \cup leaves : Tested(n, x)

(* What is in one case of a node has a root, and so has the tree. *)
Top == [bits |-> {}, mask |-> {}, this |-> {}]
RootedAt(n) ==
  \A x \in calls \cup Tree : Tested(n, x) =>
    \E r \in calls \cup Tree :
      SameCase(n, r, x) /\ \A y \in calls \cup Tree : SameCase(n, y, x) => OnWay(r, y)
RootInv == \A n \in nodes \cup {Top} : RootedAt(n)

(* A node loads what it tests, and no more than all below it need. *)
WidthInv ==
  \A n \in nodes : n.width \in Nat /\ n.this \subseteq 0 .. n.width - 1 /\ \A l \in Under(n) : n.width <= l.width

(* What the load function knows when the word is one of a leaf. *)
Fits(l) == mem \cap l.mask = l.bits
WalkInv ==
  /\ sizing # "built" => reached = {} /\ read = 0
  /\ sizing = "built" => \A l \in leaves : Fits(l) =>
       /\ \A n \in reached : n = l \/ (n \in nodes /\ Tested(n, l))
       /\ read <= l.width
       /\ reached = {} /\ read > 0 => read = l.width

SizeInv ==
  /\ SizeTypeOK /\ WalkInv
  /\ calls # {} => sizing = "build"
  /\ sizing = "none" => items = {} /\ nodes = {} /\ leaves = {}
  /\ sizing \in {"build", "built"} => WayInv /\ ItemInv /\ TellInv /\ RootInv
  /\ sizing = "built" => WidthInv
=============================================================================
