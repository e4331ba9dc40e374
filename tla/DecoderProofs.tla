---------------------------- MODULE DecoderProofs ----------------------------
(***************************************************************************)
(* Proofs about DecodeTree and Decoder, for every word width, every set of *)
(* patterns, every way of grouping them and every assignment of formats.   *)
(* The finished tree is correct because of TreeInv: the path to a call     *)
(* tests only bits that its items fix (PathInv), no item is lost in the    *)
(* bins (PlacedInv), two places of the tree differ in a bit tested on the  *)
(* way to both (ApartInv), and the masks the bins are made from are exact  *)
(* (WidenExact, WidenInv).  The generated function offers a word to the    *)
(* patterns that DecodeSpec says, in its order, with fresh arguments:      *)
(* NodeInv says that the cases of the nodes lead to all that is below      *)
(* them, RunInv what the function knows at each point of the tree.         *)
(***************************************************************************)
EXTENDS Decoder, TLAPS

(* What the assumption on Members says of one item. *)
LEMMA MembersFacts ==
  ASSUME NEW i \in Item
  PROVE  /\ 1 \in DOMAIN Members[i]
         /\ DOMAIN Members[i] \subseteq Nat \ {0}
         /\ First(i) \in Pattern
         /\ \A k \in DOMAIN Members[i] : Members[i][k] \in Pattern
<1>1. Members[i] \in Seq(Pattern) /\ Len(Members[i]) > 0
  BY MembersAssumption
<1>2. DOMAIN Members[i] = 1 .. Len(Members[i]) /\ Len(Members[i]) \in Nat
  BY <1>1
<1>3. \A k \in 1 .. Len(Members[i]) : Members[i][k] \in Pattern
  BY <1>1
<1>. QED  BY <1>1, <1>2, <1>3 DEF First

-----------------------------------------------------------------------------
(* A step of the generator keeps the types: calls, nodes and leaves are    *)
(* made of items and of sets of bit positions.                             *)
LEMMA TypeStep == TypeOK /\ [TreeNext]_treeVars => TypeOK'
<1>. SUFFICES ASSUME TypeOK, [TreeNext]_treeVars
              PROVE  TypeOK'
  OBVIOUS
<1>. USE DEF TypeOK
<1>1. ASSUME NEW i \in Item, WidenPass(i)
      PROVE  TypeOK'
  BY <1>1, MembersFacts DEF WidenPass, Encoding
<1>2. ASSUME NEW i \in Item, Settle(i)
      PROVE  TypeOK'
  BY <1>2, MembersFacts DEF Settle, Encoding
<1>3. CASE StartTree
  BY <1>3 DEF StartTree, CallType
<1>4. ASSUME NEW c \in calls, BuildSingle(c)
      PROVE  TypeOK'
  <2>1. nodes' \subseteq NodeType
    BY <1>4 DEF BuildSingle, Node, InnerMask, NodeType, CallType
  <2>2. leaves' \subseteq LeafType
    BY <1>4 DEF BuildSingle, CallType, LeafType
  <2>. QED  BY <1>4, <2>1, <2>2 DEF BuildSingle
<1>5. ASSUME NEW c \in calls, ReportOverlap(c)
      PROVE  TypeOK'
  BY <1>5 DEF ReportOverlap
<1>6. ASSUME NEW c \in calls, Split(c)
      PROVE  TypeOK'
  <2>1. c \in CallType /\ InnerMask(c) \subseteq Bit
    BY DEF InnerMask
  <2>2. \A i \in c.items :
           /\ Bin(c, i) \in SUBSET Item
           /\ c.mask \cup InnerMask(c) \in SUBSET Bit
           /\ c.bits \cup (fbits[i] \cap InnerMask(c)) \in SUBSET Bit
    BY <2>1 DEF CallType, Bin
  <2>3. nodes' \subseteq NodeType
    BY <1>6, <2>1 DEF Split, Node, NodeType, CallType
  <2>4. leaves' \subseteq LeafType
    BY <1>6, <2>1, <2>2 DEF Split, CallType, LeafType
  <2>5. calls' \subseteq CallType
    BY <1>6, <2>1, <2>2 DEF Split, CallType
  <2>. QED  BY <1>6, <2>3, <2>4, <2>5 DEF Split
<1>7. CASE FinishTree
  BY <1>7 DEF FinishTree
<1>8. CASE UNCHANGED treeVars
  BY <1>8 DEF treeVars
<1>. QED
  BY <1>1, <1>2, <1>3, <1>4, <1>5, <1>6, <1>7, <1>8 DEF TreeNext

(* Type correctness of the generator for every input file. *)
THEOREM TypeCorrect == TreeSpec => []TypeOK
<1>1. TreeInit => TypeOK
  BY DEF TreeInit, TypeOK, Common
<1>. QED  BY <1>1, TypeStep, PTL DEF TreeSpec

-----------------------------------------------------------------------------
(* The agreed bits depend on the parsed patterns only. *)
LEMMA AgreedStable ==
  ASSUME enc' = enc, NEW i \in Item
  PROVE  Agreed(i)' = Agreed(i) /\ Common(i)' = Common(i) /\ First(i)' = First(i)
BY DEF Agreed, Common, First

(* The loop of prop_masks keeps its mask between the agreed and the common *)
(* bits, and leaves only when every member agrees with the first.          *)
LEMMA WidenStep ==
  ASSUME TypeOK, WidenInv, WidenExact, [TreeNext]_treeVars
  PROVE  WidenInv' /\ WidenExact'
<1>1. enc' = enc
  BY DEF TreeNext, treeVars, WidenPass, Settle, StartTree, BuildSingle,
         ReportOverlap, Split, FinishTree
<1>2. \A i \in Item : Agreed(i)' = Agreed(i) /\ Common(i)' = Common(i) /\ First(i)' = First(i)
  BY <1>1, AgreedStable
<1>3. ASSUME NEW i \in Item, WidenPass(i)
      PROVE  WidenInv' /\ WidenExact'
  <2>1. PICK k \in DOMAIN Members[i] : fmask' = [fmask EXCEPT ![i] = @ \ Differ(i, k)]
    BY <1>3 DEF WidenPass
  <2>2. Agreed(i) \subseteq fmask[i] \ Differ(i, k)
    BY <2>1 DEF WidenInv, Agreed, Differ
  <2>3. \A j \in Item : Agreed(j) \subseteq fmask'[j] /\ fmask'[j] \subseteq Common(j)
    BY <2>1, <2>2 DEF WidenInv, TypeOK
  <2>4. WidenInv'
    BY <1>3, <2>3, <1>2 DEF WidenInv, WidenPass
  <2>5. \A j \in settled : j \in Item /\ fmask'[j] = fmask[j] /\ fbits'[j] = fbits[j]
    BY <1>3, <2>1 DEF WidenPass, TypeOK
  <2>6. WidenExact'
    BY <1>1, <1>2, <1>3, <2>5 DEF WidenExact, WidenPass
  <2>. QED  BY <2>4, <2>6
<1>4. ASSUME NEW i \in Item, Settle(i)
      PROVE  WidenInv' /\ WidenExact'
  <2>1. fmask' = fmask /\ settled' = settled \cup {i} /\ i \notin settled
    BY <1>4 DEF Settle
  <2>2. fmask[i] = Agreed(i)
    BY <1>4 DEF Settle, Differ, WidenInv, Agreed, Common
  <2>3. fbits'[i] \cap fmask[i] = enc[First(i)].bits \cap fmask[i]
    BY <1>4 DEF Settle, TypeOK
  <2>4. \A j \in settled : j \in Item /\ fbits'[j] = fbits[j]
    BY <1>4 DEF Settle, TypeOK
  <2>5. WidenExact'
    BY <1>1, <1>2, <2>1, <2>2, <2>3, <2>4 DEF WidenExact
  <2>6. WidenInv'
    BY <1>2, <1>4, <2>1 DEF WidenInv, Settle
  <2>. QED  BY <2>5, <2>6
<1>5. CASE /\ UNCHANGED <<fmask, fbits, settled>>
           /\ \/ status' # "masks" /\ settled = Item
              \/ UNCHANGED treeVars
  <2>1. WidenExact'
    BY <1>1, <1>2, <1>5 DEF WidenExact, TypeOK
  <2>2. \A i \in Item : Agreed(i)' \subseteq fmask'[i] /\ fmask'[i] \subseteq Common(i)'
    BY <1>2, <1>5 DEF WidenInv
  <2>3. WidenInv'
    BY <1>5, <2>2 DEF WidenInv, treeVars
  <2>. QED  BY <2>1, <2>3
<1>6. CASE StartTree
  BY <1>5, <1>6 DEF StartTree
<1>7. ASSUME NEW c \in calls, BuildSingle(c) \/ ReportOverlap(c) \/ Split(c)
      PROVE  WidenInv' /\ WidenExact'
  <2>1. UNCHANGED <<fmask, fbits, settled>> /\ status' # "masks" /\ settled = Item
    BY <1>7 DEF BuildSingle, ReportOverlap, Split, WidenInv
  <2>. QED  BY <1>5, <2>1
<1>8. CASE FinishTree
  BY <1>5, <1>8 DEF FinishTree, WidenInv
<1>9. CASE UNCHANGED treeVars
  BY <1>5, <1>9 DEF treeVars
<1>. QED  BY <1>3, <1>4, <1>6, <1>7, <1>8, <1>9 DEF TreeNext

-----------------------------------------------------------------------------
(* The path that Split gives to item i is item i's own bits within the     *)
(* mask tested so far.                                                     *)
LEMMA SplitPath ==
  ASSUME PathInv, NEW c \in calls, NEW i \in c.items
  PROVE  /\ c.mask \cup InnerMask(c) \subseteq fmask[i]
         /\ c.bits \cup (fbits[i] \cap InnerMask(c)) = fbits[i] \cap (c.mask \cup InnerMask(c))
         /\ c.bits = fbits[i] \cap c.mask
BY DEF PathInv, OnPath, InnerMask

(* Every step keeps PathInv: what is left of the masks is untouched, and   *)
(* new calls and leaves test bits their items fix.                         *)
LEMMA PathStep ==
  ASSUME TypeOK, WidenInv, PathInv, [TreeNext]_treeVars
  PROVE  PathInv'
<1>1. ASSUME NEW i \in Item, WidenPass(i) \/ Settle(i)
      PROVE  PathInv'
  <2>1. calls' = {} /\ leaves' = {}
    BY <1>1 DEF WidenPass, Settle, WidenInv
  <2>. QED  BY <2>1 DEF PathInv
<1>2. CASE StartTree
  <2>1. leaves' = {} /\ \A c \in calls' : c.mask = {} /\ c.bits = {}
    BY <1>2 DEF StartTree, WidenInv
  <2>. QED  BY <2>1 DEF PathInv, OnPath
<1>3. ASSUME NEW c \in calls, BuildSingle(c)
      PROVE  PathInv'
  <2>1. UNCHANGED <<fmask, fbits>> /\ calls' \subseteq calls
    BY <1>3 DEF BuildSingle
  <2>2. \A i \in c.items : i \in Item /\ OnPath(c, i) /\ c.mask = fmask[i]
    BY <1>3 DEF BuildSingle, OnlyOne, InnerMask, PathInv, OnPath, TypeOK, CallType
  <2>3. \A l \in leaves' : OnPath(l, l.item) /\ l.mask = fmask[l.item]
    BY <1>3, <2>2 DEF BuildSingle, PathInv, OnPath
  <2>. QED  BY <2>1, <2>3 DEF PathInv, OnPath
<1>4. ASSUME NEW c \in calls, Split(c)
      PROVE  PathInv'
  <2>1. UNCHANGED <<fmask, fbits>>
    BY <1>4 DEF Split
  <2>2. ASSUME NEW d \in calls', NEW j \in d.items
        PROVE  OnPath(d, j)
    <3>1. CASE d \in calls
      BY <2>2, <3>1 DEF PathInv
    <3>2. CASE \E i \in c.items :
                 d = [items |-> Bin(c, i), mask |-> c.mask \cup InnerMask(c),
                      bits |-> c.bits \cup (fbits[i] \cap InnerMask(c))]
      <4>1. PICK i \in c.items :
                 d = [items |-> Bin(c, i), mask |-> c.mask \cup InnerMask(c),
                      bits |-> c.bits \cup (fbits[i] \cap InnerMask(c))]
        BY <3>2
      <4>2. j \in c.items /\ fbits[j] \cap InnerMask(c) = fbits[i] \cap InnerMask(c)
        BY <2>2, <4>1 DEF Bin
      <4>. QED  BY <4>1, <4>2, SplitPath DEF OnPath
    <3>. QED  BY <1>4, <3>1, <3>2 DEF Split
  <2>3. ASSUME NEW l \in leaves'
        PROVE  OnPath(l, l.item) /\ l.mask = fmask[l.item]
    <3>1. CASE l \in leaves
      BY <3>1 DEF PathInv
    <3>2. CASE \E i \in c.items : /\ ~ Recurse(c, i)
                                  /\ l = [item |-> i, mask |-> c.mask \cup InnerMask(c),
                                          bits |-> c.bits \cup (fbits[i] \cap InnerMask(c))]
      BY <3>2, SplitPath DEF OnPath, Recurse
    <3>. QED  BY <1>4, <3>1, <3>2 DEF Split
  <2>. QED  BY <2>1, <2>2, <2>3 DEF PathInv, OnPath
<1>5. ASSUME UNCHANGED <<fmask, fbits, calls, leaves>>
      PROVE  PathInv'
  BY <1>5 DEF PathInv, OnPath
<1>. QED
  BY <1>1, <1>2, <1>3, <1>4, <1>5 DEF TreeNext, treeVars, ReportOverlap, FinishTree

(* No item falls between the bins. *)
LEMMA PlacedStep ==
  ASSUME TypeOK, WidenInv, PlacedInv, [TreeNext]_treeVars
  PROVE  PlacedInv'
<1>1. ASSUME NEW i \in Item, WidenPass(i) \/ Settle(i)
      PROVE  PlacedInv'
  BY <1>1 DEF WidenPass, Settle, PlacedInv
<1>2. CASE StartTree
  BY <1>2 DEF StartTree, PlacedInv
<1>3. ASSUME NEW c \in calls, BuildSingle(c)
      PROVE  PlacedInv'
  <2>1. ASSUME NEW i \in c.items
        PROVE  \E l \in leaves' : l.item = i
    <3>. DEFINE leaf == [item |-> i, mask |-> c.mask, bits |-> c.bits]
    <3>1. leaf \in leaves'
      BY <1>3 DEF BuildSingle
    <3>2. leaf.item = i
      OBVIOUS
    <3>. QED  BY <3>1, <3>2
  <2>. QED  BY <1>3, <2>1 DEF BuildSingle, PlacedInv
<1>4. ASSUME NEW c \in calls, Split(c)
      PROVE  PlacedInv'
  <2>1. \A i \in c.items : i \in Bin(c, i)
    BY DEF Bin
  <2>2. ASSUME NEW i \in c.items
        PROVE  \/ \E d \in calls' : i \in d.items
               \/ \E l \in leaves' : l.item = i
    <3>. DEFINE full == c.mask \cup InnerMask(c)
                path == c.bits \cup (fbits[i] \cap InnerMask(c))
                call == [items |-> Bin(c, i), mask |-> full, bits |-> path]
                leaf == [item |-> i, mask |-> full, bits |-> path]
    <3>1. CASE Recurse(c, i)
      <4>1. call \in calls'
        BY <1>4, <3>1 DEF Split
      <4>2. i \in call.items
        BY <2>1
      <4>. QED  BY <4>1, <4>2
    <3>2. CASE ~ Recurse(c, i)
      <4>1. leaf \in leaves'
        BY <1>4, <3>2 DEF Split
      <4>2. leaf.item = i
        OBVIOUS
      <4>. QED  BY <4>1, <4>2
    <3>. QED  BY <3>1, <3>2
  <2>3. calls \ {c} \subseteq calls' /\ leaves \subseteq leaves'
    BY <1>4 DEF Split
  <2>. QED  BY <1>4, <2>2, <2>3 DEF Split, PlacedInv
<1>5. CASE \E c \in calls : ReportOverlap(c)
  BY <1>5 DEF ReportOverlap, PlacedInv
<1>6. CASE FinishTree
  BY <1>6 DEF FinishTree, PlacedInv
<1>7. CASE UNCHANGED treeVars
  BY <1>7 DEF treeVars, PlacedInv
<1>. QED  BY <1>1, <1>2, <1>3, <1>4, <1>5, <1>6, <1>7 DEF TreeNext

-----------------------------------------------------------------------------
(* A place below c is apart from whatever c is apart from.                 *)
LEMMA ApartBelow ==
  ASSUME NEW c, NEW x, NEW y,
         c.mask \subseteq x.mask,
         x.bits \cap c.mask = c.bits \cap c.mask
  PROVE  /\ Apart(c, y) => Apart(x, y)
         /\ Apart(y, c) => Apart(y, x)
BY DEF Apart

(* Two places that Split makes are apart unless they stand for one bin.    *)
LEMMA ApartBins ==
  ASSUME PathInv, NEW c \in calls, NEW i \in c.items, NEW j \in c.items,
         NEW x, NEW y,
         x.mask = c.mask \cup InnerMask(c),
         x.bits = c.bits \cup (fbits[i] \cap InnerMask(c)),
         y.mask = c.mask \cup InnerMask(c),
         y.bits = c.bits \cup (fbits[j] \cap InnerMask(c)),
         Bin(c, i) # Bin(c, j)
  PROVE  Apart(x, y)
<1>1. fbits[i] \cap InnerMask(c) # fbits[j] \cap InnerMask(c)
  BY DEF Bin
<1>2. PICK b \in InnerMask(c) : (b \in fbits[i]) # (b \in fbits[j])
  BY <1>1
<1>3. b \notin c.bits
  BY SplitPath DEF InnerMask
<1>. QED  BY <1>2, <1>3 DEF Apart

(* The places that Split adds lie below c. *)
LEMMA SplitBelow ==
  ASSUME TypeOK, PathInv, NEW c \in calls, NEW i \in c.items, NEW x,
         x.mask = c.mask \cup InnerMask(c),
         x.bits = c.bits \cup (fbits[i] \cap InnerMask(c))
  PROVE  c.mask \subseteq x.mask /\ x.bits \cap c.mask = c.bits \cap c.mask
BY DEF InnerMask

(* Every step keeps the places of the tree apart. *)
LEMMA ApartStep ==
  ASSUME TypeOK, WidenInv, PathInv, ApartInv, [TreeNext]_treeVars
  PROVE  ApartInv'
<1>1. ASSUME NEW i \in Item, WidenPass(i) \/ Settle(i)
      PROVE  ApartInv'
  <2>1. UNCHANGED <<calls, leaves>>
    BY <1>1 DEF WidenPass, Settle
  <2>. QED  BY <2>1 DEF ApartInv, Apart
<1>2. CASE StartTree
  <2>1. leaves' = {} /\ \A c, d \in calls' : c = d
    BY <1>2 DEF StartTree, WidenInv
  <2>. QED  BY <2>1 DEF ApartInv
<1>3. ASSUME NEW c \in calls, BuildSingle(c)
      PROVE  ApartInv'
  <2>1. calls' = calls \ {c}
    BY <1>3 DEF BuildSingle
  <2>2. PICK i \in c.items : leaves' = leaves \cup {[item |-> i, mask |-> c.mask, bits |-> c.bits]}
    BY <1>3 DEF BuildSingle, OnlyOne
  <2>. DEFINE new == [item |-> i, mask |-> c.mask, bits |-> c.bits]
  <2>3. new.mask = c.mask /\ new.bits = c.bits
    OBVIOUS
  <2>4. \A y : (Apart(c, y) => Apart(new, y)) /\ (Apart(y, c) => Apart(y, new))
    BY <2>3 DEF Apart
  <2>5. \A l \in leaves : Apart(new, l) /\ Apart(l, new)
    BY <2>4 DEF ApartInv, Apart
  <2>6. \A d \in calls' : Apart(d, new)
    BY <2>1, <2>4 DEF ApartInv
  <2>7. \A l \in leaves' : l \in leaves \/ l = new
    BY <2>2
  <2>8. \A d \in calls' : d \in calls
    BY <2>1
  <2>. HIDE DEF new
  <2>. QED  BY <2>5, <2>6, <2>7, <2>8 DEF ApartInv, Apart
<1>4. ASSUME NEW c \in calls, Split(c)
      PROVE  ApartInv'
  <2>. DEFINE full == c.mask \cup InnerMask(c)
              path(i) == c.bits \cup (fbits[i] \cap InnerMask(c))
              call(i) == [items |-> Bin(c, i), mask |-> full, bits |-> path(i)]
              leaf(i) == [item |-> i, mask |-> full, bits |-> path(i)]
  <2>1. \A d \in calls' : \/ d \in calls /\ d # c
                          \/ \E i \in c.items : Recurse(c, i) /\ d = call(i)
    BY <1>4 DEF Split
  <2>2. \A l \in leaves' : \/ l \in leaves
                           \/ \E i \in c.items : ~ Recurse(c, i) /\ l = leaf(i)
    BY <1>4 DEF Split
  <2>3. \A i : /\ call(i).mask = full /\ call(i).bits = path(i)
               /\ leaf(i).mask = full /\ leaf(i).bits = path(i)
    OBVIOUS
  <2>4. ASSUME NEW i \in c.items, NEW j \in c.items, ~ Recurse(c, i), Bin(c, i) = Bin(c, j)
        PROVE  i = j
    BY <2>4 DEF Recurse, OnlyOne, Bin
  <2>. HIDE DEF call, leaf
  <2>5. \A y : \A i \in c.items :
          /\ Apart(c, y) => Apart(call(i), y) /\ Apart(leaf(i), y)
          /\ Apart(y, c) => Apart(y, call(i)) /\ Apart(y, leaf(i))
    BY <2>3, SplitBelow, ApartBelow
  <2>6. \A i, j \in c.items : Bin(c, i) # Bin(c, j) =>
          Apart(call(i), call(j)) /\ Apart(call(i), leaf(j)) /\ Apart(leaf(i), leaf(j))
    BY <2>3, ApartBins
  <2>7. \A x, y : Apart(x, y) => Apart(y, x)
    BY DEF Apart
  <2>8. ASSUME NEW d \in calls', NEW e \in calls', d # e
        PROVE  Apart(d, e)
    <3>1. \A i, j \in c.items : Bin(c, i) = Bin(c, j) => call(i) = call(j)
      BY DEF call, Bin
    <3>. QED  BY <2>1, <2>5, <2>6, <2>8, <3>1 DEF ApartInv
  <2>9. ASSUME NEW d \in calls', NEW l \in leaves'
        PROVE  Apart(d, l)
    <3>1. \A i, j \in c.items : Recurse(c, i) /\ ~ Recurse(c, j) => Bin(c, i) # Bin(c, j)
      BY <2>4
    <3>. QED  BY <2>1, <2>2, <2>5, <2>6, <3>1 DEF ApartInv
  <2>10. ASSUME NEW l \in leaves', NEW m \in leaves', l # m
         PROVE  Apart(l, m)
    <3>1. \A i, j \in c.items : ~ Recurse(c, i) /\ i # j => Bin(c, i) # Bin(c, j)
      BY <2>4
    <3>2. \A k \in leaves : Apart(c, k) /\ Apart(k, c)
      BY <2>7 DEF ApartInv
    <3>. QED  BY <2>2, <2>5, <2>6, <2>10, <3>1, <3>2 DEF ApartInv
  <2>11. \A x, y : Apart(x, y)' = Apart(x, y)
    BY DEF Apart
  <2>. QED  BY <2>8, <2>9, <2>10 DEF ApartInv, Apart
<1>5. CASE UNCHANGED <<calls, leaves>>
  BY <1>5 DEF ApartInv, Apart
<1>. QED
  BY <1>1, <1>2, <1>3, <1>4, <1>5 DEF TreeNext, treeVars, ReportOverlap, FinishTree

-----------------------------------------------------------------------------
(* The inductive invariant of the generator.                               *)
THEOREM TreeInvariant == TreeSpec => []TreeInv
<1>1. TreeInit => TreeInv
  <2>. SUFFICES ASSUME TreeInit PROVE TreeInv
    OBVIOUS
  <2>1. WidenExact /\ PathInv /\ PlacedInv /\ ApartInv
    BY DEF TreeInit, WidenExact, PathInv, PlacedInv, ApartInv
  <2>2. WidenInv
    BY DEF TreeInit, WidenInv, Agreed
  <2>. QED  BY <2>1, <2>2 DEF TreeInv
<1>2. TypeOK /\ TreeInv /\ [TreeNext]_treeVars => TreeInv'
  BY WidenStep, PathStep, PlacedStep, ApartStep DEF TreeInv
<1>. QED  BY <1>1, <1>2, TypeCorrect, PTL DEF TreeSpec

(* Every instruction word is decided for every item by the finished tree:  *)
(* the tests on the way to the item's leaf are the item's own.             *)
THEOREM TreeDecidesAlways == TreeSpec => []TreeDecides
<1>1. TreeInv => TreeDecides
  <2>. SUFFICES ASSUME TreeInv, status = "done", NEW i \in Item
                PROVE  \E l \in leaves :
                         /\ l.item = i
                         /\ \A w \in SUBSET Bit :
                              w \cap l.mask = l.bits <=> w \cap fmask[i] = fbits[i] \cap fmask[i]
    BY DEF TreeDecides
  <2>1. PICK l \in leaves : l.item = i
    BY DEF TreeInv, PlacedInv
  <2>2. l.mask = fmask[i] /\ l.bits = fbits[i] \cap fmask[i]
    BY <2>1 DEF TreeInv, PathInv, OnPath
  <2>. QED  BY <2>1, <2>2
<1>. QED  BY <1>1, TreeInvariant, PTL

(* A word that matches a member of an item has the bits the item fixes. *)
LEMMA MemberFixesItem ==
  ASSUME TypeOK, TreeInv, status = "done",
         NEW i \in Item, NEW k \in DOMAIN Members[i], NEW w \in SUBSET Bit,
         Matches(w, Members[i][k])
  PROVE  w \cap fmask[i] = fbits[i] \cap fmask[i]
<1>1. i \in settled
  BY DEF TreeInv, WidenInv
<1>2. fmask[i] = Agreed(i) /\ fbits[i] \cap fmask[i] = enc[First(i)].bits \cap fmask[i]
  BY <1>1 DEF TreeInv, WidenExact
<1>3. enc[Members[i][k]].bits \cap fmask[i] = enc[First(i)].bits \cap fmask[i]
  BY <1>2 DEF Agreed
<1>4. fmask[i] \subseteq enc[Members[i][k]].mask
  BY <1>2 DEF Agreed, Common
<1>5. w \cap fmask[i] = enc[Members[i][k]].bits \cap fmask[i]
  BY <1>4 DEF Matches
<1>. QED  BY <1>2, <1>3, <1>5

(* What the generator accepts is a non-overlapping set of items: no word   *)
(* matches patterns of two different items.                                *)
THEOREM AcceptedDisjointAlways == TreeSpec => []AcceptedDisjoint
<1>1. TypeOK /\ TreeInv => AcceptedDisjoint
  <2>. SUFFICES ASSUME TypeOK, TreeInv, status = "done",
                       NEW i \in Item, NEW j \in Item, i # j,
                       NEW k \in DOMAIN Members[i], NEW m \in DOMAIN Members[j],
                       NEW w \in SUBSET Bit,
                       Matches(w, Members[i][k]), Matches(w, Members[j][m])
                PROVE  FALSE
    BY DEF AcceptedDisjoint
  <2>1. PICK l \in leaves : l.item = i
    BY DEF TreeInv, PlacedInv
  <2>2. PICK n \in leaves : n.item = j
    BY DEF TreeInv, PlacedInv
  <2>3. /\ l.mask = fmask[i] /\ l.bits = fbits[i] \cap fmask[i]
        /\ n.mask = fmask[j] /\ n.bits = fbits[j] \cap fmask[j]
    BY <2>1, <2>2 DEF TreeInv, PathInv, OnPath
  <2>4. w \cap l.mask = l.bits /\ w \cap n.mask = n.bits
    BY <2>3, MemberFixesItem
  <2>5. PICK b \in l.mask \cap n.mask : (b \in l.bits) # (b \in n.bits)
    BY <2>1, <2>2 DEF TreeInv, ApartInv, Apart
  <2>. QED  BY <2>4, <2>5
<1>. QED  BY <1>1, TypeCorrect, TreeInvariant, PTL

-----------------------------------------------------------------------------
(* A step of the generator keeps the types and the tree invariant. *)
LEMMA TreeStep ==
  ASSUME TypeOK, TreeInv, [TreeNext]_treeVars
  PROVE  TypeOK' /\ TreeInv'
BY TypeStep, WidenStep, PathStep, PlacedStep, ApartStep DEF TreeInv

(* What a call leaves for item i when it has run. *)
MadeOf(x, c, i) ==
  /\ x.mask = c.mask \cup InnerMask(c)
  /\ x.bits = c.bits \cup (fbits[i] \cap InnerMask(c))

(* A call that runs becomes a node, and a leaf or a call for every item.   *)
LEMMA Expanded ==
  ASSUME TypeOK, NEW c \in calls, BuildSingle(c) \/ Split(c)
  PROVE  /\ nodes' = nodes \cup {Node(c)}
         /\ leaves \subseteq leaves' /\ calls \ {c} \subseteq calls'
         /\ \A x \in Places' : \/ x \in leaves \cup (calls \ {c})
                               \/ \E i \in c.items : MadeOf(x, c, i)
         /\ \A i \in c.items : \E y \in Places' : MadeOf(y, c, i)
         /\ InnerMask(c) = {} => \E l \in leaves' : l.mask = c.mask /\ l.bits = c.bits
<1>1. CASE BuildSingle(c)
  <2>. DEFINE leaf(i) == [item |-> i, mask |-> c.mask, bits |-> c.bits]
  <2>1. InnerMask(c) = {} /\ \E i \in c.items : TRUE
    BY <1>1 DEF BuildSingle, OnlyOne
  <2>2. \A i \in c.items : leaf(i) \in leaves' /\ MadeOf(leaf(i), c, i)
    BY <1>1, <2>1 DEF BuildSingle, MadeOf
  <2>3. \A x \in leaves' : x \in leaves \/ \E i \in c.items : x = leaf(i)
    BY <1>1 DEF BuildSingle
  <2>4. nodes' = nodes \cup {Node(c)} /\ leaves \subseteq leaves' /\ calls' = calls \ {c}
    BY <1>1 DEF BuildSingle
  <2>5. \A x \in Places' : \/ x \in leaves \cup (calls \ {c})
                           \/ \E i \in c.items : MadeOf(x, c, i)
    BY <2>2, <2>3, <2>4 DEF Places
  <2>6. \A i \in c.items : \E y \in Places' : MadeOf(y, c, i)
    BY <2>2 DEF Places
  <2>7. \E l \in leaves' : l.mask = c.mask /\ l.bits = c.bits
    BY <2>1, <2>2
  <2>. QED  BY <2>4, <2>5, <2>6, <2>7
<1>2. CASE Split(c)
  <2>. DEFINE full == c.mask \cup InnerMask(c)
              path(i) == c.bits \cup (fbits[i] \cap InnerMask(c))
              deep == {i \in c.items : Recurse(c, i)}
              call(i) == [items |-> Bin(c, i), mask |-> full, bits |-> path(i)]
              leaf(i) == [item |-> i, mask |-> full, bits |-> path(i)]
  <2>1. /\ calls' = (calls \ {c}) \cup {call(i) : i \in deep}
        /\ leaves' = leaves \cup {leaf(i) : i \in c.items \ deep}
        /\ nodes' = nodes \cup {Node(c)}
        /\ InnerMask(c) # {}
    BY <1>2 DEF Split
  <2>2. \A i \in c.items : MadeOf(call(i), c, i) /\ MadeOf(leaf(i), c, i)
    BY DEF MadeOf
  <2>3. \A x \in Places' : \/ x \in leaves \cup (calls \ {c})
                           \/ \E i \in c.items : MadeOf(x, c, i)
    <3>1. \A x \in calls' : x \in calls \ {c} \/ \E i \in deep : x = call(i)
      BY <2>1
    <3>2. \A x \in leaves' : x \in leaves \/ \E i \in c.items \ deep : x = leaf(i)
      BY <2>1
    <3>. HIDE DEF call, leaf
    <3>. QED  BY <2>2, <3>1, <3>2 DEF Places
  <2>4. \A i \in c.items : \E y \in Places' : MadeOf(y, c, i)
    <3>. TAKE i \in c.items
    <3>1. call(i) \in calls' \/ leaf(i) \in leaves'
      BY <2>1
    <3>. QED  BY <2>2, <3>1 DEF Places
  <2>. QED  BY <2>1, <2>3, <2>4
<1>. QED  BY <1>1, <1>2

-----------------------------------------------------------------------------
(* No test is made twice, and a node without one has its pattern. *)
LEMMA ShapeExpanded ==
  ASSUME TypeOK, NodeShape, NEW c \in calls, BuildSingle(c) \/ Split(c)
  PROVE  NodeShape'
<1>1. Node(c).mask = c.mask /\ Node(c).bits = c.bits /\ Node(c).this = InnerMask(c)
  BY DEF Node
<1>2. c.bits \subseteq c.mask /\ InnerMask(c) \cap c.mask = {}
  BY DEF NodeShape, InnerMask
<1>3. \A n \in nodes' : n.bits \subseteq n.mask /\ n.this \cap n.mask = {}
  BY Expanded, <1>1, <1>2 DEF NodeShape
<1>4. \A d \in calls' : d.bits \subseteq d.mask
  <2>. TAKE d \in calls'
  <2>1. CASE d \in calls
    BY <2>1 DEF NodeShape
  <2>2. CASE d \notin calls
    <3>1. Split(c)
      BY <2>2 DEF BuildSingle
    <3>2. PICK i \in c.items : MadeOf(d, c, i)
      BY <2>2, <3>1 DEF Split, MadeOf
    <3>. QED  BY <3>2, <1>2 DEF MadeOf
  <2>. QED  BY <2>1, <2>2
<1>5. \A n \in nodes' : n.this = {} => \E l \in leaves' : l.mask = n.mask /\ l.bits = n.bits
  BY Expanded, <1>1 DEF NodeShape
<1>. QED  BY <1>3, <1>4, <1>5 DEF NodeShape

(* What a call leaves is below all nodes the call was below, and below the *)
(* node that the call becomes.                                             *)
LEMMA MadeBelow ==
  ASSUME NodeShape, NEW c \in calls, NEW i \in c.items, NEW x, MadeOf(x, c, i)
  PROVE  /\ c.mask \subseteq x.mask /\ x.bits \cap c.mask = c.bits
         /\ \A n \in nodes : Apart(n, c) => Apart(n, x)
         /\ \A n \in nodes : Below(n, c) /\ n.this \subseteq c.mask =>
                               Below(n, x) /\ x.bits \cap n.this = c.bits \cap n.this
<1>1. c.bits \subseteq c.mask /\ InnerMask(c) \cap c.mask = {}
  BY DEF NodeShape, InnerMask
<1>2. c.mask \subseteq x.mask /\ x.bits \cap c.mask = c.bits
  BY <1>1 DEF MadeOf
<1>. QED  BY <1>2 DEF Apart, Below

(* Nodes stay apart when a call becomes a node.                            *)
LEMMA ApartExpanded ==
  ASSUME TypeOK, TreeInv, NodeShape, NodeApart, NEW c \in calls, BuildSingle(c) \/ Split(c)
  PROVE  NodeApart'
<1>. SUFFICES ASSUME NEW n \in nodes', NEW x \in Places'
              PROVE  Apart(n, x) \/ (Below(n, x) /\ n.this \subseteq x.mask)
  BY DEF NodeApart, Apart, Below
<1>1. Node(c).mask = c.mask /\ Node(c).bits = c.bits /\ Node(c).this = InnerMask(c)
  BY DEF Node
<1>2. n \in nodes \/ n = Node(c)
  BY Expanded
<1>3. CASE x \in leaves \cup (calls \ {c})
  <2>1. x \in Places /\ Apart(c, x)
    BY <1>3 DEF Places, TreeInv, ApartInv
  <2>2. n = Node(c) => Apart(n, x)
    BY <2>1, <1>1 DEF Apart
  <2>. QED  BY <2>1, <2>2, <1>2 DEF NodeApart
<1>4. ASSUME NEW i \in c.items, MadeOf(x, c, i)
      PROVE  Apart(n, x) \/ (Below(n, x) /\ n.this \subseteq x.mask)
  <2>1. n = Node(c) => Below(n, x) /\ n.this \subseteq x.mask
    BY <1>4, <1>1, MadeBelow DEF Below, MadeOf
  <2>2. n \in nodes => Apart(n, c) \/ (Below(n, c) /\ n.this \subseteq c.mask)
    BY DEF NodeApart, Places
  <2>. QED  BY <1>2, <1>4, <2>1, <2>2, MadeBelow
<1>. QED  BY <1>3, <1>4, Expanded

(* The case of a node for a call that runs is the node made of it, or, of  *)
(* a node without a test, its leaf.                                        *)
LEMMA CasesExpanded ==
  ASSUME TypeOK, TreeInv, NodeInv, NEW c \in calls, BuildSingle(c) \/ Split(c)
  PROVE  NodeCases'
<1>. USE DEF NodeInv
<1>. SUFFICES ASSUME NEW n \in nodes', NEW x \in Places', Below(n, x)
              PROVE  \E y \in Places' \cup (nodes' \ {n}) : IsCaseOf(y, n, x)
  BY DEF NodeCases, Below, IsCaseOf
<1>1. Node(c).mask = c.mask /\ Node(c).bits = c.bits /\ Node(c).this = InnerMask(c)
  BY DEF Node
<1>2. n \in nodes \/ n = Node(c)
  BY Expanded
<1>3. NodeShape'
  BY ShapeExpanded
<1>4. \A a, b : Apart(a, b) => ~ Below(a, b)
  BY DEF Apart, Below
<1>5. ASSUME n \in nodes, NEW z \in Places, Below(n, z), x.bits \cap n.this = z.bits \cap n.this
      PROVE  \E y \in Places' \cup (nodes' \ {n}) : IsCaseOf(y, n, x)
  <2>1. PICK y \in Places \cup (nodes \ {n}) : IsCaseOf(y, n, x)
    BY <1>5 DEF NodeCases, IsCaseOf
  <2>2. CASE y # c
    BY <2>1, <2>2, Expanded DEF Places
  <2>3. CASE y = c /\ n.this # {}
    <3>1. IsCaseOf(Node(c), n, x) /\ Node(c).mask # n.mask
      BY <2>1, <2>3, <1>1, <1>5 DEF IsCaseOf, NodeShape
    <3>. QED  BY <3>1, Expanded
  <2>4. CASE n.this = {}
    <3>1. PICK l \in leaves : l.mask = n.mask /\ l.bits = n.bits
      BY <2>4, <1>5 DEF NodeShape
    <3>2. l \in Places' /\ IsCaseOf(l, n, x)
      BY <3>1, <2>4, Expanded DEF Places, IsCaseOf
    <3>. QED  BY <3>2
  <2>. QED  BY <2>2, <2>3, <2>4
<1>6. CASE x \in leaves \cup (calls \ {c})
  <2>1. x \in Places /\ Apart(c, x)
    BY <1>6 DEF Places, TreeInv, ApartInv
  <2>2. n # Node(c)
    BY <2>1, <1>1, <1>4 DEF Apart
  <2>. QED  BY <2>1, <2>2, <1>2, <1>5
<1>7. ASSUME NEW i \in c.items, MadeOf(x, c, i)
      PROVE  \E y \in Places' \cup (nodes' \ {n}) : IsCaseOf(y, n, x)
  <2>1. CASE n = Node(c)
    <3>1. c.bits \subseteq c.mask /\ InnerMask(c) \cap c.mask = {}
      BY DEF NodeShape, InnerMask
    <3>2. IsCaseOf(x, n, x)
      BY <2>1, <3>1, <1>1, <1>7 DEF IsCaseOf, MadeOf
    <3>. QED  BY <3>2
  <2>2. CASE n \in nodes
    <3>1. Below(n, c) /\ n.this \subseteq c.mask
      BY <2>2, <1>4, <1>7, MadeBelow DEF NodeApart, Places
    <3>2. x.bits \cap n.this = c.bits \cap n.this
      BY <2>2, <3>1, <1>7, MadeBelow
    <3>. QED  BY <2>2, <3>1, <3>2, <1>5 DEF Places
  <2>. QED  BY <1>2, <2>1, <2>2
<1>. QED  BY <1>6, <1>7, Expanded

(* Every step of the generator keeps the cases of the nodes complete. *)
LEMMA NodeStep ==
  ASSUME TypeOK, TreeInv, NodeInv, [TreeNext]_treeVars
  PROVE  NodeInv'
<1>1. ASSUME NEW i \in Item, WidenPass(i) \/ Settle(i)
      PROVE  NodeInv'
  <2>1. nodes' = {} /\ calls' = {}
    BY <1>1 DEF WidenPass, Settle, TreeInv, WidenInv
  <2>. QED  BY <2>1 DEF NodeInv, NodeShape, NodeApart, NodeCases
<1>2. CASE StartTree
  <2>1. nodes' = {} /\ \A c \in calls' : c.bits = {}
    BY <1>2 DEF StartTree, TreeInv, WidenInv
  <2>. QED  BY <2>1 DEF NodeInv, NodeShape, NodeApart, NodeCases
<1>3. ASSUME NEW c \in calls, BuildSingle(c) \/ Split(c)
      PROVE  NodeInv'
  BY <1>3, ShapeExpanded, ApartExpanded, CasesExpanded DEF NodeInv
<1>4. ASSUME UNCHANGED <<nodes, calls, leaves>>
      PROVE  NodeInv'
  BY <1>4 DEF NodeInv, NodeShape, NodeApart, NodeCases, Places, Apart, Below, IsCaseOf
<1>5. CASE UNCHANGED treeVars
  BY <1>4, <1>5 DEF treeVars
<1>6. ASSUME NEW c \in calls, ReportOverlap(c)
      PROVE  NodeInv'
  BY <1>4, <1>6 DEF ReportOverlap
<1>7. CASE FinishTree
  BY <1>4, <1>7 DEF FinishTree
<1>. QED  BY <1>1, <1>2, <1>3, <1>5, <1>6, <1>7 DEF TreeNext

-----------------------------------------------------------------------------
(* In a finished tree, a pattern that the word matches has the leaf of its *)
(* item on a path that the word takes.                                     *)
LEMMA LeafOfMatch ==
  ASSUME TypeOK, TreeInv, status = "done", word \in SUBSET Bit,
         NEW i \in Item, NEW k \in DOMAIN Members[i], Matches(word, Members[i][k])
  PROVE  \E l \in leaves : l.item = i /\ PathTaken(l)
<1>1. word \cap fmask[i] = fbits[i] \cap fmask[i]
  BY MemberFixesItem
<1>2. PICK l \in leaves : l.item = i
  BY DEF TreeInv, PlacedInv
<1>3. l.mask = fmask[i] /\ l.bits = fbits[i] \cap l.mask
  BY <1>2 DEF TreeInv, PathInv, OnPath
<1>. QED  BY <1>1, <1>2, <1>3 DEF PathTaken

(* With what the path has tested removed, the test of a pattern at its     *)
(* leaf says whether the word matches.                                     *)
LEMMA GuardExact ==
  ASSUME TypeOK, TreeInv, status = "done", at \in leaves, PathTaken(at),
         NEW k \in DOMAIN Members[at.item]
  PROVE  Guard(Members[at.item][k]) <=> Matches(word, Members[at.item][k])
<1>. DEFINE i == at.item
            p == Members[i][k]
<1>1. i \in Item /\ i \in settled /\ p \in Pattern
  BY MembersFacts DEF TypeOK, LeafType, TreeInv, WidenInv
<1>2. at.mask = Agreed(i) /\ at.bits = enc[First(i)].bits \cap at.mask
  BY <1>1 DEF TreeInv, PathInv, OnPath, WidenExact
<1>3. at.mask \subseteq enc[p].mask /\ enc[p].bits \cap at.mask = at.bits
  BY <1>2 DEF Agreed, Common
<1>4. enc[p].bits \subseteq enc[p].mask
  BY <1>1 DEF TypeOK, Encoding
<1>5. word \cap at.mask = at.bits
  BY DEF PathTaken
<1>. QED  BY <1>3, <1>4, <1>5 DEF Guard, Matches

(* Going to a case, the function stays on the path of the word, and what   *)
(* was or is extracted is in the format of all that is below the case.     *)
LEMMA CaseTaken ==
  ASSUME DecoderInv, base \in [Pattern -> Format], stage = "switch", Hoist(at), UNCHANGED <<leaves, word, base>>,
         NEW x, AtCase(at, x)
  PROVE  /\ word \in SUBSET Bit /\ word \cap x.mask = x.bits
         /\ extracted' => \E f \in Format :
              /\ u' = Fresh(f)
              /\ \A l \in leaves : Below(x, l) => Len(Members[l.item]) = 1 /\ base[First(l.item)] = f
<1>1. at \in nodes /\ PathTaken(at)
  BY DEF DecoderInv, RunInv, SwitchInv
<1>2. at.bits \subseteq at.mask /\ at.this \cap at.mask = {}
  BY <1>1 DEF DecoderInv, NodeInv, NodeShape
<1>3. word \in SUBSET Bit /\ word \cap x.mask = x.bits
  BY <1>1, <1>2 DEF PathTaken, AtCase, CaseMask, CaseBits
<1>4. \A l : Below(x, l) => Below(at, l)
  BY <1>2 DEF Below, AtCase, CaseMask, CaseBits
<1>5. CASE extracted \/ NodeFormats(at) = {}
  BY <1>3, <1>4, <1>5 DEF Hoist, DecoderInv, RunInv, SwitchInv, HoistedFor
<1>6. CASE ~ (extracted \/ NodeFormats(at) = {})
  <2>1. PICK f \in NodeFormats(at) : u' = Fresh(f)
    BY <1>6 DEF Hoist
  <2>. QED  BY <2>1, <1>3, <1>4 DEF NodeFormats
<1>. QED  BY <1>3, <1>5, <1>6

-----------------------------------------------------------------------------
(* The generator is done before the function is called, so none of its     *)
(* steps falls into a call.                                                *)
LEMMA GeneratorDone ==
  ASSUME TreeInv, status = "done", [TreeNext]_treeVars
  PROVE  UNCHANGED treeVars
BY DEF TreeNext, WidenPass, Settle, StartTree, BuildSingle, ReportOverlap, Split, FinishTree

Inv == TypeOK /\ RunTypeOK /\ DecoderInv

(* What the properties of a run depend on beside its own state stays.      *)
LEMMA RunInvStable ==
  ASSUME RunInv, UNCHANGED runVars, UNCHANGED <<base, enc, leaves, nodes>>,
         status' = status
  PROVE  RunInv'
BY DEF RunInv, runVars, SwitchInv, LeafInv, TransInv, PathTaken, HoistedFor, Below,
       Matches, Candidate, Fresh, First

(* While the tree is built nothing runs.                                   *)
LEMMA GenerateStep ==
  ASSUME TypeOK, TreeInv, RunInv, [TreeNext]_treeVars, UNCHANGED <<base, runVars>>
  PROVE  RunInv'
<1>1. CASE stage = "idle"
  BY <1>1 DEF RunInv, runVars, SwitchInv, LeafInv, TransInv
<1>2. CASE stage # "idle"
  <2>1. UNCHANGED treeVars
    BY <1>2, GeneratorDone DEF RunInv
  <2>. QED  BY <2>1, RunInvStable DEF treeVars
<1>. QED  BY <1>1, <1>2

(* A word begins at the root.                                              *)
LEMMA DecodeStep ==
  ASSUME TypeOK, DecoderInv, UNCHANGED <<treeVars, base>>,
         NEW w \in SUBSET Bit, Decode(w)
  PROVE  RunInv'
<1>1. /\ status' = "done" /\ word' = w /\ stage' = "switch"
      /\ outcome' = None /\ refused' = {} /\ next' = 1 /\ ~ extracted'
  BY DEF Decode, DecoderInv, RunInv, treeVars
<1>2. at' \in nodes' /\ at'.mask = {} /\ at'.bits = {}
  BY DEF Decode, treeVars, DecoderInv, NodeInv, NodeShape
<1>. QED  BY <1>1, <1>2 DEF RunInv, SwitchInv, LeafInv, TransInv, PathTaken

(* Every switch of the function keeps what it knows.                       *)
LEMMA SwitchStep ==
  ASSUME Inv, UNCHANGED <<treeVars, base>>, SwitchToNode \/ SwitchToLeaf
  PROVE  RunInv'
<1>. USE DEF Inv
<1>1. stage = "switch" /\ Hoist(at) /\ AtCase(at, at') /\ UNCHANGED <<leaves, word, base>>
  BY DEF SwitchToNode, SwitchToLeaf, treeVars
<1>2. /\ word \in SUBSET Bit /\ word \cap (at').mask = (at').bits
      /\ extracted' => \E f \in Format :
           /\ u' = Fresh(f)
           /\ \A l \in leaves : Below(at', l) => Len(Members[l.item]) = 1 /\ base[First(l.item)] = f
  BY <1>1, CaseTaken DEF RunTypeOK
<1>3. refused = {} /\ next = 1 /\ outcome = None /\ status = "done"
  BY <1>1 DEF DecoderInv, RunInv, SwitchInv
<1>4. CASE SwitchToNode
  <2>1. stage' = "switch" /\ at' \in nodes'
    BY <1>1, <1>4 DEF SwitchToNode, treeVars
  <2>2. SwitchInv'
    BY <1>1, <1>2, <1>3, <1>4, <2>1 DEF SwitchToNode, SwitchInv, PathTaken, HoistedFor, Below, Fresh, First
  <2>. QED  BY <1>1, <1>2, <1>3, <1>4, <2>1, <2>2 DEF SwitchToNode, RunInv, LeafInv, TransInv, treeVars
<1>5. CASE SwitchToLeaf
  <2>1. stage' = "member" /\ at' \in leaves /\ next' = 1 /\ refused' = {} /\ outcome' = None
    BY <1>3, <1>5 DEF SwitchToLeaf
  <2>2. (at').item \in Item /\ Len(Members[(at').item]) \in Nat /\ (at').bits \subseteq (at').mask
    BY <2>1, MembersAssumption, <1>2 DEF TypeOK, LeafType
  <2>3. Below(at', at')
    BY <2>2 DEF Below
  <2>4. extracted' => \E f \in Format :
          u' = Fresh(f) /\ Len(Members[(at').item]) = 1 /\ base[First((at').item)] = f
    BY <1>2, <2>1, <2>3
  <2>5. LeafInv'
    BY <1>1, <1>2, <2>1, <2>2, <2>4 DEF LeafInv, PathTaken, Fresh, First
  <2>. QED  BY <1>1, <1>2, <1>3, <2>1, <2>5 DEF RunInv, SwitchInv, TransInv, treeVars
<1>. QED  BY <1>4, <1>5

(* The state in which a member of a leaf has its turn. *)
LEMMA LeafFacts ==
  ASSUME Inv, stage \in {"member", "trans"}
  PROVE  /\ status = "done" /\ outcome = None /\ word \in SUBSET Bit
         /\ at \in leaves /\ PathTaken(at) /\ at.item \in Item
         /\ Len(Members[at.item]) \in Nat /\ DOMAIN Members[at.item] = 1 .. Len(Members[at.item])
         /\ next \in 1 .. Len(Members[at.item]) + 1
BY MembersAssumption DEF Inv, DecoderInv, RunInv, LeafInv, TypeOK, LeafType

(* A member that does not match is skipped, with what is known kept.       *)
LEMMA SkipStep ==
  ASSUME Inv, UNCHANGED <<treeVars, base>>, SkipMember
  PROVE  RunInv'
<1>. USE DEF Inv
<1>1. stage = "member" /\ next \in DOMAIN Members[at.item] /\ next' = next + 1
  BY DEF SkipMember
<1>2. ~ Matches(word, Members[at.item][next])
  BY <1>1, LeafFacts, GuardExact DEF SkipMember, Candidate, DecoderInv
<1>3. LeafInv'
  <2>1. stage' = "member" /\ UNCHANGED <<word, at, extracted, u, refused, outcome, leaves, base, enc>>
    BY <1>1 DEF SkipMember, treeVars
  <2>2. next' \in 1 .. Len(Members[at.item]) + 1 /\ 1 .. next' - 1 = (1 .. next - 1) \cup {next} /\ next' # 1
    BY <1>1, LeafFacts
  <2>. QED  BY <1>1, <1>2, <2>1, <2>2 DEF LeafInv, PathTaken, Matches, DecoderInv, RunInv
<1>. QED  BY <1>1, <1>3, LeafFacts DEF SkipMember, RunInv, SwitchInv, TransInv, treeVars, DecoderInv

(* A member that matches is entered, with what is known kept.              *)
LEMMA EnterStep ==
  ASSUME Inv, UNCHANGED <<treeVars, base>>, EnterMember
  PROVE  RunInv'
<1>. USE DEF Inv
<1>1. stage = "member" /\ stage' = "trans" /\ next \in DOMAIN Members[at.item]
  BY DEF EnterMember
<1>2. UNCHANGED <<word, at, next, extracted, refused, outcome, leaves, base, enc, status>>
  BY DEF EnterMember, treeVars
<1>3. Matches(word, Members[at.item][next])
  BY <1>1, LeafFacts, GuardExact DEF EnterMember, Candidate, DecoderInv
<1>4. u' = Fresh(base[Candidate])
  <2>1. extracted => next = 1 /\ u = Fresh(base[First(at.item)])
    BY <1>1, LeafFacts DEF DecoderInv, RunInv, LeafInv
  <2>. QED  BY <2>1 DEF EnterMember, Candidate, First
<1>5. LeafInv'
  <2>1. extracted /\ next = 1 => u' = Fresh(base[First(at.item)])
    BY <1>4 DEF Candidate, First
  <2>. QED  BY <1>1, <1>2, <2>1 DEF LeafInv, PathTaken, Matches, DecoderInv, RunInv, Fresh, First
<1>6. TransInv'
  BY <1>1, <1>2, <1>3, <1>4 DEF TransInv, Candidate, Matches, Fresh
<1>. QED  BY <1>1, <1>2, <1>5, <1>6, LeafFacts DEF RunInv, SwitchInv

(* A refusal goes on with what is known kept.                              *)
LEMMA RefuseStep ==
  ASSUME Inv, UNCHANGED <<treeVars, base>>, TransRefuses
  PROVE  RunInv'
<1>. USE DEF Inv
<1>1. stage = "trans" /\ stage' = "member" /\ next' = next + 1 /\ refused' = refused \cup {Candidate}
  BY DEF TransRefuses
<1>2. UNCHANGED <<word, at, extracted, outcome, leaves, base, enc, status>>
  BY DEF TransRefuses, treeVars
<1>3. next \in DOMAIN Members[at.item]
  BY <1>1 DEF DecoderInv, RunInv, TransInv
<1>4. LeafInv'
  <2>1. next' \in 1 .. Len(Members[at.item]) + 1 /\ 1 .. next' - 1 = (1 .. next - 1) \cup {next} /\ next' # 1
    BY <1>1, <1>3, LeafFacts
  <2>. QED  BY <1>1, <1>2, <2>1 DEF LeafInv, PathTaken, Matches, Candidate, DecoderInv, RunInv
<1>. QED  BY <1>1, <1>2, <1>4, LeafFacts DEF RunInv, SwitchInv, TransInv

(* The function returns: nothing is said of the members any more.          *)
LEMMA ReturnStep ==
  ASSUME Inv, UNCHANGED <<treeVars, base>>, SwitchNoCase \/ TransAccepts \/ LeafExhausted
  PROVE  RunInv'
BY DEF Inv, DecoderInv, RunInv, SwitchInv, LeafInv, TransInv, treeVars,
       SwitchNoCase, TransAccepts, LeafExhausted

(* Every step keeps what the function knows.                               *)
LEMMA RunStep ==
  ASSUME Inv, [Next]_vars
  PROVE  RunInv'
<1>1. CASE Generate \/ UNCHANGED vars
  BY <1>1, GenerateStep DEF Generate, vars, Inv, DecoderInv
<1>2. CASE Run
  BY <1>2, DecodeStep, SwitchStep, SkipStep, EnterStep, RefuseStep, ReturnStep DEF Run, Inv
<1>. QED  BY <1>1, <1>2 DEF Next

-----------------------------------------------------------------------------
(* The state of the function keeps its types; the structure passed on is   *)
(* that of a format.                                                       *)
LEMMA RunTypeStep ==
  ASSUME Inv, [Next]_vars
  PROVE  RunTypeOK'
<1>. USE DEF Inv, RunTypeOK
<1>1. CASE UNCHANGED vars
  BY <1>1 DEF vars, runVars, treeVars
<1>2. CASE Generate
  <2>1. CASE stage = "idle"
    BY <1>2, <2>1 DEF Generate, runVars
  <2>2. CASE stage # "idle"
    BY <1>2, <2>2, GeneratorDone DEF Generate, runVars, treeVars, DecoderInv, RunInv
  <2>. QED  BY <2>1, <2>2
<1>3. CASE Run
  <2>1. UNCHANGED <<nodes, leaves, base>>
    BY <1>3 DEF Run, treeVars
  <2>2. ASSUME NEW w \in SUBSET Bit, Decode(w)
        PROVE  RunTypeOK'
    BY <2>1, <2>2 DEF Decode
  <2>3. ASSUME SwitchToNode \/ SwitchToLeaf
        PROVE  RunTypeOK'
    <3>1. extracted' \in BOOLEAN /\ (u' = None \/ u' \in [format : Format, intact : BOOLEAN])
      <4>1. Hoist(at)
        BY <2>3 DEF SwitchToNode, SwitchToLeaf
      <4>2. CASE UNCHANGED <<extracted, u>>
        BY <4>2
      <4>3. CASE extracted' = TRUE /\ \E f \in NodeFormats(at) : u' = Fresh(f)
        BY <4>3 DEF NodeFormats, Fresh
      <4>. QED  BY <4>1, <4>2, <4>3 DEF Hoist
    <3>. QED  BY <2>1, <2>3, <3>1 DEF SwitchToNode, SwitchToLeaf, DecoderInv, RunInv, SwitchInv
  <2>4. ASSUME SwitchNoCase \/ LeafExhausted
        PROVE  RunTypeOK'
    BY <2>1, <2>4 DEF SwitchNoCase, LeafExhausted
  <2>5. CASE SkipMember
    BY <2>1, <2>5 DEF SkipMember
  <2>6. ASSUME next \in DOMAIN Members[at.item], stage \in {"member", "trans"}
        PROVE  Candidate \in Pattern
    BY <2>6, LeafFacts, MembersFacts DEF Candidate
  <2>7. CASE EnterMember
    BY <2>1, <2>6, <2>7 DEF EnterMember, Fresh
  <2>8. CASE TransAccepts
    BY <2>1, <2>6, <2>8 DEF TransAccepts, DecoderInv, RunInv, TransInv
  <2>9. CASE TransRefuses
    <3>1. Candidate \in Pattern /\ u = Fresh(base[Candidate])
      BY <2>6, <2>9 DEF TransRefuses, DecoderInv, RunInv, TransInv
    <3>2. u' \in [format : Format, intact : BOOLEAN]
      BY <2>9, <3>1 DEF TransRefuses, Fresh
    <3>. QED  BY <2>1, <2>9, <3>1, <3>2 DEF TransRefuses
  <2>. QED  BY <1>3, <2>2, <2>3, <2>4, <2>5, <2>7, <2>8, <2>9 DEF Run
<1>. QED  BY <1>1, <1>2, <1>3 DEF Next

(* Every step keeps types and invariant.                                   *)
LEMMA InvStep ==
  ASSUME Inv, [Next]_vars
  PROVE  Inv'
<1>1. [TreeNext]_treeVars
  BY DEF Next, Generate, Run, vars
<1>. QED  BY <1>1, TreeStep, NodeStep, RunStep, RunTypeStep DEF Inv, DecoderInv

(* Types and invariant hold initially.                                     *)
LEMMA InvInit ==
  ASSUME Init
  PROVE  Inv
<1>1. TypeOK
  BY DEF Init, TreeInit, TypeOK, Common
<1>2. TreeInv
  BY DEF Init, TreeInit, TreeInv, WidenExact, WidenInv, PathInv, PlacedInv, ApartInv, Agreed
<1>3. NodeInv
  BY DEF Init, TreeInit, NodeInv, NodeShape, NodeApart, NodeCases
<1>4. RunInv /\ RunTypeOK
  BY DEF Init, RunInv, RunTypeOK, SwitchInv, LeafInv, TransInv
<1>. QED  BY <1>1, <1>2, <1>3, <1>4 DEF Inv, DecoderInv

(* The tree is complete and the function is on the path of its word, for   *)
(* every file.                                                             *)
THEOREM DecoderInvariant == Spec => []DecoderInv
<1>1. Inv => DecoderInv
  BY DEF Inv
<1>. QED  BY <1>1, InvInit, InvStep, PTL DEF Spec

(* The generated function is only ever at nodes and leaves of its tree.    *)
THEOREM RunTypeCorrect == Spec => []RunTypeOK
<1>1. Inv => RunTypeOK
  BY DEF Inv
<1>. QED  BY <1>1, InvInit, InvStep, PTL DEF Spec

(* No trans_* function is entered with a structure of another format, or   *)
(* with one that a pattern before it has shifted.                          *)
THEOREM ArgumentsFreshAlways == Spec => []ArgumentsFresh
<1>1. DecoderInv => ArgumentsFresh
  BY DEF DecoderInv, RunInv, TransInv, ArgumentsFresh
<1>. QED  BY <1>1, DecoderInvariant, PTL

-----------------------------------------------------------------------------
(* An instruction is offered to a pattern in its turn.                     *)
LEMMA OfferStep ==
  ASSUME Inv, TransAccepts \/ TransRefuses, UNCHANGED <<treeVars, base>>
  PROVE  [Abstract!Offer]_<<word, refused, outcome>>
<1>. DEFINE i == at.item
<1>1. stage = "trans" /\ next \in DOMAIN Members[i] /\ Matches(word, Members[i][next])
  BY DEF TransAccepts, TransRefuses, Inv, DecoderInv, RunInv, TransInv, Candidate
<1>2. i \in Item /\ word # None /\ outcome = None
  BY <1>1, LeafFacts, NoneAssumption
<1>3. Members[i][next] \notin refused
  <2>1. refused \subseteq {Members[i][k] : k \in 1 .. next - 1}
    BY <1>1 DEF Inv, DecoderInv, RunInv, LeafInv
  <2>2. \A k \in 1 .. next - 1 : k \in DOMAIN Members[i] /\ k # next
    BY <1>1, LeafFacts
  <2>. QED  BY <1>1, <1>2, <2>1, <2>2, ListedAssumption
<1>4. Abstract!Turn(i, next)
  BY <1>1 DEF Abstract!Turn, Abstract!Fits, Matches, Inv, DecoderInv, RunInv, LeafInv
<1>5. Abstract!Fits(Members[i][next])
  BY <1>1 DEF Abstract!Fits, Matches
<1>6. /\ UNCHANGED <<enc, word>>
      /\ \/ outcome' = Members[i][next] /\ UNCHANGED refused
         \/ refused' = refused \cup {Members[i][next]} /\ UNCHANGED outcome
  BY DEF TransAccepts, TransRefuses, Candidate, treeVars
<1>. QED  BY <1>1, <1>2, <1>3, <1>4, <1>5, <1>6 DEF Abstract!Offer

(* At a node without a case for the word no pattern matches it: the leaf   *)
(* of one that did would be under the node, in the case of the word.       *)
LEMMA NoCaseStep ==
  ASSUME Inv, SwitchNoCase, UNCHANGED <<treeVars, base>>
  PROVE  Abstract!GiveUp
<1>. USE DEF Inv
<1>1. /\ status = "done" /\ outcome = None /\ word \in SUBSET Bit /\ word # None
      /\ at \in nodes /\ PathTaken(at)
  BY NoneAssumption DEF SwitchNoCase, DecoderInv, RunInv, SwitchInv
<1>2. ASSUME NEW i \in Item, NEW k \in DOMAIN Members[i], Matches(word, Members[i][k])
      PROVE  FALSE
  <2>1. PICK l \in leaves : PathTaken(l)
    BY <1>1, <1>2, LeafOfMatch DEF DecoderInv
  <2>2. ~ Apart(at, l)
    BY <1>1, <2>1 DEF Apart, PathTaken
  <2>3. Below(at, l) /\ at.this \subseteq l.mask
    BY <1>1, <2>1, <2>2 DEF DecoderInv, NodeInv, NodeApart, Places
  <2>4. calls = {}
    BY <1>1 DEF DecoderInv, TreeInv, PlacedInv
  <2>5. PICK y \in leaves \cup (nodes \ {at}) : IsCaseOf(y, at, l)
    BY <1>1, <2>1, <2>3, <2>4 DEF DecoderInv, NodeInv, NodeCases, Places
  <2>6. l.bits \cap at.this = word \cap at.this
    BY <2>1, <2>3 DEF PathTaken
  <2>7. AtCase(at, y)
    BY <2>5, <2>6 DEF AtCase, IsCaseOf, CaseMask, CaseBits
  <2>. QED  BY <2>5, <2>7 DEF SwitchNoCase
<1>3. \A p \in Pattern : ~ Abstract!Fits(p)
  BY <1>2, ListedAssumption DEF Abstract!Fits, Matches
<1>. QED  BY <1>1, <1>3 DEF Abstract!GiveUp, SwitchNoCase, treeVars

(* After the last member of a leaf no pattern is left: the leaf of another *)
(* item is on a path that the word does not take.                          *)
LEMMA ExhaustedStep ==
  ASSUME Inv, LeafExhausted, UNCHANGED <<treeVars, base>>
  PROVE  Abstract!GiveUp
<1>. USE DEF Inv
<1>1. stage = "member" /\ next \notin DOMAIN Members[at.item]
  BY DEF LeafExhausted
<1>2. ASSUME NEW i \in Item, NEW k \in DOMAIN Members[i], Matches(word, Members[i][k])
      PROVE  Members[i][k] \in refused
  <2>1. PICK l \in leaves : l.item = i /\ PathTaken(l)
    BY <1>1, <1>2, LeafFacts, LeafOfMatch DEF DecoderInv
  <2>2. ~ Apart(at, l)
    BY <1>1, <2>1, LeafFacts DEF Apart, PathTaken
  <2>3. at.item = i
    BY <1>1, <2>1, <2>2, LeafFacts DEF DecoderInv, TreeInv, ApartInv
  <2>4. k \in 1 .. next - 1
    BY <1>1, <2>3, LeafFacts
  <2>. QED  BY <1>1, <1>2, <2>3, <2>4 DEF DecoderInv, RunInv, LeafInv
<1>3. \A p \in Pattern : Abstract!Fits(p) => p \in refused
  BY <1>2, ListedAssumption DEF Abstract!Fits, Matches
<1>. QED  BY <1>1, <1>3, LeafFacts, NoneAssumption DEF Abstract!GiveUp, LeafExhausted, treeVars

(* Every step of the generator and of the function is a step of the        *)
(* abstract decoder or invisible to it.                                    *)
LEMMA RefinementStep ==
  ASSUME Inv, [Next]_vars
  PROVE  [Abstract!Fetch \/ Abstract!Decide]_<<word, refused, outcome>>
<1>1. CASE Generate \/ UNCHANGED vars
  BY <1>1 DEF Generate, vars, runVars
<1>2. ASSUME UNCHANGED <<treeVars, base>>, NEW w \in SUBSET Bit, Decode(w)
      PROVE  Abstract!Fetch
  BY <1>2, NoneAssumption DEF Decode, Abstract!Fetch, treeVars, Inv, DecoderInv, RunInv
<1>3. ASSUME SwitchToNode \/ SwitchToLeaf \/ SkipMember \/ EnterMember
      PROVE  UNCHANGED <<word, refused, outcome>>
  BY <1>3 DEF SwitchToNode, SwitchToLeaf, SkipMember, EnterMember
<1>4. CASE Run
  BY <1>2, <1>3, <1>4, OfferStep, NoCaseStep, ExhaustedStep DEF Run, Abstract!Decide
<1>. QED  BY <1>1, <1>4 DEF Next

(* The safety part of the refinement: whatever tree was made for a file,   *)
(* the function takes words, offers them and gives up only as DecodeSpec   *)
(* allows.                                                                 *)
THEOREM ImplementsSafety == Spec => Abstract!Safety
<1>1. Init => Abstract!SpecInit
  BY DEF Init, Abstract!SpecInit
<1>. QED  BY <1>1, InvInit, InvStep, RefinementStep, PTL DEF Spec, Abstract!Safety, Abstract!decided
=============================================================================
