------------------------ MODULE OverlapGroupsProofs ------------------------
(***************************************************************************)
(* Proofs about OverlapGroups for every number of instructions and every   *)
(* width.  Sets of instructions only grow, so a pair put together stays    *)
(* together (PairsTogether); the loops go through every pair (LoopInv);    *)
(* the removal phase does not take an instruction off the list twice       *)
(* (ListInv).  Together they say that a script that finishes writes every  *)
(* instruction once and leaves no overlap outside a group.                 *)
(***************************************************************************)
EXTENDS OverlapGroups, TLAPS

(* The pair compared is a pair of instructions; the loops end after the    *)
(* last one.                                                               *)
LEMMA LoopStep ==
  ASSUME TypeOK, LoopInv, [Next]_vars
  PROVE  LoopInv'
<1>. USE NAssumption DEF TypeOK, LoopInv
<1>1. CASE ComparePair
  BY <1>1 DEF ComparePair, AdvancePair
<1>2. CASE EndCompare
  BY <1>2 DEF EndCompare
<1>3. CASE StartSet \/ RemoveElement \/ RemoveMissing \/ EndRemove \/ UNCHANGED vars
  BY <1>3 DEF StartSet, RemoveElement, RemoveMissing, EndRemove, vars
<1>. QED  BY <1>1, <1>2, <1>3 DEF Next

(* What Insert does to the list of sets: one set gets both instructions,   *)
(* and keeps what it had if it is not new.                                 *)
LEMMA InsertFacts ==
  ASSUME TypeOK, NEW m \in Name, NEW n \in Name, Insert(m, n)
  PROVE  /\ overlapping' \in Seq(SUBSET Name)
         /\ \E k \in DOMAIN overlapping' :
              /\ {m, n} \subseteq overlapping'[k]
              /\ \/ k \notin DOMAIN overlapping /\ overlapping'[k] = {m, n}
                 \/ /\ k \in DOMAIN overlapping
                    /\ overlapping'[k] = overlapping[k] \cup {m, n}
                    /\ {m, n} \cap overlapping[k] # {}
              /\ \A j \in DOMAIN overlapping' \ {k} :
                    j \in DOMAIN overlapping /\ overlapping'[j] = overlapping[j]
         /\ DOMAIN overlapping \subseteq DOMAIN overlapping'
<1>. USE DEF TypeOK
<1>1. ASSUME NEW k \in DOMAIN overlapping,
             {m, n} \cap overlapping[k] # {},
             overlapping' = [overlapping EXCEPT ![k] = @ \cup {m, n}]
      PROVE  /\ overlapping' \in Seq(SUBSET Name)
             /\ DOMAIN overlapping' = DOMAIN overlapping
             /\ overlapping'[k] = overlapping[k] \cup {m, n}
             /\ \A j \in DOMAIN overlapping' \ {k} : overlapping'[j] = overlapping[j]
  BY <1>1
<1>2. ASSUME overlapping' = Append(overlapping, {m, n})
      PROVE  LET k == Len(overlapping) + 1
             IN  /\ overlapping' \in Seq(SUBSET Name)
                 /\ DOMAIN overlapping' = DOMAIN overlapping \cup {k}
                 /\ k \notin DOMAIN overlapping
                 /\ overlapping'[k] = {m, n}
                 /\ \A j \in DOMAIN overlapping : overlapping'[j] = overlapping[j]
  BY <1>2
<1>3. CASE overlapping' = Append(overlapping, {m, n})
  BY <1>2, <1>3
<1>4. CASE \E k \in DOMAIN overlapping :
             /\ {m, n} \cap overlapping[k] # {}
             /\ overlapping' = [overlapping EXCEPT ![k] = @ \cup {m, n}]
  BY <1>1, <1>4
<1>. QED  BY <1>3, <1>4 DEF Insert

(* The pair of an iteration of the loops. *)
LEMMA PairFacts ==
  ASSUME TypeOK, LoopInv, ComparePair
  PROVE  i0 \in Name /\ i1 \in Name /\ i0 < i1
BY NAssumption DEF TypeOK, LoopInv, ComparePair, Name

(* Taking the head off the list of sets. *)
LEMMA HeadFacts ==
  ASSUME TypeOK, overlapping # <<>>
  PROVE  /\ Head(overlapping) \in SUBSET Name
         /\ Tail(overlapping) \in Seq(SUBSET Name)
         /\ {overlapping[k] : k \in DOMAIN overlapping} =
              {Head(overlapping)} \cup {Tail(overlapping)[k] : k \in DOMAIN Tail(overlapping)}
<1>. DEFINE s == overlapping
<1>1. /\ s \in Seq(SUBSET Name) /\ Len(s) \in Nat /\ Len(s) > 0
      /\ DOMAIN s = 1 .. Len(s) /\ Head(s) = s[1]
      /\ Tail(s) \in Seq(SUBSET Name) /\ DOMAIN Tail(s) = 1 .. (Len(s) - 1)
      /\ \A k \in 1 .. (Len(s) - 1) : Tail(s)[k] = s[k + 1]
  BY DEF TypeOK
<1>2. \A k \in DOMAIN s : k = 1 \/ (k - 1 \in DOMAIN Tail(s) /\ s[k] = Tail(s)[k - 1])
  BY <1>1
<1>3. \A k \in DOMAIN Tail(s) : k + 1 \in DOMAIN s /\ Tail(s)[k] = s[k + 1]
  BY <1>1
<1>4. ASSUME NEW x
      PROVE  x \in {s[k] : k \in DOMAIN s} <=>
               x \in {Head(s)} \cup {Tail(s)[k] : k \in DOMAIN Tail(s)}
  <2>1. ASSUME NEW k \in DOMAIN s, x = s[k]
        PROVE  x = Head(s) \/ \E j \in DOMAIN Tail(s) : x = Tail(s)[j]
    BY <1>1, <1>2, <2>1
  <2>2. ASSUME NEW k \in DOMAIN Tail(s), x = Tail(s)[k]
        PROVE  \E j \in DOMAIN s : x = s[j]
    BY <1>3, <2>2
  <2>3. x = Head(s) => \E j \in DOMAIN s : x = s[j]
    BY <1>1
  <2>. QED  BY <2>1, <2>2, <2>3
<1>5. {s[k] : k \in DOMAIN s} = {Head(s)} \cup {Tail(s)[k] : k \in DOMAIN Tail(s)}
  BY <1>4
<1>6. Head(s) \in SUBSET Name
  BY <1>1
<1>. QED  BY <1>1, <1>5, <1>6

(* Every step keeps the types; the current set is there to be removed.     *)
LEMMA TypeStep ==
  ASSUME TypeOK, LoopInv, ListInv, [Next]_vars
  PROVE  TypeOK'
<1>. USE NAssumption
<1>1. CASE ComparePair
  <2>1. i0' \in Nat /\ i1' \in Nat
    BY <1>1 DEF ComparePair, AdvancePair, TypeOK
  <2>2. overlapping' \in Seq(SUBSET Name)
    BY <1>1, PairFacts, InsertFacts DEF ComparePair, TypeOK
  <2>. QED  BY <1>1, <2>1, <2>2 DEF ComparePair, TypeOK
<1>2. CASE EndCompare
  BY <1>2 DEF EndCompare, TypeOK
<1>3. CASE StartSet
  BY <1>3, HeadFacts DEF StartSet, TypeOK
<1>4. CASE RemoveElement
  BY <1>4, HeadFacts DEF RemoveElement, TypeOK, ListInv
<1>5. CASE RemoveMissing
  BY <1>5 DEF RemoveMissing, TypeOK
<1>6. CASE EndRemove
  BY <1>6 DEF EndRemove, TypeOK
<1>7. CASE UNCHANGED vars
  BY <1>7 DEF vars, TypeOK
<1>. QED  BY <1>1, <1>2, <1>3, <1>4, <1>5, <1>6, <1>7 DEF Next

-----------------------------------------------------------------------------
(* How a step changes the sets: an overlapping pair widens one of them or  *)
(* makes a new one, and taking a set off the list only moves it.           *)
LEMMA SetsStep ==
  ASSUME TypeOK, LoopInv, ListInv, [Next]_vars
  PROVE  \/ Sets' = Sets
         \/ /\ ComparePair
            /\ Overlap(i0, i1)
            /\ grouped' = grouped
            /\ \E t \in Sets' :
                 /\ {i0, i1} \subseteq t
                 /\ \/ t = {i0, i1}
                    \/ \E s \in Sets : t = s \cup {i0, i1} /\ {i0, i1} \cap s # {}
                 /\ \A r \in Sets' : r = t \/ r \in Sets
            /\ \A s \in Sets : \E t \in Sets' : s \subseteq t
<1>1. CASE ComparePair /\ Overlap(i0, i1)
  <2>1. PICK k \in DOMAIN overlapping' :
              /\ {i0, i1} \subseteq overlapping'[k]
              /\ \/ k \notin DOMAIN overlapping /\ overlapping'[k] = {i0, i1}
                 \/ /\ k \in DOMAIN overlapping
                    /\ overlapping'[k] = overlapping[k] \cup {i0, i1}
                    /\ {i0, i1} \cap overlapping[k] # {}
              /\ \A j \in DOMAIN overlapping' \ {k} :
                    j \in DOMAIN overlapping /\ overlapping'[j] = overlapping[j]
    BY <1>1, PairFacts, InsertFacts DEF ComparePair
  <2>2. DOMAIN overlapping \subseteq DOMAIN overlapping'
    BY <1>1, PairFacts, InsertFacts DEF ComparePair
  <2>3. grouped' = grouped
    BY <1>1 DEF ComparePair
  <2>. DEFINE t == overlapping'[k]
  <2>4. t \in Sets'
    BY DEF Sets
  <2>5. \A j \in DOMAIN overlapping : overlapping[j] \in Sets
    BY DEF Sets
  <2>6. \A r \in Sets' : r = t \/ r \in Sets
    BY <2>1, <2>3, <2>5 DEF Sets
  <2>7. t = {i0, i1} \/ \E s \in Sets : t = s \cup {i0, i1} /\ {i0, i1} \cap s # {}
    BY <2>1, <2>5
  <2>8. ASSUME NEW s \in Sets
        PROVE  \E r \in Sets' : s \subseteq r
    <3>1. CASE s \in grouped
      BY <2>3, <3>1 DEF Sets
    <3>2. ASSUME NEW j \in DOMAIN overlapping, s = overlapping[j]
          PROVE  \E r \in Sets' : s \subseteq r
      <4>1. overlapping'[j] \in Sets'
        BY <2>2 DEF Sets
      <4>2. s \subseteq overlapping'[j]
        BY <2>1, <2>2, <3>2
      <4>. QED  BY <4>1, <4>2
    <3>. QED  BY <3>1, <3>2 DEF Sets
  <2>. QED  BY <1>1, <2>1, <2>3, <2>4, <2>6, <2>7, <2>8
<1>2. CASE UNCHANGED <<overlapping, grouped>>
  BY <1>2 DEF Sets
<1>3. CASE RemoveElement
  <2>1. CASE UNCHANGED <<overlapping, grouped>>
    BY <2>1 DEF Sets
  <2>2. CASE grouped' = grouped \cup {Head(overlapping)} /\ overlapping' = Tail(overlapping)
    <3>1. overlapping # <<>>
      BY <1>3 DEF RemoveElement, ListInv
    <3>2. {overlapping[k] : k \in DOMAIN overlapping} =
              {Head(overlapping)} \cup {overlapping'[k] : k \in DOMAIN overlapping'}
      BY <2>2, <3>1, HeadFacts
    <3>. QED  BY <2>2, <3>2 DEF Sets
  <2>. QED  BY <1>3, <2>1, <2>2 DEF RemoveElement
<1>. QED
  BY <1>1, <1>2, <1>3 DEF Next, vars, ComparePair, EndCompare, StartSet, RemoveMissing, EndRemove

(* The match strings never change, so neither does what overlaps.          *)
LEMMA OverlapStable ==
  ASSUME [Next]_vars
  PROVE  \A m, n : Overlap(m, n)' = Overlap(m, n)
<1>1. match' = match
  BY DEF Next, vars, ComparePair, EndCompare, StartSet, RemoveElement, RemoveMissing, EndRemove
<1>. QED  BY <1>1 DEF Overlap

(* A compared pair stays together. *)
LEMMA TogetherStep ==
  ASSUME TypeOK, LoopInv, ListInv, PairsTogether, [Next]_vars
  PROVE  PairsTogether'
<1>. SUFFICES ASSUME NEW m \in Name, NEW n \in Name, Seen(m, n)', Overlap(m, n)
              PROVE  \E s \in Sets' : {m, n} \subseteq s
  BY OverlapStable DEF PairsTogether
<1>1. CASE Seen(m, n)
  <2>1. PICK s \in Sets : {m, n} \subseteq s
    BY <1>1 DEF PairsTogether
  <2>2. \E t \in Sets' : s \subseteq t
    BY SetsStep
  <2>. QED  BY <2>1, <2>2
<1>2. CASE ~ Seen(m, n)
  <2>1. ComparePair
    BY <1>2 DEF Next, vars, Seen, EndCompare, StartSet, RemoveElement, RemoveMissing, EndRemove
  <2>2. m = i0 /\ n = i1
    BY <1>2, <2>1, NAssumption DEF ComparePair, AdvancePair, Seen, Name, TypeOK, LoopInv
  <2>3. PICK k \in DOMAIN overlapping' : {m, n} \subseteq overlapping'[k]
    BY <2>1, <2>2, PairFacts, InsertFacts DEF ComparePair
  <2>. QED  BY <2>3 DEF Sets
<1>. QED  BY <1>1, <1>2

(* A set that is made or widened has only instructions that overlap.       *)
LEMMA StrangersStep ==
  ASSUME TypeOK, LoopInv, ListInv, NoStrangers, [Next]_vars
  PROVE  NoStrangers'
<1>. SUFFICES ASSUME NEW r \in Sets', NEW m \in r
              PROVE  \E n \in r \ {m} : Overlap(m, n)
  BY OverlapStable DEF NoStrangers
<1>1. CASE r \in Sets
  BY <1>1 DEF NoStrangers
<1>2. CASE r \notin Sets
  <2>1. /\ ComparePair /\ Overlap(i0, i1)
        /\ \/ r = {i0, i1}
           \/ \E s \in Sets : r = s \cup {i0, i1}
    BY <1>2, SetsStep
  <2>2. i0 # i1 /\ Overlap(i1, i0)
    BY <2>1, PairFacts DEF Overlap, Name
  <2>3. CASE m \in {i0, i1}
    BY <2>1, <2>2, <2>3
  <2>4. ASSUME NEW s \in Sets, r = s \cup {i0, i1}, m \in s
        PROVE  \E n \in r \ {m} : Overlap(m, n)
    BY <2>4 DEF NoStrangers
  <2>. QED  BY <2>1, <2>3, <2>4
<1>. QED  BY <1>1, <1>2

(* The removal phase keeps the account of what left the list. *)
LEMMA ListStep ==
  ASSUME TypeOK, LoopInv, ListInv, [Next]_vars
  PROVE  ListInv'
<1>1. CASE ComparePair
  <2>1. UNCHANGED <<list, grouped, left, status>> /\ left = {} /\ status = "compare"
    BY <1>1 DEF ComparePair, ListInv
  <2>2. \A s \in Sets' : s # {}
    BY SetsStep DEF ListInv
  <2>. QED  BY <2>1, <2>2 DEF ListInv, Removed
<1>2. CASE EndCompare
  BY <1>2 DEF EndCompare, ListInv, Removed, Sets
<1>3. CASE StartSet
  <2>1. /\ left = {} /\ left' = Head(overlapping) /\ status' = "remove" /\ overlapping # <<>>
        /\ UNCHANGED <<overlapping, list, grouped>>
    BY <1>3 DEF StartSet
  <2>2. Removed' = Removed
    BY <2>1 DEF Removed
  <2>3. \A s \in Sets' : s # {}
    BY <2>1 DEF Sets, ListInv
  <2>. QED  BY <2>1, <2>2, <2>3 DEF ListInv
<1>4. CASE RemoveElement
  <2>1. PICK e \in left : /\ e \in list
                          /\ list' = list \ {e}
                          /\ left' = left \ {e}
                          /\ IF left = {e}
                             THEN /\ grouped' = grouped \cup {Head(overlapping)}
                                  /\ overlapping' = Tail(overlapping)
                             ELSE UNCHANGED <<grouped, overlapping>>
    BY <1>4 DEF RemoveElement
  <2>. DEFINE H == Head(overlapping)
  <2>2. /\ overlapping # <<>> /\ left \subseteq H /\ (H \ left) \cap (UNION grouped) = {}
        /\ list = Name \ ((UNION grouped) \cup (H \ left))
        /\ e \in Name /\ e \notin UNION grouped
        /\ status' = "remove"
    BY <1>4, <2>1 DEF ListInv, Removed, RemoveElement, TypeOK
  <2>3. Sets' = Sets
    BY SetsStep, <1>4 DEF ComparePair, RemoveElement
  <2>. HIDE DEF H
  <2>4. CASE left = {e}
    <3>1. grouped' = grouped \cup {H} /\ left' = {} /\ H \cap (UNION grouped) = {}
      BY <2>1, <2>2, <2>4 DEF H
    <3>2. UNION grouped' = (UNION grouped) \cup H
      BY <3>1
    <3>3. list' = Name \ UNION grouped'
      BY <2>1, <2>2, <2>4, <3>2
    <3>4. \A s, t \in grouped' : s # t => s \cap t = {}
      BY <3>1 DEF ListInv
    <3>. QED  BY <2>2, <2>3, <3>1, <3>3, <3>4 DEF ListInv, Removed
  <2>5. CASE left # {e}
    <3>1. grouped' = grouped /\ overlapping' = overlapping /\ left' # {}
      BY <2>1, <2>5
    <3>2. Head(overlapping') = H /\ left' = left \ {e}
      BY <2>1, <3>1 DEF H
    <3>3. list' = Name \ ((UNION grouped) \cup (H \ left'))
      BY <2>1, <2>2, <3>2
    <3>4. (H \ left') \cap (UNION grouped) = {}
      BY <2>2, <3>2
    <3>. QED  BY <2>2, <2>3, <3>1, <3>2, <3>3, <3>4 DEF ListInv, Removed
  <2>. QED  BY <2>4, <2>5
<1>5. CASE RemoveMissing
  BY <1>5 DEF RemoveMissing, ListInv, Removed, Sets
<1>6. CASE EndRemove
  BY <1>6 DEF EndRemove, ListInv, Removed, Sets
<1>7. CASE UNCHANGED vars
  BY <1>7 DEF vars, ListInv, Removed, Sets
<1>. QED  BY <1>1, <1>2, <1>3, <1>4, <1>5, <1>6, <1>7 DEF Next

-----------------------------------------------------------------------------
(* The types and the account of the sets hold throughout. *)
THEOREM GroupInvariant == Spec => [](TypeOK /\ GroupInv)
<1>1. Init => TypeOK /\ GroupInv
  <2>. SUFFICES ASSUME Init PROVE TypeOK /\ GroupInv
    OBVIOUS
  <2>1. TypeOK /\ LoopInv
    BY NAssumption DEF Init, TypeOK, LoopInv, Name
  <2>2. Sets = {}
    BY DEF Init, Sets
  <2>3. ListInv /\ NoStrangers
    BY <2>2 DEF Init, ListInv, Removed, NoStrangers
  <2>4. \A m, n \in Name : ~ Seen(m, n)
    BY NAssumption DEF Init, Seen, Name
  <2>. QED  BY <2>1, <2>3, <2>4 DEF GroupInv, PairsTogether
<1>2. TypeOK /\ GroupInv /\ [Next]_vars => TypeOK' /\ GroupInv'
  BY TypeStep, LoopStep, ListStep, TogetherStep, StrangersStep DEF GroupInv
<1>. QED  BY <1>1, <1>2, PTL DEF Spec

(* Whatever the instructions and their overlaps, the list and the sets of   *)
(* the script hold names of instructions only.                              *)
THEOREM TypeCorrect == Spec => []TypeOK
<1>. QED  BY GroupInvariant, PTL

(* A finished script writes every instruction exactly once. *)
THEOREM WrittenOnceAlways == Spec => []WrittenOnce
<1>1. TypeOK /\ GroupInv => WrittenOnce
  <2>. SUFFICES ASSUME TypeOK, GroupInv, status = "done", NEW m \in Name
                PROVE  \/ m \in list /\ \A s \in grouped : m \notin s
                       \/ /\ m \notin list
                          /\ \E s \in grouped : m \in s /\ \A t \in grouped : m \in t => t = s
    BY DEF WrittenOnce
  <2>1. list = Name \ UNION grouped
    BY DEF GroupInv, ListInv, Removed
  <2>2. \A s, t \in grouped : s # t => s \cap t = {}
    BY DEF GroupInv, ListInv
  <2>. QED  BY <2>1, <2>2
<1>. QED  BY <1>1, GroupInvariant, PTL

(* A finished script leaves no two entries of the .decode file, a braced   *)
(* group counting as one, whose match strings overlap.                     *)
THEOREM EntriesDisjointAlways == Spec => []EntriesDisjoint
<1>1. TypeOK /\ GroupInv => EntriesDisjoint
  <2>. SUFFICES ASSUME TypeOK, GroupInv, status = "done",
                       NEW m \in Name, NEW n \in Name, m # n, Overlap(m, n)
                PROVE  \E s \in grouped : {m, n} \subseteq s
    BY DEF EntriesDisjoint
  <2>1. Sets = grouped
    BY DEF GroupInv, ListInv, Sets
  <2>2. Overlap(n, m)
    BY DEF Overlap
  <2>3. Seen(m, n) \/ Seen(n, m)
    BY NAssumption DEF GroupInv, LoopInv, TypeOK, Seen, Name
  <2>. QED  BY <2>1, <2>2, <2>3 DEF GroupInv, PairsTogether
<1>. QED  BY <1>1, GroupInvariant, PTL
=============================================================================
