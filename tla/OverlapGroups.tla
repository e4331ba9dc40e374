---------------------------- MODULE OverlapGroups ----------------------------
(***************************************************************************)
(* yaml-to-cpp.py, the part of the decode output that looks for            *)
(* instructions of one width whose fixed bits overlap and replaces them in *)
(* the list of instructions by the sets it makes of them.  Each set is     *)
(* written as a braced group of the .decode file, each instruction that is *)
(* left as a line of its own.                                              *)
(*                                                                         *)
(* Instructions are numbered 1 .. N in the order of the list (the sorted   *)
(* file names).  A match string is the set of its 0/1 positions and of its *)
(* 1 positions.  Python iterates over a set in an order of its own, so the *)
(* elements of a set are removed in any order.                             *)
(***************************************************************************)
EXTENDS Naturals, Sequences

CONSTANTS
  Bit,  \* the positions of a match string
  N     \* the number of instructions of this width

ASSUME NAssumption == N \in Nat

Name == 1 .. N

VARIABLES
  match,        \* the match string of every instruction
  i0, i1,       \* the pair compared next
  overlapping,  \* the list of sets built so far
  list,         \* instruction_sizes[size]: the instructions still listed
  grouped,      \* the sets appended to instruction_sizes[size]
  left,         \* elements of the current set not removed from the list yet
  status        \* "compare", "remove", "done" or "crashed"

vars == <<match, i0, i1, overlapping, list, grouped, left, status>>

Encoding == {e \in [mask : SUBSET Bit, bits : SUBSET Bit] : e.bits \subseteq e.mask}

(* No position has a 0 in one string and a 1 in the other. *)
Overlap(m, n) ==
  match[m].bits \cap match[n].mask = match[n].bits \cap match[m].mask

Init ==
  /\ match \in [Name -> Encoding]
  /\ i0 = 1
  /\ i1 = 2
  /\ overlapping = <<>>
  /\ list = Name
  /\ grouped = {}
  /\ left = {}
  /\ status = "compare"

-----------------------------------------------------------------------------
(* The two nested loops over pairs i0 < i1.                                *)

(* Seeded fault: the set gets the positions of the two, counted from 0. *)
InsertFromZero(m, n) == overlapping' = Append(overlapping, {m - 1, n - 1})

(* Seeded fault: a set that has one of the two only gets the second. *)
InsertSecond(m, n) ==
  \/ \E k \in DOMAIN overlapping :
       /\ {m, n} \cap overlapping[k] # {}
       /\ \A j \in 1 .. (k - 1) : {m, n} \cap overlapping[j] = {}
       /\ overlapping' = [overlapping EXCEPT ![k] = @ \cup {n}]
  \/ /\ \A k \in DOMAIN overlapping : {m, n} \cap overlapping[k] = {}
     /\ overlapping' = Append(overlapping, {m, n})

(* The first set of the list that has one of the two gets the other one;   *)
(* without such a set the pair makes a new one.                            *)
Insert(m, n) ==
  \/ \E k \in DOMAIN overlapping :
       /\ {m, n} \cap overlapping[k] # {}
       /\ \A j \in 1 .. (k - 1) : {m, n} \cap overlapping[j] = {}
       /\ overlapping' = [overlapping EXCEPT ![k] = @ \cup {m, n}]
  \/ /\ \A k \in DOMAIN overlapping : {m, n} \cap overlapping[k] = {}
     /\ overlapping' = Append(overlapping, {m, n})

(* Seeded fault: the inner loop starts one too late. *)
AdvanceTooFar ==
  IF i1 < N
  THEN i1' = i1 + 1 /\ i0' = i0
  ELSE i0' = i0 + 1 /\ i1' = i0 + 3

AdvancePair ==
  IF i1 < N
  THEN i1' = i1 + 1 /\ i0' = i0
  ELSE i0' = i0 + 1 /\ i1' = i0 + 2

ComparePair ==
  /\ status = "compare"
  /\ i1 <= N
  /\ IF Overlap(i0, i1) THEN Insert(i0, i1) ELSE UNCHANGED overlapping
  /\ AdvancePair
  /\ UNCHANGED <<match, list, grouped, left, status>>

(* The loops are over; i0 = N has no partner. *)
EndCompare ==
  /\ status = "compare"
  /\ i1 > N
  /\ status' = "remove"
  /\ UNCHANGED <<match, i0, i1, overlapping, list, grouped, left>>

-----------------------------------------------------------------------------
(* for o in overlapping: remove its elements from the list, append the set *)

(* overlapping is consumed from its head; left holds what the inner loop   *)
(* has still to remove from the list.                                      *)
StartSet ==
  /\ status = "remove"
  /\ left = {}
  /\ overlapping # <<>>
  /\ left' = Head(overlapping)
  /\ UNCHANGED <<match, i0, i1, overlapping, list, grouped, status>>

(* Seeded fault: the elements of a set stay in the list. *)
KeepElement ==
  /\ status = "remove"
  /\ \E e \in left :
       /\ left' = left \ {e}
       /\ IF left = {e}
          THEN /\ grouped' = grouped \cup {Head(overlapping)}
               /\ overlapping' = Tail(overlapping)
          ELSE UNCHANGED <<grouped, overlapping>>
  /\ UNCHANGED <<match, i0, i1, list, status>>

RemoveElement ==
  /\ status = "remove"
  /\ \E e \in left :
       /\ e \in list
       /\ list' = list \ {e}
       /\ left' = left \ {e}
       /\ IF left = {e}
          THEN /\ grouped' = grouped \cup {Head(overlapping)}
               /\ overlapping' = Tail(overlapping)
          ELSE UNCHANGED <<grouped, overlapping>>
  /\ UNCHANGED <<match, i0, i1, status>>

(* list.remove(x): x not in list *)
RemoveMissing ==
  /\ status = "remove"
  /\ \E e \in left : e \notin list
  /\ status' = "crashed"
  /\ UNCHANGED <<match, i0, i1, overlapping, list, grouped, left>>

EndRemove ==
  /\ status = "remove"
  /\ left = {}
  /\ overlapping = <<>>
  /\ status' = "done"
  /\ UNCHANGED <<match, i0, i1, overlapping, list, grouped, left>>

-----------------------------------------------------------------------------
Next ==
  \/ ComparePair \/ EndCompare
  \/ StartSet \/ RemoveElement \/ RemoveMissing \/ EndRemove

(* One sequential script. *)
Spec == Init /\ [][Next]_vars /\ WF_vars(Next)

-----------------------------------------------------------------------------
(* Type invariant. *)
TypeOK ==
  /\ match \in [Name -> Encoding]
  /\ i0 \in Nat /\ i1 \in Nat
  /\ overlapping \in Seq(SUBSET Name)
  /\ list \in SUBSET Name
  /\ grouped \in SUBSET SUBSET Name
  /\ left \in SUBSET Name
  /\ status \in {"compare", "remove", "done", "crashed"}

Sets == grouped \cup {overlapping[k] : k \in DOMAIN overlapping}

(* The pairs the loops have been through. *)
Seen(m, n) == m < n /\ (m < i0 \/ (m = i0 /\ n < i1))

(* An overlapping pair that was compared is together in one set from then  *)
(* on: later insertions and the removal phase never part it.               *)
PairsTogether ==
  \A m, n \in Name : Seen(m, n) /\ Overlap(m, n) => \E s \in Sets : {m, n} \subseteq s

(* Nothing is put in a group without reason: each element of a set         *)
(* overlaps another element of that set.                                   *)
NoStrangers ==
  \A s \in Sets : \A m \in s : \E n \in s \ {m} : Overlap(m, n)

(* The loops have seen every pair when they end. *)
LoopInv ==
  /\ 0 < i0 /\ i0 < i1
  /\ i1 = i0 + 1 \/ i1 <= N
  /\ status # "compare" => N <= i0

(* The list lacks exactly what was removed from it: the elements of the    *)
(* sets appended so far, which have no common element, and those of the    *)
(* current set that had their turn.                                        *)
Removed == (UNION grouped) \cup (IF left = {} THEN {} ELSE Head(overlapping) \ left)

ListInv ==
  /\ list = Name \ Removed
  /\ \A s, t \in grouped : s # t => s \cap t = {}
  /\ \A s \in Sets : s # {}
  /\ left # {} => /\ overlapping # <<>>
                  /\ left \subseteq Head(overlapping)
                  /\ (Head(overlapping) \ left) \cap (UNION grouped) = {}
  /\ status = "compare" => grouped = {} /\ left = {}
  /\ status = "done" => overlapping = <<>> /\ left = {}

GroupInv == LoopInv /\ ListInv /\ PairsTogether /\ NoStrangers

(* What a finished script hands on: every instruction is listed or in one  *)
(* group, never in both and never in two, so it will be written once.      *)
WrittenOnce ==
  status = "done" =>
    \A m \in Name : \/ m \in list /\ \A s \in grouped : m \notin s
                    \/ m \notin list /\ \E s \in grouped : m \in s /\ \A t \in grouped : m \in t => t = s

(* What decodetree relies on: two entries outside braces, or of different  *)
(* braces, have no word in common.                                         *)
EntriesDisjoint ==
  status = "done" =>
    \A m, n \in Name : m # n /\ Overlap(m, n) =>
      \E s \in grouped : {m, n} \subseteq s

(* The overlapping instructions that the script looks for can always be    *)
(* taken off the list when their set is appended to it.                    *)
OverlapsRemovable == status # "crashed"
=============================================================================
