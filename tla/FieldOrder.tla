------------------------------ MODULE FieldOrder ------------------------------
(***************************************************************************)
(* The assignments that decodetree-disas.py writes for one pattern and its *)
(* format: a field may be cut out of a field named before, so their order  *)
(* matters. General.dangling_references, output_fields, TopologicalSorter, *)
(* and output_code of Pattern and of Tree where they decide on the order.  *)
(*                                                                         *)
(* A set of fields is a function from a name to the names it refers to.    *)
(***************************************************************************)
EXTENDS Integers, FiniteSets

VARIABLES
  fmt,      \* the fields of the format
  flds,     \* the fields of the pattern
  hoisted,  \* `extracted': a node above has extracted the format
  writing,  \* "none", "pattern", "format", then "done", or "error"
  data,     \* of the sorter: the items not yet ordered and their dependencies
  written,  \* the fields assigned so far
  stale     \* fields that were read before they were assigned

orderVars == <<fmt, flds, hoisted, writing, data, written, stale>>

NoFields == [n \in {} |-> {}]

OrderInit ==
  /\ fmt = NoFields /\ flds = NoFields
  /\ hoisted = FALSE
  /\ writing = "none"
  /\ data = NoFields
  /\ written = {} /\ stale = {}

Referenced(fields) == UNION {fields[n] : n \in DOMAIN fields}
Dangling(fields) == Referenced(fields) \ DOMAIN fields

(* Seeded fault: a format is extracted above whatever it refers to. *)
CanHoistAny(fields) == TRUE

(* Tree.output_code *)
CanHoist(fields) == Dangling(fields) = {}

(* The graph of output_fields, with the items that are only referred to. *)
Graph(fields) ==
  [n \in DOMAIN fields \cup Referenced(fields) |-> IF n \in DOMAIN fields THEN fields[n] ELSE {}]

(* Seeded fault: the fields of the pattern are always assigned last. *)
PatternNeverFirst(f) == FALSE

PatternFirst(f) == Dangling(f) # {}

(* Pattern.output_code: the references it refuses, then what comes first; *)
(* what a node above has extracted came before both.                      *)
OutputPattern(f, p, h) ==
  /\ writing = "none"
  /\ fmt' = f /\ flds' = p
  /\ hoisted' = (h /\ CanHoist(f))
  /\ LET refused == \/ ~ Dangling(f) \subseteq DOMAIN p
                    \/ ~ Dangling(p) \subseteq DOMAIN f
                    \/ Dangling(f) # {} /\ Dangling(p) # {}
         first   == IF hoisted' \/ ~ PatternFirst(f) THEN "format" ELSE "pattern"
     IN  /\ writing' = IF refused THEN "error" ELSE first
         /\ data' = IF refused THEN NoFields ELSE Graph(IF first = "format" THEN f ELSE p)
  /\ UNCHANGED <<written, stale>>

Current == IF writing = "pattern" THEN flds ELSE fmt
Ready == {n \in DOMAIN data : data[n] = {}}

(* One field of a round of static_order, in any order: a Python set. Items *)
(* of the round stay until it is over; those without a field are skipped.  *)
AssignField ==
  /\ writing \in {"pattern", "format"}
  /\ \E n \in Ready \cap (DOMAIN Current \ written) :
       /\ written' = written \cup {n}
       /\ stale' = stale \cup (Current[n] \ written)
  /\ UNCHANGED <<fmt, flds, hoisted, writing, data>>

NextRound ==
  /\ writing \in {"pattern", "format"}
  /\ Ready # {} /\ Ready \cap DOMAIN Current \subseteq written
  /\ data' = [n \in DOMAIN data \ Ready |-> data[n] \ Ready]
  /\ UNCHANGED <<fmt, flds, hoisted, writing, written, stale>>

(* The script sorts before it writes; what it wrote is removed on an error. *)
Cycle ==
  /\ writing \in {"pattern", "format"}
  /\ Ready = {} /\ DOMAIN data # {}
  /\ writing' = "error"
  /\ UNCHANGED <<fmt, flds, hoisted, data, written, stale>>

First == IF hoisted \/ ~ PatternFirst(fmt) THEN "format" ELSE "pattern"
Other == IF First = "format" THEN "pattern" ELSE "format"

(* The other half: the format after the pattern, or the pattern after it. *)
EndFields ==
  /\ writing \in {"pattern", "format"}
  /\ DOMAIN data = {}
  /\ IF writing = First
     THEN /\ writing' = Other
          /\ data' = Graph(IF Other = "pattern" THEN flds ELSE fmt)
     ELSE writing' = "done" /\ UNCHANGED data
  /\ UNCHANGED <<fmt, flds, hoisted, written, stale>>

OrderNext == AssignField \/ NextRound \/ Cycle \/ EndFields

-----------------------------------------------------------------------------
(* The fields of the half that was written first. *)
Earlier == IF First = "format" THEN fmt ELSE flds

(* While a half is written, what a field of it refers to is written or is  *)
(* still to be ordered before it; what it does not define itself is        *)
(* written, since the other half came first.                               *)
OrderInv ==
  /\ stale = {}
  /\ written \subseteq DOMAIN fmt \cup DOMAIN flds
  /\ writing = "none" => written = {}
  /\ hoisted => CanHoist(fmt)
  /\ writing \in {"pattern", "format"} =>
       /\ Dangling(fmt) \subseteq DOMAIN flds /\ Dangling(flds) \subseteq DOMAIN fmt
       /\ Dangling(Current) \subseteq written
       /\ writing = Other => DOMAIN Earlier \subseteq written
       /\ DOMAIN data \subseteq DOMAIN Current \cup Referenced(Current)
       /\ DOMAIN Current \ DOMAIN data \subseteq written
       /\ \A n \in DOMAIN data \cap DOMAIN Current : Current[n] \subseteq data[n] \cup written
  /\ writing = "done" => DOMAIN fmt \cup DOMAIN flds \subseteq written
=============================================================================
