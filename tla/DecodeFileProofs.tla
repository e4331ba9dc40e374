---------------------------- MODULE DecodeFileProofs ----------------------------
(***************************************************************************)
(* Proofs about DecodeFile: the order of the field assignments for every   *)
(* format and pattern, the nesting of groups for every file, and the load  *)
(* function for every set of patterns and widths.                          *)
(***************************************************************************)
EXTENDS DecodeFile, FiniteSetTheorems, SequenceTheorems, TLAPS

-----------------------------------------------------------------------------
(* A half of the fields is begun when what it needs is written. *)
LEMMA HalfBegins ==
  ASSUME NEW fields, NEW done, Dangling(fields) \subseteq done
  PROVE  /\ DOMAIN Graph(fields) \subseteq DOMAIN fields \cup Referenced(fields)
         /\ DOMAIN fields \ DOMAIN Graph(fields) \subseteq done
         /\ \A n \in DOMAIN Graph(fields) \cap DOMAIN fields : fields[n] \subseteq Graph(fields)[n] \cup done
BY DEF Graph

(* Writing a pattern keeps the order of the fields.                        *)
LEMMA OutputOrder ==
  ASSUME OrderInv, NEW f, NEW p, NEW h, OutputPattern(f, p, h)
  PROVE  OrderInv'
<1>1. /\ writing = "none" /\ fmt' = f /\ flds' = p /\ hoisted' = (h /\ CanHoist(f))
      /\ written' = {} /\ stale' = {}
  BY DEF OutputPattern, OrderInv
<1>. DEFINE refused == \/ ~ Dangling(f) \subseteq DOMAIN p
                       \/ ~ Dangling(p) \subseteq DOMAIN f
                       \/ Dangling(f) # {} /\ Dangling(p) # {}
            first   == IF hoisted' \/ ~ PatternFirst(f) THEN "format" ELSE "pattern"
<1>2. /\ writing' = IF refused THEN "error" ELSE first
      /\ data' = IF refused THEN NoFields ELSE Graph(IF first = "format" THEN f ELSE p)
  BY DEF OutputPattern
<1>3. hoisted' => CanHoist(f)
  BY <1>1
<1>4. CASE refused
  <2>1. writing' = "error"
    BY <1>2, <1>4
  <2>. QED  BY <1>1, <1>3, <2>1 DEF OrderInv, CanHoist, Dangling, Referenced
<1>5. CASE ~ refused
  <2>1. first \in {"format", "pattern"} /\ writing' = first /\ Current' = (IF first = "format" THEN f ELSE p)
    BY <1>1, <1>2, <1>5 DEF Current
  <2>2. Dangling(IF first = "format" THEN f ELSE p) = {}
    BY <1>3, <1>5 DEF PatternFirst, CanHoist
  <2>3. First' = first /\ Other' # first
    BY <1>1 DEF First, Other, PatternFirst, Dangling, Referenced
  <2>. QED  BY <1>1, <1>2, <1>3, <1>5, <2>1, <2>2, <2>3, HalfBegins DEF OrderInv, CanHoist, Dangling, Referenced
<1>. QED  BY <1>4, <1>5

(* Every step of the sorter keeps the order.                               *)
LEMMA OrderSteps ==
  ASSUME OrderInv, OrderNext
  PROVE  OrderInv'
<1>1. CASE AssignField
  <2>1. PICK n \in Ready \cap (DOMAIN Current \ written) :
          written' = written \cup {n} /\ stale' = stale \cup (Current[n] \ written)
    BY <1>1 DEF AssignField
  <2>2. Current[n] \subseteq written
    BY <1>1, <2>1 DEF AssignField, Ready, OrderInv
  <2>3. stale' = {}
    BY <2>1, <2>2 DEF OrderInv
  <2>4. /\ writing \in {"pattern", "format"}
        /\ UNCHANGED <<fmt, flds, hoisted, writing, data>>
    BY <1>1 DEF AssignField
  <2>5. Current' = Current /\ First' = First /\ Other' = Other /\ Earlier' = Earlier
    BY <2>4 DEF Current, First, Other, Earlier
  <2>6. n \in DOMAIN fmt \cup DOMAIN flds
    BY <2>1 DEF Current
  <2>. QED  BY <2>1, <2>3, <2>4, <2>5, <2>6 DEF OrderInv
<1>2. CASE NextRound
  <2>1. /\ writing \in {"pattern", "format"} /\ Ready \cap DOMAIN Current \subseteq written
        /\ data' = [n \in DOMAIN data \ Ready |-> data[n] \ Ready]
        /\ UNCHANGED <<fmt, flds, hoisted, writing, written, stale>>
    BY <1>2 DEF NextRound
  <2>2. Current' = Current /\ First' = First /\ Other' = Other /\ Earlier' = Earlier
    BY <2>1 DEF Current, First, Other, Earlier
  <2>3. Ready \subseteq written \cup (DOMAIN Current)
    BY <2>1 DEF OrderInv, Ready, Dangling
  <2>4. Ready \subseteq written
    BY <2>1, <2>3
  <2>5. \A n \in DOMAIN data' \cap DOMAIN Current : Current[n] \subseteq data'[n] \cup written
    BY <2>1, <2>4 DEF OrderInv
  <2>6. DOMAIN Current \ DOMAIN data' \subseteq written
    BY <2>1, <2>4 DEF OrderInv
  <2>7. DOMAIN data' \subseteq DOMAIN Current \cup Referenced(Current)
    BY <2>1 DEF OrderInv
  <2>. QED  BY <2>1, <2>2, <2>5, <2>6, <2>7 DEF OrderInv
<1>3. CASE Cycle
  BY <1>3 DEF Cycle, OrderInv
<1>4. CASE EndFields
  <2>1. /\ writing \in {"pattern", "format"} /\ DOMAIN data = {}
        /\ UNCHANGED <<fmt, flds, hoisted, written, stale>>
        /\ First' = First /\ Other' = Other /\ Earlier' = Earlier
    BY <1>4 DEF EndFields, First, Other, Earlier
  <2>2. DOMAIN Current \subseteq written
    BY <2>1 DEF OrderInv
  <2>3. First \in {"pattern", "format"} /\ Other \in {"pattern", "format"} /\ First # Other
    BY DEF First, Other
  <2>4. CASE writing = First
    <3>1. writing' = Other /\ data' = Graph(Current')
      BY <1>4, <2>1, <2>3, <2>4 DEF EndFields, Current
    <3>2. Earlier = Current
      BY <2>3, <2>4 DEF Earlier, Current
    <3>3. Dangling(Current') \subseteq DOMAIN Earlier
      BY <2>1, <2>3, <3>1 DEF OrderInv, Current, Earlier, Other
    <3>4. Dangling(Current') \subseteq written
      BY <2>2, <3>2, <3>3
    <3>. HIDE DEF Current, Earlier, First, Other
    <3>. QED  BY <2>1, <2>2, <2>3, <3>1, <3>2, <3>4, HalfBegins DEF OrderInv
  <2>5. CASE writing # First
    <3>1. writing' = "done" /\ writing = Other
      BY <1>4, <2>1, <2>3, <2>5 DEF EndFields
    <3>2. DOMAIN fmt \cup DOMAIN flds \subseteq written
      BY <2>1, <2>2, <2>3, <3>1 DEF OrderInv, Earlier, Current, Other
    <3>. QED  BY <2>1, <3>1, <3>2 DEF OrderInv
  <2>. QED  BY <2>4, <2>5
<1>. QED  BY <1>1, <1>2, <1>3, <1>4 DEF OrderNext

(* Stuttering keeps the order.                                             *)
LEMMA OrderStutter ==
  ASSUME OrderInv, UNCHANGED orderVars
  PROVE  OrderInv'
BY DEF OrderInv, orderVars, Current, First, Other, Earlier, CanHoist, Dangling, Referenced, PatternFirst

(* Every step keeps the order.                                             *)
LEMMA OrderPreserved ==
  ASSUME OrderInv, [Next]_vars
  PROVE  OrderInv'
<1>1. CASE Emit
  <2>1. PICK p \in PatternsIn(1), h \in BOOLEAN : OutputPattern(Def[p].fmt, Def[p].flds, h)
    BY <1>1 DEF Emit
  <2>. QED  BY <2>1, OutputOrder
<1>2. CASE OrderNext
  BY <1>2, OrderSteps
<1>3. CASE Parse \/ BuildTree \/ PropWidth \/ Load
  <2>1. UNCHANGED orderVars
    BY <1>3 DEF Parse, BadIndent, CommentLine, OpenBrace, CloseBrace, BadClose, PatternLine, EndOfFile,
                Error, rest, BuildTree, PropWidth, Load
  <2>. QED  BY <2>1, OrderStutter
<1>4. CASE SizeNext /\ UNCHANGED <<fileVars, orderVars>>
  BY <1>4, OrderStutter
<1>5. CASE UNCHANGED vars
  BY <1>5, OrderStutter DEF vars
<1>. QED  BY <1>1, <1>2, <1>3, <1>4, <1>5 DEF Next

(* For every set of fields and references, cyclic or not: while the code   *)
(* for a pattern is written, whatever a field refers to has been assigned  *)
(* or is due before it. output_fields, Pattern.output_code.                *)
THEOREM OrderInvariant == Spec => []OrderInv
<1>1. Init => OrderInv
  BY DEF Init, OrderInit, OrderInv, CanHoist, Dangling, Referenced, NoFields
<1>2. OrderInv /\ [Next]_vars => OrderInv'
  BY OrderPreserved
<1>. QED  BY <1>1, <1>2, PTL DEF Spec

(* No field is read before it is assigned, and all of them are assigned    *)
(* when the code is complete, whichever half comes first and in whatever   *)
(* order the sorter yields a round.                                        *)
THEOREM FieldsInOrderAlways == Spec => []FieldsInOrder
<1>1. OrderInv => FieldsInOrder
  BY DEF OrderInv, FieldsInOrder
<1>. QED  BY <1>1, OrderInvariant, PTL

-----------------------------------------------------------------------------
(* Counting the lines of a kind. *)
CountIn(s, j, kinds) == Cardinality({m \in 1 .. j : s[m].kind \in kinds})

(* A count of lines is a number.                                           *)
LEMMA CountNat ==
  ASSUME NEW s, NEW j \in Nat, NEW kinds
  PROVE  /\ CountIn(s, j, kinds) \in Nat
         /\ IsFiniteSet({m \in 1 .. j : s[m].kind \in kinds})
<1>1. IsFiniteSet(1 .. j)
  BY FS_Interval
<1>. QED  BY <1>1, FS_Subset, FS_CardinalityType DEF CountIn

Prefix(s, t, n) == n \in Nat /\ \A m \in 1 .. n : t[m] = s[m]
CountsOn(s, t, n, kinds) ==
  /\ \A j \in 0 .. n : CountIn(t, j, kinds) = CountIn(s, j, kinds)
  /\ CountIn(t, n + 1, kinds) =
       CountIn(s, n, kinds) + (IF t[n + 1].kind \in kinds THEN 1 ELSE 0)

(* The counts of a file with one more line.                                *)
LEMMA CountAppend ==
  ASSUME NEW s, NEW t, NEW n, NEW kinds, Prefix(s, t, n)
  PROVE  CountsOn(s, t, n, kinds)
<1>. USE DEF Prefix, CountsOn
<1>1. ASSUME NEW j \in 0 .. n
      PROVE  CountIn(t, j, kinds) = CountIn(s, j, kinds)
  <2>1. {m \in 1 .. j : t[m].kind \in kinds} = {m \in 1 .. j : s[m].kind \in kinds}
    OBVIOUS
  <2>. QED  BY <2>1 DEF CountIn
<1>. DEFINE A == {m \in 1 .. n : s[m].kind \in kinds}
            B == {m \in 1 .. n + 1 : t[m].kind \in kinds}
<1>2. IsFiniteSet(A) /\ Cardinality(A) \in Nat
  BY CountNat DEF CountIn
<1>3. CountIn(t, n + 1, kinds) = Cardinality(B) /\ CountIn(s, n, kinds) = Cardinality(A)
  BY DEF CountIn
<1>4. CASE t[n + 1].kind \in kinds
  <2>1. B = A \cup {n + 1}
    BY <1>4
  <2>2. n + 1 \notin A
    OBVIOUS
  <2>3. Cardinality(A \cup {n + 1}) = Cardinality(A) + 1
    BY <1>2, <2>2, FS_AddElement
  <2>. QED  BY <1>1, <1>3, <1>4, <2>1, <2>3
<1>5. CASE t[n + 1].kind \notin kinds
  <2>1. B = A
    BY <1>5
  <2>. HIDE DEF A, B
  <2>. QED  BY <1>1, <1>2, <1>3, <1>5, <2>1
<1>. QED  BY <1>4, <1>5

(* A line read: the depths before it stay, its own is one step away. *)
DepthStep(k) == IF k \in Open THEN 1 ELSE IF k \in Close THEN -1 ELSE 0

(* The depth after one more line.                                          *)
LEMMA DepthRead ==
  ASSUME FileTypeOK, NEW k, NEW i, lines' = Append(lines, [kind |-> k, indent |-> i])
  PROVE  /\ Len(lines') = Len(lines) + 1 /\ Len(lines) \in Nat
         /\ DOMAIN lines = 1 .. Len(lines) /\ DOMAIN lines' = 1 .. Len(lines) + 1
         /\ \A j \in 1 .. Len(lines) : lines'[j] = lines[j]
         /\ lines'[Len(lines) + 1] = [kind |-> k, indent |-> i]
         /\ \A j \in 0 .. Len(lines) : Depth(j) \in Int /\ Depth(j)' = Depth(j)
         /\ \A j : j = Len(lines) + 1 => Depth(j)' = Depth(Len(lines)) + DepthStep(k)
<1>. DEFINE S == [kind : LineKinds, indent : Int]
            x == [kind |-> k, indent |-> i]
            n == Len(lines)
            next == lines'
<1>1. lines \in Seq(S)
  BY DEF FileTypeOK
<1>2. /\ Len(next) = n + 1 /\ n \in Nat
      /\ DOMAIN lines = 1 .. n /\ DOMAIN next = 1 .. n + 1
      /\ \A j \in 1 .. n : next[j] = lines[j]
      /\ next[n + 1] = x
  BY <1>1
<1>3. ASSUME NEW j
      PROVE  /\ Depth(j) = CountIn(lines, j, Open) - CountIn(lines, j, Close)
             /\ Depth(j)' = CountIn(next, j, Open) - CountIn(next, j, Close)
  BY DEF Depth, Count, CountIn
<1>4. next[n + 1].kind = k
  BY <1>2
<1>5. /\ \A j \in 0 .. n : /\ CountIn(next, j, Open) = CountIn(lines, j, Open)
                           /\ CountIn(next, j, Close) = CountIn(lines, j, Close)
      /\ CountIn(next, n + 1, Open) = CountIn(lines, n, Open) + (IF k \in Open THEN 1 ELSE 0)
      /\ CountIn(next, n + 1, Close) = CountIn(lines, n, Close) + (IF k \in Close THEN 1 ELSE 0)
  <2>1. Prefix(lines, next, n)
    BY <1>2 DEF Prefix
  <2>2. CountsOn(lines, next, n, Open) /\ CountsOn(lines, next, n, Close)
    BY <2>1, CountAppend
  <2>. QED  BY <1>4, <2>2 DEF CountsOn
<1>6. \A j \in 0 .. n : CountIn(lines, j, Open) \in Nat /\ CountIn(lines, j, Close) \in Nat
  <2>1. TAKE j \in 0 .. n
  <2>2. j \in Nat
    BY <1>2
  <2>. QED  BY <2>2, CountNat
<1>7. Open \cap Close = {}
  BY DEF Open, Close
<1>8. \A j \in 0 .. n : Depth(j) \in Int /\ Depth(j)' = Depth(j)
  <2>1. TAKE j \in 0 .. n
  <2>. HIDE DEF n, next
  <2>. QED  BY <1>3, <1>5, <1>6
<1>9. \A j : j = n + 1 => Depth(j)' = Depth(n) + DepthStep(k)
  <2>1. TAKE j
  <2>2. HAVE j = n + 1
  <2>3. /\ Depth(n) = CountIn(lines, n, Open) - CountIn(lines, n, Close)
        /\ Depth(j)' = CountIn(next, n + 1, Open) - CountIn(next, n + 1, Close)
    BY <1>3, <2>2 DEF Depth, Count, CountIn
  <2>4. CountIn(lines, n, Open) \in Nat /\ CountIn(lines, n, Close) \in Nat
    BY <1>2, <1>6
  <2>. HIDE DEF n, next
  <2>. QED  BY <1>5, <1>7, <2>3, <2>4 DEF DepthStep
<1>. QED  BY <1>2, <1>8, <1>9

(* What a line that is read keeps of the lines before it. *)
LEMMA LineKept ==
  ASSUME FileTypeOK, NEW k, NEW i, lines' = Append(lines, [kind |-> k, indent |-> i]),
         NEW j \in 1 .. Len(lines), LineOK(j)
  PROVE  LineOK(j)'
<1>1. /\ Len(lines) \in Nat
      /\ \A m \in 1 .. Len(lines) : lines'[m] = lines[m]
      /\ \A m \in 0 .. Len(lines) : Depth(m) \in Int /\ Depth(m)' = Depth(m)
  BY DepthRead
<1>2. /\ lines'[j] = lines[j] /\ Depth(j)' = Depth(j) /\ Depth(j - 1)' = Depth(j - 1)
      /\ \A m \in 1 .. j - 1 : lines'[m] = lines[m] /\ Depth(m)' = Depth(m) /\ Depth(m - 1)' = Depth(m - 1)
  BY <1>1
<1>3. ASSUME NEW m \in 1 .. j - 1
      PROVE  \A o \in m .. j - 1 : Depth(o)' = Depth(o)
  BY <1>2
<1>. QED  BY <1>2, <1>3 DEF LineOK

(* A line that opened a level still does after one more line that does not *)
(* close it.                                                               *)
LEMMA OpenerKept ==
  ASSUME FileTypeOK, NEW k, NEW i, lines' = Append(lines, [kind |-> k, indent |-> i]),
         NEW s, NEW m \in DOMAIN lines, Opener(m, s),
         \A j : j = Len(lines) + 1 => Depth(j)' >= s,
         groups'[OpenGroup(s)'].kind = groups[OpenGroup(s)].kind
  PROVE  m \in DOMAIN lines' /\ Opener(m, s)'
<1>1. /\ Len(lines) \in Nat /\ Len(lines') = Len(lines) + 1
      /\ DOMAIN lines = 1 .. Len(lines) /\ DOMAIN lines' = 1 .. Len(lines) + 1
      /\ \A j \in 1 .. Len(lines) : lines'[j] = lines[j]
      /\ \A j \in 0 .. Len(lines) : Depth(j) \in Int /\ Depth(j)' = Depth(j)
  BY DepthRead
<1>2. /\ m \in 1 .. Len(lines) /\ lines'[m] = lines[m] /\ Depth(m - 1)' = Depth(m - 1)
      /\ m \in DOMAIN lines'
  BY <1>1
<1>3. \A o \in m .. Len(lines') : Depth(o)' >= s
  <2>1. TAKE o \in m .. Len(lines')
  <2>2. CASE o = Len(lines) + 1
    BY <2>2
  <2>3. CASE o # Len(lines) + 1
    <3>1. o \in m .. Len(lines) /\ o \in 0 .. Len(lines)
      BY <1>1, <1>2, <2>3
    <3>2. Depth(o) >= s
      BY <3>1 DEF Opener
    <3>. QED  BY <1>1, <3>1, <3>2
  <2>. QED  BY <2>2, <2>3
<1>. QED  BY <1>2, <1>3 DEF Opener

(* A line read leaves the lines well nested when it is so itself, and the  *)
(* open groups have their openers.                                         *)
LEMMA LineRead ==
  ASSUME FileInv, parsing = "file", NEW k, NEW i, lines' = Append(lines, [kind |-> k, indent |-> i]),
         parsing' = "file",
         \A j : j = Len(lines) + 1 => LineOK(j)',
         Len(pats') = Len(pats) + DepthStep(k), nesting' = 2 * Len(pats'),
         \A s \in 1 .. Len(pats') :
            \/ s \in 1 .. Len(pats) /\ groups'[OpenGroup(s)'].kind = groups[OpenGroup(s)].kind
            \/ \E m : m = Len(lines) + 1 /\ Opener(m, s)'
  PROVE  NestInv'
<1>1. /\ Len(lines) \in Nat /\ Len(lines') = Len(lines) + 1
      /\ DOMAIN lines = 1 .. Len(lines) /\ DOMAIN lines' = 1 .. Len(lines) + 1
      /\ \A j \in 0 .. Len(lines) : Depth(j) \in Int /\ Depth(j)' = Depth(j)
      /\ \A j : j = Len(lines) + 1 => Depth(j)' = Depth(Len(lines)) + DepthStep(k)
  BY DepthRead DEF FileInv
<1>2. /\ \A j \in DOMAIN lines : LineOK(j)
      /\ Depth(Len(lines)) = Len(pats) /\ Len(pats) \in Nat
      /\ \A s \in 1 .. Len(pats) : \E m \in DOMAIN lines : Opener(m, s)
  BY DEF FileInv, NestInv, FileTypeOK
<1>3. \A j \in DOMAIN lines' : LineOK(j)'
  <2>1. TAKE j \in DOMAIN lines'
  <2>2. CASE j \in 1 .. Len(lines)
    BY <1>1, <1>2, <2>2, LineKept DEF FileInv
  <2>. QED  BY <1>1, <2>2
<1>4. \A j : j = Len(lines) + 1 => Depth(j)' = Len(pats')
  BY <1>1, <1>2
<1>5. Depth(Len(lines))' = Len(pats')
  BY <1>1, <1>4
<1>6. \A s \in 1 .. Len(pats') : \E m \in DOMAIN lines' : Opener(m, s)'
  <2>1. TAKE s \in 1 .. Len(pats')
  <2>2. CASE s \in 1 .. Len(pats) /\ groups'[OpenGroup(s)'].kind = groups[OpenGroup(s)].kind
    <3>1. PICK m \in DOMAIN lines : Opener(m, s)
      BY <1>2, <2>2
    <3>2. \A j : j = Len(lines) + 1 => Depth(j)' >= s
      BY <1>2, <1>4
    <3>. QED  BY <2>2, <3>1, <3>2, OpenerKept DEF FileInv
  <2>3. CASE \E m : m = Len(lines) + 1 /\ Opener(m, s)'
    BY <1>1, <2>3
  <2>. QED  BY <2>2, <2>3
<1>. QED  BY <1>3, <1>5, <1>6 DEF NestInv

(* The types of the parser.                                                *)
LEMMA FileTypes ==
  ASSUME FileTypeOK
  PROVE  /\ Len(lines) \in Nat /\ Len(pats) \in Nat /\ Len(groups) \in Nat \ {0}
         /\ DOMAIN groups = 1 .. Len(groups) /\ DOMAIN pats = 1 .. Len(pats)
         /\ \A g \in DOMAIN groups : groups[g] \in [kind : Open, pats : Seq(Pattern), subs : SUBSET Nat]
         /\ \A s \in 1 .. Len(pats) : pats[s] \in 1 .. Len(groups)
         /\ parent \in 1 .. Len(groups) /\ nesting \in Int
<1>. DEFINE G == [kind : Open, pats : Seq(Pattern), subs : SUBSET Nat]
<1>1. groups \in Seq(G) /\ pats \in Seq(1 .. Len(groups)) /\ parent \in 1 .. Len(groups)
  BY DEF FileTypeOK
<1>2. Len(groups) \in Nat /\ DOMAIN groups = 1 .. Len(groups) /\ \A g \in DOMAIN groups : groups[g] \in G
  <2>. HIDE DEF G
  <2>. QED  BY <1>1
<1>3. Len(pats) \in Nat /\ DOMAIN pats = 1 .. Len(pats) /\ \A s \in 1 .. Len(pats) : pats[s] \in 1 .. Len(groups)
  BY <1>1
<1>4. Len(groups) # 0
  BY <1>1, <1>2
<1>5. Len(lines) \in Nat /\ nesting \in Int
  BY DEF FileTypeOK
<1>. QED  BY <1>1, <1>2, <1>3, <1>4, <1>5

(* A sequence over a set is one over a larger set.                         *)
LEMMA SeqOfLarger ==
  ASSUME NEW S, NEW T, S \subseteq T, NEW s \in Seq(S)
  PROVE  s \in Seq(T)
OBVIOUS

(* Reading a line keeps the type of the lines.                             *)
LEMMA LineTypes ==
  ASSUME FileTypeOK, NEW kind \in LineKinds, NEW indent \in Int, Line(kind, indent)
  PROVE  lines' \in Seq([kind : LineKinds, indent : Int])
<1>1. [kind |-> kind, indent |-> indent] \in [kind : LineKinds, indent : Int]
  OBVIOUS
<1>. QED  BY <1>1 DEF FileTypeOK, Line

(* Every step keeps the types of the parser.                               *)
LEMMA FileTypePreserved ==
  ASSUME FileTypeOK, [Next]_vars
  PROVE  FileTypeOK'
<1>. USE FileTypes
<1>1. CASE BadIndent
  <2>1. PICK kind \in Open \cup {"#"} \cup Pattern, indent \in Indents \ {nesting} : Line(kind, indent)
    BY <1>1 DEF BadIndent
  <2>2. kind \in LineKinds /\ indent \in Int
    BY <2>1 DEF LineKinds, Indents
  <2>3. lines' \in Seq([kind : LineKinds, indent : Int])
    BY <2>1, <2>2, LineTypes
  <2>. QED  BY <1>1, <2>3 DEF BadIndent, Error, FileTypeOK
<1>2. CASE CommentLine
  <2>1. lines' \in Seq([kind : LineKinds, indent : Int])
    BY <1>2, LineTypes DEF CommentLine, LineKinds
  <2>. QED  BY <1>2, <2>1 DEF CommentLine, FileTypeOK
<1>3. CASE OpenBrace
  <2>1. PICK kind \in Open :
          /\ Line(kind, nesting)
          /\ groups' = Append([groups EXCEPT ![parent].subs = @ \cup {Len(groups) + 1}], NewGroup(kind))
    BY <1>3 DEF OpenBrace
  <2>2. lines' \in Seq([kind : LineKinds, indent : Int])
    BY <2>1, LineTypes DEF LineKinds
  <2>. DEFINE G == [kind : Open, pats : Seq(Pattern), subs : SUBSET Nat]
              parented == [groups EXCEPT ![parent].subs = @ \cup {Len(groups) + 1}]
  <2>3. parented \in Seq(G) /\ Len(parented) = Len(groups)
    <3>1. groups[parent].subs \cup {Len(groups) + 1} \in SUBSET Nat
      OBVIOUS
    <3>2. [groups[parent] EXCEPT !.subs = @ \cup {Len(groups) + 1}] \in G
      BY <3>1
    <3>. QED  BY <3>2 DEF FileTypeOK
  <2>4. NewGroup(kind) \in G
    BY <2>1 DEF NewGroup
  <2>5. groups' \in Seq(G) /\ Len(groups') = Len(groups) + 1
    <3>. HIDE DEF G, parented
    <3>. QED  BY <2>1, <2>3, <2>4 DEF parented
  <2>6. pats' = Append(pats, parent) /\ parent' = Len(groups) + 1 /\ nesting' = nesting + 2 /\ parsing' = parsing
    BY <1>3 DEF OpenBrace
  <2>7. pats' \in Seq(1 .. Len(groups'))
    <3>1. 1 .. Len(groups) \subseteq 1 .. Len(groups')
      BY <2>5
    <3>2. pats \in Seq(1 .. Len(groups'))
      <4>1. pats \in Seq(1 .. Len(groups))
        BY DEF FileTypeOK
      <4>. QED  BY <3>1, <4>1, SeqOfLarger
    <3>3. parent \in 1 .. Len(groups')
      BY <3>1
    <3>. QED  BY <2>6, <3>2, <3>3
  <2>8. nesting' \in Int /\ parent' \in 1 .. Len(groups')
    BY <2>5, <2>6
  <2>. QED  BY <2>2, <2>5, <2>6, <2>7, <2>8 DEF FileTypeOK
<1>4. CASE CloseBrace
  <2>1. PICK kind \in Close : Line(kind, nesting - 2)
    BY <1>4 DEF CloseBrace
  <2>2. lines' \in Seq([kind : LineKinds, indent : Int])
    <3>1. kind \in LineKinds /\ nesting - 2 \in Int
      BY <2>1 DEF LineKinds
    <3>. QED  BY <2>1, <3>1, LineTypes
  <2>3. /\ pats # <<>> /\ parent' = pats[Len(pats)] /\ pats' = SubSeq(pats, 1, Len(pats) - 1)
        /\ nesting' = nesting - 2 /\ groups' = groups /\ parsing' = parsing
    BY <1>4 DEF CloseBrace
  <2>4. pats' \in Seq(1 .. Len(groups)) /\ parent' \in 1 .. Len(groups)
    <3>1. pats \in Seq(1 .. Len(groups)) /\ Len(pats) \in Nat \ {0}
      BY <2>3 DEF FileTypeOK
    <3>2. pats[Len(pats)] \in 1 .. Len(groups)
      BY <3>1
    <3>3. SubSeq(pats, 1, Len(pats) - 1) \in Seq(1 .. Len(groups))
      BY <3>1
    <3>. QED  BY <2>3, <3>2, <3>3
  <2>. QED  BY <2>2, <2>3, <2>4 DEF FileTypeOK
<1>5. CASE BadClose
  <2>1. PICK kind \in Close, indent \in Indents : Line(kind, indent)
    BY <1>5 DEF BadClose
  <2>2. kind \in LineKinds /\ indent \in Int
    BY <2>1 DEF LineKinds, Indents
  <2>3. lines' \in Seq([kind : LineKinds, indent : Int])
    BY <2>1, <2>2, LineTypes
  <2>. QED  BY <1>5, <2>3 DEF BadClose, Error, FileTypeOK
<1>6. CASE PatternLine
  <2>1. PICK p \in Pattern : Line(p, nesting) /\ groups' = [groups EXCEPT ![parent].pats = Append(@, p)]
    BY <1>6 DEF PatternLine
  <2>2. lines' \in Seq([kind : LineKinds, indent : Int])
    BY <2>1, LineTypes DEF LineKinds
  <2>. DEFINE G == [kind : Open, pats : Seq(Pattern), subs : SUBSET Nat]
              grown == [groups[parent] EXCEPT !.pats = Append(@, p)]
  <2>3. grown \in G
    <3>1. groups[parent] \in G
      OBVIOUS
    <3>2. Append(groups[parent].pats, p) \in Seq(Pattern)
      <4>1. groups[parent].pats \in Seq(Pattern)
        BY <3>1
      <4>. QED  BY <4>1
    <3>. QED  BY <3>1, <3>2
  <2>4. groups' \in Seq(G) /\ Len(groups') = Len(groups)
    <3>1. groups \in Seq(G) /\ groups' = [groups EXCEPT ![parent] = grown]
      BY <2>1 DEF FileTypeOK
    <3>. HIDE DEF G, grown
    <3>. QED  BY <2>3, <3>1
  <2>. QED  BY <1>6, <2>2, <2>4 DEF PatternLine, FileTypeOK
<1>7. CASE EndOfFile
  BY <1>7 DEF EndOfFile, FileTypeOK
<1>8. CASE BuildTree
  BY <1>8 DEF BuildTree, FileTypeOK
<1>9. CASE PropWidth
  BY <1>9 DEF PropWidth, FileTypeOK
<1>10. CASE UNCHANGED fileVars
  BY <1>10 DEF fileVars, FileTypeOK
<1>. QED
  BY <1>1, <1>2, <1>3, <1>4, <1>5, <1>6, <1>7, <1>8, <1>9, <1>10
  DEF Next, Parse, Load, Emit, vars

(* A line that opens and closes nothing. *)
LEMMA PlainLine ==
  ASSUME FileInv, NEW k, k \notin Open \cup Close, Line(k, nesting),
         UNCHANGED <<nesting, parent, pats, parsing>>,
         \A g \in DOMAIN groups : g \in DOMAIN groups' /\ groups'[g].kind = groups[g].kind
  PROVE  NestInv'
<1>. USE DEF FileInv
<1>1. /\ parsing = "file" /\ parsing' = "file"
      /\ lines' = Append(lines, [kind |-> k, indent |-> nesting])
  BY DEF Line
<1>2. /\ Depth(Len(lines)) = Len(pats) /\ nesting = 2 * Len(pats) /\ Len(pats) \in Nat
  BY <1>1, FileTypes DEF NestInv
<1>3. DepthStep(k) = 0
  BY DEF DepthStep
<1>4. \A j : j = Len(lines) + 1 => LineOK(j)'
  <2>1. TAKE j
  <2>2. HAVE j = Len(lines) + 1
  <2>3. /\ lines'[j] = [kind |-> k, indent |-> nesting]
        /\ Depth(j)' = Len(pats) /\ Depth(j - 1)' = Len(pats)
    BY <1>1, <1>2, <1>3, <2>2, DepthRead
  <2>4. lines'[j].kind = k /\ lines'[j].indent = nesting
    BY <2>3
  <2>. HIDE DEF Depth
  <2>. QED  BY <1>2, <2>3, <2>4 DEF LineOK
<1>5. ASSUME NEW s \in 1 .. Len(pats')
      PROVE  s \in 1 .. Len(pats) /\ groups'[OpenGroup(s)'].kind = groups[OpenGroup(s)].kind
  <2>1. OpenGroup(s) \in DOMAIN groups /\ OpenGroup(s)' = OpenGroup(s)
    <3>1. s = Len(pats) \/ s + 1 \in 1 .. Len(pats)
      BY <1>2
    <3>. QED  BY <3>1, FileTypes DEF OpenGroup
  <2>. QED  BY <2>1
<1>6. Len(pats') = Len(pats) + DepthStep(k) /\ nesting' = 2 * Len(pats')
  BY <1>2, <1>3
<1>. QED  BY <1>1, <1>4, <1>5, <1>6, LineRead

(* A line that opens a group keeps the nesting.                            *)
LEMMA OpeningLine ==
  ASSUME FileInv, OpenBrace
  PROVE  NestInv'
<1>. USE DEF FileInv
<1>. DEFINE n == Len(lines)
<1>1. PICK kind \in Open :
        /\ Line(kind, nesting)
        /\ groups' = Append([groups EXCEPT ![parent].subs = @ \cup {Len(groups) + 1}], NewGroup(kind))
  BY DEF OpenBrace
<1>2. /\ parsing = "file" /\ parsing' = "file"
      /\ lines' = Append(lines, [kind |-> kind, indent |-> nesting])
      /\ pats' = Append(pats, parent) /\ parent' = Len(groups) + 1 /\ nesting' = nesting + 2
  BY <1>1 DEF Line, OpenBrace
<1>3. /\ Depth(Len(lines)) = Len(pats) /\ nesting = 2 * Len(pats) /\ Len(pats) \in Nat
  BY <1>2, FileTypes DEF NestInv
<1>4. DepthStep(kind) = 1 /\ kind \notin Close
  BY <1>1 DEF DepthStep, Open, Close
<1>5. /\ Len(pats') = Len(pats) + 1 /\ pats'[Len(pats) + 1] = parent
      /\ \A s \in 1 .. Len(pats) : pats'[s] = pats[s]
  BY <1>2, FileTypes DEF FileTypeOK
<1>6. /\ \A g \in DOMAIN groups : groups'[g].kind = groups[g].kind
      /\ groups'[Len(groups) + 1].kind = kind
  <2>. DEFINE G == [kind : Open, pats : Seq(Pattern), subs : SUBSET Nat]
              parented == [groups EXCEPT ![parent].subs = @ \cup {Len(groups) + 1}]
  <2>1. /\ Len(groups) \in Nat /\ DOMAIN groups = 1 .. Len(groups) /\ groups \in Seq(G)
        /\ \A g \in DOMAIN groups : groups[g] \in G
    BY FileTypes DEF FileTypeOK
  <2>2. \A g \in DOMAIN groups : parented[g].kind = groups[g].kind
    BY <2>1
  <2>3. Len(parented) = Len(groups) /\ DOMAIN parented = 1 .. Len(groups) /\ parented \in Seq(Range(parented))
    <3>1. parented = [g \in 1 .. Len(groups) |-> parented[g]]
      BY <2>1
    <3>2. parented \in Seq(Range(parented))
      <4>. HIDE DEF parented
      <4>. QED  BY <2>1, <3>1 DEF Range
    <3>3. Len(parented) = Len(groups)
      <4>. HIDE DEF parented
      <4>. QED  BY <2>1, <3>1
    <3>. QED  BY <3>1, <3>2, <3>3
  <2>. QED  BY <1>1, <2>1, <2>2, <2>3 DEF NewGroup
<1>7. \A j : j = n + 1 => /\ lines'[j] = [kind |-> kind, indent |-> nesting] 
                          /\ Depth(j)' = Len(pats) + 1 /\ Depth(j - 1)' = Len(pats)
  <2>1. n \in Nat /\ n \in 0 .. n /\ Depth(n) = Len(pats)
    BY <1>3, FileTypes
  <2>2. \A j \in 0 .. n : Depth(j)' = Depth(j)
    BY <1>2, DepthRead
  <2>3. \A j : j = n + 1 => /\ lines'[j] = [kind |-> kind, indent |-> nesting]
                            /\ Depth(j)' = Depth(n) + DepthStep(kind)
    BY <1>2, DepthRead
  <2>4. TAKE j
  <2>5. HAVE j = n + 1
  <2>6. j - 1 = n
    BY <2>1, <2>5
  <2>7. Depth(j - 1)' = Depth(j - 1)
    BY <2>1, <2>2, <2>6
  <2>. QED  BY <1>4, <2>1, <2>3, <2>5, <2>6, <2>7
<1>8. \A j : j = n + 1 => LineOK(j)'
  <2>1. TAKE j
  <2>2. HAVE j = n + 1
  <2>3. lines'[j].kind = kind /\ lines'[j].indent = nesting
    BY <1>7, <2>2
  <2>4. Depth(j)' = Len(pats) + 1 /\ Depth(j - 1)' = Len(pats)
    BY <1>7, <2>2
  <2>. HIDE DEF Depth
  <2>5. Depth(j)' \in Nat /\ lines'[j].indent = 2 * Depth(j - 1)' /\ lines'[j].kind \notin Close
    BY <1>3, <1>4, <2>3, <2>4
  <2>. QED  BY <2>5 DEF LineOK
<1>9. ASSUME NEW s \in 1 .. Len(pats')
      PROVE  \/ s \in 1 .. Len(pats) /\ groups'[OpenGroup(s)'].kind = groups[OpenGroup(s)].kind
             \/ \E m : m = n + 1 /\ Opener(m, s)'
  <2>1. CASE s \in 1 .. Len(pats)
    <3>1. OpenGroup(s)' = OpenGroup(s) /\ OpenGroup(s) \in DOMAIN groups
      <4>1. Len(pats) \in Nat /\ Len(pats') = Len(pats) + 1 /\ DOMAIN groups = 1 .. Len(groups)
        BY <1>3, <1>5, FileTypes
      <4>2. OpenGroup(s)' = pats'[s + 1]
        BY <2>1, <4>1 DEF OpenGroup
      <4>3. CASE s = Len(pats)
        BY <1>5, <4>2, <4>1, <4>3, FileTypes DEF OpenGroup
      <4>4. CASE s # Len(pats)
        <5>1. s + 1 \in 1 .. Len(pats)
          BY <2>1, <4>1, <4>4
        <5>2. OpenGroup(s) = pats[s + 1] /\ pats[s + 1] \in 1 .. Len(groups)
          BY <4>4, <5>1, FileTypes DEF OpenGroup
        <5>. QED  BY <1>5, <4>1, <4>2, <5>1, <5>2
      <4>. QED  BY <4>3, <4>4
    <3>. QED  BY <1>6, <2>1, <3>1
  <2>2. CASE s = Len(pats) + 1
    <3>1. OpenGroup(s)' = Len(groups) + 1
      BY <1>2, <1>5, <2>2 DEF OpenGroup
    <3>2. Len(lines') = n + 1 /\ n \in Nat
      BY <1>2, DepthRead
    <3>3. \A m : m = n + 1 => Opener(m, s)'
      <4>1. TAKE m
      <4>2. HAVE m = n + 1
      <4>3. \A o \in m .. Len(lines') : o = n + 1
        BY <3>2, <4>2
      <4>4. lines'[m].kind = kind /\ Depth(m - 1)' = s - 1 /\ \A o \in m .. Len(lines') : Depth(o)' >= s
        BY <1>3, <1>7, <2>2, <4>2, <4>3
      <4>. QED  BY <1>6, <3>1, <4>4 DEF Opener
    <3>. QED  BY <3>3
  <2>. QED  BY <1>3, <1>5, <2>1, <2>2
<1>10. Len(pats') = Len(pats) + DepthStep(kind) /\ nesting' = 2 * Len(pats')
  BY <1>2, <1>3, <1>4, <1>5
<1>. QED  BY <1>2, <1>8, <1>9, <1>10, LineRead

(* A line that closes a group keeps the nesting.                           *)
LEMMA ClosingLine ==
  ASSUME FileInv, CloseBrace
  PROVE  NestInv'
<1>. USE DEF FileInv
<1>. DEFINE n == Len(lines)
            d == Len(pats) - 1
<1>1. PICK kind \in Close : Closes(kind) /\ Line(kind, nesting - 2)
  BY DEF CloseBrace
<1>2. /\ parsing = "file" /\ parsing' = "file" /\ groups' = groups
      /\ lines' = Append(lines, [kind |-> kind, indent |-> nesting - 2])
      /\ pats # <<>> /\ parent' = pats[Len(pats)] /\ pats' = SubSeq(pats, 1, d) /\ nesting' = nesting - 2
  BY <1>1 DEF Line, CloseBrace
<1>3. /\ Depth(Len(lines)) = Len(pats) /\ nesting = 2 * Len(pats) /\ Len(pats) \in Nat \ {0} /\ d \in Nat
      /\ \A s \in 1 .. Len(pats) : \E m \in DOMAIN lines : Opener(m, s)
  BY <1>2, FileTypes DEF NestInv, FileTypeOK
<1>4. DepthStep(kind) = -1 /\ kind \in Close
  BY <1>1 DEF DepthStep, Open, Close
<1>5. Len(pats') = d /\ \A s \in 1 .. d : pats'[s] = pats[s]
  <2>1. pats \in Seq(1 .. Len(groups)) /\ d \in 0 .. Len(pats)
    BY <1>3 DEF FileTypeOK
  <2>. HIDE DEF d
  <2>. QED  BY <1>2, <1>3, <2>1
<1>6. PICK m \in DOMAIN lines : Opener(m, Len(pats))
  BY <1>3
<1>7. lines[m].kind = groups[parent].kind
  BY <1>6 DEF Opener, OpenGroup
<1>8. kind = IF lines[m].kind = "{" THEN "}" ELSE "]"
  BY <1>1, <1>7 DEF Closes, Close
<1>9. /\ n \in Nat /\ m \in 1 .. n /\ lines'[m] = lines[m]
      /\ \A j \in 0 .. n : Depth(j) \in Int /\ Depth(j)' = Depth(j)
      /\ \A j : j = n + 1 => Depth(j)' = d /\ lines'[j] = [kind |-> kind, indent |-> nesting - 2]
  <2>1. /\ n \in Nat /\ m \in 1 .. n /\ lines'[m] = lines[m]
        /\ \A j \in 0 .. n : Depth(j) \in Int /\ Depth(j)' = Depth(j)
    BY <1>2, DepthRead
  <2>2. \A j : j = n + 1 => Depth(j)' = Depth(n) + DepthStep(kind)
                          /\ lines'[j] = [kind |-> kind, indent |-> nesting - 2]
    BY <1>2, DepthRead
  <2>3. Depth(n) + DepthStep(kind) = d
    BY <1>3, <1>4
  <2>. QED  BY <2>1, <2>2, <2>3
<1>10. \A j : j = n + 1 => LineOK(j)'
  <2>1. TAKE j
  <2>2. HAVE j = n + 1
  <2>3. m \in 1 .. j - 1 /\ Depth(m - 1)' = Depth(j)'
    BY <1>6, <1>9, <2>2 DEF Opener
  <2>4. \A o \in m .. j - 1 : Depth(o)' > Depth(j)'
    <3>1. TAKE o \in m .. j - 1
    <3>2. o \in m .. n /\ o \in 0 .. n
      BY <1>9, <2>2
    <3>3. Depth(o) >= Len(pats)
      BY <1>6, <3>2 DEF Opener
    <3>. QED  BY <1>3, <1>9, <2>2, <3>2, <3>3
  <2>5. lines'[j].kind = IF lines'[m].kind = "{" THEN "}" ELSE "]"
    <3>1. lines'[j].kind = kind
      BY <1>9, <2>2
    <3>. QED  BY <1>8, <1>9, <3>1
  <2>6. Depth(j)' \in Nat /\ lines'[j].indent = 2 * Depth(j)' /\ lines'[j].kind \in Close
    <3>1. Depth(j)' = d /\ lines'[j] = [kind |-> kind, indent |-> nesting - 2]
      BY <1>9, <2>2, Zenon
    <3>2. lines'[j].kind = kind /\ lines'[j].indent = nesting - 2
      BY <3>1
    <3>3. nesting - 2 = 2 * d
      BY <1>3
    <3>. HIDE DEF Depth
    <3>. QED  BY <1>3, <1>4, <3>1, <3>2, <3>3
  <2>. QED  BY <2>3, <2>4, <2>5, <2>6 DEF LineOK
<1>11. ASSUME NEW s \in 1 .. Len(pats')
       PROVE  s \in 1 .. Len(pats) /\ groups'[OpenGroup(s)'].kind = groups[OpenGroup(s)].kind
  <2>1. OpenGroup(s)' = OpenGroup(s)
    <3>1. s # Len(pats) /\ (s = d \/ s + 1 \in 1 .. d)
      BY <1>3, <1>5
    <3>2. CASE s = d
      BY <1>2, <1>3, <1>5, <3>1, <3>2 DEF OpenGroup
    <3>3. CASE s # d
      BY <1>5, <3>1, <3>3 DEF OpenGroup
    <3>. QED  BY <3>2, <3>3
  <2>. QED  BY <1>2, <1>3, <1>5, <2>1
<1>12. Len(pats') = Len(pats) + DepthStep(kind) /\ nesting' = 2 * Len(pats')
  BY <1>2, <1>3, <1>4, <1>5
<1>. QED  BY <1>2, <1>10, <1>11, <1>12, LineRead

(* A step that reads no line keeps the nesting.                            *)
LEMMA NestKept ==
  ASSUME NestInv, UNCHANGED <<lines, nesting, groups, parent, pats>>,
         \/ parsing' = parsing
         \/ parsing = "file" /\ parsing' = IF nesting = 0 THEN "parsed" ELSE "error"
  PROVE  NestInv'
<1>1. \A j : Depth(j)' = Depth(j)
  BY DEF Depth, Count
<1>2. Depth(Len(lines))' = Depth(Len(lines))
  BY DEF Depth, Count
<1>. HIDE DEF Depth
<1>3. \A j : LineOK(j)' <=> LineOK(j)
  BY <1>1 DEF LineOK
<1>4. \A s : OpenGroup(s)' = OpenGroup(s)
  BY DEF OpenGroup
<1>5. \A m, s : Opener(m, s)' <=> Opener(m, s)
  BY <1>1, <1>4 DEF Opener
<1>. QED  BY <1>2, <1>3, <1>5 DEF NestInv

(* Every step keeps the nesting.                                           *)
LEMMA NestPreserved ==
  ASSUME FileInv, [Next]_vars
  PROVE  NestInv'
<1>. USE DEF FileInv
<1>1. CASE BadIndent \/ BadClose
  BY <1>1 DEF BadIndent, BadClose, Error, NestInv
<1>2. CASE CommentLine
  <2>1. "#" \notin Open \cup Close /\ Line("#", nesting) /\ UNCHANGED <<nesting, groups, parent, pats, parsing>>
    BY <1>2 DEF CommentLine, Open, Close
  <2>. QED  BY <2>1, PlainLine
<1>3. CASE PatternLine
  <2>1. PICK p \in Pattern : Line(p, nesting) /\ groups' = [groups EXCEPT ![parent].pats = Append(@, p)]
    BY <1>3 DEF PatternLine
  <2>2. p \notin Open \cup Close
    BY <2>1, NameAssumption DEF Open, Close
  <2>3. \A g \in DOMAIN groups : g \in DOMAIN groups' /\ groups'[g].kind = groups[g].kind
    BY <2>1, FileTypes
  <2>4. UNCHANGED <<nesting, parent, pats, parsing>>
    BY <1>3 DEF PatternLine
  <2>. QED  BY <2>1, <2>2, <2>3, <2>4, PlainLine
<1>4. CASE EndOfFile
  BY <1>4, NestKept DEF EndOfFile
<1>5. CASE BuildTree
  BY <1>5 DEF BuildTree, NestInv
<1>6. CASE PropWidth
  BY <1>6 DEF PropWidth, NestInv
<1>7. CASE UNCHANGED fileVars
  <2>1. NestInv /\ lines' = lines /\ nesting' = nesting /\ groups' = groups /\ parent' = parent
        /\ pats' = pats /\ parsing' = parsing
    BY <1>7 DEF fileVars
  <2>. QED  BY <2>1, NestKept
<1>. QED
  BY <1>1, <1>2, <1>3, <1>4, <1>5, <1>6, <1>7, OpeningLine, ClosingLine
  DEF Next, Parse, Load, Emit, vars

(* For every file and every order of its lines: while the file is read,    *)
(* the indentation that is due and the stack of groups are what counting   *)
(* the braces read so far says, and each open group is of the kind of the  *)
(* brace that opened it. parse_file.                                       *)
THEOREM FileInvariant == Spec => []FileInv
<1>1. Init => FileInv
  <2>1. SUFFICES ASSUME Init PROVE FileInv
    OBVIOUS
  <2>2. /\ lines = <<>> /\ nesting = 0 /\ groups = <<NewGroup("[")>> /\ parent = 1 /\ pats = <<>>
        /\ parsing = "file" /\ Len(lines) = 0 /\ Len(pats) = 0
    BY <2>1 DEF Init
  <2>3. NewGroup("[") \in [kind : Open, pats : Seq(Pattern), subs : SUBSET Nat]
    BY DEF NewGroup, Open
  <2>4. FileTypeOK
    BY <2>2, <2>3 DEF FileTypeOK
  <2>5. Depth(0) = 0
    <3>1. 1 .. 0 = {} /\ \A k : {m \in 1 .. 0 : lines[m].kind \in k} = {}
      OBVIOUS
    <3>2. Count(0, Open) = 0 /\ Count(0, Close) = 0
      BY <3>1, FS_EmptySet DEF Count
    <3>. QED  BY <3>2 DEF Depth
  <2>6. NestInv
    BY <2>2, <2>5 DEF NestInv
  <2>. QED  BY <2>4, <2>6 DEF FileInv
<1>2. FileInv /\ [Next]_vars => FileInv'
  BY FileTypePreserved, NestPreserved DEF FileInv
<1>. QED  BY <1>1, <1>2, PTL DEF Spec

(* parse_file accepts a file only if it is well nested as a definition by  *)
(* counting says: every line is indented by its depth, and every closing   *)
(* brace is of the kind of its partner, however long the file is.          *)
THEOREM FileAcceptedAlways == Spec => []FileAccepted
<1>1. FileInv => FileAccepted
  <2>1. SUFFICES ASSUME FileInv, parsing = "parsed" PROVE WellNested
    BY DEF FileAccepted
  <2>2. /\ \A j \in DOMAIN lines : LineOK(j)
        /\ Depth(Len(lines)) = Len(pats) /\ nesting = 2 * Len(pats) /\ nesting = 0
        /\ Len(pats) \in Nat
    BY <2>1, FileTypes DEF FileInv, NestInv
  <2>3. DOMAIN lines = 1 .. Len(lines) /\ Len(lines) \in Nat
    BY <2>1 DEF FileInv, FileTypeOK
  <2>4. \A j \in DOMAIN lines : Depth(j) \in Nat
    BY <2>2 DEF LineOK
  <2>5. ASSUME NEW j \in DOMAIN lines, lines[j].kind \in Close
        PROVE  lines[j].kind = IF lines[Partner(j)].kind = "{" THEN "}" ELSE "]"
    <3>. DEFINE P(m) == Depth(m - 1) = Depth(j) /\ \A o \in m .. j - 1 : Depth(o) > Depth(j)
    <3>1. PICK m \in 1 .. j - 1 : P(m) /\ lines[j].kind = IF lines[m].kind = "{" THEN "}" ELSE "]"
      BY <2>2, <2>5 DEF LineOK
    <3>2. Partner(j) \in 1 .. j - 1 /\ P(Partner(j))
      BY <3>1 DEF Partner
    <3>3. ASSUME NEW p \in 1 .. j - 1, NEW q \in 1 .. j - 1, P(p), P(q), p < q
          PROVE  FALSE
      <4>1. q - 1 \in p .. j - 1 /\ j \in Nat
        BY <2>3, <3>3
      <4>2. Depth(q - 1) > Depth(j) /\ Depth(q - 1) = Depth(j)
        BY <3>3, <4>1
      <4>. QED  BY <2>4, <4>2
    <3>4. Partner(j) = m
      <4>. DEFINE p == Partner(j)
      <4>1. p \in 1 .. j - 1 /\ P(p) /\ P(m) /\ j \in Nat
        <5>1. j \in Nat
          BY <2>3
        <5>. HIDE DEF P
        <5>. QED  BY <3>1, <3>2, <5>1
      <4>. HIDE DEF p, P
      <4>2. ~ p < m /\ ~ m < p
        BY <3>3, <4>1
      <4>3. p = m
        BY <4>1, <4>2
      <4>. QED  BY <4>3 DEF p
    <3>. QED  BY <3>1, <3>4
  <2>6. Depth(Len(lines)) = 0
    BY <2>2
  <2>7. \A j \in DOMAIN lines :
          lines[j].indent = 2 * (IF lines[j].kind \in Close THEN Depth(j) ELSE Depth(j - 1))
    BY <2>2 DEF LineOK
  <2>8. \A j \in DOMAIN lines : Depth(j) >= 0
    <3>. HIDE DEF Depth
    <3>. QED  BY <2>4
  <2>. QED  BY <2>5, <2>6, <2>7, <2>8 DEF WellNested
<1>. QED  BY <1>1, FileInvariant, PTL

-----------------------------------------------------------------------------
(* Induction for a set of numbers, out of the pigeonhole principle: were n *)
(* not in P, the numbers of P below n could be moved up by one and would   *)
(* be as many without 0.                                                   *)
LEMMA SetInduction ==
  ASSUME NEW P \in SUBSET Nat, 0 \in P, \A k \in P : k + 1 \in P
  PROVE  P = Nat
<1>1. SUFFICES ASSUME NEW n \in Nat, n \notin P PROVE FALSE
  OBVIOUS
<1>. DEFINE A == P \cap (0 .. n)
            f == [k \in A |-> k + 1]
<1>2. IsFiniteSet(0 .. n)
  BY FS_Interval
<1>3. IsFiniteSet(A) /\ Cardinality(A) \in Nat /\ 0 \in A
  BY <1>2, FS_Subset, FS_CardinalityType
<1>4. IsFiniteSet(A \ {0}) /\ Cardinality(A \ {0}) = Cardinality(A) - 1
  BY <1>3, FS_RemoveElement
<1>5. f \in [A -> A \ {0}]
  <2>1. \A k \in A : k + 1 \in A \ {0}
    <3>1. TAKE k \in A
    <3>2. k \in Nat /\ k # n /\ k <= n /\ k + 1 \in P
      BY <1>1
    <3>. QED  BY <3>2
  <2>. QED  BY <2>1
<1>6. PICK x \in A, y \in A : x # y /\ f[x] = f[y]
  <2>. HIDE DEF f, A
  <2>. QED  BY <1>3, <1>4, <1>5, FS_PigeonHole
<1>. QED  BY <1>6

(* The least of a set of widths.                                           *)
LEMMA LeastWidth ==
  ASSUME NEW S, S \subseteq Nat, S # {}
  PROVE  Min(S) \in S /\ \A w \in S : Min(S) <= w
<1>1. \E x \in S : \A w \in S : x <= w
  <2>1. SUFFICES ASSUME ~ \E x \in S : \A w \in S : x <= w PROVE FALSE
    OBVIOUS
  <2>. DEFINE P == {k \in Nat : \A w \in S : k < w}
  <2>2. 0 \in P
    BY <2>1
  <2>3. \A k \in P : k + 1 \in P
    <3>1. TAKE k \in P
    <3>2. \A w \in S : k + 1 <= w
      OBVIOUS
    <3>3. k + 1 \notin S
      BY <2>1, <3>2
    <3>. QED  BY <3>2, <3>3
  <2>4. P = Nat
    <3>. HIDE DEF P
    <3>1. P \in SUBSET Nat
      BY DEF P
    <3>. QED  BY <2>2, <2>3, <3>1, SetInduction
  <2>5. PICK s \in S : TRUE
    OBVIOUS
  <2>6. s \in P
    BY <2>4
  <2>. QED  BY <2>6
<1>. QED  BY <1>1 DEF Min

-----------------------------------------------------------------------------
(* The order of the places of the size tree. *)
LEMMA WayTransitive ==
  ASSUME NEW x, NEW y, NEW z, OnWay(x, y), OnWay(y, z)
  PROVE  OnWay(x, z)
BY DEF OnWay

(* No place on the way to another is told apart from it.                   *)
LEMMA WayNotTold ==
  ASSUME NEW x, NEW y, OnWay(x, y)
  PROVE  ~ Tells(x, y) /\ ~ Tells(y, x)
BY DEF OnWay, Tells

(* Being told apart is symmetric.                                          *)
LEMMA TellsSymmetric ==
  ASSUME NEW x, NEW y, Tells(x, y)
  PROVE  Tells(y, x)
BY DEF Tells

(* What is below a place is told apart as it is and in the same cases. *)
LEMMA BelowKeeps ==
  ASSUME NEW c, NEW x, NEW y, OnWay(c, x)
  PROVE  /\ Tells(c, y) => Tells(x, y)
         /\ Tells(y, c) => Tells(y, x)
         /\ Tested(y, c) => Tested(y, x) /\ SameCase(y, x, c)
<1>1. Tells(c, y) => Tells(x, y)
  BY DEF OnWay, Tells
<1>2. Tells(y, c) => Tells(y, x)
  BY DEF OnWay, Tells
<1>3. ASSUME Tested(y, c)
      PROVE  Tested(y, x) /\ SameCase(y, x, c)
  <2>1. OnWay(y, x) /\ y.this \subseteq x.mask
    BY <1>3, WayTransitive DEF Tested, OnWay
  <2>2. x.bits \cap y.this = c.bits \cap y.this
    BY <1>3 DEF Tested, OnWay
  <2>. QED  BY <1>3, <2>1, <2>2 DEF Tested, SameCase
<1>. QED  BY <1>1, <1>2, <1>3

(* Being in the same case of a node is an equivalence among the places it  *)
(* tests.                                                                  *)
LEMMA CaseEquivalence ==
  ASSUME NEW n
  PROVE  /\ \A x : Tested(n, x) => SameCase(n, x, x)
         /\ \A x, y : SameCase(n, x, y) => SameCase(n, y, x) /\ Tested(n, x) /\ Tested(n, y)
         /\ \A x, y, z : SameCase(n, x, y) /\ SameCase(n, y, z) => SameCase(n, x, z)
BY DEF SameCase

(* A call that is not done has nothing below it yet. *)
Others(c) == (calls \ {c}) \cup Tree

(* Every other place is told apart from a call that has not run, or is a   *)
(* node that tests it.                                                     *)
LEMMA NothingBelow ==
  ASSUME WayInv, TellInv, NEW c \in calls, NEW y \in Others(c)
  PROVE  /\ Tells(c, y) \/ (y \in nodes /\ Tested(y, c))
         /\ ~ OnWay(c, y)
<1>1. CASE y \in calls \ {c}
  BY <1>1, WayNotTold DEF TellInv
<1>2. CASE y \in leaves
  BY <1>2, WayNotTold DEF TellInv
<1>3. CASE y \in nodes
  <2>1. Tested(y, c) \/ Tells(c, y)
    BY <1>3, TellsSymmetric DEF TellInv
  <2>2. ASSUME Tested(y, c), OnWay(c, y) PROVE FALSE
    <3>1. y.this \subseteq y.mask
      BY <2>2 DEF Tested, OnWay
    <3>. QED  BY <1>3, <3>1 DEF WayInv
  <2>. QED  BY <1>3, <2>1, <2>2, WayNotTold
<1>. QED  BY <1>1, <1>2, <1>3 DEF Others, Tree

(* What replaces a call lies below it and has a root of its own: then the  *)
(* cases of the nodes that were there have roots as before.                *)
LEMMA RootsKept ==
  ASSUME WayInv, TellInv, NEW c \in calls, NEW new,
         \A x \in new : OnWay(c, x),
         \E r \in new : \A x \in new : OnWay(r, x),
         calls' \cup Tree' = Others(c) \cup new,
         NEW n \in nodes \cup {Top}, RootedAt(n)
  PROVE  RootedAt(n)'
<1>. DEFINE P == calls \cup Tree
            Q == calls' \cup Tree'
<1>1. P = Others(c) \cup {c}
  BY DEF Others
<1>2. \A y \in Others(c) : ~ OnWay(c, y)
  BY NothingBelow
<1>3. Tested(n, c) \/ Tells(n, c)
  BY DEF TellInv, Top, Tested, OnWay
<1>4. SUFFICES ASSUME NEW x \in Q, Tested(n, x)
               PROVE  \E r \in Q : SameCase(n, r, x) /\ \A y \in Q : SameCase(n, y, x) => OnWay(r, y)
  BY DEF RootedAt
<1>5. CASE \A z \in new : ~ SameCase(n, z, x)
  <2>1. x \in Others(c) /\ SameCase(n, x, x)
    BY <1>4, <1>5, CaseEquivalence
  <2>2. PICK r \in P : SameCase(n, r, x) /\ \A y \in P : SameCase(n, y, x) => OnWay(r, y)
    BY <1>1, <1>4, <2>1 DEF RootedAt
  <2>3. ~ SameCase(n, c, x)
    <3>1. ASSUME SameCase(n, c, x) PROVE FALSE
      <4>1. PICK z \in new : OnWay(c, z)
        OBVIOUS
      <4>2. SameCase(n, z, c)
        BY <3>1, <4>1, BelowKeeps, CaseEquivalence
      <4>. QED  BY <1>5, <3>1, <4>2, CaseEquivalence
    <3>. QED  BY <3>1
  <2>4. r \in Others(c)
    BY <1>1, <2>2, <2>3
  <2>. QED  BY <1>1, <1>5, <2>2, <2>4
<1>6. CASE \E z \in new : SameCase(n, z, x)
  <2>1. PICK z \in new : SameCase(n, z, x)
    BY <1>6
  <2>2. Tested(n, c)
    <3>1. OnWay(n, z)
      BY <2>1 DEF SameCase, Tested
    <3>2. ~ Tells(n, z)
      BY <3>1, WayNotTold
    <3>. QED  BY <1>3, <3>2, BelowKeeps
  <2>3. \A v \in new : SameCase(n, v, x)
    <3>1. TAKE v \in new
    <3>2. SameCase(n, v, c) /\ SameCase(n, z, c)
      BY <2>2, BelowKeeps
    <3>. QED  BY <2>1, <3>2, CaseEquivalence
  <2>4. SameCase(n, c, x)
    <3>1. SameCase(n, z, c)
      BY <2>2, BelowKeeps
    <3>. QED  BY <2>1, <3>1, CaseEquivalence
  <2>5. PICK r \in P : SameCase(n, r, c) /\ \A y \in P : SameCase(n, y, c) => OnWay(r, y)
    BY <1>1, <2>2 DEF RootedAt
  <2>6. \A y : SameCase(n, y, c) <=> SameCase(n, y, x)
    BY <2>4, CaseEquivalence
  <2>7. OnWay(r, c)
    BY <1>1, <2>2, <2>5, CaseEquivalence
  <2>8. CASE r = c
    <3>1. \A y \in Others(c) : ~ SameCase(n, y, x)
      BY <1>1, <1>2, <2>5, <2>6, <2>8
    <3>2. PICK q \in new : \A v \in new : OnWay(q, v)
      OBVIOUS
    <3>. QED  BY <2>3, <3>1, <3>2
  <2>9. CASE r # c
    <3>1. r \in Q
      BY <1>1, <2>5, <2>9
    <3>2. \A v \in new : OnWay(r, v)
      BY <2>7, WayTransitive
    <3>. QED  BY <1>1, <2>5, <2>6, <3>1, <3>2
  <2>. QED  BY <2>8, <2>9
<1>. QED  BY <1>5, <1>6

(* Replacing a call by a place further on its way keeps places told apart. *)
LEMMA OneForOne ==
  ASSUME WayInv, TellInv, RootInv, NEW c \in calls, NEW x, OnWay(c, x), x.bits \subseteq x.mask,
         \/ calls' = (calls \ {c}) \cup {x} /\ leaves' = leaves
         \/ calls' = calls \ {c} /\ leaves' = leaves \cup {x},
         nodes' = nodes
  PROVE  TellInv' /\ RootInv'
<1>. DEFINE new == {x}
<1>1. calls' \cup Tree' = Others(c) \cup new
  BY DEF Others, Tree
<1>2. OnWay(x, x)
  BY DEF OnWay
<1>3. RootInv'
  <2>1. (\A y \in new : OnWay(c, y)) /\ (\E r \in new : \A y \in new : OnWay(r, y))
    BY <1>2
  <2>. HIDE DEF new
  <2>. QED  BY <1>1, <2>1, RootsKept DEF RootInv
<1>4. \A y \in Others(c) : Tells(c, y) \/ (y \in nodes /\ Tested(y, c))
  BY NothingBelow
<1>5. \A y : (Tells(c, y) => Tells(x, y) /\ Tells(y, x)) /\ (Tested(y, c) => Tested(y, x))
  BY BelowKeeps, TellsSymmetric
<1>6. \A d \in calls' : d = x \/ d \in calls \ {c}
  OBVIOUS
<1>7. \A l \in leaves' : l = x \/ l \in leaves
  OBVIOUS
<1>8. x \in calls' \cup leaves'
  OBVIOUS
<1>9. \A d \in calls \ {c} : Tells(x, d) /\ Tells(d, x)
  BY <1>5 DEF TellInv
<1>10. \A l \in leaves : Tells(x, l) /\ Tells(l, x)
  BY <1>5 DEF TellInv
<1>11. \A n \in nodes : Tested(n, x) \/ Tells(n, x)
  BY BelowKeeps DEF TellInv
<1>12. ASSUME NEW n \in nodes'
       PROVE  \E y \in calls' \cup leaves' : Tested(n, y)
  <2>1. PICK y \in calls \cup leaves : Tested(n, y)
    BY <1>12 DEF TellInv
  <2>. QED  BY <1>5, <1>8, <2>1
<1>13. (\A d \in calls' : d \in calls \ {c}) \/ (\A l \in leaves' : l \in leaves)
  OBVIOUS
<1>14. \A d \in calls', l \in leaves' : Tells(d, l)
  BY <1>6, <1>7, <1>9, <1>10, <1>13 DEF TellInv
<1>. QED  BY <1>3, <1>6, <1>7, <1>9, <1>10, <1>11, <1>12, <1>14 DEF TellInv

NodeOf(c) == [bits |-> c.bits, mask |-> c.mask, this |-> Inner(c), width |-> c.width]
ChildOf(c, b) == Call(Bin(c, b), c.width, c.bits \cup b, c.mask \cup Inner(c))

(* The path of a bin goes on from that of its call.                        *)
LEMMA ChildPath ==
  ASSUME WayInv, NEW c \in calls, NEW b \in Bins(c)
  PROVE  /\ ChildOf(c, b).mask = c.mask \cup Inner(c) /\ ChildOf(c, b).bits = c.bits \cup b
         /\ ChildOf(c, b).pats = Bin(c, b)
         /\ b \subseteq Inner(c) /\ Inner(c) \cap c.mask = {} /\ c.bits \subseteq c.mask
         /\ OnWay(c, ChildOf(c, b)) /\ ChildOf(c, b).bits \subseteq ChildOf(c, b).mask
         /\ ChildOf(c, b).bits \cap Inner(c) = b
<1>1. /\ ChildOf(c, b).mask = c.mask \cup Inner(c) /\ ChildOf(c, b).bits = c.bits \cup b
      /\ ChildOf(c, b).pats = Bin(c, b)
  BY DEF ChildOf, Call
<1>2. b \subseteq Inner(c) /\ Inner(c) \cap c.mask = {} /\ c.bits \subseteq c.mask
  BY DEF Bins, Inner, WayInv
<1>. QED  BY <1>1, <1>2 DEF OnWay

(* A call that splits into its bins keeps places told apart.               *)
LEMMA SplitKeeps ==
  ASSUME WayInv, TellInv, RootInv, NEW c \in calls, Inner(c) # {}, Bins(c) # {},
         nodes' = nodes \cup {NodeOf(c)}, leaves' = leaves,
         calls' = (calls \ {c}) \cup {ChildOf(c, b) : b \in Bins(c)}
  PROVE  TellInv' /\ RootInv'
<1>. DEFINE new == {NodeOf(c)} \cup {ChildOf(c, b) : b \in Bins(c)}
<1>1. /\ NodeOf(c).mask = c.mask /\ NodeOf(c).bits = c.bits /\ NodeOf(c).this = Inner(c)
      /\ c.bits \subseteq c.mask
  BY DEF NodeOf, WayInv
<1>2. OnWay(c, NodeOf(c)) /\ OnWay(NodeOf(c), NodeOf(c))
  BY <1>1 DEF OnWay
<1>3. \A y : (OnWay(c, y) <=> OnWay(NodeOf(c), y)) /\ (Tells(c, y) <=> Tells(NodeOf(c), y))
  BY <1>1 DEF OnWay, Tells
<1>4. \A b \in Bins(c) : OnWay(c, ChildOf(c, b)) /\ OnWay(NodeOf(c), ChildOf(c, b))
                         /\ Tested(NodeOf(c), ChildOf(c, b)) /\ OnWay(ChildOf(c, b), ChildOf(c, b))
  <2>1. TAKE b \in Bins(c)
  <2>2. OnWay(c, ChildOf(c, b)) /\ Inner(c) \subseteq ChildOf(c, b).mask
    BY ChildPath
  <2>3. OnWay(ChildOf(c, b), ChildOf(c, b))
    BY ChildPath DEF OnWay
  <2>. QED  BY <1>1, <1>3, <2>2, <2>3 DEF Tested
<1>5. (\A x \in new : OnWay(c, x)) /\ (\E r \in new : \A x \in new : OnWay(r, x))
  BY <1>2, <1>4
<1>6. calls' \cup Tree' = Others(c) \cup new
  BY DEF Others, Tree
<1>7. \A n \in nodes \cup {Top} : RootedAt(n)'
  <2>. HIDE DEF new
  <2>. QED  BY <1>5, <1>6, RootsKept DEF RootInv
<1>8. \A y \in Others(c) : ~ Tested(NodeOf(c), y)
  BY <1>3, NothingBelow DEF Tested
<1>9. ~ Tested(NodeOf(c), NodeOf(c))
  <2>1. Inner(c) \cap c.mask = {}
    BY DEF Inner
  <2>. QED  BY <1>1, <2>1 DEF Tested
<1>10. \A x \in calls' \cup Tree' : Tested(NodeOf(c), x) => \E b \in Bins(c) : x = ChildOf(c, b)
  BY <1>6, <1>8, <1>9
<1>11. \A a, b \in Bins(c) : SameCase(NodeOf(c), ChildOf(c, a), ChildOf(c, b)) => a = b
  <2>1. TAKE a, b \in Bins(c)
  <2>2. ChildOf(c, a).bits \cap Inner(c) = a /\ ChildOf(c, b).bits \cap Inner(c) = b
    BY ChildPath
  <2>. QED  BY <1>1, <2>2 DEF SameCase
<1>12. RootedAt(NodeOf(c))'
  <2>1. SUFFICES ASSUME NEW x \in calls' \cup Tree', Tested(NodeOf(c), x)
                 PROVE  \E r \in calls' \cup Tree' :
                          /\ SameCase(NodeOf(c), r, x)
                          /\ \A y \in calls' \cup Tree' : SameCase(NodeOf(c), y, x) => OnWay(r, y)
    BY DEF RootedAt, NodeOf, SameCase, Tested, OnWay, Inner
  <2>2. SameCase(NodeOf(c), x, x)
    BY <2>1, CaseEquivalence
  <2>3. \A y \in calls' \cup Tree' : SameCase(NodeOf(c), y, x) => y = x
    BY <1>10, <1>11, <2>1, CaseEquivalence
  <2>4. OnWay(x, x)
    BY <1>4, <1>10, <2>1
  <2>. QED  BY <2>2, <2>3, <2>4
<1>13. RootInv'
  BY <1>7, <1>12 DEF RootInv, NodeOf, Top
<1>14. \A y \in Others(c) : Tells(c, y) \/ (y \in nodes /\ Tested(y, c))
  BY NothingBelow
<1>15. \A b \in Bins(c) : \A y :
         /\ (Tells(c, y) => Tells(ChildOf(c, b), y) /\ Tells(y, ChildOf(c, b)))
         /\ (Tested(y, c) => Tested(y, ChildOf(c, b)))
  BY <1>4, BelowKeeps, TellsSymmetric
<1>16. \A a, b \in Bins(c) : a # b => Tells(ChildOf(c, a), ChildOf(c, b))
  <2>1. TAKE a, b \in Bins(c)
  <2>2. HAVE a # b
  <2>3. PICK i \in Inner(c) : (i \in a) # (i \in b)
    <3>1. a \subseteq Inner(c) /\ b \subseteq Inner(c)
      BY DEF Bins
    <3>. QED  BY <2>2, <3>1
  <2>4. \A e \in Bins(c) : i \in ChildOf(c, e).mask /\ (i \in ChildOf(c, e).bits <=> i \in e)
    <3>1. TAKE e \in Bins(c)
    <3>2. ChildOf(c, e).bits \cap Inner(c) = e /\ ChildOf(c, e).mask = c.mask \cup Inner(c)
      BY ChildPath
    <3>. QED  BY <2>3, <3>2
  <2>. QED  BY <2>3, <2>4 DEF Tells
<1>17. \A d \in calls' : d \in calls \ {c} \/ \E b \in Bins(c) : d = ChildOf(c, b)
  OBVIOUS
<1>18. \A d \in calls \ {c} : Tells(c, d)
  BY DEF TellInv
<1>19. \A l \in leaves : Tells(c, l)
  BY DEF TellInv
<1>20. \A d, e \in calls' : d # e => Tells(d, e)
  BY <1>15, <1>16, <1>17, <1>18 DEF TellInv
<1>21. \A d \in calls', l \in leaves : Tells(d, l)
  BY <1>15, <1>17, <1>19 DEF TellInv
<1>22. \A n \in nodes, x \in calls' \cup leaves' : Tested(n, x) \/ Tells(n, x)
  <2>1. \A n \in nodes : Tested(n, c) \/ Tells(n, c)
    BY DEF TellInv
  <2>2. \A n \in nodes, b \in Bins(c) : Tested(n, ChildOf(c, b)) \/ Tells(n, ChildOf(c, b))
    BY <1>15, <2>1, TellsSymmetric
  <2>. QED  BY <1>17, <2>2 DEF TellInv
<1>23. \A x \in calls' \cup leaves' : Tested(NodeOf(c), x) \/ Tells(NodeOf(c), x)
  BY <1>3, <1>4, <1>17, <1>18, <1>19
<1>24. \A n \in nodes' : \E x \in calls' \cup leaves' : Tested(n, x)
  <2>1. PICK b \in Bins(c) : TRUE
    OBVIOUS
  <2>2. ChildOf(c, b) \in calls' /\ Tested(NodeOf(c), ChildOf(c, b))
    BY <1>4
  <2>3. ASSUME NEW n \in nodes PROVE \E x \in calls' \cup leaves' : Tested(n, x)
    <3>1. PICK y \in calls \cup leaves : Tested(n, y)
      BY <2>3 DEF TellInv
    <3>2. y # c => y \in calls' \cup leaves'
      OBVIOUS
    <3>3. y = c => Tested(n, ChildOf(c, b))
      BY <1>15, <3>1
    <3>. QED  BY <2>2, <3>1, <3>2, <3>3
  <2>. QED  BY <2>2, <2>3
<1>. QED  BY <1>13, <1>20, <1>21, <1>22, <1>23, <1>24 DEF TellInv

(* What the operations of build_size_tree keep. *)
BuildInv == SizeTypeOK /\ WayInv /\ ItemInv /\ TellInv /\ RootInv

(* The types of a call.                                                    *)
LEMMA CallFacts ==
  ASSUME SizeTypeOK, NEW c \in calls
  PROVE  /\ c.pats \subseteq items /\ IsFiniteSet(c.pats)
         /\ c.width \in Int /\ c.bits \subseteq Int /\ c.mask \subseteq Int
         /\ Inner(c) \subseteq Int /\ \A p \in c.pats : Inner(c) \subseteq p.fixed
         /\ IsFiniteSet(Widths(c)) /\ IsFiniteSet(Bins(c))
<1>1. /\ c.pats \subseteq items /\ c.width \in Int /\ c.bits \subseteq Int /\ c.mask \subseteq Int
  BY DEF SizeTypeOK
<1>2. IsFiniteSet(c.pats)
  BY <1>1, FS_Subset DEF SizeTypeOK
<1>3. Inner(c) \subseteq Int /\ \A p \in c.pats : Inner(c) \subseteq p.fixed
  BY <1>1, WidthAssumption DEF Inner
<1>4. IsFiniteSet(Widths(c))
  <2>. DEFINE f == [p \in c.pats |-> p.width]
  <2>1. f \in Surjection(c.pats, Widths(c))
    BY DEF Widths, Surjection
  <2>. QED  BY <1>2, <2>1, FS_Surjection
<1>5. IsFiniteSet(Bins(c))
  <2>. DEFINE f == [p \in c.pats |-> p.ones \cap Inner(c)]
  <2>1. f \in Surjection(c.pats, Bins(c))
    BY DEF Bins, Surjection
  <2>. QED  BY <1>2, <2>1, FS_Surjection
<1>. QED  BY <1>1, <1>2, <1>3, <1>4, <1>5

(* Making a leaf keeps the invariant of the size tree.                     *)
LEMMA LeafMade ==
  ASSUME BuildInv, NEW c \in calls, MakeLeaf(c), UNCHANGED memory
  PROVE  BuildInv' /\ sizing' = sizing
<1>. USE DEF BuildInv
<1>. DEFINE w == Max(Widths(c))
            leaf == [bits |-> c.bits, mask |-> c.mask, width |-> w]
<1>1. /\ leaves' = leaves \cup {leaf} /\ calls' = calls \ {c} /\ nodes' = nodes
      /\ sizing' = sizing /\ items' = items /\ read' = read /\ OneWidth(c)
  BY DEF MakeLeaf, Replace, memory
<1>2. \E x : Widths(c) = {x}
  BY <1>1, CallFacts, FS_Singleton DEF OneWidth
<1>3. \A p \in c.pats : p.width = w
  BY <1>2 DEF Widths, Max
<1>4. PICK q \in c.pats : TRUE
  BY <1>2 DEF Widths
<1>5. /\ leaf.bits = c.bits /\ leaf.mask = c.mask /\ leaf.width = w
      /\ w \in Nat /\ c.mask \subseteq 0 .. w - 1 /\ c.bits \subseteq c.mask
  BY <1>3, <1>4, CallFacts DEF SizeTypeOK, WayInv
<1>6. leaf \in [bits : SUBSET Int, mask : SUBSET Int, width : Nat]
  BY <1>5, CallFacts
<1>. HIDE DEF leaf, w
<1>7. SizeTypeOK'
  BY <1>1, <1>6 DEF SizeTypeOK
<1>8. WayInv'
  BY <1>1, <1>5 DEF WayInv
<1>9. ItemInv'
  <2>1. \A p \in c.pats : LeafOf(leaf, p)
    BY <1>3, <1>5 DEF LeafOf, WayInv
  <2>. QED  BY <1>1, <2>1 DEF ItemInv
<1>10. TellInv' /\ RootInv'
  <2>1. OnWay(c, leaf) /\ leaf.bits \subseteq leaf.mask
    BY <1>5 DEF OnWay
  <2>. QED  BY <1>1, <2>1, OneForOne
<1>. QED  BY <1>1, <1>7, <1>8, <1>9, <1>10

(* Going on with one call for another keeps the invariant of the size      *)
(* tree.                                                                   *)
LEMMA CallReplaced ==
  ASSUME BuildInv, NEW c \in calls, NEW width \in Int, NEW bits \in SUBSET Int, NEW mask \in SUBSET Int,
         calls' = (calls \ {c}) \cup {Call(c.pats, width, bits, mask)},
         nodes' = nodes, leaves' = leaves, sizing' = sizing, UNCHANGED memory,
         bits \subseteq mask, c.mask \subseteq mask, bits \cap c.mask = c.bits,
         \A p \in c.pats : mask \subseteq p.fixed /\ bits = p.ones \cap mask
  PROVE  BuildInv' /\ sizing' = sizing
<1>. USE DEF BuildInv
<1>. DEFINE x == Call(c.pats, width, bits, mask)
<1>1. x.pats = c.pats /\ x.width = width /\ x.bits = bits /\ x.mask = mask
  BY DEF Call
<1>2. items' = items /\ read' = read
  BY DEF memory
<1>3. x \in [pats : SUBSET items, width : Int, bits : SUBSET Int, mask : SUBSET Int]
  BY CallFacts DEF Call
<1>4. calls' = (calls \ {c}) \cup {x}
  OBVIOUS
<1>. HIDE DEF x
<1>5. SizeTypeOK'
  BY <1>2, <1>3, <1>4 DEF SizeTypeOK
<1>6. WayInv'
  BY <1>1, <1>4 DEF WayInv
<1>7. ItemInv'
  BY <1>1, <1>2, <1>4 DEF ItemInv
<1>8. TellInv' /\ RootInv'
  <2>1. OnWay(c, x) /\ x.bits \subseteq x.mask
    BY <1>1 DEF OnWay
  <2>. QED  BY <1>4, <2>1, OneForOne
<1>. QED  BY <1>5, <1>6, <1>7, <1>8

(* Going to the next byte keeps the invariant of the size tree.            *)
LEMMA ByteSkipped ==
  ASSUME BuildInv, NEW c \in calls, NextByte(c), UNCHANGED memory
  PROVE  BuildInv' /\ sizing' = sizing
<1>1. /\ calls' = (calls \ {c}) \cup {Call(c.pats, Wider(c), c.bits, c.mask)}
      /\ nodes' = nodes /\ leaves' = leaves /\ sizing' = sizing
  BY DEF NextByte, Replace
<1>2. Wider(c) \in Int /\ c.bits \in SUBSET Int /\ c.mask \in SUBSET Int
  BY CallFacts, WidthAssumption DEF BuildInv, Wider
<1>3. c.bits \subseteq c.mask /\ \A p \in c.pats : c.mask \subseteq p.fixed /\ c.bits = p.ones \cap c.mask
  BY DEF BuildInv, WayInv
<1>4. c.bits \cap c.mask = c.bits
  BY <1>3
<1>. QED  BY <1>1, <1>2, <1>3, <1>4, CallReplaced

(* A single bin keeps the invariant of the size tree.                      *)
LEMMA BinSingle ==
  ASSUME BuildInv, NEW c \in calls, SingleBin(c), UNCHANGED memory
  PROVE  BuildInv' /\ sizing' = sizing
<1>. DEFINE mask == c.mask \cup Inner(c)
<1>1. PICK b \in Bins(c) : calls' = (calls \ {c}) \cup {Call(c.pats, Wider(c), c.bits \cup b, mask)}
  BY DEF SingleBin, Replace
<1>2. nodes' = nodes /\ leaves' = leaves /\ sizing' = sizing /\ Cardinality(Bins(c)) = 1
  BY DEF SingleBin
<1>3. \A p \in c.pats : p.ones \cap Inner(c) = b
  <2>1. \E x : Bins(c) = {x}
    BY <1>2, CallFacts, FS_Singleton DEF BuildInv
  <2>. QED  BY <2>1 DEF Bins
<1>4. Wider(c) \in Int /\ c.bits \cup b \in SUBSET Int /\ mask \in SUBSET Int
  <2>1. c.width \in Int /\ c.bits \subseteq Int /\ c.mask \subseteq Int /\ Inner(c) \subseteq Int
    BY CallFacts DEF BuildInv
  <2>2. b \subseteq Inner(c)
    BY DEF Bins
  <2>3. ByteBits \in Int
    BY WidthAssumption
  <2>. QED  BY <2>1, <2>2, <2>3 DEF Wider
<1>5. /\ b \subseteq Inner(c) /\ Inner(c) \cap c.mask = {} /\ c.bits \subseteq c.mask
  BY ChildPath DEF BuildInv
<1>6. \A p \in c.pats : mask \subseteq p.fixed /\ c.bits \cup b = p.ones \cap mask
  BY <1>3, CallFacts DEF BuildInv, WayInv
<1>7. c.bits \cup b \subseteq mask /\ c.mask \subseteq mask /\ (c.bits \cup b) \cap c.mask = c.bits
  BY <1>5
<1>. HIDE DEF mask
<1>. QED  BY <1>1, <1>2, <1>4, <1>6, <1>7, CallReplaced

(* Making a node keeps the invariant of the size tree.                     *)
LEMMA NodeMade ==
  ASSUME BuildInv, NEW c \in calls, Split(c), UNCHANGED memory
  PROVE  BuildInv' /\ sizing' = sizing
<1>. USE DEF BuildInv
<1>1. /\ Inner(c) # {} /\ nodes' = nodes \cup {NodeOf(c)} /\ leaves' = leaves
      /\ calls' = (calls \ {c}) \cup {ChildOf(c, b) : b \in Bins(c)}
      /\ sizing' = sizing /\ items' = items /\ read' = read
  BY DEF Split, Replace, NodeOf, ChildOf, memory
<1>2. Bins(c) # {}
  <2>1. Cardinality({}) = 0
    BY FS_EmptySet
  <2>2. Cardinality(Bins(c)) > 1
    BY DEF Split
  <2>. QED  BY <2>1, <2>2
<1>3. NodeOf(c) \in [bits : SUBSET Int, mask : SUBSET Int, this : SUBSET Int, width : Int]
  BY CallFacts DEF NodeOf
<1>4. \A b \in Bins(c) :
        ChildOf(c, b) \in [pats : SUBSET items, width : Int, bits : SUBSET Int, mask : SUBSET Int]
  BY CallFacts DEF ChildOf, Call, Bin, Bins
<1>5. SizeTypeOK'
  BY <1>1, <1>3, <1>4 DEF SizeTypeOK
<1>6. \A b \in Bins(c) : \A p \in Bin(c, b) :
        p \in c.pats /\ c.mask \cup Inner(c) \subseteq p.fixed /\ c.bits \cup b = p.ones \cap (c.mask \cup Inner(c))
  BY CallFacts DEF Bin, WayInv
<1>7. WayInv'
  <2>1. \A d \in calls' : d \in calls \/ \E b \in Bins(c) : d = ChildOf(c, b)
    BY <1>1
  <2>2. \A b \in Bins(c) : ChildOf(c, b).bits \subseteq ChildOf(c, b).mask
    BY ChildPath
  <2>3. \A b \in Bins(c) : \A p \in ChildOf(c, b).pats :
          ChildOf(c, b).mask \subseteq p.fixed /\ ChildOf(c, b).bits = p.ones \cap ChildOf(c, b).mask
    <3>1. TAKE b \in Bins(c)
    <3>2. /\ ChildOf(c, b).mask = c.mask \cup Inner(c) /\ ChildOf(c, b).bits = c.bits \cup b
          /\ ChildOf(c, b).pats = Bin(c, b)
      BY ChildPath
    <3>. QED  BY <1>6, <3>2
  <2>4. NodeOf(c).bits \subseteq NodeOf(c).mask /\ NodeOf(c).this = Inner(c) /\ NodeOf(c).mask = c.mask
    BY DEF NodeOf, WayInv
  <2>5. Inner(c) \cap c.mask = {}
    BY DEF Inner
  <2>. QED  BY <1>1, <2>1, <2>2, <2>3, <2>4, <2>5 DEF WayInv
<1>8. ItemInv'
  <2>1. \A p \in c.pats : \E b \in Bins(c) : p \in ChildOf(c, b).pats
    BY DEF Bins, Bin, ChildOf, Call
  <2>2. ASSUME NEW p \in items, NEW d \in calls, p \in d.pats
        PROVE  \E e \in calls' : p \in e.pats
    BY <1>1, <2>1, <2>2
  <2>. QED  BY <1>1, <2>2 DEF ItemInv
<1>9. TellInv' /\ RootInv'
  BY <1>1, <1>2, SplitKeeps
<1>. QED  BY <1>1, <1>5, <1>7, <1>8, <1>9

(* Every node is given the least width below it. *)
LEMMA WidthFits ==
  ASSUME BuildInv, calls = {}, NEW n \in nodes
  PROVE  /\ WidthAt(n) \in Nat /\ n.this \subseteq 0 .. WidthAt(n) - 1
         /\ \A l \in Under(n) : WidthAt(n) <= l.width
<1>. USE DEF BuildInv
<1>. DEFINE S == {l.width : l \in Under(n)}
<1>1. \A l \in Under(n) : l \in leaves /\ l.width \in Nat /\ Tested(n, l)
  BY WayNotTold DEF Under, TellInv, SizeTypeOK
<1>2. Under(n) # {}
  BY DEF TellInv, Under, Tested
<1>3. S \subseteq Nat /\ S # {}
  BY <1>1, <1>2
<1>4. Min(S) \in S /\ \A w \in S : Min(S) <= w
  <2>. HIDE DEF S
  <2>. QED  BY <1>3, LeastWidth
<1>5. WidthAt(n) = Min(S)
  BY DEF WidthAt
<1>6. PICK l \in Under(n) : WidthAt(n) = l.width
  BY <1>4, <1>5
<1>7. n.this \subseteq 0 .. WidthAt(n) - 1
  BY <1>1, <1>6 DEF Tested, WayInv
<1>. QED  BY <1>1, <1>4, <1>5, <1>6, <1>7

(* Propagating the widths keeps the invariant and leaves the nodes with    *)
(* the right widths.                                                       *)
LEMMA SizesPropagated ==
  ASSUME BuildInv, calls = {}, calls' = calls, leaves' = leaves, UNCHANGED memory,
         nodes' = {[n EXCEPT !.width = WidthAt(n)] : n \in nodes},
         sizing' \in {"none", "build", "built", "overlap"}
  PROVE  BuildInv' /\ WidthInv'
<1>. USE DEF BuildInv
<1>. DEFINE wide(n) == [n EXCEPT !.width = WidthAt(n)]
<1>1. items' = items /\ read' = read
  BY DEF memory
<1>2. ASSUME NEW n \in nodes
      PROVE  /\ wide(n) \in [bits : SUBSET Int, mask : SUBSET Int, this : SUBSET Int, width : Int]
             /\ wide(n).mask = n.mask /\ wide(n).bits = n.bits /\ wide(n).this = n.this
             /\ wide(n).width = WidthAt(n)
  BY <1>2, WidthFits DEF SizeTypeOK
<1>3. \A m \in nodes' : \E n \in nodes : m = wide(n)
  OBVIOUS
<1>4. \A n \in nodes : wide(n) \in nodes'
  OBVIOUS
<1>. HIDE DEF wide
<1>5. SizeTypeOK'
  BY <1>1, <1>2, <1>3 DEF SizeTypeOK
<1>6. WayInv'
  BY <1>2, <1>3 DEF WayInv
<1>7. ItemInv'
  BY <1>1 DEF ItemInv
<1>8. \A n \in nodes : \A x : /\ (Tested(wide(n), x) <=> Tested(n, x)) /\ (Tells(wide(n), x) <=> Tells(n, x))
                          /\ (OnWay(wide(n), x) <=> OnWay(n, x))
  BY <1>2 DEF Tested, Tells, OnWay
<1>9. TellInv'
  BY <1>3, <1>8 DEF TellInv
<1>10. WidthInv'
  <2>1. SUFFICES ASSUME NEW m \in nodes'
                 PROVE  /\ m.width \in Nat /\ m.this \subseteq 0 .. m.width - 1
                        /\ \A l \in Under(m)' : m.width <= l.width
    BY DEF WidthInv
  <2>2. PICK n \in nodes : m = wide(n)
    BY <1>3
  <2>3. \A l \in Under(m)' : l \in Under(n)
    BY <1>8, <2>2 DEF Under
  <2>. QED  BY <1>2, <2>2, <2>3, WidthFits
<1>. DEFINE P == calls \cup Tree
            Q == calls' \cup Tree'
            Like(x, y) == x.mask = y.mask /\ x.bits = y.bits
<1>11. /\ \A x \in Q : \E y \in P : Like(x, y)
       /\ \A y \in P : \E x \in Q : Like(x, y)
  BY <1>2, <1>3, <1>4 DEF Tree
<1>12. ASSUME NEW n, RootedAt(n)
       PROVE  \A x \in Q : Tested(n, x) =>
                \E r \in Q : SameCase(n, r, x) /\ \A y \in Q : SameCase(n, y, x) => OnWay(r, y)
  <2>1. TAKE x \in Q
  <2>2. HAVE Tested(n, x)
  <2>3. PICK v \in P : Like(x, v)
    BY <1>11
  <2>4. Tested(n, v)
    BY <2>2, <2>3 DEF Tested, OnWay
  <2>5. PICK s \in P : SameCase(n, s, v) /\ \A y \in P : SameCase(n, y, v) => OnWay(s, y)
    BY <1>12, <2>4 DEF RootedAt
  <2>6. PICK r \in Q : Like(r, s)
    BY <1>11
  <2>7. SameCase(n, r, x)
    BY <2>3, <2>5, <2>6 DEF SameCase, Tested, OnWay
  <2>8. ASSUME NEW y \in Q, SameCase(n, y, x)
        PROVE  OnWay(r, y)
    <3>1. PICK z \in P : Like(y, z)
      BY <1>11
    <3>2. SameCase(n, z, v)
      BY <2>3, <2>8, <3>1 DEF SameCase, Tested, OnWay
    <3>. QED  BY <2>5, <2>6, <3>1, <3>2 DEF OnWay
  <2>. QED  BY <2>7, <2>8
<1>13. RootInv'
  <2>1. \A n : RootedAt(n) => RootedAt(n)'
    BY <1>12 DEF RootedAt
  <2>2. \A n \in nodes \cup {Top} : RootedAt(n)'
    BY <2>1 DEF RootInv
  <2>3. ASSUME NEW m \in nodes'
        PROVE  RootedAt(m)'
    <3>1. PICK n \in nodes : m = wide(n)
      BY <1>3
    <3>2. \A x, y : (Tested(m, x) <=> Tested(n, x)) /\ (SameCase(m, x, y) <=> SameCase(n, x, y))
      BY <1>2, <1>8, <3>1 DEF SameCase
    <3>3. RootedAt(n)'
      BY <2>2
    <3>. QED  BY <3>2, <3>3 DEF RootedAt
  <2>. QED  BY <2>2, <2>3 DEF RootInv, Top
<1>. QED  BY <1>5, <1>6, <1>7, <1>9, <1>10, <1>13

-----------------------------------------------------------------------------
(* The load function. *)
LEMMA TreeKept ==
  ASSUME SizeInv, UNCHANGED <<items, calls, nodes, leaves, sizing>>, read' \in Nat, WalkInv'
  PROVE  SizeInv'
<1>1. /\ WayInv <=> WayInv'
      /\ ItemInv <=> ItemInv'
      /\ TellInv <=> TellInv'
      /\ RootInv <=> RootInv'
      /\ WidthInv <=> WidthInv'
  BY DEF WayInv, ItemInv, TellInv, RootInv, RootedAt, WidthInv, Under, Tree
<1>2. SizeTypeOK'
  BY DEF SizeInv, SizeTypeOK
<1>. QED  BY <1>1, <1>2 DEF SizeInv

(* The larger of two numbers.                                              *)
LEMMA LargerOfTwo ==
  ASSUME NEW a \in Nat, NEW b \in Nat
  PROVE  Max({a, b}) = IF a <= b THEN b ELSE a
<1>1. \A x \in {a, b} : (\A y \in {a, b} : x >= y) <=> x = IF a <= b THEN b ELSE a
  OBVIOUS
<1>2. (IF a <= b THEN b ELSE a) \in {a, b}
  OBVIOUS
<1>. QED  BY <1>1, <1>2 DEF Max

(* In a finished tree a place on the way to a leaf is that leaf, or a node *)
(* with a case for it.                                                     *)
LEMMA WayToLeaf ==
  ASSUME TellInv, NEW x \in Tree, NEW l \in leaves, OnWay(x, l)
  PROVE  x = l \/ (x \in nodes /\ Tested(x, l))
<1>1. ~ Tells(x, l)
  BY WayNotTold
<1>. QED  BY <1>1 DEF TellInv, Tree

(* Starting the load function keeps its invariant.                         *)
LEMMA LoadStep ==
  ASSUME SizeInv, LoadCall(Words)
  PROVE  SizeInv'
<1>1. /\ sizing = "built" /\ reached = {} /\ read = 0 /\ reached' = Root
      /\ UNCHANGED <<items, calls, nodes, leaves, sizing, read>>
  BY DEF LoadCall
<1>2. calls = {} /\ WayInv /\ TellInv /\ RootInv /\ SizeTypeOK
  BY <1>1 DEF SizeInv
<1>3. ASSUME NEW l \in leaves, NEW n \in Root
      PROVE  n = l \/ (n \in nodes /\ Tested(n, l))
  <2>1. \A x : Tested(Top, x) /\ \A y : SameCase(Top, x, y)
    BY DEF Tested, SameCase, OnWay, Top
  <2>2. n \in Tree /\ \A m \in Tree : n.mask \subseteq m.mask
    BY <1>3 DEF Root
  <2>3. PICK r \in Tree : \A y \in Tree : OnWay(r, y)
    <3>1. RootedAt(Top)
      BY <1>2 DEF RootInv
    <3>2. n \in calls \cup Tree /\ Tested(Top, n)
      BY <2>1, <2>2
    <3>3. PICK r \in calls \cup Tree :
            SameCase(Top, r, n) /\ \A y \in calls \cup Tree : SameCase(Top, y, n) => OnWay(r, y)
      BY <3>1, <3>2 DEF RootedAt
    <3>4. \A y \in Tree : OnWay(r, y)
      BY <2>1, <3>3
    <3>5. r \in Tree
      BY <1>2, <3>3
    <3>. QED  BY <3>4, <3>5
  <2>4. n.mask = r.mask /\ n.bits = r.bits
    <3>1. n.mask = r.mask
      BY <2>2, <2>3 DEF OnWay
    <3>2. n.bits \cap r.mask = r.bits
      BY <2>2, <2>3 DEF OnWay
    <3>3. n.bits \subseteq n.mask
      BY <2>2 , <1>2 DEF WayInv, Tree
    <3>. QED  BY <3>1, <3>2, <3>3
  <2>5. OnWay(n, l)
    BY <2>3, <2>4 DEF OnWay, Tree
  <2>. QED  BY <1>2, <2>2, <2>5, WayToLeaf
<1>4. WalkInv'
  <2>1. \A l \in leaves : 0 <= l.width
    BY <1>2 DEF SizeTypeOK
  <2>. QED  BY <1>1, <1>3, <2>1 DEF WalkInv
<1>. QED  BY <1>1, <1>2, <1>4, TreeKept DEF SizeTypeOK

(* Every switch of the load function keeps its invariant.                  *)
LEMMA SwitchStep ==
  ASSUME SizeInv, Switch
  PROVE  SizeInv'
<1>1. PICK n \in reached \cap nodes : LoadBytes(n) /\ reached' = Child(n)
  BY DEF Switch
<1>2. UNCHANGED <<items, calls, nodes, leaves, sizing, mem>>
  BY DEF Switch
<1>3. sizing = "built" /\ calls = {} /\ WayInv /\ TellInv /\ RootInv /\ WidthInv /\ SizeTypeOK /\ WalkInv
  BY <1>1 DEF SizeInv, WalkInv
<1>4. n.width \in Nat /\ read \in Nat /\ read' = IF read <= n.width THEN n.width ELSE read
  BY <1>1, <1>3, LargerOfTwo DEF LoadBytes, WidthInv, SizeTypeOK
<1>5. ASSUME NEW l \in leaves, Fits(l)
      PROVE  /\ read' <= l.width
             /\ reached' # {}
             /\ \A m \in reached' : m = l \/ (m \in nodes /\ Tested(m, l))
  <2>1. Tested(n, l)
    <3>1. n # l
      <4>1. ASSUME n = l PROVE FALSE
        <5>1. ~ Tells(n, l) /\ ~ Tested(n, n)
          BY <1>1, <1>3, <4>1 DEF Tells, Tested, WayInv
        <5>. QED  BY <1>1, <1>3, <4>1, <5>1 DEF TellInv
      <4>. QED  BY <4>1
    <3>. QED  BY <1>1, <1>3, <1>5, <3>1 DEF WalkInv
  <2>2. read' <= l.width
    <3>1. n.width <= l.width
      BY <1>1, <1>3, <2>1 DEF WidthInv, Under, Tested
    <3>2. read <= l.width
      BY <1>3, <1>5 DEF WalkInv
    <3>. QED  BY <1>4, <3>1, <3>2
  <2>3. Case(n, l)
    BY <1>1, <1>3, <1>5, <2>1 DEF Case, Tested, OnWay, Fits
  <2>4. \A x : Case(n, x) <=> SameCase(n, x, l)
    <3>1. n.bits \subseteq n.mask /\ n.this \cap n.mask = {}
      BY <1>1, <1>3 DEF WayInv
    <3>. QED  BY <2>1, <2>3, <3>1 DEF Case, SameCase, Tested, OnWay
  <2>5. PICK r \in Tree : SameCase(n, r, l) /\ \A y \in Tree : SameCase(n, y, l) => OnWay(r, y)
    BY <1>1, <1>3, <2>1 DEF RootInv, RootedAt, Tree
  <2>6. r \in Child(n)
    BY <2>4, <2>5 DEF Child, OnWay
  <2>7. ASSUME NEW m \in Child(n)
        PROVE  m = l \/ (m \in nodes /\ Tested(m, l))
    <3>1. m \in Tree /\ OnWay(r, m) /\ m.mask \subseteq r.mask
      BY <2>4, <2>5 DEF Child
    <3>2. m.mask = r.mask /\ m.bits = r.bits
      <4>1. m.bits \subseteq m.mask
        BY <1>3, <3>1 DEF WayInv, Tree
      <4>. QED  BY <3>1, <4>1 DEF OnWay
    <3>3. OnWay(r, l)
      <4>1. SameCase(n, l, l)
        BY <2>1 DEF SameCase
      <4>. QED  BY <2>5, <4>1 DEF Tree
    <3>4. OnWay(m, l)
      BY <3>2, <3>3 DEF OnWay
    <3>. QED  BY <1>3, <3>1, <3>4, WayToLeaf
  <2>. QED  BY <1>1, <2>2, <2>6, <2>7
<1>6. WalkInv'
  BY <1>2, <1>3, <1>5 DEF WalkInv, Fits
<1>. QED  BY <1>2, <1>4, <1>6, TreeKept

(* Returning keeps what the load function knows.                           *)
LEMMA ReturnStep ==
  ASSUME SizeInv, ReturnInsn
  PROVE  SizeInv'
<1>1. PICK k \in reached \cap leaves : LoadBytes(k)
  BY DEF ReturnInsn
<1>2. reached' = {} /\ UNCHANGED <<items, calls, nodes, leaves, sizing, mem>>
  BY DEF ReturnInsn
<1>3. sizing = "built" /\ WayInv /\ TellInv /\ SizeTypeOK /\ WalkInv
  BY <1>1 DEF SizeInv, WalkInv
<1>4. k.width \in Nat /\ read \in Nat /\ read' = IF read <= k.width THEN k.width ELSE read
  BY <1>1, <1>3, LargerOfTwo DEF LoadBytes, SizeTypeOK
<1>5. ASSUME NEW l \in leaves, Fits(l)
      PROVE  read' = l.width
  <2>1. k = l
    <3>1. k \notin nodes
      <4>1. ASSUME k \in nodes PROVE FALSE
        <5>1. ~ Tells(k, k) /\ ~ Tested(k, k)
          BY <1>3, <4>1 DEF Tells, Tested, WayInv
        <5>. QED  BY <1>1, <1>3, <4>1, <5>1 DEF TellInv
      <4>. QED  BY <4>1
    <3>. QED  BY <1>1, <1>3, <1>5, <3>1 DEF WalkInv
  <2>2. read <= l.width
    BY <1>3, <1>5 DEF WalkInv
  <2>. QED  BY <1>4, <2>1, <2>2
<1>6. \A l \in leaves : l.width <= l.width
  BY <1>3 DEF SizeTypeOK
<1>7. WalkInv'
  BY <1>2, <1>3, <1>5, <1>6 DEF WalkInv, Fits
<1>. QED  BY <1>2, <1>4, <1>7, TreeKept

-----------------------------------------------------------------------------
(* The groups and what the size tree is built from. *)
LEMMA OwnPatterns ==
  ASSUME FileTypeOK, NEW g \in DOMAIN groups
  PROVE  /\ Own(g) \subseteq Pattern /\ IsFiniteSet(Own(g))
         /\ PatternsIn(g) \subseteq Pattern
<1>1. \A h \in DOMAIN groups : Own(h) \subseteq Pattern /\ IsFiniteSet(Own(h))
  <2>1. TAKE h \in DOMAIN groups
  <2>2. groups[h].pats \in Seq(Pattern)
    BY FileTypes
  <2>. DEFINE ps == groups[h].pats
              f == [j \in DOMAIN ps |-> ps[j]]
  <2>3. DOMAIN ps = 1 .. Len(ps) /\ Len(ps) \in Nat /\ \A j \in DOMAIN ps : ps[j] \in Pattern
    <3>. HIDE DEF ps
    <3>1. ps \in Seq(Pattern)
      BY <2>2 DEF ps
    <3>. QED  BY <3>1
  <2>4. f \in Surjection(DOMAIN ps, Own(h))
    BY DEF Own, Surjection
  <2>5. IsFiniteSet(DOMAIN ps)
    BY <2>3, FS_Interval
  <2>6. IsFiniteSet(Own(h))
    BY <2>4, <2>5, FS_Surjection
  <2>. QED  BY <2>3, <2>6 DEF Own
<1>2. Within(g) \subseteq DOMAIN groups
  BY DEF Within
<1>. QED  BY <1>1, <1>2 DEF PatternsIn

(* What is within a group is closed under its subgroups.                   *)
LEMMA WithinClosed ==
  ASSUME NEW g \in DOMAIN groups, \A k \in DOMAIN groups : groups[k].subs \subseteq DOMAIN groups
  PROVE  g \in Within(g) /\ \A k \in Within(g) : groups[k].subs \subseteq Within(g)
BY DEF Within

(* The patterns in a group are its own and those in the groups in it. *)
LEMMA PatternsOfBlocks ==
  ASSUME NEW g \in DOMAIN groups, \A k \in DOMAIN groups : groups[k].subs \subseteq DOMAIN groups,
         NEW p \in PatternsIn(g)
  PROVE  \E ps \in Blocks(g) : p \in ps
<1>. DEFINE X == {g} \cup UNION {Within(h) : h \in groups[g].subs}
<1>1. X \subseteq DOMAIN groups /\ g \in X
  BY DEF Within
<1>2. \A h \in groups[g].subs : h \in X /\ \A k \in Within(h) : groups[k].subs \subseteq X
  BY WithinClosed
<1>3. \A k \in X : groups[k].subs \subseteq X
  BY <1>2
<1>4. Within(g) \subseteq X
  <2>. HIDE DEF X
  <2>. QED  BY <1>1, <1>3 DEF Within
<1>5. PICK k \in Within(g) : p \in Own(k)
  BY DEF PatternsIn
<1>6. CASE k = g
  BY <1>5, <1>6 DEF Blocks
<1>7. CASE k # g
  <2>1. PICK h \in groups[g].subs : k \in Within(h)
    BY <1>4, <1>5, <1>7
  <2>2. p \in PatternsIn(h)
    BY <1>5, <2>1 DEF PatternsIn
  <2>. QED  BY <2>1, <2>2 DEF Blocks
<1>. QED  BY <1>6, <1>7

(* An item fixes what all its patterns fix alike, and is as wide as each. *)
LEMMA ItemFacts ==
  ASSUME NEW ps, ps # {}, ps \subseteq Pattern, SameWidths(ps)
  PROVE  /\ Item(ps).width \in Nat /\ Item(ps).ones \subseteq Item(ps).fixed
         /\ Item(ps).fixed \subseteq 0 .. Item(ps).width - 1
         /\ \A p \in ps : /\ Def[p].width = Item(ps).width
                          /\ Item(ps).fixed \subseteq Def[p].fixed
                          /\ Item(ps).ones = Def[p].ones \cap Item(ps).fixed
<1>. DEFINE q == CHOOSE p \in ps : TRUE
<1>1. q \in ps /\ q \in Pattern
  OBVIOUS
<1>2. Item(ps).fixed = Common(ps) /\ Item(ps).ones = Def[q].ones \cap Common(ps) /\ Item(ps).width = Def[q].width
  BY DEF Item
<1>. HIDE DEF q
<1>3. \A p \in ps : Common(ps) \subseteq Def[p].fixed /\ Def[p].ones \cap Common(ps) = Def[q].ones \cap Common(ps)
  BY <1>1 DEF Common
<1>4. \A p \in ps : Def[p].width = Def[q].width
  BY <1>1 DEF SameWidths
<1>5. Common(ps) \subseteq 0 .. Def[q].width - 1 /\ Def[q].width \in Nat
  BY <1>1, <1>3, DefAssumption
<1>. QED  BY <1>2, <1>3, <1>4, <1>5

(* Subgroups are groups below the root.                                    *)
LEMMA SubsDeeper ==
  ASSUME FileTypeOK, GroupInv
  PROVE  /\ 1 \in DOMAIN groups /\ groups[1].subs \subseteq Nested /\ Nested \subseteq DOMAIN groups
         /\ \A k \in DOMAIN groups : groups[k].subs \subseteq DOMAIN groups
<1>1. DOMAIN groups = 1 .. Len(groups) /\ Len(groups) \in Nat \ {0}
  BY FileTypes
<1>2. \A k \in DOMAIN groups : groups[k].subs \subseteq Nested
  BY DEF GroupInv, Nested
<1>3. Nested \subseteq DOMAIN groups /\ 1 \in DOMAIN groups
  BY <1>1 DEF Nested
<1>. QED  BY <1>2, <1>3

(* The blocks of the file are sets of patterns of one width. *)
LEMMA BlockFacts ==
  ASSUME FileTypeOK, GroupInv, parsing \in {"built", "ready"}, \A g \in Nested : SameWidths(PatternsIn(g))
  PROVE  \A ps \in Blocks(1) : ps # {} /\ ps \subseteq Pattern /\ SameWidths(ps)
<1>1. TAKE ps \in Blocks(1)
<1>2. CASE \E p \in Own(1) : ps = {p}
  <2>1. PICK p \in Own(1) : ps = {p}
    BY <1>2
  <2>. QED  BY <2>1, OwnPatterns, SubsDeeper DEF SameWidths
<1>3. CASE \E h \in groups[1].subs : ps = PatternsIn(h)
  <2>1. PICK h \in groups[1].subs : ps = PatternsIn(h)
    BY <1>3
  <2>2. h \in Nested /\ h \in DOMAIN groups
    BY SubsDeeper
  <2>. QED  BY <2>1, <2>2, OwnPatterns DEF GroupInv
<1>. QED  BY <1>2, <1>3 DEF Blocks

(* A file has finitely many items.                                         *)
LEMMA ItemsFinite ==
  ASSUME FileTypeOK, GroupInv
  PROVE  IsFiniteSet({Item(ps) : ps \in Blocks(1)})
<1>. DEFINE subs == groups[1].subs
            A == {Item({p}) : p \in Own(1)}
            B == {Item(PatternsIn(h)) : h \in subs}
            f == [p \in Own(1) |-> Item({p})]
            g == [h \in subs |-> Item(PatternsIn(h))]
<1>1. IsFiniteSet(Own(1)) /\ subs \subseteq 2 .. Len(groups) /\ Len(groups) \in Nat
  BY OwnPatterns, SubsDeeper, FileTypes DEF Nested
<1>2. IsFiniteSet(subs)
  <2>1. IsFiniteSet(2 .. Len(groups))
    BY <1>1, FS_Interval
  <2>2. subs \in SUBSET (2 .. Len(groups))
    BY <1>1
  <2>. HIDE DEF subs
  <2>. QED  BY <2>1, <2>2, FS_Subset
<1>3. f \in Surjection(Own(1), A) /\ g \in Surjection(subs, B)
  BY DEF Surjection
<1>4. IsFiniteSet(A) /\ IsFiniteSet(B)
  BY <1>1, <1>2, <1>3, FS_Surjection
<1>5. {Item(ps) : ps \in Blocks(1)} = A \cup B
  BY DEF Blocks
<1>6. IsFiniteSet(A \cup B)
  <2>. HIDE DEF A, B
  <2>. QED  BY <1>4, FS_Union
<1>. QED  BY <1>5, <1>6

(* The size tree begins with its invariant.                                *)
LEMMA SizesStart ==
  ASSUME FileTypeOK, GroupInv, SizeInv, PropWidth
  PROVE  SizeInv'
<1>1. parsing = "built" /\ sizing = "none"
  BY DEF PropWidth, GroupInv
<1>2. nodes = {} /\ leaves = {} /\ calls = {} /\ reached = {} /\ read = 0
  BY <1>1 DEF SizeInv, WalkInv
<1>3. UNCHANGED <<nodes, leaves, mem, read, reached>>
  BY DEF PropWidth
<1>4. CASE ~ \A g \in Nested : SameWidths(PatternsIn(g))
  <2>1. UNCHANGED <<items, calls, nodes, leaves, sizing, read, reached, mem>>
    BY <1>3, <1>4 DEF PropWidth
  <2>2. WalkInv' /\ read' \in Nat
    BY <1>1, <1>2, <2>1 DEF WalkInv
  <2>. QED  BY <2>1, <2>2, TreeKept
<1>5. CASE \A g \in Nested : SameWidths(PatternsIn(g))
  <2>. DEFINE its == {Item(ps) : ps \in Blocks(1)}
              c == Call(its, ByteBits, {}, {})
  <2>1. items' = its /\ calls' = {c} /\ sizing' = "build"
    BY <1>5 DEF PropWidth
  <2>2. /\ IsFiniteSet(its)
        /\ \A p \in its : p.width \in Nat /\ p.ones \subseteq p.fixed /\ p.fixed \subseteq 0 .. p.width - 1
    <3>1. \A ps \in Blocks(1) : ps # {} /\ ps \subseteq Pattern /\ SameWidths(ps)
      BY <1>1, <1>5, BlockFacts
    <3>2. IsFiniteSet(its)
      BY ItemsFinite
    <3>. QED  BY <3>1, <3>2, ItemFacts
  <2>3. c.pats = its /\ c.bits = {} /\ c.mask = {} /\ c.width = ByteBits
    BY DEF Call
  <2>4. c \in [pats : SUBSET its, width : Int, bits : SUBSET Int, mask : SUBSET Int]
    BY WidthAssumption DEF Call
  <2>. HIDE DEF its, c
  <2>5. SizeTypeOK'
    BY <1>2, <1>3, <2>1, <2>2, <2>4 DEF SizeTypeOK
  <2>6. WayInv' /\ ItemInv' /\ TellInv'
    BY <1>2, <1>3, <2>1, <2>3 DEF WayInv, ItemInv, TellInv
  <2>7. RootInv'
    <3>1. \A n : Tested(n, c) => SameCase(n, c, c)
      BY DEF SameCase
    <3>2. OnWay(c, c)
      BY <2>3 DEF OnWay
    <3>. QED  BY <1>2, <1>3, <2>1, <3>1, <3>2 DEF RootInv, RootedAt, Tree
  <2>8. WalkInv'
    BY <1>2, <1>3, <2>1 DEF WalkInv
  <2>. QED  BY <2>1, <2>5, <2>6, <2>7, <2>8 DEF SizeInv
<1>. QED  BY <1>4, <1>5

(* Every step that builds the size tree keeps its invariant.               *)
LEMMA BuildStep ==
  ASSUME SizeInv, BuildSizeTree
  PROVE  SizeInv'
<1>1. PICK c \in calls : MakeLeaf(c) \/ NextByte(c) \/ OverlappingSize(c) \/ SingleBin(c) \/ Split(c)
  BY DEF BuildSizeTree
<1>2. UNCHANGED memory /\ UNCHANGED <<mem, read, reached, items>>
  BY DEF BuildSizeTree, memory
<1>3. sizing = "build" /\ BuildInv /\ reached = {} /\ read = 0
  BY <1>1 DEF SizeInv, BuildInv, WalkInv
<1>4. CASE OverlappingSize(c)
  <2>1. sizing' = "overlap" /\ calls' = {} /\ UNCHANGED <<nodes, leaves>>
    BY <1>4 DEF OverlappingSize
  <2>2. SizeTypeOK'
    BY <1>2, <1>3, <2>1 DEF BuildInv, SizeTypeOK
  <2>. QED  BY <1>2, <1>3, <2>1, <2>2 DEF SizeInv, WalkInv
<1>5. CASE ~ OverlappingSize(c)
  <2>1. BuildInv' /\ sizing' = sizing
    BY <1>1, <1>2, <1>3, <1>5, LeafMade, ByteSkipped, BinSingle, NodeMade
  <2>. QED  BY <1>2, <1>3, <2>1 DEF SizeInv, WalkInv, BuildInv
<1>. QED  BY <1>4, <1>5

(* Propagating widths keeps the invariant of the size tree.                *)
LEMMA PropStep ==
  ASSUME SizeInv, PropSize
  PROVE  SizeInv'
<1>1. /\ sizing = "build" /\ calls = {} /\ sizing' = "built" /\ calls' = calls /\ leaves' = leaves
      /\ nodes' = {[n EXCEPT !.width = WidthAt(n)] : n \in nodes}
      /\ UNCHANGED memory /\ UNCHANGED <<mem, read, reached, items>>
  BY DEF PropSize, memory
<1>2. BuildInv /\ reached = {} /\ read = 0
  BY <1>1 DEF SizeInv, BuildInv, WalkInv
<1>3. BuildInv' /\ WidthInv'
  BY <1>1, <1>2, SizesPropagated
<1>4. WalkInv'
  <2>1. \A l \in leaves' : 0 <= l.width
    BY <1>3 DEF BuildInv, SizeTypeOK
  <2>. QED  BY <1>1, <1>2, <2>1 DEF WalkInv
<1>. QED  BY <1>1, <1>3, <1>4 DEF SizeInv, BuildInv

(* Every step keeps the invariant of the size tree.                        *)
LEMMA SizePreserved ==
  ASSUME FileTypeOK, GroupInv, SizeInv, [Next]_vars
  PROVE  SizeInv'
<1>1. CASE PropWidth
  BY <1>1, SizesStart
<1>2. CASE Load
  BY <1>2, LoadStep DEF Load
<1>3. CASE SizeNext
  BY <1>3, BuildStep, PropStep, SwitchStep, ReturnStep DEF SizeNext
<1>4. CASE UNCHANGED sizeVars
  <2>1. UNCHANGED <<items, calls, nodes, leaves, sizing, mem, read, reached>>
    BY <1>4 DEF sizeVars
  <2>2. WalkInv' /\ read' \in Nat
    BY <2>1 DEF SizeInv, WalkInv, Fits, SizeTypeOK
  <2>. QED  BY <2>1, <2>2, TreeKept
<1>. QED
  BY <1>1, <1>2, <1>3, <1>4
  DEF Next, Parse, BadIndent, CommentLine, OpenBrace, CloseBrace, BadClose, PatternLine, EndOfFile,
      Error, rest, BuildTree, Emit, vars

(* The size tree is built once, from groups that do not change any more. *)
LEMMA SizesWait ==
  ASSUME SizeInv, sizing = "none"
  PROVE  ~ SizeNext /\ ~ LoadCall(Words)
BY DEF SizeInv, WalkInv, SizeNext, BuildSizeTree, PropSize, Switch, ReturnInsn, LoadCall

(* A step that changes no group keeps their invariant.                     *)
LEMMA GroupsKept ==
  ASSUME GroupInv, groups' = groups, items' = items,
         parsing' = parsing \/ (parsing # "ready" /\ parsing' \in {"parsed", "error"}),
         sizing' = sizing \/ parsing' = "ready"
  PROVE  GroupInv'
<1>1. /\ \A g : Within(g)' = Within(g) /\ Own(g)' = Own(g)
      /\ Nested' = Nested
  BY DEF Within, Own, Nested
<1>2. \A g : PatternsIn(g)' = PatternsIn(g)
  BY <1>1 DEF PatternsIn
<1>3. {Item(ps) : ps \in Blocks(1)}' = {Item(ps) : ps \in Blocks(1)}
  <2>1. Blocks(1)' = Blocks(1)
    BY <1>1, <1>2 DEF Blocks
  <2>. QED  BY <2>1 DEF Item, Common
<1>4. parsing' # "ready" => sizing' = "none"
  BY DEF GroupInv
<1>. QED  BY <1>1, <1>2, <1>3, <1>4 DEF GroupInv

(* Every step keeps the invariant of the groups.                           *)
LEMMA GroupPreserved ==
  ASSUME FileTypeOK, GroupInv, SizeInv, [Next]_vars
  PROVE  GroupInv'
<1>1. CASE BadIndent \/ BadClose \/ CommentLine \/ CloseBrace \/ EndOfFile
  <2>1. /\ groups' = groups /\ items' = items /\ sizing' = sizing
        /\ parsing' = parsing \/ (parsing # "ready" /\ parsing' \in {"parsed", "error"})
    BY <1>1 DEF BadIndent, BadClose, CommentLine, CloseBrace, EndOfFile, Line, Error, rest, sizeVars
  <2>. QED  BY <2>1, GroupsKept
<1>2. CASE OpenBrace
  <2>1. PICK kind \in Open :
          /\ Line(kind, nesting)
          /\ groups' = Append([groups EXCEPT ![parent].subs = @ \cup {Len(groups) + 1}], NewGroup(kind))
    BY <1>2 DEF OpenBrace
  <2>. DEFINE G == [kind : Open, pats : Seq(Pattern), subs : SUBSET Nat]
              parented == [groups EXCEPT ![parent].subs = @ \cup {Len(groups) + 1}]
  <2>2. /\ Len(groups) \in Nat \ {0} /\ DOMAIN groups = 1 .. Len(groups)
        /\ \A g \in DOMAIN groups : groups[g] \in G /\ groups[g].subs \subseteq 2 .. Len(groups)
    BY FileTypes DEF GroupInv
  <2>3. \A g \in DOMAIN groups : parented[g].subs \subseteq 2 .. Len(groups) + 1
    BY <2>2
  <2>4. parented \in Seq(Range(parented)) /\ Len(parented) = Len(groups)
    <3>1. parented = [g \in 1 .. Len(groups) |-> parented[g]]
      BY <2>2
    <3>. HIDE DEF parented
    <3>. QED  BY <2>2, <3>1 DEF Range
  <2>5. NewGroup(kind).subs = {}
    BY DEF NewGroup
  <2>6. \A g \in DOMAIN groups' : groups'[g].subs \subseteq 2 .. Len(groups')
    <3>. HIDE DEF parented
    <3>1. groups' = Append(parented, NewGroup(kind))
      BY <2>1 DEF parented
    <3>. QED  BY <2>2, <2>3, <2>4, <2>5, <3>1
  <2>7. parsing' = "file" /\ sizing' = sizing /\ parsing = "file"
    BY <1>2, <2>1 DEF OpenBrace, Line, rest, sizeVars
  <2>. QED  BY <2>6, <2>7 DEF GroupInv
<1>3. CASE PatternLine
  <2>1. PICK p \in Pattern : groups' = [groups EXCEPT ![parent].pats = Append(@, p)]
    BY <1>3 DEF PatternLine
  <2>2. /\ parsing' = "file" /\ sizing' = sizing /\ parsing = "file"
    BY <1>3 DEF PatternLine, Line, rest, sizeVars
  <2>3. DOMAIN groups' = DOMAIN groups /\ \A g \in DOMAIN groups : groups'[g].subs = groups[g].subs
    BY <2>1, FileTypes
  <2>4. Len(groups') = Len(groups)
    BY <2>1, FileTypes DEF FileTypeOK
  <2>. QED  BY <2>2, <2>3, <2>4 DEF GroupInv
<1>4. CASE BuildTree
  <2>1. /\ groups' = groups /\ items' = items /\ sizing' = sizing /\ parsing = "parsed"
        /\ parsing' \in {"built", "error"}
        /\ parsing' = "built" => \A g \in DOMAIN groups : PatternsIn(g) # {}
    BY <1>4 DEF BuildTree, rest, sizeVars
  <2>2. \A g : PatternsIn(g)' = PatternsIn(g)
    BY <2>1 DEF PatternsIn, Within, Own
  <2>. QED  BY <2>1, <2>2 DEF GroupInv
<1>5. CASE PropWidth
  <2>1. groups' = groups /\ parsing = "built"
    BY <1>5 DEF PropWidth
  <2>2. \A g : PatternsIn(g)' = PatternsIn(g)
    BY <2>1 DEF PatternsIn, Within, Own
  <2>3. Nested' = Nested
    BY <2>1 DEF Nested
  <2>4. {Item(ps) : ps \in Blocks(1)}' = {Item(ps) : ps \in Blocks(1)}
    <3>1. Blocks(1)' = Blocks(1)
      BY <2>1, <2>2 DEF Blocks, Own
    <3>. QED  BY <3>1 DEF Item, Common
  <2>5. CASE \A g \in Nested : SameWidths(PatternsIn(g))
    <3>1. parsing' = "ready" /\ items' = {Item(ps) : ps \in Blocks(1)}
      BY <1>5, <2>5 DEF PropWidth
    <3>. QED  BY <2>1, <2>2, <2>3, <2>4, <2>5, <3>1 DEF GroupInv
  <2>6. CASE ~ \A g \in Nested : SameWidths(PatternsIn(g))
    <3>1. parsing' = "error" /\ sizing' = sizing
      BY <1>5, <2>6 DEF PropWidth
    <3>. QED  BY <2>1, <3>1 DEF GroupInv
  <2>. QED  BY <2>5, <2>6
<1>6. CASE SizeNext /\ UNCHANGED <<fileVars, orderVars>>
  <2>1. parsing = "ready" /\ parsing' = parsing /\ groups' = groups
    BY <1>6, SizesWait DEF GroupInv, fileVars
  <2>2. items' = items
    BY <1>6 DEF SizeNext, BuildSizeTree, PropSize, memory, Switch, ReturnInsn
  <2>. QED  BY <2>1, <2>2, GroupsKept
<1>7. CASE Load
  <2>1. groups' = groups /\ items' = items /\ sizing' = sizing /\ parsing' = parsing
    BY <1>7 DEF Load, LoadCall, fileVars
  <2>. QED  BY <2>1, GroupsKept
<1>8. CASE UNCHANGED <<fileVars, sizeVars>>
  <2>1. groups' = groups /\ items' = items /\ sizing' = sizing /\ parsing' = parsing
    BY <1>8 DEF fileVars, sizeVars
  <2>. QED  BY <2>1, GroupsKept
<1>. QED
  BY <1>1, <1>2, <1>3, <1>4, <1>5, <1>6, <1>7, <1>8 DEF Next, Parse, Emit, vars

(* The inductive invariant of a run on a file of instructions of several   *)
(* widths: FileInv, OrderInv, and for the size tree that two of its leaves *)
(* are told apart on the way to them, that every item keeps its leaf, that *)
(* every case of a node leads to a root of all that is in it, and that the *)
(* load function is on the way to every leaf that fits the word.           *)
THEOREM DecodeFileInvariant == Spec => []DecodeFileInv
<1>1. Init => GroupInv /\ SizeInv
  <2>1. SUFFICES ASSUME Init PROVE GroupInv /\ SizeInv
    OBVIOUS
  <2>2. /\ groups = <<NewGroup("[")>> /\ parsing = "file"
        /\ items = {} /\ calls = {} /\ nodes = {} /\ leaves = {} /\ sizing = "none"
        /\ mem = {} /\ read = 0 /\ reached = {}
    BY <2>1 DEF Init, SizeInit
  <2>3. SizeTypeOK
    BY <2>2, FS_EmptySet DEF SizeTypeOK
  <2>4. GroupInv
    BY <2>2 DEF GroupInv, NewGroup
  <2>. QED  BY <2>2, <2>3, <2>4 DEF SizeInv, WalkInv
<1>2. FileTypeOK /\ GroupInv /\ SizeInv /\ [Next]_vars => (GroupInv /\ SizeInv)'
  BY GroupPreserved, SizePreserved
<1>3. FileInv => FileTypeOK
  BY DEF FileInv
<1>4. FileInv /\ OrderInv /\ GroupInv /\ SizeInv => DecodeFileInv
  BY DEF DecodeFileInv
<1>. QED  BY <1>1, <1>2, <1>3, <1>4, FileInvariant, OrderInvariant, PTL DEF Spec

(* Whatever the patterns, their widths and their groups: the load function *)
(* of a file that is accepted reads the pattern that the word in memory    *)
(* matches to its end and never past it, on no way through the size tree,  *)
(* and no node tests what it has not loaded. build_size_tree, prop_size,   *)
(* SizeTree.output_code.                                                   *)
THEOREM LoadExactAlways == Spec => []LoadExact
<1>1. DecodeFileInv => LoadExact
  <2>1. SUFFICES ASSUME DecodeFileInv, sizing = "built"
                 PROVE  /\ \A p \in PatternsIn(1) : Matches(p) =>
                             /\ read <= Def[p].width
                             /\ reached = {} /\ read > 0 => read = Def[p].width
                        /\ \A n \in nodes : n.this \subseteq 0 .. n.width - 1
    BY DEF LoadExact
  <2>2. FileTypeOK /\ GroupInv /\ SizeInv /\ WalkInv /\ WidthInv /\ ItemInv /\ calls = {} /\ parsing = "ready"
    BY <2>1 DEF DecodeFileInv, FileInv, SizeInv, GroupInv
  <2>3. /\ \A g \in Nested : SameWidths(PatternsIn(g))
        /\ items = {Item(ps) : ps \in Blocks(1)}
    BY <2>2 DEF GroupInv
  <2>4. ASSUME NEW p \in PatternsIn(1), Matches(p)
        PROVE  /\ read <= Def[p].width
               /\ reached = {} /\ read > 0 => read = Def[p].width
    <3>1. PICK ps \in Blocks(1) : p \in ps
      BY <2>2, SubsDeeper, PatternsOfBlocks
    <3>2. ps # {} /\ ps \subseteq Pattern /\ SameWidths(ps)
      BY <2>2, <2>3, BlockFacts
    <3>3. /\ Def[p].width = Item(ps).width /\ Item(ps).fixed \subseteq Def[p].fixed
          /\ Item(ps).ones = Def[p].ones \cap Item(ps).fixed
      BY <3>1, <3>2, ItemFacts
    <3>4. PICK l \in leaves : LeafOf(l, Item(ps))
      BY <2>2, <2>3 DEF ItemInv
    <3>5. Fits(l)
      BY <2>4, <3>3, <3>4 DEF Fits, LeafOf, Matches
    <3>6. l.width = Def[p].width
      BY <3>3, <3>4 DEF LeafOf
    <3>. QED  BY <2>1, <2>2, <3>5, <3>6 DEF WalkInv
  <2>. QED  BY <2>2, <2>4 DEF WidthInv
<1>. QED  BY <1>1, DecodeFileInvariant, PTL
=============================================================================
