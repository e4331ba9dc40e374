------------------------------ MODULE DecodeFile ------------------------------
(***************************************************************************)
(* decodetree-disas.py on a file of instructions of several widths:        *)
(* parse_file with its groups, prop_width, the size tree and the load      *)
(* function, and the assignments written for a pattern.                    *)
(***************************************************************************)
EXTENDS SizeTree, FieldOrder, Sequences

CONSTANTS
  Pattern,   \* names
  Def,       \* [fixed, ones, width, fmt, flds] for each
  Words,     \* instruction words in memory
  MaxLines   \* bound on the lines of a file

(* parse_generic: a pattern fixes bits of its own width. *)
ASSUME DefAssumption ==
  \A p \in Pattern :
    /\ Def[p].width \in Nat
    /\ Def[p].ones \subseteq Def[p].fixed /\ Def[p].fixed \subseteq 0 .. Def[p].width - 1

(* A line that begins with a brace or # is no line of a pattern. *)
ASSUME NameAssumption == Pattern \cap {"{", "[", "}", "]", "#"} = {}

VARIABLES
  lines,    \* the lines read: [kind, indent], a pattern is a kind of its own
  nesting,  \* the indentation that is due
  groups,   \* MultiPattern objects, the first is toppat; patterns and groups in each
  parent,   \* parent_pat, an index into groups
  pats,     \* nesting_pats
  parsing   \* "file", "parsed", "built", "ready", "error"

fileVars == <<lines, nesting, groups, parent, pats, parsing>>
vars == <<fileVars, sizeVars, orderVars>>

Open == {"{", "["}
Close == {"}", "]"}
Indents == {0, 2, 4}
NewGroup(kind) == [kind |-> kind, pats |-> <<>>, subs |-> {}]

Init ==
  /\ lines = <<>> /\ nesting = 0
  /\ groups = <<NewGroup("[")>>
  /\ parent = 1 /\ pats = <<>>
  /\ parsing = "file"
  /\ SizeInit /\ OrderInit

-----------------------------------------------------------------------------
Line(kind, indent) ==
  /\ parsing = "file" /\ Len(lines) < MaxLines
  /\ lines' = Append(lines, [kind |-> kind, indent |-> indent])
rest == <<sizeVars, orderVars>>

Error == parsing' = "error" /\ UNCHANGED <<nesting, groups, parent, pats>> /\ UNCHANGED rest

BadIndent ==
  /\ \E kind \in Open \cup {"#"} \cup Pattern, indent \in Indents \ {nesting} : Line(kind, indent)
  /\ Error

CommentLine == Line("#", nesting) /\ UNCHANGED <<nesting, groups, parent, pats, parsing>> /\ UNCHANGED rest

OpenBrace ==
  /\ \E kind \in Open :
       /\ Line(kind, nesting)
       /\ groups' = Append([groups EXCEPT ![parent].subs = @ \cup {Len(groups) + 1}], NewGroup(kind))
  /\ pats' = Append(pats, parent)
  /\ parent' = Len(groups) + 1
  /\ nesting' = nesting + 2
  /\ UNCHANGED parsing /\ UNCHANGED rest

(* Seeded fault: a closing brace of either kind closes a group. *)
ClosesAny(kind) == TRUE

Closes(kind) == (kind = "}") <=> (groups[parent].kind = "{")

CloseBrace ==
  /\ \E kind \in Close : Closes(kind) /\ Line(kind, nesting - 2)
  /\ pats # <<>>
  /\ parent' = pats[Len(pats)]
  /\ pats' = SubSeq(pats, 1, Len(pats) - 1)
  /\ nesting' = nesting - 2
  /\ UNCHANGED <<groups, parsing>> /\ UNCHANGED rest

BadClose ==
  /\ \E kind \in Close, indent \in Indents :
       /\ ~ Closes(kind) \/ pats = <<>> \/ indent # nesting - 2
       /\ Line(kind, indent)
  /\ Error

PatternLine ==
  /\ \E p \in Pattern : Line(p, nesting) /\ groups' = [groups EXCEPT ![parent].pats = Append(@, p)]
  /\ UNCHANGED <<nesting, parent, pats, parsing>> /\ UNCHANGED rest

(* A file has at least one line. *)
EndOfFile ==
  /\ parsing = "file" /\ lines # <<>>
  /\ parsing' = IF nesting = 0 THEN "parsed" ELSE "error"
  /\ UNCHANGED <<lines, nesting, groups, parent, pats>> /\ UNCHANGED rest

-----------------------------------------------------------------------------
(* Group g and the groups in it, at any depth. *)
Within(g) ==
  {h \in DOMAIN groups :
     \A hs \in SUBSET DOMAIN groups :
       g \in hs /\ (\A k \in hs : groups[k].subs \subseteq hs) => h \in hs}
Own(g) == {groups[g].pats[j] : j \in DOMAIN groups[g].pats}
PatternsIn(g) == UNION {Own(h) : h \in Within(g)}
Nested == 2 .. Len(groups)

(* prop_masks: what all the patterns of a group fix alike. *)
Common(ps) == {b \in 0 .. InsnWidth - 1 :
                 /\ \A p \in ps : b \in Def[p].fixed
                 /\ \A p, q \in ps : b \in Def[p].ones <=> b \in Def[q].ones}
Item(ps) ==
  LET p == CHOOSE p \in ps : TRUE
  IN  [fixed |-> Common(ps), ones |-> Def[p].ones \cap Common(ps), width |-> Def[p].width]
Blocks(g) == {{p} : p \in Own(g)} \cup {PatternsIn(h) : h \in groups[g].subs}

(* __build_tree, in short: bits that all fix and that tell some apart.     *)
(* DecodeTree has the details.                                             *)
Splits(xs) == {b \in 0 .. InsnWidth - 1 :
                 /\ \A x \in xs : b \in x.fixed
                 /\ \E x, y \in xs : b \in x.ones /\ b \notin y.ones}
Decidable(all) ==
  LET f[xs \in SUBSET all] ==
        \/ Cardinality(xs) = 1
        \/ /\ Splits(xs) # {}
           /\ \A x \in xs : f[{y \in xs : y.ones \cap Splits(xs) = x.ones \cap Splits(xs)}]
  IN  f[all]

(* An empty group ends the program, and so do patterns that the bits do    *)
(* not tell apart.                                                         *)
BuildTree ==
  /\ parsing = "parsed"
  /\ parsing' =
       IF /\ \A g \in DOMAIN groups : PatternsIn(g) # {}
          /\ \A g \in {h \in DOMAIN groups : groups[h].kind = "["} :
               LET all == {Item(ps) : ps \in Blocks(g)}
               IN  /\ Cardinality(all) = Len(groups[g].pats) + Cardinality(groups[g].subs)
                   /\ Decidable(all)
       THEN "built" ELSE "error"
  /\ UNCHANGED <<lines, nesting, groups, parent, pats>> /\ UNCHANGED rest

(* Seeded fault: the widths in a group may differ. *)
AnyWidths(ps) == TRUE

(* prop_width *)
SameWidths(ps) == \A p, q \in ps : Def[p].width = Def[q].width

PropWidth ==
  /\ parsing = "built"
  /\ IF \A g \in Nested : SameWidths(PatternsIn(g))
     THEN /\ parsing' = "ready"
          /\ items' = {Item(ps) : ps \in Blocks(1)}
          /\ calls' = {Call(items', ByteBits, {}, {})}
          /\ sizing' = "build"
     ELSE parsing' = "error" /\ UNCHANGED <<items, calls, sizing>>
  /\ UNCHANGED <<lines, nesting, groups, parent, pats>>
  /\ UNCHANGED <<nodes, leaves, mem, read, reached>> /\ UNCHANGED orderVars

Emit ==
  /\ parsing = "ready" /\ sizing = "built" /\ mem = {} /\ read = 0 /\ reached = {}
  /\ \E p \in PatternsIn(1), h \in BOOLEAN : OutputPattern(Def[p].fmt, Def[p].flds, h)
  /\ UNCHANGED <<fileVars, sizeVars>>

Load == writing = "none" /\ LoadCall(Words) /\ UNCHANGED <<fileVars, orderVars>>

Parse ==
  \/ BadIndent \/ CommentLine \/ OpenBrace \/ CloseBrace \/ BadClose \/ PatternLine \/ EndOfFile
Next ==
  \/ Parse \/ BuildTree \/ PropWidth \/ Load \/ Emit
  \/ SizeNext /\ UNCHANGED <<fileVars, orderVars>>
  \/ OrderNext /\ UNCHANGED <<fileVars, sizeVars>>

Spec == Init /\ [][Next]_vars
FairSpec == Spec /\ WF_vars(Next)

-----------------------------------------------------------------------------
(* The file is accepted by parse_file only if every brace has its partner  *)
(* of the same kind and every line is indented by its depth: the stack of  *)
(* groups agrees with a definition by counting.                            *)
Count(j, kinds) == Cardinality({m \in 1 .. j : lines[m].kind \in kinds})
Depth(j) == Count(j, Open) - Count(j, Close)
Partner(j) == CHOOSE m \in 1 .. j - 1 :
  Depth(m - 1) = Depth(j) /\ \A o \in m .. j - 1 : Depth(o) > Depth(j)
WellNested ==
  /\ Depth(Len(lines)) = 0
  /\ \A j \in DOMAIN lines :
       /\ Depth(j) >= 0
       /\ lines[j].indent = 2 * (IF lines[j].kind \in Close THEN Depth(j) ELSE Depth(j - 1))
       /\ lines[j].kind \in Close =>
            lines[j].kind = IF lines[Partner(j)].kind = "{" THEN "}" ELSE "]"
FileAccepted == parsing = "parsed" => WellNested

(* The load function reads an instruction to its end and never past it: it *)
(* stops at the width of the pattern that the word in memory matches, and  *)
(* has loaded no more on the way (more might be on a page that is absent). *)
(* A node tests only what it has loaded (the assertion of prop_size).      *)
Matches(p) == Def[p].fixed \cap mem = Def[p].ones
LoadExact ==
  sizing = "built" =>
    /\ \A p \in PatternsIn(1) :
         Matches(p) =>
           /\ read <= Def[p].width
           /\ reached = {} /\ read > 0 => read = Def[p].width
    /\ \A n \in nodes : n.this \subseteq 0 .. n.width - 1

(* The code written for a pattern reads no field of the argument structure *)
(* before it has assigned it, and assigns all of them.                     *)
FieldsInOrder ==
  /\ stale = {}
  /\ writing = "done" => written = DOMAIN fmt \cup DOMAIN flds

(* Every run ends: with an error, or having loaded a word or written the   *)
(* code of a pattern.                                                      *)
Ends == <>(parsing = "error" \/ sizing = "overlap" \/ writing \in {"done", "error"}
           \/ (sizing = "built" /\ reached = {} /\ read > 0))

-----------------------------------------------------------------------------
(* The group that is open at a level, and the line that opened it. *)
OpenGroup(s) == IF s = Len(pats) THEN parent ELSE pats[s + 1]
Opener(m, s) ==
  /\ Depth(m - 1) = s - 1
  /\ \A o \in m .. Len(lines) : Depth(o) >= s
  /\ lines[m].kind = groups[OpenGroup(s)].kind

(* A line at the depth where it stands; a closing brace that is of the     *)
(* kind of the line it closes.                                             *)
LineOK(j) ==
  /\ Depth(j) \in Nat
  /\ lines[j].indent = 2 * (IF lines[j].kind \in Close THEN Depth(j) ELSE Depth(j - 1))
  /\ lines[j].kind \in Close =>
       \E m \in 1 .. j - 1 :
         /\ Depth(m - 1) = Depth(j) /\ \A o \in m .. j - 1 : Depth(o) > Depth(j)
         /\ lines[j].kind = IF lines[m].kind = "{" THEN "}" ELSE "]"

(* While the file is read, each open group belongs to the brace that       *)
(* opened it and has not been closed since.                                *)
NestInv ==
  /\ parsing \in {"file", "parsed"} => \A j \in DOMAIN lines : LineOK(j)
  /\ parsing = "parsed" => nesting = 0
  /\ parsing \in {"file", "parsed"} =>
       /\ Depth(Len(lines)) = Len(pats) /\ nesting = 2 * Len(pats)
       /\ \A s \in 1 .. Len(pats) : \E m \in DOMAIN lines : Opener(m, s)

LineKinds == Open \cup Close \cup {"#"} \cup Pattern
FileTypeOK ==
  /\ lines \in Seq([kind : LineKinds, indent : Int])
  /\ nesting \in Int
  /\ groups \in Seq([kind : Open, pats : Seq(Pattern), subs : SUBSET Nat])
  /\ parent \in 1 .. Len(groups)
  /\ pats \in Seq(1 .. Len(groups))
  /\ parsing \in {"file", "parsed", "built", "ready", "error"}
FileInv == FileTypeOK /\ NestInv

(* The groups that the size tree is built from, and what it is built from. *)
GroupInv ==
  /\ \A g \in DOMAIN groups : groups[g].subs \subseteq 2 .. Len(groups)
  /\ parsing \in {"built", "ready"} => \A g \in DOMAIN groups : PatternsIn(g) # {}
  /\ parsing = "ready" =>
       (\A g \in Nested : SameWidths(PatternsIn(g))) /\ items = {Item(ps) : ps \in Blocks(1)}
  /\ parsing # "ready" => sizing = "none"

DecodeFileInv == FileInv /\ OrderInv /\ GroupInv /\ SizeInv
=============================================================================
