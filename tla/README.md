# A verification of the Xqci front end generator

The repository turns instruction definitions of riscv-unified-db (YAML) into a
QEMU front end for Qualcomm's Xqci, Xqccmp and Smrnmi extensions: a decoder,
translation functions, disassemblers, CSR accessors and tests, together with a
few instructions written by hand. This directory holds TLA+ modules of the parts
whose correctness is not visible in the text, the TLC configurations that check
them, and TLAPS proofs of what matters most.

## 1. The system

    instruction and CSR YAML
       |
       +-- yaml-to-cpp.py -o ------> C++ --clang--> LLVM IR --helper-to-tcg--> TCG code
       +-- csr.py -----------------> CSR accessors and field masks
       +-- yaml-to-cpp.py
             --output-decode ------> .decode files --decodetree--> decode function
             --output-trans -------> trans_* functions, which call the TCG code
             --output-disas -------> disassembler tables
             --output-klee --------> test harness --KLEE--> inputs --assemble.py, c.py--> tests
    xqciu_tcg_manual.c.inc --------> multi-word and interrupt instructions by hand
    run.sh, install-xqci.sh -------> the order of all this

Everything but the generated code runs as sequential scripts that exchange
files. The generated and hand-written C runs in an emulator, where each access
to guest memory may leave the instruction half done.

| Component | State | Operations | What is hard | What makes it correct |
|---|---|---|---|---|
| Decode tree builder (`decodetree-disas.py` 611-858) | patterns with fixed mask and bits, groups, tree | parse, widen masks of groups, split into bins, report overlaps | recursion on what all remaining patterns fix; the widening loop | a finished tree decides every pattern; accepted patterns are disjoint; it ends |
| Generated decode function (`output_code` of all classes) | word, path, argument union | switch, test, extract, call `trans_*`, fall through | hoisted extraction, masks with the path taken out, refusals | a word is offered to exactly the patterns it matches, in order, with fresh arguments |
| Decode file parser (`parse_*`, `infer_*`, sorter 92-129) | fields, argument sets, formats, group stack | one line after the other | braces of two kinds and indentation, sharing of formats, references between fields | nesting is as written; no field is read before it is set; fixed, field and undefined bits partition the word |
| Size tree (1342-1492) | tree of byte counts | load more bytes, decide a width | mixed widths | never more bytes than the instruction has, never fewer |
| Overlap grouping (`yaml-to-cpp.py` 854-899) | list of sets, list of instructions | compare pairs, insert, remove | order of pairs decides the sets | overlapping instructions in one group, each written once |
| Decode and disassembler output (901-1205) | field definitions by name | format lines | names shared between signed and unsigned, groups without sign | an operand arrives as the field that was encoded |
| `trans_*` output (760-821) | argument structure | refuse, shift, emit | refusal after a shift | a refusal leaves nothing behind that is used |
| KLEE output (75-154, 1257-1422) | symbolic inputs, registers, maps of reads and writes, flags | assume, run the operation, print | order of shift and `not`; reads apart from writes | inputs are encodable instructions; what is printed is what a right implementation does |
| `csr.py`, `cpp-csr.py` | CSR storage | read, write; the second is a stub | masks of split fields | a mask covers the field |
| Multi-word instructions (`xqciu_tcg_manual.c.inc` 3-40, 214-267) | registers, memory, loop index | load, store, fill | a fault at any word and a restart | partial effects are prefixes of the final one |
| Interrupt instructions (42-212) | frame on the stack, registers, `qc_mcause`, MIE | enter, enter nesting, leave | faults, restarts, nested interrupts | exit restores what was interrupted |
| `assemble.py`, `common.py` | bytes, YAML cache, registers in use | encode, `li`, inputs, checks, exits | shifted and split immediates, the borrow of `li`, branch distances | decode after encode is the identity; a test passes if and only if the implementation is right |
| `c.py` | C text, numbered variables | declare, inline assembly, check | one program and one memory for all entries | as `assemble.py` |
| `run.sh`, `install-xqci.sh`, others | files under build/ | stages in order | no stage stops the script when it fails | artefacts come from one run |
| `report.py` | counters, tables | count, compare | substring tests on names | counts agree with the list |

PROJECT.json lists every component with its status, and under "hazards" each
place where something can go wrong that a test would hardly reach, with the
properties that watch it.

## 2. The modules

| Module | Models | Instances |
|---|---|---|
| `DecodeTree` | mask widening and tree building | `MCDecodeTree` |
| `DecodeSpec` | what a decode function promises, whatever its tree | through `Decoder` |
| `Decoder` (extends `DecodeTree`) | the written decode function and `trans_*` on one word; implements `DecodeSpec` | `MCDecoder` |
| `OverlapGroups` | the search for overlapping instructions | itself |
| `FieldCodec` | the way of operands: field definitions, harness inputs, encoding, extraction, `trans_*` | `MCFieldCodec` |
| `LoadImmediate` | `li` | through `TestBench` |
| `KleeHarness` (extends `LoadImmediate`) | one run of the KLEE program per path, up to the io file | through `TestBench` |
| `TestProgram` (extends `KleeHarness`) | `assemble.py`: one program per entry of the io file | through `TestBench` |
| `CProgram` (extends `TestProgram`) | `c.py`: one program for all entries | through `TestBench` |
| `TestBench` (extends `CProgram`) | the programs run on an implementation that may be wrong | `MCTestBench` |
| `SizeTree` | `build_size_tree`, `prop_size`, the load function | through `DecodeFile` |
| `FieldOrder` | order of the field assignments of a pattern and its format | through `DecodeFile` |
| `DecodeFile` (extends both) | `parse_file`, groups, widths, and the two above on the result | `MCDecodeFile` |
| `MultiWord` | qc.lwm(i), qc.swm(i), qc.setwm(i) | `MCMultiWord` |
| `InterruptFrame` | qc.c.mienter, qc.c.mienter.nest, qc.c.mileaveret | `MCInterruptFrame` |
| `DecoderProofs`, `OverlapGroupsProofs`, `FieldCodecProofs`, `DecodeFileProofs`, `MultiWordProofs`, `InterruptFrameProofs` | theorems about the modules they are named after; `DecoderProofs` has those of `DecodeTree` too, `DecodeFileProofs` those of `SizeTree` and `FieldOrder` | |
| `TestScriptProofs` (extends `TestBench`) | `LoadImmediate`, the entries of `KleeHarness`, the texts of `TestProgram` and `CProgram` | |
| `TestBenchProofs` (extends `TestScriptProofs`) | the programs at work: theorems about `TestBench` | |

In every module an operator named in a comment as a *seeded fault* is a plausible
mistake in the definition after it; it is not part of the specification, and
PROJECT.json says which property must fail when it takes that definition's place.

### DecodeTree

Words, masks and fixed bits are sets of bit positions. `Item` are the entries of
`toppat.pats`, and `Members` their patterns: one for a plain line, several for
a braced group. `WidenPass` is one pass of the loop of `prop_masks`, `Settle`
the pass that finds nothing more, or the exit because no bit is left (the fixed
bits of the last pass then stay). The recursion of `__build_tree` is a set of pending
calls; a call ends in `BuildSingle`, `Split` or `ReportOverlap`. The order of
calls is left open, since they share no state; TLC tries them all. A node or
leaf carries the bits tested on the way, which is `outermask` and `outerbits`.

`TreeInv` is the inductive invariant. `WidenExact` says that a settled mask is
exactly what all members agree on. `PathInv` says that a path has only bits that
its items fix and that a leaf was tested for all of them, `PlacedInv` that no item
gets lost, `ApartInv` that two places differ in a bit tested on both paths.
From these follow `TreeDecides` and `AcceptedDisjoint`, which has the members of
a group, not only the group's mask.

### DecodeSpec and Decoder

`DecodeSpec` says that a word is offered to every pattern it matches, within a
group in file order, until one takes it, and is illegal only when all have refused.
`Decoder` is what `output_code` writes: a switch per node (`SwitchToNode`,
`SwitchToLeaf`, `SwitchNoCase`), the tests of a group with the path taken out of
mask and bits (`Guard`), extraction once for a node whose subtrees share a format
(`Hoist`, from `__prop_format`), and calls of `trans_*`. A `trans_*` that refuses
may have shifted an argument, since `yaml-to-cpp.py` writes the tests and shifts of
the variables in turn: the union is then no longer intact. `ArgumentsFresh` says
that no pattern is entered with such a structure or with another format's;
it holds because groups have no format of their own, so nothing is hoisted above them.
`DecoderInv` is the inductive invariant: `NodeInv` says that what is below a node is reached by one
of its cases, `RunInv` where the function is in the tree, what it has tried, and for which leaves the
fields extracted early are good.
The refinement mapping is by name (`Abstract == INSTANCE DecodeSpec WITH ...`): the tree,
the stage and the path of the generated function are hidden.

### OverlapGroups

The two loops (`ComparePair`, `AdvancePair`), the insertion into the first set that has
one of the two (`Insert`), and the removal loop element by element in any order, since
the sets are Python sets. `list.remove` of an element that is gone raises:
`RemoveMissing`. `GroupInv` relates the sets to the pairs compared so far and
the list to what was removed. It makes no claim that the sets are disjoint, because
they need not be (finding 2).

### FieldCodec

An integer is the set of positions of its 1 bits, so encoding and extraction are unions
and shifts. A behaviour is a file of one or two instructions that goes through the whole chain:
the definitions, groups first (`DefineGrouped`, `DefineSingle`; a later one replaces an
earlier of the same name and ranges), the checks of the decoder generator (`ParseFile`), values
from the harness (`Generate`) or from any caller (`Call`), `append` range by range from the last
to the first (`AppendRange`), `extract` and `deposit` (`ExtractRange`), and refusal and shift of
`trans_*`. A word shorter than its C type is decoded at the top of it (`Lift`).

`OperandsArrive` claims an operand only if the file defines its field with its sign: that
definitions are shared without regard to the sign, and that lines of groups have none, is a
hazard of the code, kept in the model by `defs` and excluded here by `SignKept`. The excluded case has a
property of its own: `SignLost` says who takes the sign (a group, or a later instruction that uses the same name and
ranges with the other sign) and that the bits of the field arrive all the same. `TestsArrive` likewise
excludes a `not` value other than 0 of a shifted operand, which the harness compares after the
shift and `trans_*` before it; 0 is the only such value in use. `CodecInv` is the inductive invariant:
which bits of the word hold which bits of the values (`Off` is the place of a range in its operand), and
how much of an operand is extracted or shifted. That no chunk spills over a fixed bit
(`WordMatches`) is a part of it.

### KleeHarness, TestProgram, CProgram, TestBench

The operation of an instruction is a script of steps (address, sum, load, store, output, jump, some
under an `if`), which is enough to have accesses of both widths, branches and a
register that is input and output. `KleeHarness` runs it as the C++ program does: a read in range
returns a pattern of its own and is recorded, a write is recorded unless it is 0, a jump is valid if it
skips one word. `TestProgram` and `CProgram` write the items of a program from the io file:
loads, inputs, the instruction, checks with their branch distances, exits. The stages of the
scripts' loops are the values of `stage`. `TestBench` puts items into execution; the machine is external, and
so is the implementation of the instruction, which is right or has one of three faults.

`CorrectPasses` holds within limits of the code that the formula names (`Separate`): the words of
all accesses are in the data segment and apart from each other, since tests set and check whole
words at the address of a byte, and since the harness keeps what is read apart from what was
written before. A C program shares the data among its entries, so there the words of all entries must be apart;
and its operands are numbered right only if rd is the last variable. `PassMeansChecked` is the converse: a
passed test has executed the instruction, seen its output, its stores and its jump.

The address of an item is the sum of the sizes before it (`End`), memory is read as a recursion over
the bytes of a word (`ReadMem`), and the effect of an instruction is a recursion over its script
(`Effect`): recursive functions, which the proofs unfold one step at a time. A variable of a C program is a register
of its own, numbered by its place in the text. Which scripts are instructions at all is said by `WellFormed`: one destination, jumps last
and without memory accesses, as the instructions of the extension are.

### SizeTree, FieldOrder, DecodeFile

`DecodeFile` reads a file line by line with any indentation and brace (`BadIndent`, `OpenBrace`,
`CloseBrace`, `BadClose`), then decides whether the tree builder accepts it (`BuildTree`, in short;
`DecodeTree` has the algorithm), checks the widths of groups and starts one of two things: the load
function of `SizeTree` on a word in memory, or the assignments of `FieldOrder` for a pattern.
`FileAccepted` compares the stack of the parser with a definition by counting braces. `DecodeFileInv`
is the inductive invariant of all three modules together: `FileInv`, `GroupInv`, `OrderInv` and `SizeInv`.

In `SizeTree` bit 0 is the first bit loaded, so a byte is an interval of positions. Pending calls
of `build_size_tree` are a set, as in `DecodeTree`; each ends as a leaf, goes to the next byte, splits, or
stops with "overlapping patterns size". The load function walks from the root, loading what each
node needs. Once a byte is done the recursion does not return to it with other patterns: the
three patterns `0.0.`, a longer `1.0.` and `..1.` (bytes of two bits, first bit first) are decidable and are still refused. That is safe, and `LoadExact` speaks of accepted
files. The 48 bit files of the project have one width, so their load function is a leaf.

`FieldOrder` has the references between the fields of a format and of a pattern. `AssignField` takes a field of the
current round in any order, because the rounds of the sorter are Python sets.

### MultiWord

One instruction, from the reading of its registers (`CallHelper`) through the loop
(`LoadWord`, `StoreWord`, `SetWord`) to `Retire`, with the range check
(`RaiseIllegal`), whose sum wraps as target_ulong does. `Fault` leaves the helper
at any unmapped word; the trap handler maps it and the instruction begins again from the
registers as they are. A load that overwrites its own base or length cannot
be repeated, so `Partial` and `RetiredExact` claim nothing of it after a fault (`Claimed`). It still
ends (`Completes`), and `RefusedAfterEffect` speaks of it: the code does refuse a load after it has changed
registers. In the instance, `qc.lwm` of two words to x1, with x1 as length register, loads 4 into x1, faults at the
second word, and is refused when it starts again, since 1 + 4 is more than 4 registers. `RefusedAfterEffect` says
that this is the only way: a load by register that was in range at first, with a word of memory in its length register by
then, and nothing changed below its first register or in memory. Six states of the run have such a refusal. The loop beyond the register file, after a check that wrapped, is
the stage "undefined" and is not followed.

### InterruptFrame

An entry stores the slots of `Layout` one after the other (`StoreSlot`), then moves
x8 and the stack pointer and, for the nesting entry, sets MIE and qc.mcause
(`FinishEnter`). The word for the return address is skipped, as in the code, where the
store is commented out. The exit reads it and drops it, reads the cause before x8, and
writes qc.mcause together with x8 (`LoadSlot`). Any access may fault; the trap sets `mcause`, the
handler maps the word, and the instruction begins again. Interrupts and handlers
belong to the guest and are external: a handler changes any register of the frame,
pushes below its frame and pops, and may enable interrupts at any time, also before a
nesting entry would. Exit leaves MIE, the privilege mode and the pc alone, because
the code that would restore them is commented out.

`saved` is a history variable: the interrupted contexts. `FramesIntact` compares
the frames in memory with it.

## 3. What is checked

| Run | Instance | States | Shows |
|---|---|---|---|
| `decode_tree` | two plain patterns and a group of two that differ at one position at most, three bits, all 19683 encodings | 274 k | tree invariants, decision, disjointness, termination |
| `overlap_error` | three plain patterns, three bits | | finding 1 |
| `decoder` | two plain patterns and any group of two, two bits, two formats | 161 k | tree and run invariants with groups whose members are unrelated, fresh arguments, refinement of `DecodeSpec` |
| `overlap_groups` | four match strings of two positions, all 6561 | 142 k | `GroupInv`, written once, groups cover overlaps |
| `multi_word` | four registers, words 0..5, two initial mappings | 277 k | restart properties, refusals after an effect, completion |
| `field_codec` | one or two of eight instructions of six bits, decoded in eight; ints of four bits; all harness values, 32 values of other callers | 796 k | inductive invariant, operands arrive, who takes a sign, tests are not refused |
| `test_bench` | eight instructions with one or two paths; words of two bytes of two bits, a data segment of four bytes | 63 k | inputs ready, right implementations pass, a pass has checked everything, every test ends |
| `decode_file` | all files of up to four lines over nine patterns of three widths, braces and comments; eight words | 266 k | inductive invariant, nesting, exact loads, order of assignments, termination |
| `interrupt_frame` | two levels, six slots in a frame of seven, two initial mappings | 1.3 M | frames, restarts, restoration, completion |

The runs `overlap_groups_crash`, `multi_word_length` and `interrupt_frame_cause` use the instances
of the runs of the same component and end at a counterexample (findings 2 to 4).

Why the bounds are enough: three entries over three bits have trees of depth three,
bins of one and of several items, and the cyclic encodings of finding 1. A group of two
has members that agree, that contain each other and that share no bit; two formats let the plain
patterns share or not share. Four instructions are the least with which two sets
can come to overlap. Six words exceed four registers, so lengths overrun the register
file, sums wrap and addresses wrap. Two levels of interrupts have a frame under a
frame, with a hole in each; the proofs cover all greater values. Split operands of three ranges, ascending
and not, have a first, a middle and a last part; eight bits for six have a lift, and four bits of an int
cut a sign that was extended to eight. The instructions of `test_bench` have an input that is
the output, compressed registers, the output first and last, loads of a byte and of two words, stores under a condition, a
branch and a linking jump; their words begin and end at the borders of the segment. Four lines hold a
group with two members, a group in a group, and every misplaced brace; three widths give a node under a node.

The deadlock check is off: all these systems come to an end or, for the interrupts, to
an idle program.

Fairness. The scripts are one process each, so weak fairness of `Next` says only that
they run on. In `TestBench` and `DecodeFile` this covers the programs they write too, which are sequential. In `MultiWord` it includes the trap handler, which must return for
anything to happen at all. In `InterruptFrame` only an instruction that has
begun, and the trap handler, are fair (`Progress`); no interrupt, return or
handler step is forced. In `DecodeSpec` deciding is fair, fetching is not.

### Findings

1. `overlap_error`. `__build_tree` reports "overlapping patterns" when no untested bit is
   fixed by all remaining items. The patterns `01.`, `.01` and `1.0` differ pairwise in a
   fixed bit and no bit is fixed by all three, so they are refused although no word
   matches two of them. The refusal is safe; the message is not accurate.
2. `overlap_groups_crash`. With the overlaps 1-3, 2-4 and 3-4 (instructions in list
   order) and no other, the script builds {1, 3, 4} and {2, 4}. Removing 4 the second time raises.
3. `multi_word_length`. The number of words is all of rs2; the extension's document
   says its bits [4:0]. For qc.setwm, which has no range check, this writes more words; for
   the others it can also make a word count illegal that the document reads modulo 32.
4. `interrupt_frame_cause`. The frame's third word is `mcause` in the code and `qc.mcause` in the
   document, and exit loads it into `qc_mcause`. Since csr.py makes qc.mcause plain
   storage, the two differ from the first entry on. In addition `mcause` is read anew by each
   attempt, so after a fault the word is the cause of the trap; the counterexample needs no fault and does not show that.

## 4. What is proved

All theorems are for every value of the constants that satisfies the named assumptions, which TLC
evaluates in every run of the module that states them:

| Assumption | Says | Justified by |
|---|---|---|
| `MembersAssumption` (`DecodeTree`) | an item has at least one pattern | `build_tree` stops at an empty group |
| `ListedAssumption` (`Decoder`) | every pattern is in one place of one item | a `Pattern` object is made by one line |
| `NoneAssumption` (`Decoder`) | `None` is no word | |
| `NAssumption` (`OverlapGroups`) | the number of instructions is a natural number | |
| `SizeAssumption`, `InputAssumption` (`FieldCodec`) | words and types have a size, values are sets of bits; a word is decoded in a width that holds it | `insnwidth` and `--insnwidth` of the generated function |
| `InstructionAssumption` (`FieldCodec`) | an operand has at least one range of at least one bit, operands are in different places | variables of the instruction definitions |
| `TypeSizeAssumption` (`FieldCodec`) | a C type holds the operand it is chosen for, and int is such a type | true of powers of two; the prover has no rules for exponents |
| `OperandAssumption` (`FieldCodec`) | an operand is no larger than an int, its `not` values are values of its field | the instructions of the extension |
| `WidthAssumption` (`SizeTree`) | the greatest width is a number of bytes | `insnwidth` is 16, 32 or 64 |
| `DefAssumption` (`DecodeFile`) | a pattern fixes only bits of its own width | `parse_generic` builds width and masks together |
| `NameAssumption` (`DecodeFile`) | a pattern's line does not begin with a brace or # | `parse_file` looks at these first |
| `MemoryAssumption` (`KleeHarness`) | a word is some bytes of at least two values; the data segment is an interval of addresses; inputs are words | 32 bits of bytes, 0x1000 to 0x2000 |
| `InstructionAssumption` (`KleeHarness`) | an instruction is `WellFormed`: one destination at most, `rdLast` says where it is; a jump is the last step, to an immediate, in an instruction without memory accesses that reads no register it has written, and that `c.py` skips unless rd is its last variable | the instructions of the extension, `skip_insn` in `c.py` |
| `SizeAssumption` (`MultiWord`), `LayoutAssumption`, `ValueAssumption` (`InterruptFrame`), `PartsAssumption` (`LoadImmediate`) | sizes, the slots of the frame, the two parts of a constant | as described with the modules |

- `DecoderProofs`, for `DecodeTree`: `TypeCorrect`, `TreeInvariant`, then `TreeDecidesAlways` and
  `AcceptedDisjointAlways`. `AcceptedDisjoint` is not inductive: it speaks of a
  finished tree. The argument is that places are apart at any time, that a leaf has been tested for
  exactly what its item fixes, and that what an item fixes is fixed alike in all its members;
  a common word would have to satisfy both paths, and they differ in a bit.
- `DecoderProofs`, for `Decoder`: `DecoderInvariant`, then `RunTypeCorrect`, `ArgumentsFreshAlways` and
  `ImplementsSafety`, the safety part of the refinement (`Abstract!Safety`, which is the whole of `DecodeSpec` but its
  fairness). That a word is illegal only when all patterns it matches have refused
  needs more than the path taken: `NodeCases` says that a place below a node is in a case of the
  node, so that a word that reaches no case fits no place below, and `AcceptedDisjoint` that a leaf's item is the
  only one to match. `ArgumentsFresh` needs `HoistedFor`: what a node extracts is the format of all leaves below, none of
  which is a group. `FormatsThroughGroups`, a seeded fault of the run, breaks just that.
- `FieldCodecProofs`: `TypeCorrect`, `CodecInvariant`, then `WordMatchesAlways`, `OperandsArriveAlways`,
  `SignLostAlways`, `TestsArriveAlways`. `OperandsArrive` says something only of the last state, so the invariant says for each range whether the
  bits of the word hold the bits of the value, with the offset of the range as the number of bits
  in the ranges after it (`Off`, and lemma `OffStep`). From there `deposit` in the same order puts every bit back where
  it came from. Operands and fixed bits do not disturb each other because the decoder generator has refused lines where they
  overlap (`LineOK` of `CursorInv`). `TestsArrive` adds that a value the harness assumes is the sign
  extension and shift of a field, so that cutting it to the field and extending it again gives it back. `SignLost` has an
  invariant of its own (`DefsInv`) over the loops that write the definitions; no two operands of an instruction share name
  and ranges (`OneSign`), so what an instruction defines itself has its sign.
- `DecodeFileProofs`, for files of any length with any patterns and widths:
  - `FileInvariant` and `FileAcceptedAlways`. The parser keeps a stack, `WellNested` counts braces; `NestInv` has for each
    open group the line that opened it, since which the count has not gone below.
  - `OrderInvariant` and `FieldsInOrderAlways`: what a field refers to is written, or is in the sorter before it,
    for any references, also cyclic ones.
  - `DecodeFileInvariant` and `LoadExactAlways`. Two leaves are told apart by a bit tested on the way to both (`TellInv`), every pattern
    keeps a leaf that tests only what it fixes (`ItemInv`), and what is in one case of a node has a least tested place, its
    root (`RootInv`), which is why `Child` is one place and lies on the way to the leaf that fits the word. A node then loads
    the least width below it (`WidthInv`), at least what it tests, at most what the leaf has; `WalkInv`
    says so for the bytes loaded.
  - The closure of nested groups (`Within`) is the least set closed under `subs`, and sizes have a minimum
    (`LeastWidth`). Both need induction, which the library offers only with an operator as parameter. `SetInduction` states it for a set of numbers
    instead and is proved from the pigeonhole principle of `FiniteSetTheorems`.
- `OverlapGroupsProofs`: `GroupInvariant`, `TypeCorrect`, `WrittenOnceAlways`, `EntriesDisjointAlways`. The loop
  invariant says which pairs have been seen; a pair that overlaps stays within a set while sets
  grow and move from one list to the other.
- `MultiWordProofs`: `TypeCorrect`, `RestartInvariant`, `PartialAlways`, `RetiredExactAlways`,
  `RefusalInvariant`, `RefusedAfterEffectAlways`. A restart must find in registers what the first
  attempt found, so `RestartInv` says which registers a load can have changed and that base and
  length are not among them. `RefusalInv` is for all instructions, those that overwrite their base or length included: it says where
  a register that has changed got its word from, and that the check has the same outcome at every restart as long as the length
  register is not loaded.
- `InterruptFrameProofs`: `FrameInvariant`, `TypeCorrect`, `FramesIntactAlways`, `EnterRestartableAlways`,
  `LeaveRestoresAlways`. The invariant places the frames below each other and the stack pointer below the
  last complete one, so that every store is to memory no frame needs; what an attempt has stored or
  loaded is described slot by slot, with the exchange of the second and third load.
- `TestScriptProofs`: `LiExact`, that what lui and addi load is the constant, for every constant
  and every size of the parts; the lemmas are about division with remainder, since the borrow of the low
  part has to come out of the division by its size. The other theorems of the bench rest on two invariants kept by every step of the generation
  (`GenerateType`, `GenerateText`):
  - `KleeInv`: a path under way is a trace of the script from its inputs, and every entry a complete one (`IsRun`).
  - `TextInv(K)`, where `K[j]` is what is known when the machine has come to the end of item j, whatever the implementation did
    (`After`): constants in registers, words of the data, the last instruction, whether the memory is still as it
    left it and which registers were written since. It says that every item is in order with respect to what is known before
    it. A check compares with the expected value of a register that still holds a result; an instruction's operands name inputs that
    are known; a branch has the distance of the items it skips; and an exit with failure comes after a branch or a j. In addition it
    says for each stage of the two scripts what has been written (`AtLoads` to `AtFinal`), up to `Covered`: every output and every
    stored word of an entry is compared somewhere in the text.
- `TestBenchProofs`: `BenchInvariant`, then `TypeCorrect`, `InputsReadyAlways`, `PassMeansCheckedAlways` and `CorrectPassesAlways`.
  - `BenchInv` adds the machine: the program counter is at the start of an item p, and unless that is an exit with failure all
    that is known there holds (`Holds`), every comparison before it that was reached gave equality (`Passed`), and entries that jump have jumped (`Reached`).
    There is one lemma per kind of item: it leads to the start of an item and what is known there holds. From `Holds` at an instruction
    follows `InputsReady`; from `Passed` and `Covered` at exit(0) follows `PassMeansChecked`. Neither is inductive: the first
    speaks of one item only, the second of the end.
  - `PassInv` adds, for a right implementation on words that are apart (`Promised`), that all is right so far (`Right`): no failure was come to, all executed
    entries did what they say (`Done`), and the words of those not executed are still zero (`Unwritten`). Its heart is `LockRun`:
    harness and machine go through the script step by step with the same registers, address and sum (`Lock`),
    though the harness reads patterns and the machine reads a memory. They agree because the words of the patterns were laid out (`Laid`), are
    apart from everything stored, and because a narrow store leaves the rest of its word zero, which is how the tests compare it.
  - Words of memory: a store is read back, and a store apart from a word leaves it alone (`WrittenWord`, `OtherWord`), for every
    number of bytes in a word. `SetInduction` and `Recursion` of `TestScriptProofs` stand for induction over the bytes and over the script.

The inductive invariants up to here are also invariants of runs (or conjuncts of ones), except `DefsInv` and `RefusalInv`, of which the
runs have what they are for (`SignLost`, `RefusedAfterEffect`), and `BenchInv` and `PassInv`, which speak of a sequence `K` that the
state does not hold; of these too, TLC checks the properties they imply.

Only model-checked: the liveness properties (`Termination`, `Completes`, `HelperEnds`, `Ends`) and the fairness of
the refinement `ImplementsDecodeSpec`, which the prover does not reach. Every other property of a passing run is a theorem.

## 5. What is not modelled

- Constant, function and parameter fields, explicit argument sets and formats, line continuation and the form of
  tokens in `.decode` files: `yaml-to-cpp.py` writes none of them.
- The rewriting of operation text into C++ (`op_to_cpp`), the preambles, and the disassembler tables: text
  without state. Of the latter, reading shows that the offset of compressed registers is decided by
  `var_is_imm` with the name of the instruction in place of that of the variable (`yaml-to-cpp.py` 1194).
- `csr.py` beyond the storage of qc.mcause: its masks are unions of ranges, and nothing here uses them. `cpp-csr.py` names
  undefined variables and cannot run.
- `run.sh` and the other shell scripts: straight lines of commands none of which is checked. Two of their names disagree with
  what other files expect: run.sh passes `--disas-name xqccmp` for Xqci, and names `decode_smrnmi_32` where the
  disassembler calls `decode_smrnmi_32_impl`.
- `report.py`: counters and formatting. A name counts as supported if it is a substring of the header.
- The sign extension and shift of immediates for the assembler syntax in `c.py`.
- helper-to-tcg, clang, KLEE and QEMU are not in the repository; the test machine of `TestBench` is as
  much of an emulator as a test needs.
- Unaligned accesses of the multi-word instructions: a fault of one is a fault like any other. The pages of
  memory are one word each, which gives more faults than real pages, not fewer.

## 6. Plan

Done in this order: `DecodeTree` with its proofs, `Decoder` and `DecodeSpec`, `OverlapGroups`,
`MultiWord`, `InterruptFrame`; then `FieldCodec`, `LoadImmediate` with its proof, the test bench, and
`DecodeFile` with `SizeTree` and `FieldOrder`; then the proofs for `Decoder`, `FieldCodec` and `DecodeFile`; then
those for the test bench. Every safety property of the runs is proved. What could be added:

1. Widening the models where section 5 names text that has no state today, if the scripts come to keep some: constant and
   parameter fields, and the sign extension of immediates in `c.py`.
2. The exit of an interrupt (MIE, privilege mode, pc), once the code that is commented out there is in use.
