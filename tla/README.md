# A TLA+ model of ccg, the mini-decompiler

`ccg` reads an assembly listing of the WeeperVM, lifts it to a small
intermediate representation (IR), cuts the IR into basic blocks, links the
blocks into a control flow graph (CFG) and has, ready for the SSA construction
that is planned, the passes that compute immediate dominators and dominance
frontiers. It is a sequential C program. What makes it hard is not concurrency:
it is arrays sized by one count and filled by another, lists rewritten while
they are read, a recursion that walks cycles, offsets that two stages number
differently, and cells and local variables that are read before anything was
written to them.

This directory holds the specifications (`*.tla`), the configurations of the
model checker TLC (`*.cfg`), the proofs that TLAPS checks (`*Proofs.tla`) and
`PROJECT.json`, which maps every definition to the lines it translates.

## 1. Inventory

| Part | Source | State it keeps | Operations | What makes it correct |
|---|---|---|---|---|
| driver | `source/ccg.c` | pointers to the results of each stage | `decompile`: lexer, parser, lifter, `ir_to_cfg`, printer, frees | each stage gets what it supposes of its input |
| lexer | `lexer_weeperVM.c` | position, line, column, token list (index, capacity), instruction count | `addToken` (grows the list), `advance`, keyword lookup | no token lost or overwritten; the number of cells is that of the array; the count of instructions is that of the listing |
| parser | `parser_weeperVM.c` | token index, program, instruction index | `show_next_token`, `accept_token`, `expect_token`, one function per instruction form, `parse_operand` (recursive) | every instruction comes from its own tokens; reading stops at the end of the list |
| lifter | `lifter_weeperVM.c` | IR buffer: cells, `index`, `capacity` | `lift_instruction` and its tables, one handler per group of opcodes, `operand_to_id`, `add_atomic_operation` | dense offsets in program order, jumps keep their target, no opcode falls between the tables |
| IR | `IR.h` | kinds, addresses, operands, jump targets | none of its own | targets are offsets of instructions, or the one behind the last |
| block starts | `graph.c:11-70` | array of offsets, number of blocks, edge capacity | `get_info_graph` | exactly the block starts, ascending; the array is large enough |
| graph | `graph.c:72-294`, `CFG.h` | nodes with flags, successors, predecessors; edges; C stack | `initialize_graph`, `generate_subgraph_from_instruction_offset` (recursive), `update_neighbour_nodes`, `create_edge`, `create_graph` | the reachable blocks, each linked to all that may follow it, once; it ends on loops; no failed lookup, no full edge array |
| dominators | `domfrontier.c:9-145` | postorder numbers and list, `dominator`, `processed` | `DFS`, `reverse_post_order`, `intersect`, `compute_idom` | immediate dominators; ends; uses only what was written |
| frontiers | `domfrontier.c:147-213` | `dominator_frontier` of each node | `compute_dominance_frontier`, `add_to_set` | the frontiers of the definition; the runner stops |
| SSA | `SSA.c` | none | `cfg_to_ssa` calls the frontiers | not written yet |
| structuring | `cf_structuring.c` | none | one helper nobody calls | not written yet |
| printers | `printCFG.c`, `pretty_printer.c` | the running number of the instructions, the file | `graph_to_graphviz`, `visit_instruction` and its visitors | every instruction once, under its own number, operands in the order of the listing, arrows to nodes that are there |
| utilities | `utils.c` | none | `read_asm_file`, `extract_sub_string` | none of their own |
| AST | `AST.h` | none | none | not written yet |

The parts interact by direct calls on one thread, and by the data they hand
on: the lifter numbers the IR cells, and the graph looks its blocks up by these
numbers (`graph.c:134-145`); `get_info_graph` sizes two arrays that
`create_graph` fills; the graph sets and clears the `visited` flags that `DFS`
uses again; `compute_idom` leaves the `dominator` pointers that the frontier
pass climbs; the printer reads the nodes, their links and, by pointers into the
lifter's buffer, the instructions.

The hard behaviours, each an entry of `hazards` in `PROJECT.json` with the
properties that watch it:

* arrays sized by one rule and filled by another (`graph.c:21/36`,
  `graph.c:58/167`, `lifter_weeperVM.c:59/179`);
* lists rewritten while read (`graph.c:49-55`, and the dominators that
  `intersect` climbs while a pass changes them);
* recursion along cycles with a flag as its only brake (`graph.c:196`), and two
  loops that climb a tree without a bound (`domfrontier.c:71`, `191`);
* values never written (`domfrontier.c:41`, `109`);
* lists of the same opcodes kept in several places (parser, lifter tables,
  `opcode_to_ir`, the switches of the handlers);
* two numberings of the same instructions, of the listing and of the IR
  (`lifter_weeperVM.c:176`), and a third in the picture (`printCFG.c:39`);
* the end of the program: a conditional jump there, or a jump to right behind
  it, starts a block without instructions, found only by the offset the lifter
  has stamped behind the last instruction (`lifter_weeperVM.c:179`,
  `graph.c:124`, `139`);
* operands that change places in the parser, the lifter and the printer.

## 2. Modules

```
AtomicIR ── LeaderSpec            FlowGraph ── Idom ───── IdomMC
   │            │ implemented by      │                     │
   ├──────── Leaders ── LeadersMC     └──── DomFrontier ─ DomFrontierMC
   │                                                    SmallCfgs ┘
   ├──────── FlowSearch
   │            │ implemented by      Tokens ── Lexer ── LexerMC
   └──────── CfgBuilder ── CfgBuilderMC  │        └───────────── Frontend ── FrontendMC
                                         └─ Listing ── Parser ──────┘
                                      WeeperAsm ─┘        └─ ParserMC
                                          └─ Lifter ── LifterMC

Decompile = Frontend ; Lifter ; Leaders ; Blocks ; CfgBuilder ; Printer ── DecompileMC

Proofs: LeadersProofs, CfgBuilderProofs, LifterProofs, LexerProofs, ParserProofs,
        DomFrontierProofs, each of its module; IdomProofs on the lemmas about dominance
        of DomFrontierProofs; DecompileProofs, of Frontend and of Decompile, on the first five
```

`SmallPrograms` (LeadersMC, CfgBuilderMC), `SmallCfgs`, `SmallAsms` (LifterMC) and
`SmallListings` (ParserMC, FrontendMC) have the instances of the runs, `Spelling`
(FrontendMC, DecompileMC) turns programs into texts.

**AtomicIR** is the IR as the graph reads it: a record with the number of
instructions (`ir->index`) and, per offset, a kind and a jump target; kinds
other than the two jumps are `ATM_OTHER`. `IsProgram` is any list of instructions,
empty ones and jumps to anywhere included, as the lifter may deliver them;
`StartsInside` is what `create_graph` supposes besides: there is an instruction,
and no jump goes further than right behind the last one. `Leaders` is what `get_info_graph` means by a block
start, `BlockEnd`, `Block`, `BlockNext` are the blocks, `Executable` and
`Reachable` what can be reached along the instructions and along the blocks,
defined as least closed sets so that no algorithm is hidden in the reference.

**Leaders** is `get_info_graph` with one action per loop round: `Alloc`,
`ScanInstr`, `Sort`, `Dedup`, `Truncate`, `CountEdges`, `Return`, and `CountWild` for
an edge count that looks at a cell that holds no instruction. The state is
the function's locals and out-parameters. `qsort` is modelled by its result (the
k-th smallest cell), `realloc` after an overrun by the two things the allocator
may do. **LeaderSpec** is what the function promises: in one step, the
ascending list of the starts and the capacity.

**Blocks** is `initialize_graph`: the nodes with first instruction and size, the
first, the middle and the last each by its own code; what lies behind the array
of starts is a constant, `Garbage`. **CfgBuilder** is the rest of `create_graph`. A node is its start offset. The C stack is
the variable `stack`, one frame per pending call with the node and the call the
frame waits for; `pc` says whether a call is about to run (`"call"`) or one has
returned `ret` (`"return"`). `CallVisited`, `CallJump`, `CallFall`, `CallEnd`
are the ways a call begins, `ResumeFalse` and `ResumeUp` the ways it goes on
after an inner call, `Finish` the clearing of the flags. `LinkAndCall` is
`update_neighbour_nodes` and the recursive call that follows it, with the NULL
dereference of a failed lookup; `EdgesFull` is the exit of `create_edge`.
**FlowSearch** is the abstract search it implements: blocks are discovered one
at a time along the flow, and the search is finished only when none is left.

**FlowGraph** has the CFG as the dominance passes read it and the textbook
notions on it: `Dominates` (by separating sets, not by any algorithm), `IsIdom`,
`Frontier`. **Idom** is `DFS`, `reverse_post_order`, `intersect` and
`compute_idom`. The value `WILD` stands for what was never written; using it as a
node ends the run in `"wild"`. **DomFrontier** is `compute_dominance_frontier`
from the dominators that `Idom` is shown to leave.

**Tokens** has the kinds of tokens in the order of their enumeration and the cells
of the token list; a cell that realloc added has the kind `"unwritten"`.
**Lexer** is `lexer_weeperVM` and `free_tokens_weeperVM`. A text is a sequence of
lexemes, what the loop takes off in one round: which characters make a word is
left to the regular expressions, what becomes of the word is modelled. One
action per branch of the loop (`SkipBlank`, `AddChar`, `AddInteger`, `AddKeyword`,
`RejectWord`, `SkipUnknown`, `Return`); `AddToken` is `addToken` with its growth and
the failure of realloc. The array (`tokens`) and the number of cells the list takes it to
have (`nb_tokens`) are two variables, for addToken doubles the number before it
calls realloc, and `free_tokens_weeperVM` goes by the number. A string is named by its
place in the text, and the variable `strings` holds those not freed yet.

**Parser** is `parser_weeperVM` and `free_asm_weeperVM`. The pending C calls are
the variable `todo`, the operands that inner calls have returned are `args`; each
look at a token is an action, and looking at a cell nobody wrote ends in `"wild"`.
The history variable `last` keeps the end of the tokens, which the parser forgets.
**Listing** is the reference: the words of each instruction. **Frontend** composes
both as `decompile` does: they share the list and the count, and the frees come
after the parser. **WeeperAsm** is the program between parser and lifter.

**Lifter** is `lifter_weeperVM`. `atoms` are the cells up to `ir->index`,
`stamp` the cell whose offset was written ahead of its instruction. A `ValueId` keeps
its address; its pointer into the buffer is left out, since nothing follows it. `IrKind` is `opcode_to_ir` (a function
whose domain is the set of opcodes with a case), `Address` is `operand_to_id`,
`Add` the end of every handler with the stamp of `lift_instruction`, `LiftMov`,
`LiftCmp`, `LiftOperation`, `LiftJmp`, `SkipCall` the dispatch. `View` is the buffer as
the graph reads it.

**Printer** is `graph_to_graphviz` with the visitors: the picture is the sequence of
the nodes drawn, each with its id, its arrows and its label, a list of numbered
instructions. How a name or a number is spelled is left out; the order and the
choice of what is printed is not.

**Decompile** is the whole of `decompile`, from the file to the frees: it extends
`Frontend` by the file and the back end. Each stage is
the module above on the variables the stage before has left: the lifter's `asm` is
the parser's `program`, the `ir` of the graph is the lifter's buffer, `list` and the
links of the nodes are shared, the printer reads buffer and graph. A stage that
stops (an error exit, a wild read) stops everything. What a listing means is stated
on its instructions alone: `AsWritten` is an instruction with its operands in order,
`At` the place of a label among the instructions that are lifted, `WrittenNext` the
flow.

The operators marked `Fault:` are plausible mistakes in the code (a dropped
guard, an off-by-one, a swapped comparison). They are used by nothing: each is
put in the place of the definition that follows it to see that a property would
notice, as listed under `mutants` in `PROJECT.json`.

## 3. Runs

| Run | Instances | What it asks | Result |
|---|---|---|---|
| Leaders | all programs of at most 4 instructions, every kind, targets up to one beyond the cell behind the last | type and wild reads, room of the array, the compaction, the result, LeaderSpec | holds (about 606,000 states) |
| CfgBuilder | those of them that `create_graph` can be given | type, no abort, the ledger of the edges, the exact graph, spanning edges, flow preserved, termination, FlowSearch | holds (about 214,000 states) |
| Idom | all graphs of at most 4 nodes that `create_graph` can deliver | type, numbering, chains, immediate dominators, dominators only climb, termination without the use of anything unwritten | holds (about 62,000 states) |
| IdomUnreachable | at most 3 nodes | does the list hold a node in every cell (`domfrontier.c:105`)? | no |
| DomFrontier | at most 4 nodes, all reachable | type, the runner stays below its goal, soundness, completeness but for the header, termination | holds (about 25,000 states) |
| Lifter | all listings of at most 3 instructions over every opcode | no opcode between the tables, dense offsets, the stamp behind them and when it is past the buffer | holds (about 221,000 states) |
| LifterLabels | 3 instructions | do labels keep their instruction (`lifter_weeperVM.c:67`, `README.md:7`)? | no |
| Lexer | all texts of at most 5 lexemes over 8, lists of 2 cells that grow to 8 | type, the number of cells that is kept, no token lost by growth, one owner per string | holds (about 121,000 states) |
| LexerGrowth | at most 3 lexemes | are the new cells initialised (`lexer_weeperVM.c:86`)? | no |
| Parser | the listings of one instruction with each mnemonic and of two of four forms, at most one word dropped, doubled, replaced or added; counts 1 to 3; four kinds of cells behind the tokens | type, the tokens taken are the listing of what was made, the end of the tokens | holds (about 203,000 states) |
| Frontend | the same programs as texts, as many line ends and unknown characters as instructions at any places, lists of 8 cells | what is delivered, what is refused, everything freed, termination | holds (about 316,000 states) |
| Decompile | texts of all programs of at most 3 instructions over 12 control forms (jumps and conditional jumps to 0..4, an operation, a call), and of at most 2 over these and five forms of data | the picture is the listing, the flow of the picture is that of the listing, it returns | holds (about 163,000 states) |

The bounds. Four instructions are the least number at which a loop, a join, a
jump in the middle of a block, dead code and a second conditional jump can meet
in one program; all programs of that size are tried, so loops of one, two and
three blocks, self loops and jumps to the next instruction are all there. Four
nodes contain a diamond, nested and crossing loops, an irreducible loop and a
graph on which `compute_idom` needs a second pass that changes something; the
empty last block with the links of a jump it does not hold is among them. Three
instructions of a listing suffice for a call before, between and behind a jump
and its label; the buffer never grows in the code as it is, and the run is
made to grow by the fault `CellsHalf`. Five lexemes fill a list of two cells twice
over, so tokens are written before, at and after each growth; 256, the size in the
code, differs in nothing but the length of the run. Two instructions and as many
line breaks give every relation of the count to the number of instructions: less,
equal, more; a listing with one wrong word reaches each error exit of the parser. For `Decompile`
three instructions give two blocks and an empty one behind them, a loop over a
loop, dead code, a call between a jump and its label, a jump one too far; what lies
behind the array of starts is one of two numbers; one listing per program, for
how it is broken into lines is the question of `Frontend`. The list of tokens does
not grow there, as it does in `Lexer`. `CHECK_DEADLOCK FALSE` stands in every
configuration because every one of these functions returns; that they do not stop
before is what `Termination` states where a loop or a recursion has no evident
bound, and for lexer and parser together, and `Returns` for all of `decompile`.

The violated properties are statements of comments or documents of the
repository that the code does not keep; `findings` quotes them. Three deserve a
reader's attention: an unreachable node makes `compute_idom` use memory nobody
wrote (the pass is not called by `decompile` yet); a call in the listing
shifts every instruction behind it while the jumps stay; and an end of the
last line in a long listing makes the count one too high, and since the list has
grown the parser reads a cell that was never written (`Accepted` and `StopsAtEnd`
say when it does not).

Some limits of the code are conditions of passing properties: the number that
sizes the edge array (`graph.c:58`) is not that of the edges, only enough for
those that are recorded (`NoAbort`); an unconditional jump inside a block, which
dead code behind it makes possible, leaves no link (`FlowPreserved` asks for
`JumpsEndBlocks`); and the header of a program that loops back to its first
instruction is in no dominance frontier (`FrontierComplete` leaves it out). And
`Returns` and `FlowDrawn` say when the whole works: there is an instruction to lift
(a listing of calls makes the search read the cell before the buffer, `SearchNothing`),
no jump goes further than right behind the last instruction (`CountWild`), and no
call stands before a label.

`CFG.h:24` calls the graph "explicit (every edge exist at once)". The links are; the
array of edges is a spanning tree of the search: `EdgesSpan` says so, and a link to
a block visited before, a loop or a join, has no edge in it (`graph.c:224`). Nothing
reads the edges yet but the unused helper of `cf_structuring.c`.

A conditional jump at the end of a program, which `graph.c:211` supposes away, is
safe all the same, and so is a jump to right behind the last instruction: the end
node is then empty, its "last instruction" is the one before it, and the picture
shows a node without instructions. If that one is a jump, the empty node
gets the links of the jump too, so the end seems to lead on. `FlowDrawn` does not
look at this: it compares what follows each instruction and leaves the end out.
That such a node has no links but these is part of `CfgExact`.

Fairness. The program has one thread, no lock and no blocking call, so the only
assumption is that it takes a step when it can: weak fairness of `Next`. A
failed allocation in `get_info_graph` and an allocator that aborts are steps like
any others and are not assumed away.

## 4. Proofs

Every theorem is about the specification of its module for all values of its constants:
programs, texts, lists and graphs of any size.

`LeadersProofs` shows for every set of programs, empty ones and jumps to anywhere
included: `TypeCorrect`, `ScanFits`,
`CompactionSafe`, `StartsCorrect` and `Refinement` (`get_info_graph` implements
`LeaderSpec`). The array grows while the scan runs and is rewritten later, so
the invariant says for each `pc` which leaders the cells hold: after `i`
instructions the targets and successors of those; after the sort all of them,
ascending with duplicates; during the compaction that the kept cells ascend, lie
below the cells not yet read, and that both together hold every leader. The room
of the array needs a count: the cells written so far are at most those of the
instructions read, less one until the last, for each second cell is paid by the
instruction before its jump.

`CfgBuilderProofs` shows for every set of programs, those that start their blocks
inside being the ones the specification begins with: `TypeCorrect`, `NeverAborts`,
`LedgerBalances`, `CfgCorrect` and `Refinement`. None of them is inductive. The
invariant `IInv` adds: the pending calls are on distinct marked blocks
(`StackInv`); the call about to run is on a successor of the innermost pending
block (`ControlInv`); a block seen has all the links of `Follows`, except that
one waiting on its true branch has the first only, every link leads to a block
seen or about to be, and every block seen but the entry is linked
(`LinksInv`); successors and predecessors agree in number (`MirrorInv`). That the
edge array never overflows is then arithmetic: with a node being returned and at
least one call pending, the edges recorded are at most the blocks less two, and
the capacity is at least the blocks less one. When the stack is empty the blocks
seen are closed under the flow, which gives the exact graph and the last step of
the refinement.

Two more theorems are about the finished graph. `FlowSurvives`: it holds every
instruction that can be executed, and no other, if every jump ends its block. The
argument (`FlowKept`) is on programs alone: flow enters a block at its start only,
runs through it, and leaves it at its end to what `BlockNext` has, so both least
closed sets, of instructions and of blocks, are closed under the other's
steps. `EdgesFormTree`: the recorded edges span the blocks linked. Each edge
is recorded when a call returns, so while calls are pending the edges are those of
finished subtrees, and `TreeInv` adds that no block is the target of two
(`LinkedOnce`), that targets, blocks waiting for their return and the block being
returned are the marked blocks, each once (`Accounted`), and that each pending call is on
a successor of the one below (`PathDown`).

`LifterProofs`: `TypeCorrect` and `CellsDense`, from the conjunction of the two
and of what `pc` says of the capacity. The cell of an
instruction is a count, of the instructions before it that are no calls; the lemmas on
`Cell` say how it grows, and `CellFull` that it is the instruction's own number only as long as there
was no call, which is when the stamp gets past the buffer. That there is always a case is in `KindKnown` and
`MovKindUnknown`: the dispatch tables and `opcode_to_ir` agree on every opcode but
those of `mov`, which do not ask it.

`LexerProofs`: `TypeCorrect`, `NumberIsThatOfTheCells`, `NoTokenLost`, `StringsOwned` and
`NothingLeaks`. The first four together
are inductive with `OwnersOld`, by which a string taken now is not yet in any
cell; `StringsOwned` is stated for every `pc`, the error exits included, where the strings
are those of the cells and the one in hand (`Unplaced`). That the array is the first one doubled some times needs
that a power of two doubles with its exponent, which no prover here knows: `TwoExp` counts subsets. `AddTokenEffect` is the heart: whether the list grows or not, the cells
below the index are what they were, and the new token is behind them.

`ParserProofs`: `ListingRead`, `TypeCorrect`, `StopsBehindTokens` and `ReadsListing`, for every
list of tokens and every count, too high ones included. For the third, `EndInv` is inductive: the
pending calls never ask for a mnemonic, and two cells as `calloc` left them are two
mnemonics (the kind 0 is `mov`), so the parser may take the first as the beginning of an
instruction, and then wants an operand and stops at the second (`BeforeEnd`).

For the first two the invariant `PlaceInv` says where the parser is: between two lines
(`AtLine`), in a call (`AtCall`) or in an operand (`InOperand`). Operands nest, so
`Inside` describes k open brackets by k + 1 places, each with the words read before it,
what its C calls will still ask for and the operands alive; a bracket that opens
adds one place (`InsideMore`) and one that closes takes it away (`InsideLess`). In
each place the tokens taken are the listing of the program and a
prefix of the next line, and the operands alive are those of the program and of the prefix, so
when nothing is pending the line is complete, which is `PrintsBack`, and when the program is
freed nothing is left alive. How a line is written and what an operand frees are
recursive functions (`Tree`, `Written`, `Freed`, `FreedBy`, the library's `FlattenSeq`); that they satisfy
their definitions is shown for each by extending its part up to n to n + 1, with `FromZero`,
which takes the place of induction: a set of numbers that lacks one lacks a least one.

`DecompileProofs` is about the rest. First the lexer and the parser together (module `Frontend`,
at the end of the file): `SourceDelivered`, `ListingAccepted` and
`NothingLeft`, for every program and every layout of its listing, lists that grow
included. It instantiates the proofs of the lexer and of the parser and joins their
invariants (`FrontInv`): before the parser starts, the lexer's, to which `Handed` adds that
behind the tokens the cells are blank; from then
on the parser's, with `Follows` of the source. `HandOver` is the joint: the
lexer has written a token for each lexeme (`NoTokenLost`, and `EveryCell`, by which no
cell up to the index is left out), what the parser sees of a token is what the grammar sees
of the lexeme (`TokenSeen`), so the list is the listing of the source.

That the parser then reads the source, and nothing else, is `ReadsListing` of `ParserProofs`
(`Follows`). `PrintsBack` alone does not say it: the program built prints back to the
tokens taken, but might be another program than the one written. `OneInstruction`
excludes this: a list has at one place the line of one instruction only, for operands
are told apart by their first words, and end where their brackets do (`OneOperand`).
So between two lines the program is a beginning of the source, and the index is where its next line
begins (`BetweenLines`). Inside a line every pending call will find what it asks for
(`InLine`, `FindAll`, with the operands it spans as a whole), so no call fails; behind the last line
a blank cell can at most be taken for a mnemonic (`Behind`), whose operand is then missing. What fails,
fails there, and there the count is too high.

Then it is about all of `Decompile`: `PictureComplete` (`Drawn`) and `FlowPictured`
(`FlowDrawn`), for every listing that has one instruction to a line, and whatever file,
allocator and memory behind the array of starts do. It instantiates the
proofs of the five stages that have them. Their invariants are stated of a running stage
and do not say how it was entered: `InvEntered` of `LifterProofs` and `EntryHolds` of `LeadersProofs` and
`CfgBuilderProofs` give them at the entry of any program, and `StepInv` or `StepHolds`
keeps them. The inductive invariant `Inv` has a conjunct per stage: each says that the stage
is as it was entered until the one before it is done, and from then on that its own
invariant holds (those of the back end alone are `Stages`, with which the file
begins); a step of one stage leaves the conjuncts of the others as they are.
What is handed over, in order:

* `Counted`: the count is the line ends and one, so with one instruction to a line the
  program delivered is the whole source (`WholeSource`);
* `LiftStage` holds `Lifting`: each cell `Shows` the instruction it was lifted from, operands
  included, at the cell that counts the instructions before it that are no calls;
* `InfoStage`: the list of starts is the ascending list of the leaders of `ir`, and `ir` is a program;
* `NodesStage`: the nodes are the blocks of `ir` in the order of their starts;
* `CfgStage`: the links are exact (`LinksExact`), and cells and starts are no longer written;
* `DrawStage` holds `DrawInv`: the picture so far is that of the nodes done, in their order, and of a
  prefix of the node being drawn; the running number, which is never reset, is the offset of
  the cell it is printed with, for the blocks lie one behind the other.

So at the end entries and cells correspond one to one (`EntriesCells`), and cells and lifted
instructions too, by which both have the same number and each instruction has its entry. That its operands
come out in the written order is then a comparison of what parser, lifter and printer
each turn round. For the flow, the cell of an instruction leads in the IR where the
instruction leads in the listing (`CellFlow`, where labels and places agree), and what can be
executed lies in blocks that the search has linked (`FlowCovered`, in `CfgBuilderProofs`), whose arrows
are the ends of `BlockNext`.

`DomFrontierProofs` begins with the lemmas on dominance: it is a partial order, the dominators
of a node are linearly ordered, and every reachable node but the header has one
immediate dominator. Dominance is defined by separating sets, so all are proved
by exhibiting a set, without any path or induction.

`IdomProofs` proves `compute_idom` correct on graphs of every size. For the
search the invariant is `SearchInv`: the stack is a path from the header
(`FramesOK`, `StackPath`), what is listed has its successors visited
(`VisitedOK`), and a dominator of a visited node is on the stack or listed
later (`DomOrder`), which gives `ListOrdered`, and `ParentOrder`, by which every node has a
predecessor that the pass processes before it. For the passes, `Chain` is what the
dominator pointers lead to. No pointer leads down the numbering (`LinksClimb`), a
chain holds all dominators of its node (`HoldDominators`, so `ChainsHold`), and all
that is common to the processed predecessors of a node is on the chain of its
pointer (`Shared`); `intersect` keeps that what both fingers still have to
meet is above both (`Fingers`). `Climbing` needs more: that a pass never
moves a pointer down again. `Forward` says that what is on the chain of a node is on
the chains of its forward predecessors, as far as this pass has come; with it the
new chain is a part of the old one. Once a pass has changed nothing, every
pointer is on the chains of all predecessors (`Settled`), so every node of
a chain dominates: the nodes whose chain does not have `c` are a set that `c` separates from
the header. That is `IdomCorrect`. `NoWildUse` says that the pass reads nothing unwritten on
graphs without unreachable nodes, and `HandsOver` that it returns in a state
that `DomFrontier` begins with, so that the theorems of both modules are about one
computation.

`DomFrontierProofs`: `TypeCorrect`, `RunnerStaysBelow`, `Sound` and `Complete`, from
the invariant that the runner dominates the predecessor it started from and is
dominated by the goal (`RunnerOK`), and that for the predecessors done, all
dominators that belong to it are recorded, for the one being done those below the
runner (`CoveredSoFar`). `OnlyPred` justifies the condition of the code that skips nodes with one
predecessor: they are in no frontier.

Assumptions. Each theorem rests on a named assumption on the inputs of its module:
every member of `Programs` is a program (`ProgramsAssumption`), of `Cfgs` a graph
whose predecessors mirror its successors (`CfgsAssumption`), of `Asms` a program of
the parser that is not empty (`AsmsAssumption`), of `Texts` a text
(`TextsAssumption`); every member of `TokenLists` is a list whose cells up to its
index are written (`ListsAssumption`), as `TokensKept` says the lexer leaves
them, and which opens at most `Depth` brackets (any finite list has such a `Depth`: it
only bounds the operand trees of `Listing`, see `DepthAssumption`); the list of the lexer
has a cell to begin with (`CellsAssumption`); every member of `Sources` is a program and a
text that is its listing (`SourcesAssumption`): the lexemes that are tokens are the words of
its lines, whatever blanks, line ends and unknown characters are between them (`IsListing`),
with at most `Depth` brackets, and, for `Decompile`, with as many line ends as put each
instruction on a line of its own, and with immediate indices where the lifter expects them
(`LinesAssumption`); and the marks `NULL` and `WILD` are no integers (`NullAssumption`,
`MarksAssumption`). TLC evaluates all of them on the instances of the runs.

Every invariant and every action property of a passing run is stated by a theorem. Only
model-checked, not proved: termination and every other liveness property (`Termination` of
`CfgBuilder`, `Idom`, `DomFrontier` and `Frontend`, `Returns` of `Decompile`), which are out of
the prover's reach. `SmallCfgs` uses
recursive operators, so it is only used by the runs.

## 5. What is not modelled

* The failure of `malloc`, `calloc` and `realloc`, but for the first in
  `get_info_graph`, the `calloc`s of `initialize_empty_graph` and the realloc of
  `addToken` (whose error path frees the old
  array with the new number of cells, a step to `"wild"`): each is followed by an
  exit or by a NULL dereference.
* What the stamp behind the last instruction (`lifter_weeperVM.c:179`) overwrites. It
  is four bytes past the buffer when there are no calls. A cell has 80 bytes in a
  64-bit build, so with the allocator of the C library they are the last of the
  block it hands out, are never given to anyone else, and can be read back, which is
  how the model has it. When it is past the buffer, `OffsetsDense` says: after the last
  instruction of a program without calls and never else. `kind` of that cell is never used: the node has no instruction.
* `calloc` of zero edges may return NULL, which `graph.c:95` takes for a failure;
  the C library in use returns a pointer.
* The size, the version and the pointer `def` of a `ValueId`: nothing reads them. The pointer is
  into the lifter's buffer and would dangle after a `realloc`; the buffer never grows, for it
  has a cell per instruction. A register whose index is
  itself a register is read as if it were an immediate (`lifter_weeperVM.c:271`);
  the model admits immediates only.
* The number of an edge (`domfrontier.c:21-25`): it is written to a copy.
* What the back end does after it has used a jump target further behind the program, or
  looked for the last instruction of an IR without instructions: it reads memory
  that is not the IR's, a step to `"wild"`.
* Listings with `mul`, in the properties of `Frontend` and `Decompile`: it is a keyword and the parser
  refuses it (an error exit of the model too), so no program has one. And what a
  dropped character meant: a listing is defined by its tokens, so `-5` and `5` are the
  same number in all properties.
* The matching of the regular expressions and `atoi`; lines and columns, which only
  messages use. The string that `parse_call` prints of a token that may have none.
* `find_instruction_offset`, `visit_program`, `visit_jmp_addr`, `free_ir`, `free_cfg`,
  `free_node`, `free_edge`, which nothing calls: `decompile` frees neither the IR nor
  the graph (`ccg.c:160-161`).
* The command line (libc's argp; `--output` is read and not used) and an architecture
  other than WeeperVM, for which `ccg.c:134-145` calls through a pointer that was never set.
* The words and the layout of the dot file, and the call of `dot`.
* SSA construction: `cfg_to_ssa` calls the frontiers and its own call is commented out.
  Structuring of the control flow: the one helper left, `cfg_has_unvisited_edges`,
  answers whether there is a visited edge, keeps no state and is not called. The AST:
  declarations only. There is nothing in them yet to be checked against.

## 6. Plan

1. Done: `AtomicIR`, `Leaders` with `LeaderSpec` and its proofs; `CfgBuilder`
   with `FlowSearch` and its proofs; `FlowGraph`, `Idom`, `DomFrontier`;
   `Lifter`; `Lexer`, `Parser` and their composition `Frontend`; `Blocks`, `Printer` and
   the composition of everything `decompile` calls, `Decompile`.
2. Done: the theorems about all of `decompile` from those about its stages, `DecompileProofs`.
3. `cf_structuring.c` and the SSA construction, when they are written; then the
   dominance passes belong behind the graph in `Decompile`.
