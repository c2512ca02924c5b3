----------------------------- MODULE Decompile ------------------------------
(***************************************************************************)
(* decompile (ccg.c:130-167), from the file to the picture: the listing is *)
(* read, lexed, parsed and lifted (Lexer, Parser, Lifter); ir_to_cfg finds *)
(* the starts of the blocks (Leaders), makes the nodes (Blocks) and links  *)
(* them (CfgBuilder); the graph is drawn (Printer); tokens, assembly and   *)
(* text are freed.  The IR and the graph are not.                          *)
(*                                                                         *)
(* Each stage works on the variables the one before it has left, and the   *)
(* back end on the lifter's buffer.                                        *)
(***************************************************************************)
EXTENDS Frontend

CONSTANTS
    Garbage,       \* what may lie behind the array of starts
    NULL

ASSUME GarbageAssumption == Garbage # {} /\ Garbage \subseteq Int
ASSUME NullAssumption == NULL \notin Int

VARIABLES
    file,          \* the text: "unread", "read", "freed", or "exit" after an error
    \* the lifter
    lift_pc, lift_i, atoms, capacity, stamp,
    \* get_info_graph
    info_pc, info_i, list, nb_basic_nodes, nb_edges, overrun,
    \* initialize_graph and create_graph
    nodes_pc, node_idx, nodes, succs, preds,
    cfg_pc, arg, ret, stack, visited, header, edges,
    \* graph_to_graphviz
    draw_pc, draw_i, instr_idx, instr_count, picture

lift_vars == <<lift_pc, lift_i, atoms, capacity, stamp>>
info_vars == <<info_pc, info_i, list, nb_basic_nodes, nb_edges, overrun>>
nodes_vars == <<nodes_pc, node_idx, nodes>>
links_vars == <<succs, preds>>
cfg_vars == <<cfg_pc, arg, ret, stack, visited, header, edges>>
draw_vars == <<draw_pc, draw_i, instr_idx, instr_count, picture>>
back_vars == <<lift_vars, info_vars, nodes_vars, links_vars, cfg_vars, draw_vars>>
vars == <<file, front_vars, back_vars>>

Lift == INSTANCE Lifter WITH Asms <- {}, asm <- program, pc <- lift_pc, i <- lift_i
IR == INSTANCE AtomicIR WITH Programs <- {}

ir == Lift!View

Info == INSTANCE Leaders WITH Programs <- {}, pc <- info_pc, i <- info_i
Nodes == INSTANCE Blocks WITH pc <- nodes_pc
Cfg == INSTANCE CfgBuilder WITH Programs <- {}, pc <- cfg_pc
Draw == INSTANCE Printer WITH pc <- draw_pc, i <- draw_i

\* The listing has each instruction on a line of its own, and no other line; and
\* the lifter, which does not look at the kind of an index, finds the one it wants.
ASSUME LinesAssumption ==
    \A s \in Sources :
       /\ Cardinality({n \in 1 .. Len(s.text) : s.text[n] = Lexer!NewLine})
            = Len(s.program) - 1
       /\ Lift!IsAsm(s.program)

-----------------------------------------------------------------------------
Init ==
    /\ file = "unread"
    /\ FrontInit
    /\ Lift!Entry
    /\ Info!Entry
    /\ Nodes!Entry
    /\ Cfg!Entry
    /\ Draw!Entry

\* read_asm_file, which may fail to open or to read the file.
ReadFile ==
    /\ file = "unread"
    /\ file' \in {"read", "exit"}
    /\ UNCHANGED <<front_vars, back_vars>>

ReadTokens ==
    /\ file = "read"
    /\ UNCHANGED <<file, back_vars>>
    /\ LexerStep

ReadProgram ==
    /\ UNCHANGED <<file, back_vars>>
    /\ ParserStep

LifterStep ==
    /\ parser_pc = "done"
    /\ UNCHANGED <<file, front_vars, info_vars, nodes_vars, links_vars, cfg_vars, draw_vars>>
    /\ Lift!Next

FindStarts ==
    /\ lift_pc = "done"
    /\ UNCHANGED <<file, front_vars, lift_vars, nodes_vars, links_vars, cfg_vars, draw_vars>>
    /\ Info!Next

MakeNodes ==
    /\ info_pc = "done"
    /\ UNCHANGED <<file, front_vars, lift_vars, info_vars, cfg_vars, draw_vars>>
    /\ Nodes!Next

Search ==
    /\ nodes_pc = "done"
    /\ UNCHANGED <<file, front_vars, lift_vars, info_vars, nodes_vars, draw_vars>>
    /\ Cfg!Next

\* A listing of calls has no instruction to search from.
SearchNothing ==
    /\ nodes_pc = "done"
    /\ UNCHANGED <<file, front_vars, lift_vars, info_vars, nodes_vars, draw_vars>>
    /\ Cfg!CallNothing

DrawGraph ==
    /\ cfg_pc = "done"
    /\ UNCHANGED <<file, front_vars, lift_vars, info_vars, nodes_vars, links_vars, cfg_vars>>
    /\ Draw!Next

DropTokens ==
    /\ draw_pc = "done"
    /\ UNCHANGED <<file, back_vars>>
    /\ FreeTokens

DropAsm ==
    /\ UNCHANGED <<file, back_vars>>
    /\ FreeAsm

FreeText ==
    /\ file = "read" /\ parser_pc = "freed"
    /\ file' = "freed"
    /\ UNCHANGED <<front_vars, back_vars>>

Next ==
    \/ ReadFile
    \/ ReadTokens
    \/ ReadProgram
    \/ LifterStep
    \/ FindStarts
    \/ MakeNodes
    \/ Search
    \/ SearchNothing
    \/ DrawGraph
    \/ DropTokens
    \/ DropAsm
    \/ FreeText

\* One thread, no blocking call.
Fairness == WF_vars(Next)

Spec == Init /\ [][Next]_vars /\ Fairness

-----------------------------------------------------------------------------
(***************************************************************************)
(* What is written: the instructions that are lifted, all but the calls;   *)
(* the place of each among them; and where the flow goes to at a label,    *)
(* which counts the instructions of the listing: to the first lifted one   *)
(* from there on, or to the End.                                           *)
(***************************************************************************)
Lifted == {k \in 1 .. Len(source) : source[k].opcode # "OPCODE_CALL"}
At(label) == Cardinality({j \in Lifted : j <= label})
Place(k) == At(k - 1)
End == Cardinality(Lifted)

Jumping == {k \in Lifted : source[k].opcode \in Lift!JmpOpcodes}

\* A jump's target, as the lifter takes it: a register's number is one too.
TargetOf(k) == Lift!Address(source[k].arg0).offset

\* An operand as it is printed: the memory that a mov goes to or comes from
\* is shown, and elsewhere memory and flags are the constant 0.
Plainly(o) ==
    [space |-> IF o.kind = "OPE_REG" THEN "REG" ELSE "CONST",
     number |-> CASE o.kind = "OPE_IMM" -> o.value
                  [] o.kind = "OPE_REG" -> o.index.value
                  [] OTHER -> 0]
Memory(o) == [space |-> "MEM", pointer |-> Plainly(o.index)]

WrittenName ==
    [OPCODE_ADD |-> "ADD", OPCODE_SUB |-> "SUB", OPCODE_REM |-> "REM", OPCODE_AND |-> "AND",
     OPCODE_OR |-> "OR", OPCODE_XOR |-> "XOR", OPCODE_SHL |-> "SHL", OPCODE_SHR |-> "SHR",
     OPCODE_CMP |-> "EQUAL"]

\* An instruction with its operands in the order in which they are written.
AsWritten(instr) ==
    CASE instr.opcode = "OPCODE_JMP" ->
            [name |-> "JMP", operands |-> <<Plainly(instr.arg0)>>]
      [] instr.opcode \in Lift!CondOpcodes ->
            [name |-> "CONDJMP", operands |-> <<Plainly(instr.arg0)>>]
      [] instr.opcode \in Lift!MovOpcodes /\ instr.arg0.kind = "OPE_MEM" ->
            [name |-> "STORE", operands |-> <<Memory(instr.arg0), Plainly(instr.arg1)>>]
      [] /\ instr.opcode \in Lift!MovOpcodes
         /\ instr.arg0.kind # "OPE_MEM" /\ instr.arg1.kind = "OPE_MEM" ->
            [name |-> "LOAD", operands |-> <<Plainly(instr.arg0), Memory(instr.arg1)>>]
      [] /\ instr.opcode \in Lift!MovOpcodes
         /\ instr.arg0.kind # "OPE_MEM" /\ instr.arg1.kind # "OPE_MEM" ->
            [name |-> "COPY", operands |-> <<Plainly(instr.arg0), Plainly(instr.arg1)>>]
      [] OTHER ->
            [name |-> WrittenName[instr.opcode],
             operands |-> <<Plainly(instr.arg0), Plainly(instr.arg1)>>]

-----------------------------------------------------------------------------
\* What is drawn.
Entries == UNION {{<<m, j>> : j \in DOMAIN picture[m].label} : m \in DOMAIN picture}
EntryAt(e) == picture[e[1]].label[e[2]]
Arrows(m) == {picture[m].arrows[k] : k \in DOMAIN picture[m].arrows}

(***************************************************************************)
(* The picture shows the listing: every instruction but the calls, once,   *)
(* under the number of its place, with its operation and with its operands *)
(* in the order they are written in, although the parser turns round those *)
(* of jif (parser_weeperVM.c:362), the lifter those of mov                 *)
(* (lifter_weeperVM.c:196-232) and the printer some of them again          *)
(* (pretty_printer.c:128-154); and an arrow goes to a node that is drawn,  *)
(* each node being drawn once.                                             *)
(***************************************************************************)
Drawn ==
    draw_pc = "done" =>
       /\ Cardinality(Entries) = Cardinality(Lifted)
       /\ \A k \in Lifted : \E e \in Entries :
             EntryAt(e) = [number |-> Place(k), text |-> AsWritten(source[k])]
       /\ \A m, n \in DOMAIN picture : picture[m].id = picture[n].id => m = n
       /\ \A m \in DOMAIN picture : Arrows(m) \subseteq {picture[n].id : n \in DOMAIN picture}

\* Where the picture leads after the instruction in entry e.
FirstNumber(m) == IF picture[m].label = <<>> THEN End ELSE picture[m].label[1].number

PictureNext(e) ==
    IF <<e[1], e[2] + 1>> \in Entries
    THEN {EntryAt(<<e[1], e[2] + 1>>).number}
    ELSE {FirstNumber(m) : m \in {n \in DOMAIN picture : picture[n].id \in Arrows(e[1])}}

WrittenNext(k) ==
    CASE source[k].opcode = "OPCODE_JMP" -> {At(TargetOf(k))}
      [] source[k].opcode \in Lift!CondOpcodes -> {At(TargetOf(k)), At(k)}
      [] OTHER -> {At(k)}

LabelsAgree ==
    \A k \in Jumping : source[k].arg0.kind = "OPE_IMM" /\ At(TargetOf(k)) = TargetOf(k)

(***************************************************************************)
(* The picture has the flow of the listing: where no call precedes a label *)
(* (module Lifter, LabelsKept) and no jump stands inside a block           *)
(* (graph.c:34), an instruction that can be executed leads, along its node *)
(* or the arrows of it, to those that follow it in the listing.            *)
(***************************************************************************)
FlowDrawn ==
    draw_pc = "done" /\ LabelsAgree /\ IR!JumpsEndBlocks(ir) =>
       LET executable == IR!Executable(ir)
       IN  \A k \in Lifted : Place(k) \in executable =>
              \A e \in Entries : EntryAt(e).number = Place(k) =>
                 PictureNext(e) \ {End} = WrittenNext(k) \ {End}

(***************************************************************************)
(* On a listing with an instruction to lift, no jump of which goes further *)
(* than right behind the last, decompile returns, loops and a jump at the  *)
(* end notwithstanding, with the text freed: nothing stops it but a call   *)
(* of the system that fails, or an allocator that notices that             *)
(* get_info_graph has written past its array (graph.c:36), as it may when  *)
(* the jumps are not paced.                                                *)
(***************************************************************************)
Stopped ==
    \/ "exit" \in {file, info_pc, nodes_pc, draw_pc}
    \/ info_pc = "abort" /\ ~ IR!JumpsArePaced(ir)

Returns ==
    (Lifted # {} /\ \A k \in Jumping : TargetOf(k) <= End) => <>(file = "freed" \/ Stopped)
=============================================================================
