------------------------------ MODULE Printer -------------------------------
(***************************************************************************)
(* graph_to_graphviz (printCFG.c) with the visitors of pretty_printer.c:   *)
(* each node of the graph is drawn with arrows to its successors and a     *)
(* label that lists its instructions, numbered through the whole picture   *)
(* by a counter of the printer's own.                                      *)
(*                                                                         *)
(* The picture is the sequence of the nodes drawn.  An instruction is      *)
(* printed as a name and operands; how they are spelled, and the call of   *)
(* Graphviz on the finished file, are left out.                            *)
(***************************************************************************)
EXTENDS Integers, Sequences

VARIABLES
    atoms, stamp,   \* the IR, and the cell behind it whose offset is written
    nodes, succs,   \* the graph
    pc,             \* "open", "node", "label", "done" or "exit"
    i,              \* the loop index over the nodes
    instr_idx,      \* the loop index over the instructions of a node
    instr_count,    \* the instructions printed
    picture

Entry ==
    /\ pc = "open"
    /\ i = 0 /\ instr_idx = 0 /\ instr_count = 0
    /\ picture = <<>>

-----------------------------------------------------------------------------
\* The kinds that are printed as a name and their two inputs.
Binary ==
    [ATM_ADD |-> "ADD", ATM_SUB |-> "SUB", ATM_XOR |-> "XOR", ATM_OR |-> "OR",
     ATM_REM |-> "REM", ATM_AND |-> "AND", ATM_SHR |-> "SHR", ATM_SHL |-> "SHL",
     ATM_EQUAL |-> "EQUAL"]

Jumps == [ATM_JMP |-> "JMP", ATM_CONDJMP |-> "CONDJMP"]

Text(name, operands) == [name |-> name, operands |-> operands]
Unprintable == Text("Instruction cannot be printed", <<>>)

\* visit_id, and what is printed around it for a pointer.
VisitId(id) ==
    [space |-> CASE id.address.space = "SPACE_CONST" -> "CONST"
                 [] id.address.space = "SPACE_REG" -> "REG"
                 [] OTHER -> "MEM",
     number |-> id.address.offset]
AtPointer(id) == [space |-> "MEM", pointer |-> VisitId(id)]

\* visit_instruction; the ids are in the order of the structs of the kinds.
VisitInstruction(atom) ==
    LET kind == atom.kind
        ids == atom.ids
    IN  CASE kind \in DOMAIN Binary ->
                Text(Binary[kind], <<VisitId(ids[1]), VisitId(ids[2])>>)
          [] kind = "ATM_COPY" -> Text("COPY", <<VisitId(ids[2]), VisitId(ids[1])>>)
          [] kind = "ATM_LOAD" -> Text("LOAD", <<VisitId(ids[2]), AtPointer(ids[1])>>)
          [] kind = "ATM_STORE" -> Text("STORE", <<AtPointer(ids[2]), VisitId(ids[1])>>)
          [] kind \in DOMAIN Jumps -> Text(Jumps[kind], <<VisitId(ids[1])>>)
          [] OTHER -> Unprintable

\* The instruction in a cell, and its offset, which the cell behind has too.
InstrText(cell) ==
    IF cell < Len(atoms) THEN VisitInstruction(atoms[cell + 1]) ELSE Unprintable
OffsetOf(cell) == IF cell < Len(atoms) THEN atoms[cell + 1].offset ELSE stamp

-----------------------------------------------------------------------------
Open ==
    /\ pc = "open"
    /\ pc' \in {"node", "exit"}      \* fopen() may return NULL
    /\ UNCHANGED <<atoms, stamp, nodes, succs, i, instr_idx, instr_count, picture>>

b == nodes[i + 1]

DrawNode ==
    /\ pc = "node" /\ i < Len(nodes)
    /\ picture' =
         Append(picture,
                [id |-> OffsetOf(b.start),
                 arrows |-> [k \in 1 .. Len(succs[b.start]) |-> OffsetOf(succs[b.start][k])],
                 label |-> <<>>])
    /\ instr_idx' = 0
    /\ pc' = "label"
    /\ UNCHANGED <<atoms, stamp, nodes, succs, i, instr_count>>

DrawInstr ==
    /\ pc = "label" /\ instr_idx < b.size
    /\ picture' =
         [picture EXCEPT ![Len(picture)].label =
            Append(@, [number |-> instr_count, text |-> InstrText(b.start + instr_idx)])]
    /\ instr_idx' = instr_idx + 1
    /\ instr_count' = instr_count + 1
    /\ UNCHANGED <<atoms, stamp, nodes, succs, pc, i>>

EndLabel ==
    /\ pc = "label" /\ instr_idx >= b.size
    /\ i' = i + 1
    /\ pc' = "node"
    /\ UNCHANGED <<atoms, stamp, nodes, succs, instr_idx, instr_count, picture>>

Close ==
    /\ pc = "node" /\ i >= Len(nodes)
    /\ pc' = "done"
    /\ UNCHANGED <<atoms, stamp, nodes, succs, i, instr_idx, instr_count, picture>>

Next == Open \/ DrawNode \/ DrawInstr \/ EndLabel \/ Close
=============================================================================
