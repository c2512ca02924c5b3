------------------------------- MODULE Lifter -------------------------------
(***************************************************************************)
(* lifter_weeperVM (lifter_weeperVM.c): each instruction of the assembly   *)
(* program becomes at most one atomic instruction, appended to a buffer    *)
(* that has one cell per assembly instruction.  An operand becomes a       *)
(* ValueId, which keeps its address.  Left out: its size, its version and  *)
(* its pointer def, which nothing reads.                                   *)
(***************************************************************************)
EXTENDS Integers, Sequences, FiniteSets, WeeperAsm

CONSTANT Asms   \* the programs the parser delivers, sequences of instructions

ASSUME AsmsAssumption == \A p \in Asms : IsAsm(p)

VARIABLES
    asm,       \* the program
    pc,        \* "start", "lift", "done", or "exit" after an error
    i,         \* the loop index of lifter_weeperVM
    atoms,     \* ir->atomic_instructions up to ir->index
    capacity,  \* ir->capacity, the cells of the array ir->atomic_instructions points to
    stamp      \* the cell whose offset lift_instruction wrote last, or -1

vars == <<asm, pc, i, atoms, capacity, stamp>>

index == Len(atoms)

-----------------------------------------------------------------------------
\* The opcodes with a case of their own in opcode_to_ir.
OwnKind ==
    [OPCODE_ADD |-> "ATM_ADD", OPCODE_SUB |-> "ATM_SUB", OPCODE_MUL |-> "ATM_MUL",
     OPCODE_REM |-> "ATM_REM", OPCODE_AND |-> "ATM_AND", OPCODE_OR |-> "ATM_OR",
     OPCODE_XOR |-> "ATM_XOR", OPCODE_SHL |-> "ATM_SHL", OPCODE_SHR |-> "ATM_SHR",
     OPCODE_CMP |-> "ATM_EQUAL", OPCODE_JMP |-> "ATM_JMP", OPCODE_CALL |-> "ATM_CALL"]

\* Fault: no case for shr.
IrKindNoShr ==
    [o \in (DOMAIN OwnKind \cup CondOpcodes) \ {"OPCODE_SHR"} |->
        IF o \in CondOpcodes THEN "ATM_CONDJMP" ELSE OwnKind[o]]

\* opcode_to_ir, which exits on any opcode that is not in the domain.
IrKind ==
    [o \in DOMAIN OwnKind \cup CondOpcodes |->
        IF o \in CondOpcodes THEN "ATM_CONDJMP" ELSE OwnKind[o]]

(***************************************************************************)
(* operand_to_id.  Memory and flags have no address of their own: they     *)
(* become the constant 0.                                                  *)
(***************************************************************************)
Address(operand) ==
    CASE operand.kind = "OPE_IMM" -> [space |-> "SPACE_CONST", offset |-> operand.value]
      [] operand.kind = "OPE_REG" -> [space |-> "SPACE_REG", offset |-> operand.index.value]
      [] OTHER -> [space |-> "SPACE_CONST", offset |-> 0]

Id(operand) == [address |-> Address(operand)]

\* Fault: the cell's offset is taken after the increment.
OffsetAfter == index + 1

\* The offset add_atomic_operation gives the new atomic instruction.
Offset == index

(***************************************************************************)
(* The end of a handler: add_atomic_operation, which doubles a full        *)
(* buffer, and the last line of lift_instruction, which writes the offset  *)
(* of the cell after the new instruction.                                  *)
(***************************************************************************)
Add(kind, ids) ==
    /\ atoms' = Append(atoms, [kind |-> kind, offset |-> Offset, ids |-> ids])
    /\ capacity' = IF index >= capacity THEN 2 * capacity ELSE capacity
    /\ stamp' = index'
    /\ i' = i + 1
    /\ UNCHANGED <<asm, pc>>

AddOpcode(opcode, ids) ==
    IF opcode \in DOMAIN IrKind
    THEN Add(IrKind[opcode], ids)
    ELSE pc' = "exit" /\ UNCHANGED <<asm, i, atoms, capacity, stamp>>

Instr == asm[i + 1]
Lifting(opcodes) == pc = "lift" /\ i < Len(asm) /\ Instr.opcode \in opcodes

\* Fault: half the cells.
CellsHalf(p) == (Len(p) + 1) \div 2

Cells(p) == Len(p)

\* The locals when lifter_weeperVM is called.
Entry ==
    /\ pc = "start"
    /\ i = 0
    /\ atoms = <<>>
    /\ capacity = 0
    /\ stamp = -1

Init == asm \in Asms /\ Entry

Start ==
    /\ pc = "start"
    /\ capacity' = Cells(asm)
    /\ pc' = "lift"
    /\ UNCHANGED <<asm, i, atoms, stamp>>

LiftMov ==
    /\ Lifting(MovOpcodes)
    /\ CASE Instr.arg0.kind = "OPE_MEM" ->
              Add("ATM_STORE", <<Id(Instr.arg1), Id(Instr.arg0.index)>>)
         [] Instr.arg0.kind # "OPE_MEM" /\ Instr.arg1.kind = "OPE_MEM" ->
              Add("ATM_LOAD", <<Id(Instr.arg1.index), Id(Instr.arg0)>>)
         [] OTHER ->
              Add("ATM_COPY", <<Id(Instr.arg1), Id(Instr.arg0)>>)

LiftCmp ==
    /\ Lifting({"OPCODE_CMP"})
    /\ AddOpcode(Instr.opcode, <<Id(Instr.arg0), Id(Instr.arg1)>>)

LiftOperation ==
    /\ Lifting(AluOpcodes)
    /\ AddOpcode(Instr.opcode, <<Id(Instr.arg0), Id(Instr.arg1)>>)

LiftJmp ==
    /\ Lifting(JmpOpcodes)
    /\ AddOpcode(Instr.opcode, <<Id(Instr.arg0)>>)

\* A call has no handler: only the stamp is written.
SkipCall ==
    /\ Lifting({"OPCODE_CALL"})
    /\ stamp' = index
    /\ i' = i + 1
    /\ UNCHANGED <<asm, pc, atoms, capacity>>

Return ==
    /\ pc = "lift" /\ i >= Len(asm)
    /\ pc' = "done"
    /\ UNCHANGED <<asm, i, atoms, capacity, stamp>>

Next == Start \/ LiftMov \/ LiftCmp \/ LiftOperation \/ LiftJmp \/ SkipCall \/ Return

\* One thread, no blocking call.
Fairness == WF_vars(Next)

Spec == Init /\ [][Next]_vars /\ Fairness

-----------------------------------------------------------------------------
(***************************************************************************)
(* The buffer never holds more than its capacity, and no handler finds an  *)
(* opcode without a kind (lifter_weeperVM.c:43) although the dispatch      *)
(* tables, opcode_to_ir and the parser each list the opcodes on their own. *)
(* The stamp may lie one cell past the buffer (OffsetsDense).              *)
(***************************************************************************)
TypeOK ==
    /\ IsAsm(asm)
    /\ pc \in {"start", "lift", "done"}
    /\ i \in 0 .. Len(asm)
    /\ atoms \in Seq([kind : {IrKind[o] : o \in DOMAIN IrKind}
                               \cup {"ATM_STORE", "ATM_LOAD", "ATM_COPY"},
                      offset : Nat,
                      ids : Seq([address : [space : {"SPACE_CONST", "SPACE_REG"},
                                            offset : Nat]])])
    /\ index <= capacity
    /\ stamp \in -1 .. Len(asm)

\* The instructions among the first k that get an atomic instruction.
Lifted(k) == {j \in 1 .. k : asm[j].opcode # "OPCODE_CALL"}

\* The offset at which the atomic instruction of instruction k is, or would be.
Cell(k) == Cardinality(Lifted(k))

(***************************************************************************)
(* What the back end (graph.c:134-145) relies on: the instruction in cell  *)
(* n has offset n, and the cells hold the lifted instructions in program   *)
(* order; whether the last instruction was lifted or skipped, the stamp of *)
(* lifter_weeperVM.c:179 leaves its offset to the cell that follows them   *)
(* all, and disturbs none of them; and that cell is past the buffer after  *)
(* the last instruction of a program without calls, and at no other time.  *)
(***************************************************************************)
OffsetsDense ==
    /\ index = Cell(i)
    /\ \A k \in 1 .. index : atoms[k].offset = k - 1
    /\ \A k \in Lifted(i) : asm[k].opcode \in DOMAIN IrKind =>
          atoms[Cell(k - 1) + 1].kind = IrKind[asm[k].opcode]
    /\ i > 0 =>
          /\ stamp = index
          /\ (stamp = capacity) <=> (i = Len(asm) /\ Lifted(i) = 1 .. i)

\* A jump whose operand is the label of an instruction.
IsLabelJump(k) ==
    /\ asm[k].opcode \in JmpOpcodes
    /\ asm[k].arg0.kind = "OPE_IMM" /\ asm[k].arg0.value < Len(asm)

Label(k) == asm[k].arg0.value
JumpTarget(k) == atoms[Cell(k - 1) + 1].ids[1].address.offset

\* The IR as the construction of the graph sees it (AtomicIR).
View ==
    [index |-> index,
     code |-> [k \in 0 .. index - 1 |->
                 LET atom == atoms[k + 1]
                 IN  IF atom.kind \in {"ATM_JMP", "ATM_CONDJMP"}
                     THEN [kind |-> atom.kind, target |-> atom.ids[1].address.offset]
                     ELSE [kind |-> "ATM_OTHER", target |-> 0]]]

(***************************************************************************)
(* lifter_weeperVM.c:67 says of the loop that it lifts "every              *)
(* instructions", and README.md:7 that the input has "location labels for  *)
(* jumps": a jump to the label of a lifted instruction goes to it.         *)
(***************************************************************************)
LabelsKept ==
    \A k \in 1 .. i :
       IsLabelJump(k) /\ asm[Label(k) + 1].opcode # "OPCODE_CALL" =>
          JumpTarget(k) = Cell(Label(k))
=============================================================================
